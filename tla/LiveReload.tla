----------------------------- MODULE LiveReload -----------------------------
(* Live reload (livereload/hub.go, connection.go, livereload.go): the hub    *)
(* goroutine, one reader (the HTTP handler) and one writer per connection,   *)
(* and those who broadcast: the event loop, which holds the build lock, and  *)
(* full rebuilds, which do not.  The hub is started by serve, after the      *)
(* first build, which needs that lock too.                                   *)
(*                                                                           *)
(* A reload message is its number in the order the hub takes them; the       *)
(* answer to a browser's hello is 0.                                         *)
EXTENDS Integers, Sequences

CONSTANTS
  Conns,            \* connections of browsers
  Rebuilders,       \* full rebuilds that end with a refresh
  Loop, Main, None,
  Stalled,          \* browsers that may stop reading without going away
  Buf,              \* the capacity of a send channel
  MaxEvents, MaxReloads, MaxHellos    \* bounds

Senders == {Loop} \cup Rebuilders

ASSUME ActorsAssumption ==
  /\ Loop # Main /\ None \notin {Loop, Main} /\ Loop \notin Rebuilders
  /\ Stalled \subseteq Conns
ASSUME BoundsAssumption ==
  /\ Buf \in Nat \ {0}
  /\ MaxEvents \in Nat /\ MaxReloads \in Nat /\ MaxHellos \in Nat

VARIABLES
  main,         \* the main goroutine: first build, Initialize, serving
  lock,         \* the build lock
  events, sent, \* batches of events handled, broadcasts begun (bounded)
  sender,       \* what each sender does
  connections,  \* the hub's map
  left,         \* connections the hub has not yet offered the last reload
  count,        \* reloads the hub has taken
  send,         \* the buffered channel of each connection
  closed,       \* the channels that are closed
  reader, writer, writing,    \* the two goroutines, what the writer writes (else Hello)
  online,       \* connections whose web socket is open at both ends
  hellos,       \* hellos sent (bounded)
  since, got    \* count at registration, reloads received

loopVars == <<main, lock, events>>
sendVars == <<sent, sender>>
hubVars  == <<connections, left, count>>
chanVars == <<send, closed>>
connVars == <<reader, writer, writing, online, hellos, since, got>>
vars == <<main, lock, events, sent, sender, connections, left, count, send, closed,
          reader, writer, writing, online, hellos, since, got>>

Hello == 0

Init ==
  /\ main = "start" /\ lock = None /\ events = 0
  /\ sent = 0 /\ sender = [s \in Senders |-> "idle"]
  /\ connections = {} /\ left = {} /\ count = 0
  /\ send = [c \in Conns |-> <<>>] /\ closed = {}
  /\ reader = [c \in Conns |-> "none"] /\ writer = [c \in Conns |-> "none"]
  /\ writing = [c \in Conns |-> Hello]
  /\ online = {}
  /\ hellos = 0
  /\ since = [c \in Conns |-> 0] /\ got = [c \in Conns |-> <<>>]

(***************************************************************************)
(* The main goroutine: build under the lock, then Initialize in serve.     *)
(***************************************************************************)

FirstBuildStarts ==
  /\ main = "start" /\ lock = None
  /\ main' = "build" /\ lock' = Main
  /\ UNCHANGED <<events, sendVars, hubVars, chanVars, connVars>>

FirstBuildEnds ==
  /\ main = "build"
  /\ main' = "built" /\ lock' = None
  /\ UNCHANGED <<events, sendVars, hubVars, chanVars, connVars>>

\* serve: go wsHub.run(), then the servers listen.
Initialize ==
  /\ main = "built"
  /\ main' = "serving"
  /\ UNCHANGED <<lock, events, sendVars, hubVars, chanVars, connVars>>

(***************************************************************************)
(* Those who broadcast.  The channel is not buffered: a sender waits until *)
(* the hub takes its message.                                              *)
(***************************************************************************)

\* A batch of events, or a signal from a build.
LoopEvent ==
  /\ sender[Loop] = "idle" /\ lock = None
  /\ events < MaxEvents
  /\ lock' = Loop /\ events' = events + 1
  /\ sender' = [sender EXCEPT ![Loop] = "handling"]
  /\ UNCHANGED <<main, sent, hubVars, chanVars, connVars>>

\* A batch may end in any number of refreshes: of the static file, of what
\* the build has changed, of the error.
Broadcast(s) ==
  /\ sender[s] = IF s = Loop THEN "handling" ELSE "idle"
  /\ sent < MaxReloads
  /\ sent' = sent + 1
  /\ sender' = [sender EXCEPT ![s] = "sending"]
  /\ UNCHANGED <<loopVars, hubVars, chanVars, connVars>>

LoopUnlock ==
  /\ sender[Loop] = "handling"
  /\ sender' = [sender EXCEPT ![Loop] = "idle"]
  /\ lock' = None
  /\ UNCHANGED <<main, events, sent, hubVars, chanVars, connVars>>

(***************************************************************************)
(* The hub.                                                                *)
(***************************************************************************)

\* The hub has started and waits for a message.
Selecting == main = "serving" /\ left = {}

Register(c) ==
  /\ Selecting /\ reader[c] = "register"
  /\ connections' = connections \cup {c}
  /\ since' = [since EXCEPT ![c] = count]
  /\ reader' = [reader EXCEPT ![c] = "read"]
  /\ writer' = [writer EXCEPT ![c] = "range"]
  /\ UNCHANGED <<loopVars, sendVars, left, count, chanVars, writing, online, hellos, got>>

\* Fault: the channel is left open.
UnregisterKeepsOpen(c) ==
  /\ Selecting /\ reader[c] = "unregister"
  /\ connections' = connections \ {c}
  /\ reader' = [reader EXCEPT ![c] = "done"]
  /\ UNCHANGED <<loopVars, sendVars, left, count, chanVars, writer, writing, online,
                 hellos, since, got>>

Unregister(c) ==
  /\ Selecting /\ reader[c] = "unregister"
  /\ connections' = connections \ {c}
  /\ closed' = closed \cup {c}
  /\ reader' = [reader EXCEPT ![c] = "done"]
  /\ UNCHANGED <<loopVars, sendVars, left, count, send, writer, writing, online,
                 hellos, since, got>>

Receive(s) ==
  /\ Selecting /\ sender[s] = "sending"
  /\ sender' = [sender EXCEPT ![s] = IF s = Loop THEN "handling" ELSE "idle"]
  /\ count' = count + 1
  /\ left' = connections
  /\ UNCHANGED <<loopVars, sent, connections, chanVars, connVars>>

FullLate(c) == Len(send[c]) > Buf       \* fault: one message too many
Full(c) == Len(send[c]) >= Buf

\* Fault: the hub waits for room.
OfferWaits(c) ==
  /\ c \in left /\ ~Full(c)
  /\ left' = left \ {c}
  /\ send' = [send EXCEPT ![c] = Append(@, count)]
  /\ UNCHANGED <<loopVars, sendVars, connections, count, closed, connVars>>

\* Fault: a message there is no room for is dropped.
OfferDrops(c) ==
  /\ c \in left
  /\ left' = left \ {c}
  /\ send' = IF Full(c) THEN send ELSE [send EXCEPT ![c] = Append(@, count)]
  /\ UNCHANGED <<loopVars, sendVars, connections, count, closed, connVars>>

\* Fault: the connection stays in the map.
OfferKeeps(c) ==
  /\ c \in left
  /\ left' = left \ {c}
  /\ IF Full(c) THEN closed' = closed \cup {c} /\ UNCHANGED send
     ELSE send' = [send EXCEPT ![c] = Append(@, count)] /\ UNCHANGED closed
  /\ UNCHANGED <<loopVars, sendVars, connections, count, connVars>>

\* One iteration of the loop over the connections, in any order.
Offer(c) ==
  /\ c \in left
  /\ left' = left \ {c}
  /\ \/ /\ ~Full(c)
        /\ send' = [send EXCEPT ![c] = Append(@, count)]
        /\ UNCHANGED <<connections, closed>>
     \/ /\ Full(c)
        /\ connections' = connections \ {c} /\ closed' = closed \cup {c}
        /\ UNCHANGED send
  /\ UNCHANGED <<loopVars, sendVars, count, connVars>>

(***************************************************************************)
(* A connection: Handler (its goroutine is the reader) and the writer.     *)
(***************************************************************************)

Connect(c) ==
  /\ main = "serving" /\ reader[c] = "none"
  /\ reader' = [reader EXCEPT ![c] = "register"]
  /\ online' = online \cup {c}
  /\ UNCHANGED <<loopVars, sendVars, hubVars, chanVars, writer, writing, hellos, since, got>>

\* The browser goes away.
Leave(c) ==
  /\ c \in online
  /\ online' = online \ {c}
  /\ UNCHANGED <<loopVars, sendVars, hubVars, chanVars, reader, writer, writing, hellos,
                 since, got>>

ReadHello(c) ==
  /\ c \in online /\ reader[c] = "read"
  /\ hellos < MaxHellos
  /\ hellos' = hellos + 1
  /\ reader' = [reader EXCEPT ![c] = "hello"]
  /\ UNCHANGED <<loopVars, sendVars, hubVars, chanVars, writer, writing, online, since, got>>

\* The send of the answer waits for room, whoever makes it.
AnswerHello(c) ==
  /\ reader[c] = "hello" /\ c \notin closed /\ ~Full(c)
  /\ send' = [send EXCEPT ![c] = Append(@, Hello)]
  /\ reader' = [reader EXCEPT ![c] = "read"]
  /\ UNCHANGED <<loopVars, sendVars, hubVars, closed, writer, writing, online, hellos,
                 since, got>>

\* A send on a closed channel panics: net/http recovers it, the deferred
\* unregister runs, and ws.Close does not.
HelloPanics(c) ==
  /\ reader[c] = "hello" /\ c \in closed
  /\ reader' = [reader EXCEPT ![c] = "unregister"]
  /\ UNCHANGED <<loopVars, sendVars, hubVars, chanVars, writer, writing, online, hellos,
                 since, got>>

ReadFails(c) ==
  /\ reader[c] = "read" /\ c \notin online
  /\ reader' = [reader EXCEPT ![c] = "unregister"]
  /\ UNCHANGED <<loopVars, sendVars, hubVars, chanVars, writer, writing, online, hellos,
                 since, got>>

WriterTakes(c) ==
  /\ writer[c] = "range" /\ send[c] # <<>>
  /\ writing' = [writing EXCEPT ![c] = Head(send[c])]
  /\ send' = [send EXCEPT ![c] = Tail(@)]
  /\ writer' = [writer EXCEPT ![c] = "write"]
  /\ UNCHANGED <<loopVars, sendVars, hubVars, closed, reader, online, hellos, since, got>>

Written(c) ==
  /\ writer[c] = "write" /\ c \in online
  /\ writer' = [writer EXCEPT ![c] = "range"]
  /\ got' = IF writing[c] = Hello THEN got ELSE [got EXCEPT ![c] = Append(@, writing[c])]
  /\ writing' = [writing EXCEPT ![c] = Hello]
  /\ UNCHANGED <<loopVars, sendVars, hubVars, chanVars, reader, online, hellos, since>>

\* WriteMessage returns an error: break.
WriteFails(c) ==
  /\ writer[c] = "write" /\ c \notin online
  /\ writer' = [writer EXCEPT ![c] = "done"]
  /\ writing' = [writing EXCEPT ![c] = Hello]
  /\ UNCHANGED <<loopVars, sendVars, hubVars, chanVars, reader, online, hellos, since, got>>

\* Fault: the writer returns without closing the web socket.
RangeEndsOnly(c) ==
  /\ writer[c] = "range" /\ send[c] = <<>> /\ c \in closed
  /\ writer' = [writer EXCEPT ![c] = "done"]
  /\ UNCHANGED <<loopVars, sendVars, hubVars, chanVars, reader, writing, online, hellos,
                 since, got>>

\* The channel is closed and drained: ws.Close.
RangeEnds(c) ==
  /\ writer[c] = "range" /\ send[c] = <<>> /\ c \in closed
  /\ writer' = [writer EXCEPT ![c] = "done"]
  /\ online' = online \ {c}
  /\ UNCHANGED <<loopVars, sendVars, hubVars, chanVars, reader, writing, hellos, since, got>>

(***************************************************************************)
(* The specification.                                                      *)
(***************************************************************************)

MainNext == FirstBuildStarts \/ FirstBuildEnds \/ Initialize
HubNext(c) == Register(c) \/ Unregister(c) \/ Offer(c)
ReaderNext(c) == AnswerHello(c) \/ HelloPanics(c) \/ ReadFails(c)
WriterEnds(c) == WriterTakes(c) \/ WriteFails(c) \/ RangeEnds(c)
BrowserNext(c) == Connect(c) \/ Leave(c) \/ ReadHello(c) \/ Written(c)

Next ==
  \/ MainNext \/ LoopEvent \/ LoopUnlock
  \/ \E s \in Senders : Broadcast(s) \/ Receive(s)
  \/ \E c \in Conns : HubNext(c) \/ ReaderNext(c) \/ WriterEnds(c) \/ BrowserNext(c)

Spec == Init /\ [][Next]_vars

\* Goroutines run; the hub's select chooses among all that are ready at
\* random, so none of them is passed over for ever.  Browsers need not come,
\* stay or speak, and only those that are not Stalled keep reading.
FairSpec ==
  /\ Spec
  /\ WF_vars(MainNext) /\ WF_vars(LoopUnlock)
  /\ \A s \in Senders : WF_vars(Receive(s))
  /\ \A c \in Conns : /\ WF_vars(Register(c)) /\ WF_vars(Unregister(c)) /\ WF_vars(Offer(c))
                      /\ WF_vars(ReaderNext(c)) /\ WF_vars(WriterEnds(c))
  /\ \A c \in Conns \ Stalled : WF_vars(Written(c))

(***************************************************************************)
(* Properties.                                                             *)
(***************************************************************************)

Messages == Nat

\* Every variable has the values the code gives it, a channel never holds more
\* than its buffer, and the build lock is held by whoever works under it.
TypeOK ==
  /\ main \in {"start", "build", "built", "serving"}
  /\ lock \in {Loop, Main, None}
  /\ lock = Main <=> main = "build"
  /\ lock = Loop <=> sender[Loop] # "idle"
  /\ events \in 0..MaxEvents /\ sent \in 0..MaxReloads /\ count \in Nat
  /\ sender \in [Senders -> {"idle", "handling", "sending"}]
  /\ connections \subseteq Conns /\ left \subseteq Conns
  /\ send \in [Conns -> Seq(Messages)] /\ \A c \in Conns : Len(send[c]) <= Buf
  /\ closed \subseteq Conns /\ online \subseteq Conns
  /\ reader \in [Conns -> {"none", "register", "read", "hello", "unregister", "done"}]
  /\ writer \in [Conns -> {"none", "range", "write", "done"}]
  /\ writing \in [Conns -> Messages]
  /\ hellos \in 0..MaxHellos
  /\ since \in [Conns -> Messages]
  /\ got \in [Conns -> Seq(Messages)]

\* The hub sends only on open channels: it would take the whole process down
\* otherwise, as nobody recovers its panic.  A channel is closed by the hub
\* alone, for a browser that is too slow or has gone, in any order with its
\* registration, its deregistration and the broadcast under way.
HubSendsOnOpen == closed \cap (connections \cup left) = {}

Registered(c) == reader[c] \notin {"none", "register"}
Consecutive(s, n) == \A i \in DOMAIN s : s[i] = n + i
InFlight(c) == IF writer[c] = "write" THEN <<writing[c]>> \o send[c] ELSE send[c]

\* Among the messages of s are the reloads after the n-th up to the last one,
\* each once and in order, and no others.
Follow(s, n, last) ==
  /\ n <= last
  /\ \A k \in (n + 1)..last : \E i \in DOMAIN s : s[i] = k
  /\ \A i \in DOMAIN s : s[i] # Hello => s[i] \in (n + 1)..last
  /\ \A i, j \in DOMAIN s : i < j /\ s[i] # Hello /\ s[j] # Hello => s[i] < s[j]

\* The last reload the hub has offered to c.
Offered(c) == IF c \in left THEN count - 1 ELSE count

\* A page gets the reloads in order and misses none in between: it has got,
\* one after the other, those that followed its registration; and while the
\* hub still counts it as connected and its writer works, those it has not got
\* yet are all on their way.
NothingSkipped ==
  \A c \in Conns :
    /\ Consecutive(got[c], since[c])
    /\ c \in connections /\ writer[c] # "done" =>
         Follow(InFlight(c), since[c] + Len(got[c]), Offered(c))

\* The loop holds the build lock, and waits for a hub that starts after a
\* build which waits for that lock.
StartupBlocked == main = "start" /\ sender[Loop] = "sending"

\* A broadcast ends, whatever browsers do, connected or stalled: the event loop
\* and the rebuilds never hang on one.  The exception is a broadcast
\* by the loop before the first build has got the build lock.
BroadcastsEnd ==
  \A s \in Senders : sender[s] = "sending" ~> (sender[s] # "sending" \/ StartupBlocked)

Behind(c) == Registered(c) /\ since[c] + Len(got[c]) < count

\* A page that is open when a reload is broadcast, in a browser that reads its
\* messages, catches up or has its web socket closed, upon which its script
\* connects again: no page is left stale without knowing.
ReloadsArrive == \A c \in Conns \ Stalled : Behind(c) ~> (~Behind(c) \/ c \notin online)

Ended(c) == reader[c] = "done" /\ writer[c] = "done"
\* The writer has gone, and the reader waits for it to make room.
Wedged(c) == reader[c] = "hello" /\ writer[c] = "done" /\ Full(c) /\ c \notin closed

\* When browsers have gone, their handlers and writers end, unless the answer
\* to a hello finds the channel full and nobody to drain it.
ConnectionsEnd ==
  <>[](\A c \in Conns : reader[c] # "none" /\ c \notin online => Ended(c) \/ Wedged(c))
=============================================================================
