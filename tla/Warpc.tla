-------------------------------- MODULE Warpc --------------------------------
(***************************************************************************)
(* The WebAssembly dispatcher (internal/warpc) and its one user,           *)
(* transform.ToMath.  A pool of instances, each behind a pair of pipes;    *)
(* goroutines that render pages send a request with an ID, and a reader    *)
(* per instance hands every response to the call that is pending under the *)
(* ID it carries.  The IDs come from a counter of the template namespace,  *)
(* one per site, while the pool is shared by all of them.                  *)
(*                                                                         *)
(* Each call stands for one formula that is rendered once; its answer is   *)
(* named by the call whose request it answers, Zero is the response of a   *)
(* call that ended with none.  What ToMath gets without an error it keeps, *)
(* in a file cache and in memory, for good.                                *)
(***************************************************************************)
EXTENDS Naturals, FiniteSets, Absent

CONSTANTS Calls,        \* the goroutines that call ToMath
          Namespaces,   \* the transform namespaces, one per site
          Space,        \* Space[c]: the namespace c is called through
          PoolSize,     \* instances in the pool
          MaxDeaths,    \* bound: instances that trap
          MayTimeOut,   \* calls whose 30 seconds, or context, may end
          Zero          \* the zero response

ASSUME WarpcAssumption ==
  /\ Space \in [Calls -> Namespaces]
  /\ PoolSize \in Nat \ {0} /\ MaxDeaths \in Nat
  /\ MayTimeOut \subseteq Calls
  /\ None \notin Calls /\ Zero \notin Calls /\ None # Zero
  /\ {None, Zero} \cap {"ready", "ended", "dead", "failed"} = {}
  /\ Calls \cap {"ready", "ended", "dead", "failed"} = {}

Pool == 0..(PoolSize - 1)

VARIABLES
  counters,   \* ns.id of every namespace
  turn,       \* dispatcherPool.counter
  stage,      \* where a call is: idle, numbered, adding, sending, encoding, waiting, done
  number,     \* its request ID
  server,     \* its dispatcher
  pending,    \* dispatcher.pending, as a set of [at, id, call]
  handed,     \* call.donec: the response in it
  instance,   \* ready, ended, dead, or the call it works for
  closing,    \* dispatchers the pool's close has come to: stdin and stdout are closed
  shut,       \* dispatchers whose reader has ended (shutdown)
  donec,      \* the pool's donec is closed
  errc,       \* errors waiting in the pool's errc
  panicked,   \* a reader found no call for a response
  deaths,     \* instances that trapped
  doubled,    \* history: calls whose ID another call had at the same dispatcher
              \* while both were there
  kept        \* what ToMath returned and keeps; "failed" when it returned an error

warpcVars == <<counters, turn, stage, number, server, pending, handed, instance,
               closing, shut, donec, errc, panicked, deaths, doubled, kept>>

callVars == <<counters, turn, number, server, doubled>>
poolVars == <<instance, closing, shut, donec, panicked, deaths>>

Stages == {"idle", "numbered", "adding", "sending", "encoding", "waiting", "done"}

WarpcTypeOK ==
  /\ counters \in [Namespaces -> Nat] /\ turn \in Nat
  /\ stage \in [Calls -> Stages]
  /\ number \in [Calls -> Nat] /\ server \in [Calls -> Pool]
  /\ pending \subseteq [at : Pool, id : Nat, call : Calls]
  /\ handed \in [Calls -> Calls \cup {None, Zero}]
  /\ instance \in [Pool -> Calls \cup {"ready", "ended", "dead"}]
  /\ closing \subseteq Pool /\ shut \subseteq Pool
  /\ donec \in BOOLEAN /\ errc \in {0, 1} /\ panicked \in BOOLEAN
  /\ deaths \in Nat /\ doubled \subseteq Calls
  /\ kept \in [Calls -> Calls \cup {None, Zero, "failed"}]

WarpcInit ==
  /\ counters = [n \in Namespaces |-> 0] /\ turn = 0
  /\ stage = [c \in Calls |-> "idle"]
  /\ number = [c \in Calls |-> 0] /\ server = [c \in Calls |-> 0]
  /\ pending = {} /\ handed = [c \in Calls |-> None]
  /\ instance = [d \in Pool |-> "ready"]
  /\ closing = {} /\ shut = {} /\ donec = FALSE /\ errc = 0
  /\ panicked = FALSE /\ deaths = 0 /\ doubled = {}
  /\ kept = [c \in Calls |-> None]

At(c, here, next) == stage[c] = here /\ stage' = [stage EXCEPT ![c] = next]

(* ToMath numbers its request.                                              *)
Number(c) ==
  /\ At(c, "idle", "numbered")
  /\ counters' = [counters EXCEPT ![Space[c]] = @ + 1]
  /\ number' = [number EXCEPT ![c] = counters'[Space[c]]]
  /\ UNCHANGED <<turn, server, pending, handed, errc, doubled, kept, poolVars>>

(* Mutant: the counter goes round one dispatcher too many.                  *)
GetDispatcherOffEnd(c) ==
  LET d == (turn + 1) % (PoolSize + 1)
  IN  /\ At(c, "numbered", IF d \in closing \cup shut THEN "sending" ELSE "adding")
      /\ turn' = turn + 1
      /\ server' = [server EXCEPT ![c] = d]
      /\ UNCHANGED <<counters, number, pending, handed, errc, doubled, kept, poolVars>>

(* getDispatcher, and newCall's look at the flags, which takes no lock.  A  *)
(* call that finds one set is not added; send, next, refuses it.            *)
GetDispatcher(c) ==
  LET d == (turn + 1) % PoolSize
  IN  /\ At(c, "numbered", IF d \in closing \cup shut THEN "sending" ELSE "adding")
      /\ turn' = turn + 1
      /\ server' = [server EXCEPT ![c] = d]
      /\ UNCHANGED <<counters, number, pending, handed, errc, doubled, kept, poolVars>>

Entry(c) == [at |-> server[c], id |-> number[c], call |-> c]

Under(d, id) == {e \in pending : e.at = d /\ e.id = id}

(* The request of a call is pending, on its way, or worked on.              *)
Unanswered(c) ==
  \/ Entry(c) \in pending
  \/ stage[c] \in {"sending", "encoding"} /\ server[c] \notin closing
  \/ instance[server[c]] = c

Twins(c) == {d \in Calls \ {c} : server[d] = server[c] /\ number[d] = number[c]}

(* newCall: the map takes the call, and forgets one with the same ID.       *)
Add(c) ==
  /\ At(c, "adding", "sending")
  /\ pending' = (pending \ Under(server[c], number[c])) \cup {Entry(c)}
  /\ LET met == {d \in Twins(c) : Unanswered(d)}
     IN  doubled' = doubled \cup met \cup {d \in {c} : met # {}}
  /\ UNCHANGED <<counters, turn, number, server, handed, errc, kept, poolVars>>

(* Execute returns: ToMath keeps the response, or passes the error on.      *)
Returns(c, here, result) ==
  /\ At(c, here, "done")
  /\ kept' = [kept EXCEPT ![c] = result]

(* send: a dispatcher that is closing or shut down refuses.                 *)
Send(c) ==
  /\ \/ /\ server[c] \in closing \cup shut
        /\ Returns(c, "sending", "failed")
     \/ /\ server[c] \notin closing \cup shut
        /\ At(c, "sending", "encoding")
        /\ UNCHANGED kept
  /\ UNCHANGED <<pending, handed, errc, callVars, poolVars>>

(* send: Encode, one at a time per dispatcher, writes into a pipe without a *)
(* buffer, so it ends when the instance has read the request.               *)
Encode(c) ==
  /\ server[c] \notin closing /\ instance[server[c]] = "ready"
  /\ At(c, "encoding", "waiting")
  /\ instance' = [instance EXCEPT ![server[c]] = c]
  /\ UNCHANGED <<pending, handed, errc, kept, callVars, closing, shut, donec,
                 panicked, deaths>>

(* Mutant: close leaves stdin open, so a request nobody reads any more      *)
(* stays in Encode.                                                         *)
EncodeStuck(c) ==
  /\ server[c] \in closing /\ instance[server[c]] = "ready"
  /\ Returns(c, "encoding", "failed")
  /\ UNCHANGED <<pending, handed, errc, callVars, poolVars>>

EncodeFails(c) ==
  /\ server[c] \in closing
  /\ Returns(c, "encoding", "failed")
  /\ UNCHANGED <<pending, handed, errc, callVars, poolVars>>

(* Execute's select.  Whoever reads the pool's error takes it away: it is   *)
(* there for one call, and for one call that has its response too.          *)
Drained(response) == IF errc = 1 THEN "failed" ELSE response

Answered(c) ==
  /\ handed[c] # None
  /\ Returns(c, "waiting", Drained(handed[c]))
  /\ errc' = 0
  /\ UNCHANGED <<pending, handed, callVars, poolVars>>

PoolEnded(c) ==
  /\ donec
  /\ Returns(c, "waiting", Drained(Zero))
  /\ errc' = 0
  /\ UNCHANGED <<pending, handed, callVars, poolVars>>

(* The call stays in pending.                                               *)
TimesOut(c) ==
  /\ c \in MayTimeOut
  /\ Returns(c, "waiting", "failed")
  /\ UNCHANGED <<pending, handed, errc, callVars, poolVars>>

(* call.done: the channel has room for one.                                 *)
Handed(c, response) ==
  IF handed[c] = None THEN [handed EXCEPT ![c] = response] ELSE handed

(* Mutant: the response goes to whatever call is pending.                   *)
RespondToAny(d) ==
  /\ instance[d] \in Calls /\ d \notin closing
  /\ instance' = [instance EXCEPT ![d] = "ready"]
  /\ \E e \in pending :
       e.at = d /\ pending' = pending \ {e} /\ handed' = Handed(e.call, instance[d])
  /\ UNCHANGED <<stage, errc, kept, callVars, closing, shut, donec, deaths, panicked>>

(* The instance answers and input hands the response over.                  *)
Respond(d) ==
  /\ instance[d] \in Calls /\ d \notin closing /\ ~panicked
  /\ LET q == instance[d]
         found == Under(d, number[q])
     IN  /\ pending' = pending \ found
         /\ panicked' = (found = {})
         /\ handed' = [c \in Calls |->
               IF \E e \in found : e.call = c THEN Handed(c, q)[c] ELSE handed[c]]
  /\ instance' = [instance EXCEPT ![d] = "ready"]
  /\ UNCHANGED <<stage, errc, kept, callVars, closing, shut, donec, deaths>>

(* Mutant: a trap closes stdout, and the reader ends its calls the same way. *)
InputEndsOnTrap(d) ==
  /\ d \in Pool \ shut /\ instance[d] = "dead"
  /\ shut' = shut \cup {d}
  /\ handed' = [c \in Calls |->
        IF \E e \in pending : e.at = d /\ e.call = c THEN Handed(c, Zero)[c] ELSE handed[c]]
  /\ UNCHANGED <<stage, pending, errc, kept, callVars, instance, closing, donec,
                 panicked, deaths>>

(* input after its loop.  A closed pipe makes dec.More() false and leaves   *)
(* inputErr nil, so the calls that are pending end with neither a response  *)
(* nor an error.                                                            *)
InputEnds(d) ==
  /\ d \in closing \ shut /\ ~panicked
  /\ shut' = shut \cup {d}
  /\ handed' = [c \in Calls |->
        IF \E e \in pending : e.at = d /\ e.call = c THEN Handed(c, Zero)[c] ELSE handed[c]]
  /\ UNCHANGED <<stage, pending, errc, kept, callVars, instance, closing, donec,
                 panicked, deaths>>

(* The instance traps; nobody closes its pipes.                             *)
Trap(d) ==
  /\ instance[d] \in Calls /\ deaths < MaxDeaths
  /\ instance' = [instance EXCEPT ![d] = "dead"]
  /\ deaths' = deaths + 1
  /\ UNCHANGED <<stage, pending, handed, errc, kept, callVars, closing, shut, donec,
                 panicked>>

(* The pool's close, one dispatcher after the other.                        *)
CloseNext(d) ==
  /\ d \notin closing /\ \A e \in Pool : e < d => e \in closing
  /\ closing' = closing \cup {d}
  /\ UNCHANGED <<stage, pending, handed, errc, kept, callVars, instance, shut, donec,
                 panicked, deaths>>

(* An instance whose pipes are closed ends; one at work cannot write.       *)
InstanceEnds(d) ==
  /\ d \in closing /\ instance[d] \notin {"ended", "dead"}
  /\ instance' = [instance EXCEPT ![d] = IF @ = "ready" THEN "ended" ELSE "dead"]
  /\ UNCHANGED <<stage, pending, handed, errc, kept, callVars, closing, shut, donec,
                 panicked, deaths>>

(* run: the group waits for all instances and reports one error.            *)
RunReturns ==
  /\ ~donec /\ \A d \in Pool : instance[d] \in {"ended", "dead"}
  /\ donec' = TRUE
  /\ errc' = IF \E d \in Pool : instance[d] = "dead" THEN 1 ELSE 0
  /\ UNCHANGED <<stage, pending, handed, kept, callVars, instance, closing, shut,
                 panicked, deaths>>

CallSteps(c) ==
  \/ Number(c) \/ GetDispatcher(c) \/ Add(c) \/ Send(c) \/ Encode(c) \/ EncodeFails(c)
  \/ Answered(c) \/ PoolEnded(c) \/ TimesOut(c)

PoolSteps(d) == Respond(d) \/ InputEnds(d) \/ InstanceEnds(d)

WarpcNext ==
  \/ \E c \in Calls : CallSteps(c)
  \/ \E d \in Pool : PoolSteps(d) \/ Trap(d) \/ CloseNext(d)
  \/ RunReturns

(* A goroutine that can go on does; a response that is there is taken.      *)
(* Nobody has to close the pool, and an instance does not have to trap.     *)
WarpcFairness ==
  /\ \A c \in Calls : WF_warpcVars(CallSteps(c))
  /\ \A d \in Pool : WF_warpcVars(PoolSteps(d))
  /\ WF_warpcVars(RunReturns)

WarpcSpec == WarpcInit /\ [][WarpcNext]_warpcVars
FairWarpcSpec == WarpcSpec /\ WarpcFairness
-----------------------------------------------------------------------------
(* A formula is never rendered as another one, the response ToMath keeps    *)
(* for a call answers that call's request, and no reader panics, except     *)
(* where two requests are at one dispatcher under one ID at the same time.  *)
(* Those are requests of two namespaces, which count their IDs for          *)
(* themselves and share the pool; they get each other's answers.            *)
OwnAnswers ==
  /\ panicked => doubled # {}
  /\ \A c \in Calls \ doubled : kept[c] \in {None, "failed", Zero, c}
  /\ \A c \in doubled : \E d \in Twins(c) : Space[d] # Space[c]

(* An empty formula is kept, with no error, only once the pool has been     *)
(* closed or all of its instances have ended; while it serves, a call that  *)
(* fails says so.                                                           *)
EmptyOnlyAfterEnd ==
  \A c \in Calls : kept[c] = Zero => donec \/ server[c] \in closing

(* Whoever gets an answer gets their own, or a reason, but for the requests *)
(* under one ID: the two together.                                          *)
AnswersFit == OwnAnswers /\ EmptyOnlyAfterEnd

(* A call is not left waiting for the encoder, which no timeout ends,       *)
(* unless the instance behind it has trapped, or the program has ended with *)
(* the panic of a reader.                                                   *)
SentUnlessDead ==
  \A c \in Calls :
    stage[c] = "numbered"
      ~> (stage[c] = "done" \/ instance[server[c]] = "dead" \/ panicked)
=============================================================================
