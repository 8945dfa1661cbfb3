-------------------------- MODULE LiveReloadProofs --------------------------
(* Theorems about LiveReload, for any connections, senders, buffer size and  *)
(* bounds.                                                                   *)
EXTENDS LiveReload, TLAPS

\* Each kind of actor's actions, spelled out for the case splits.
LoopActs == LoopEvent \/ LoopUnlock \/ \E s \in Senders : Broadcast(s)
HubActs == \/ \E s \in Senders : Receive(s)
           \/ \E c \in Conns : Register(c) \/ Unregister(c) \/ Offer(c)
ReaderActs == \E c \in Conns : \/ Connect(c) \/ ReadHello(c) \/ AnswerHello(c)
                               \/ HelloPanics(c) \/ ReadFails(c)
WriterActs == \E c \in Conns : WriterTakes(c) \/ Written(c) \/ WriteFails(c) \/ RangeEnds(c) \/ Leave(c)

\* Every step is one of these.
LEMMA NextSplit == Next <=> MainNext \/ LoopActs \/ HubActs \/ ReaderActs \/ WriterActs
BY Zenon DEF Next, LoopActs, HubActs, ReaderActs, WriterActs, HubNext, ReaderNext, WriterEnds,
       BrowserNext

\* A step keeps the types, and with them the bound of the channels and the
\* holder of the build lock.
LEMMA TypeStep == TypeOK /\ [Next]_vars => TypeOK'
<1> SUFFICES ASSUME TypeOK, [Next]_vars PROVE TypeOK'
  OBVIOUS
<1> USE ActorsAssumption, BoundsAssumption DEF TypeOK, Messages, Senders
<1>1. CASE MainNext
  BY <1>1 DEF MainNext, FirstBuildStarts, FirstBuildEnds, Initialize, sendVars, hubVars,
     chanVars, connVars
<1>2. CASE LoopActs
  <2>1. CASE LoopEvent
    BY <2>1 DEF LoopEvent, hubVars, chanVars, connVars
  <2>2. CASE LoopUnlock
    BY <2>2 DEF LoopUnlock, hubVars, chanVars, connVars
  <2>3. ASSUME NEW s \in Senders, Broadcast(s) PROVE TypeOK'
    BY <2>3 DEF Broadcast, loopVars, hubVars, chanVars, connVars
  <2> QED BY <1>2, <2>1, <2>2, <2>3 DEF LoopActs
<1>3. CASE HubActs
  <2>1. ASSUME NEW s \in Senders, Receive(s) PROVE TypeOK'
    BY <2>1 DEF Receive, loopVars, chanVars, connVars
  <2>2. ASSUME NEW c \in Conns, Register(c) PROVE TypeOK'
    BY <2>2 DEF Register, loopVars, sendVars, chanVars
  <2>3. ASSUME NEW c \in Conns, Unregister(c) PROVE TypeOK'
    BY <2>3 DEF Unregister, loopVars, sendVars
  <2>4. ASSUME NEW c \in Conns, Offer(c) PROVE TypeOK'
    <3>1. CASE ~Full(c) /\ send' = [send EXCEPT ![c] = Append(@, count)]
               /\ UNCHANGED <<connections, closed>>
      <4>1. Append(send[c], count) \in Seq(Nat) /\ Len(Append(send[c], count)) = Len(send[c]) + 1
        OBVIOUS
      <4>2. Len(send[c]) + 1 <= Buf
        <5>1. Len(send[c]) \in Nat
          OBVIOUS
        <5> QED BY <3>1, <5>1 DEF Full
      <4>3. send' \in [Conns -> Seq(Nat)] /\ \A d \in Conns : Len(send'[d]) <= Buf
        BY <3>1, <4>1, <4>2
      <4> QED BY <2>4, <3>1, <4>3 DEF Offer, loopVars, sendVars, connVars
    <3>2. CASE connections' = connections \ {c} /\ closed' = closed \cup {c} /\ UNCHANGED send
      BY <2>4, <3>2 DEF Offer, loopVars, sendVars, connVars
    <3> QED BY <2>4, <3>1, <3>2 DEF Offer
  <2> QED BY <1>3, <2>1, <2>2, <2>3, <2>4 DEF HubActs
<1>4. CASE ReaderActs
  <2>1. ASSUME NEW c \in Conns, AnswerHello(c) PROVE TypeOK'
    <3>1. Append(send[c], Hello) \in Seq(Nat) /\ Len(Append(send[c], Hello)) = Len(send[c]) + 1
      BY DEF Hello
    <3>2. Len(send[c]) + 1 <= Buf
      <4>1. Len(send[c]) \in Nat
        OBVIOUS
      <4> QED BY <2>1, <4>1 DEF AnswerHello, Full
    <3>3. send' \in [Conns -> Seq(Nat)] /\ \A d \in Conns : Len(send'[d]) <= Buf
      BY <2>1, <3>1, <3>2 DEF AnswerHello
    <3> QED BY <2>1, <3>3 DEF AnswerHello, loopVars, sendVars, hubVars
  <2>2. ASSUME NEW c \in Conns, ReadHello(c) PROVE TypeOK'
    BY <2>2 DEF ReadHello, loopVars, sendVars, hubVars, chanVars
  <2>3. ASSUME NEW c \in Conns, Connect(c) PROVE TypeOK'
    BY <2>3 DEF Connect, loopVars, sendVars, hubVars, chanVars
  <2>4. ASSUME NEW c \in Conns, HelloPanics(c) \/ ReadFails(c) PROVE TypeOK'
    BY <2>4 DEF HelloPanics, ReadFails, loopVars, sendVars, hubVars, chanVars
  <2> QED BY <1>4, <2>1, <2>2, <2>3, <2>4 DEF ReaderActs
<1>5. CASE WriterActs
  <2>1. ASSUME NEW c \in Conns, WriterTakes(c) PROVE TypeOK'
    <3>1. /\ Head(send[c]) \in Nat /\ Tail(send[c]) \in Seq(Nat)
          /\ Len(Tail(send[c])) = Len(send[c]) - 1 /\ Len(send[c]) \in Nat
      BY <2>1 DEF WriterTakes
    <3>2. send' \in [Conns -> Seq(Nat)] /\ \A d \in Conns : Len(send'[d]) <= Buf
      BY <2>1, <3>1 DEF WriterTakes
    <3> QED BY <2>1, <3>1, <3>2 DEF WriterTakes, loopVars, sendVars, hubVars
  <2>2. ASSUME NEW c \in Conns, Written(c) PROVE TypeOK'
    BY <2>2 DEF Written, Hello, loopVars, sendVars, hubVars, chanVars
  <2>3. ASSUME NEW c \in Conns, WriteFails(c) PROVE TypeOK'
    BY <2>3 DEF WriteFails, Hello, loopVars, sendVars, hubVars, chanVars
  <2>4. ASSUME NEW c \in Conns, RangeEnds(c) \/ Leave(c) PROVE TypeOK'
    BY <2>4 DEF RangeEnds, Leave, loopVars, sendVars, hubVars, chanVars
  <2> QED BY <1>5, <2>1, <2>2, <2>3, <2>4 DEF WriterActs
<1>6. CASE UNCHANGED vars
  BY <1>6 DEF vars
<1> QED BY <1>1, <1>2, <1>3, <1>4, <1>5, <1>6, NextSplit

\* TypeOK: every variable of live reload keeps its type, channels their bound,
\* and the build lock its holder.
THEOREM TypeCorrect == Spec => []TypeOK
<1>1. Init => TypeOK
  BY ActorsAssumption, BoundsAssumption DEF Init, TypeOK, Messages, Senders, Hello
<1> QED BY <1>1, TypeStep, PTL DEF Spec

\* What HubSendsOnOpen rests on: the hub iterates over connections it still
\* has, and a connection that is not registered yet is not in the map and has never been closed.
HubInv ==
  /\ HubSendsOnOpen
  /\ left \subseteq connections
  /\ \A c \in Conns : reader[c] \in {"none", "register"} => c \notin closed \cup connections

\* A step keeps HubInv.  Only the hub's own steps close a channel or change the
\* map, and they take the connection from both.
LEMMA HubStep == TypeOK /\ HubInv /\ [Next]_vars => HubInv'
<1> SUFFICES ASSUME TypeOK, HubInv, [Next]_vars PROVE HubInv'
  OBVIOUS
<1> USE DEF HubInv, HubSendsOnOpen
<1>1. CASE MainNext
  BY <1>1 DEF MainNext, FirstBuildStarts, FirstBuildEnds, Initialize, hubVars, chanVars, connVars
<1>2. CASE LoopActs
  BY <1>2 DEF LoopActs, LoopEvent, LoopUnlock, Broadcast, hubVars, chanVars, connVars
<1>3. CASE HubActs
  <2>1. ASSUME NEW s \in Senders, Receive(s) PROVE HubInv'
    BY <2>1 DEF Receive, chanVars, connVars
  <2>2. ASSUME NEW c \in Conns, Register(c) PROVE HubInv'
    BY <2>2 DEF Register, Selecting, chanVars, TypeOK
  <2>3. ASSUME NEW c \in Conns, Unregister(c) PROVE HubInv'
    BY <2>3 DEF Unregister, Selecting, TypeOK
  <2>4. ASSUME NEW c \in Conns, Offer(c) PROVE HubInv'
    <3>1. reader' = reader /\ left' = left \ {c}
      BY <2>4 DEF Offer, connVars
    <3>2. CASE closed' = closed /\ connections' = connections
      BY <3>1, <3>2
    <3>3. CASE closed' = closed \cup {c} /\ connections' = connections \ {c}
      \* c is registered: it is among the connections.
      <4>1. reader[c] \notin {"none", "register"}
        BY <2>4 DEF Offer
      <4> QED BY <3>1, <3>3, <4>1
    <3> QED BY <2>4, <3>2, <3>3 DEF Offer
  <2> QED BY <1>3, <2>1, <2>2, <2>3, <2>4 DEF HubActs
<1>4. CASE ReaderActs
  <2> PICK c \in Conns : \/ Connect(c) \/ ReadHello(c) \/ AnswerHello(c)
                         \/ HelloPanics(c) \/ ReadFails(c)
    BY <1>4 DEF ReaderActs
  <2> QED BY DEF Connect, ReadHello, AnswerHello, HelloPanics, ReadFails, hubVars, chanVars, TypeOK
<1>5. CASE WriterActs
  BY <1>5 DEF WriterActs, WriterTakes, Written, WriteFails, RangeEnds, Leave, hubVars, chanVars
<1>6. CASE UNCHANGED vars
  BY <1>6 DEF vars
<1> QED BY <1>1, <1>2, <1>3, <1>4, <1>5, <1>6, NextSplit

\* HubSendsOnOpen: no broadcast meets a closed channel, however connections
\* come, go and are cut off meanwhile.
THEOREM HubSafe == Spec => []HubSendsOnOpen
<1>1. Init => HubInv
  BY DEF Init, HubInv, HubSendsOnOpen
<1>2. HubInv => HubSendsOnOpen
  BY DEF HubInv
<1> QED BY <1>1, <1>2, HubStep, TypeCorrect, PTL DEF Spec

(***************************************************************************)
(* The reloads of a page.                                                  *)
(***************************************************************************)

\* One more reload, the next, at the end of what is on its way.
LEMMA FollowNext ==
  ASSUME NEW s \in Seq(Nat), NEW n \in Nat, NEW last \in Nat, Follow(s, n, last)
  PROVE  Follow(Append(s, last + 1), n, last + 1)
<1> DEFINE t == Append(s, last + 1)
<1>1. /\ Len(t) = Len(s) + 1 /\ DOMAIN t = 1..(Len(s) + 1) /\ DOMAIN s = 1..Len(s)
      /\ Len(s) \in Nat
  OBVIOUS
<1>2. t[Len(s) + 1] = last + 1 /\ \A i \in 1..Len(s) : t[i] = s[i]
  OBVIOUS
<1>3. \A i \in DOMAIN s : s[i] \in Nat
  OBVIOUS
<1> HIDE DEF t
<1>4. \A k \in (n + 1)..(last + 1) : \E i \in DOMAIN t : t[i] = k
  <2> TAKE k \in (n + 1)..(last + 1)
  <2>1. CASE k = last + 1
    BY <1>1, <1>2, <2>1
  <2>2. CASE k # last + 1
    <3>1. k \in (n + 1)..last
      BY <2>2
    <3>2. PICK i \in DOMAIN s : s[i] = k
      BY <3>1 DEF Follow
    <3> QED BY <1>1, <1>2, <3>2
  <2> QED BY <2>1, <2>2
<1>5. \A i \in DOMAIN t : t[i] # Hello => t[i] \in (n + 1)..(last + 1)
  <2> TAKE i \in DOMAIN t
  <2>1. CASE i = Len(s) + 1
    BY <1>2, <2>1 DEF Follow
  <2>2. CASE i # Len(s) + 1
    <3>1. i \in DOMAIN s /\ t[i] = s[i]
      BY <1>1, <1>2, <2>2
    <3>2. s[i] # Hello => s[i] \in (n + 1)..last
      BY <3>1 DEF Follow
    <3> QED BY <3>1, <3>2
  <2> QED BY <2>1, <2>2
<1>6. ASSUME NEW i \in DOMAIN t, NEW j \in DOMAIN t, i < j, t[i] # Hello, t[j] # Hello
      PROVE  t[i] < t[j]
  <2>1. i \in DOMAIN s /\ t[i] = s[i]
    BY <1>1, <1>2, <1>6
  <2>2. CASE j = Len(s) + 1
    <3>1. s[i] \in (n + 1)..last
      BY <1>6, <2>1 DEF Follow
    <3> QED BY <1>2, <2>1, <2>2, <3>1
  <2>3. CASE j # Len(s) + 1
    <3>1. j \in DOMAIN s /\ t[j] = s[j]
      BY <1>1, <1>2, <2>3
    <3> QED BY <1>6, <2>1, <3>1 DEF Follow
  <2> QED BY <2>2, <2>3
<1>7. n <= last + 1
  BY DEF Follow
<1> QED BY <1>4, <1>5, <1>6, <1>7 DEF Follow, t

\* The answer to a hello changes nothing about the reloads.
LEMMA FollowHello ==
  ASSUME NEW s \in Seq(Nat), NEW n \in Nat, NEW last \in Nat, Follow(s, n, last)
  PROVE  Follow(Append(s, Hello), n, last)
<1> DEFINE t == Append(s, Hello)
<1>1. /\ DOMAIN t = 1..(Len(s) + 1) /\ DOMAIN s = 1..Len(s) /\ Len(s) \in Nat
  BY DEF Hello
<1>2. t[Len(s) + 1] = Hello /\ \A i \in 1..Len(s) : t[i] = s[i]
  BY DEF Hello
<1> HIDE DEF t
<1>3. \A i \in DOMAIN s : i \in DOMAIN t /\ t[i] = s[i]
  BY <1>1, <1>2
<1>4. \A i \in DOMAIN t : t[i] # Hello => i \in DOMAIN s
  BY <1>1, <1>2
<1>5. \A k \in (n + 1)..last : \E i \in DOMAIN t : t[i] = k
  BY <1>3 DEF Follow
<1>6. \A i \in DOMAIN t : t[i] # Hello => t[i] \in (n + 1)..last
  BY <1>3, <1>4 DEF Follow
<1>7. \A i, j \in DOMAIN t : i < j /\ t[i] # Hello /\ t[j] # Hello => t[i] < t[j]
  BY <1>3, <1>4 DEF Follow
<1> QED BY <1>5, <1>6, <1>7 DEF Follow, t

\* What is written first is a hello or the very next reload.
LEMMA FollowFirst ==
  ASSUME NEW w \in Nat, NEW s \in Seq(Nat), NEW n \in Nat, NEW last \in Nat,
         Follow(<<w>> \o s, n, last)
  PROVE  /\ w = Hello => Follow(s, n, last)
         /\ w # Hello => w = n + 1 /\ Follow(s, n + 1, last)
<1> DEFINE t == <<w>> \o s
<1>1. /\ DOMAIN t = 1..(Len(s) + 1) /\ DOMAIN s = 1..Len(s) /\ Len(s) \in Nat
  OBVIOUS
<1>2. t[1] = w /\ \A i \in 1..Len(s) : t[i + 1] = s[i]
  OBVIOUS
<1>3. Follow(t, n, last)
  OBVIOUS
<1> HIDE DEF t
<1>4. \A i \in DOMAIN s : i + 1 \in DOMAIN t /\ t[i + 1] = s[i] /\ 1 \in DOMAIN t /\ 1 < i + 1
  BY <1>1, <1>2
<1>5. \A i \in DOMAIN t : i = 1 \/ (i - 1 \in DOMAIN s /\ t[i] = s[i - 1] /\ 1 < i)
  <2> TAKE i \in DOMAIN t
  <2>1. CASE i = 1
    BY <2>1
  <2>2. CASE i # 1
    <3>1. i - 1 \in 1..Len(s) /\ (i - 1) + 1 = i /\ 1 < i
      BY <1>1, <2>2
    <3> QED BY <1>1, <1>2, <3>1
  <2> QED BY <2>1, <2>2
<1>6. \A i, j \in DOMAIN s : i < j /\ s[i] # Hello /\ s[j] # Hello => s[i] < s[j]
  <2> TAKE i, j \in DOMAIN s
  <2> HAVE i < j /\ s[i] # Hello /\ s[j] # Hello
  <2>1. i + 1 < j + 1
    BY <1>1
  <2> QED BY <1>3, <1>4, <2>1 DEF Follow
<1>7. \A i \in DOMAIN s : s[i] # Hello => s[i] \in (n + 1)..last
  BY <1>3, <1>4 DEF Follow
<1>8. CASE w = Hello
  <2>1. ASSUME NEW k \in (n + 1)..last PROVE \E i \in DOMAIN s : s[i] = k
    <3>1. PICK i \in DOMAIN t : t[i] = k
      BY <1>3 DEF Follow
    <3>2. i # 1
      BY <1>2, <1>8, <3>1 DEF Hello
    <3> QED BY <1>5, <3>1, <3>2
  <2>2. n <= last
    BY <1>3 DEF Follow
  <2>3. Follow(s, n, last)
    BY <1>6, <1>7, <2>1, <2>2 DEF Follow
  <2> QED BY <1>8, <2>3
<1>9. CASE w # Hello
  <2>1. w \in (n + 1)..last
    BY <1>1, <1>2, <1>3, <1>9 DEF Follow
  \* The next reload is on its way, and nothing is written before it.
  <2>2. w = n + 1
    <3>1. n + 1 \in (n + 1)..last
      BY <2>1
    <3>2. PICK i \in DOMAIN t : t[i] = n + 1
      BY <1>3, <3>1 DEF Follow
    <3>3. CASE i = 1
      BY <1>2, <3>2, <3>3
    <3>4. CASE i # 1
      <4>1. 1 \in DOMAIN t /\ 1 < i
        BY <1>1, <1>5, <3>4
      <4>2. t[1] # Hello /\ t[i] # Hello
        BY <1>2, <1>9, <3>2 DEF Hello
      <4>3. t[1] < t[i]
        BY <1>3, <4>1, <4>2 DEF Follow
      <4> QED BY <1>2, <2>1, <3>2, <4>3
    <3> QED BY <3>3, <3>4
  <2>3. \A i \in DOMAIN s : s[i] # Hello => s[i] \in ((n + 1) + 1)..last
    <3> TAKE i \in DOMAIN s
    <3> HAVE s[i] # Hello
    <3>1. t[1] < t[i + 1]
      BY <1>2, <1>3, <1>4, <1>9 DEF Follow
    <3>2. s[i] \in (n + 1)..last
      BY <1>7
    <3> QED BY <1>2, <1>4, <2>2, <3>1, <3>2
  <2>4. ASSUME NEW k \in ((n + 1) + 1)..last PROVE \E i \in DOMAIN s : s[i] = k
    <3>1. k \in (n + 1)..last
      OBVIOUS
    <3>2. PICK i \in DOMAIN t : t[i] = k
      BY <1>3, <3>1 DEF Follow
    <3>3. i # 1
      BY <1>2, <2>2, <3>2
    <3> QED BY <1>5, <3>2, <3>3
  <2>5. n + 1 <= last
    BY <2>1
  <2>6. Follow(s, n + 1, last)
    BY <1>6, <2>3, <2>4, <2>5 DEF Follow
  <2> QED BY <1>9, <2>2, <2>6
<1> QED BY <1>8, <1>9

\* What NothingSkipped rests on, for each page.  A page that is not registered
\* has nothing; one whose writer works has its next reloads on their way up
\* to some last one, which is the last that was offered while the hub still
\* counts the page as connected.
OnItsWay(c) ==
  \E last \in Nat : /\ Follow(InFlight(c), since[c] + Len(got[c]), last)
                    /\ c \in connections => last = Offered(c)
PageInv(c) ==
  /\ writer[c] = "none" <=> reader[c] \in {"none", "register"}
  /\ writer[c] = "none" => send[c] = <<>> /\ got[c] = <<>>
  /\ Consecutive(got[c], since[c])
  /\ writer[c] \in {"range", "write"} => OnItsWay(c)
SkipInv == \A c \in Conns : PageInv(c)

\* What a page needs to keep its invariant: its goroutines, channel and counts
\* stay, and so does the last reload it was offered.
Kept(c) ==
  /\ send'[c] = send[c] /\ got'[c] = got[c] /\ since'[c] = since[c]
  /\ writer'[c] = writer[c] /\ writing'[c] = writing[c]
  /\ reader'[c] \in {"none", "register"} <=> reader[c] \in {"none", "register"}
  /\ c \in connections' => c \in connections /\ Offered(c)' = Offered(c)

\* Then the page keeps it.
LEMMA PageKept ==
  ASSUME NEW c \in Conns, PageInv(c), Kept(c)
  PROVE  PageInv(c)'
<1>1. InFlight(c)' = InFlight(c)
  BY DEF Kept, InFlight
<1>2. Consecutive(got[c], since[c])' /\ (writer'[c] = "none" => send'[c] = <<>> /\ got'[c] = <<>>)
  BY DEF Kept, PageInv, Consecutive
<1>3. writer'[c] = "none" <=> reader'[c] \in {"none", "register"}
  BY DEF Kept, PageInv
<1>4. writer'[c] \in {"range", "write"} => OnItsWay(c)'
  <2> HAVE writer'[c] \in {"range", "write"}
  <2>1. PICK last \in Nat : /\ Follow(InFlight(c), since[c] + Len(got[c]), last)
                            /\ c \in connections => last = Offered(c)
    BY DEF Kept, PageInv, OnItsWay
  <2>2. Follow(InFlight(c)', since'[c] + Len(got'[c]), last)
    BY <1>1, <2>1 DEF Kept
  <2>3. c \in connections' => last = Offered(c)'
    BY <2>1 DEF Kept
  <2>4. Follow(InFlight(c), since[c] + Len(got[c]), last)'
    BY <2>2 DEF Follow
  <2> QED BY <2>3, <2>4 DEF OnItsWay
<1> QED BY <1>2, <1>3, <1>4 DEF PageInv

\* A page whose channel gets one more message keeps it on its way.
LEMMA InFlightGrows ==
  ASSUME TypeOK, NEW c \in Conns, NEW x \in Nat, send'[c] = Append(send[c], x),
         writer'[c] = writer[c], writing'[c] = writing[c]
  PROVE  InFlight(c)' = Append(InFlight(c), x) /\ InFlight(c) \in Seq(Nat)
<1>1. send[c] \in Seq(Nat) /\ writing[c] \in Nat
  BY DEF TypeOK, Messages
<1>2. CASE writer[c] = "write"
  <2>1. <<writing[c]>> \o Append(send[c], x) = Append(<<writing[c]>> \o send[c], x)
    BY <1>1
  <2> QED BY <1>1, <1>2, <2>1 DEF InFlight
<1>3. CASE writer[c] # "write"
  BY <1>1, <1>3 DEF InFlight
<1> QED BY <1>2, <1>3

\* The hub's steps.  A reload that is taken is offered to every connection; a
\* page is registered with nothing missing; one that is offered the reload gets
\* it at the end of its channel or is cut off.
LEMMA HubSkips ==
  ASSUME TypeOK, HubInv, SkipInv, HubActs
  PROVE  SkipInv'
<1> USE DEF SkipInv
<1>1. ASSUME NEW s \in Senders, Receive(s) PROVE SkipInv'
  <2> TAKE c \in Conns
  <2>1. c \in connections => Offered(c)' = Offered(c)
    BY <1>1 DEF Receive, Selecting, Offered, TypeOK
  <2>2. Kept(c)
    BY <1>1, <2>1 DEF Receive, Kept, chanVars, connVars
  <2> QED BY <2>2, PageKept
<1>2. ASSUME NEW c \in Conns, Register(c) PROVE SkipInv'
  <2> TAKE d \in Conns
  <2>1. CASE d # c
    <3>1. d \in connections' => d \in connections /\ Offered(d)' = Offered(d)
      BY <1>2, <2>1 DEF Register, Offered
    <3>2. Kept(d)
      BY <1>2, <2>1, <3>1 DEF Register, Kept, chanVars, TypeOK
    <3> QED BY <3>2, PageKept
  <2>2. CASE d = c
    <3>1. /\ writer'[c] = "range" /\ reader'[c] = "read" /\ since'[c] = count
          /\ send'[c] = send[c] /\ got'[c] = got[c] /\ reader[c] = "register"
          /\ left' = {} /\ count' = count /\ count \in Nat
      BY <1>2 DEF Register, Selecting, chanVars, TypeOK
    <3>2. send[c] = <<>> /\ got[c] = <<>>
      BY <3>1 DEF PageInv
    <3>3. InFlight(c)' = <<>> /\ Offered(c)' = count /\ Consecutive(got'[c], since'[c])
      BY <3>1, <3>2 DEF InFlight, Offered, Consecutive
    <3>4. Follow(<<>>, count, count)
      BY <3>1 DEF Follow
    <3>5. since'[c] + Len(got'[c]) = count
      BY <3>1, <3>2
    <3>6. Follow(InFlight(c)', since'[c] + Len(got'[c]), count)
      BY <3>3, <3>4, <3>5
    <3>7. Follow(InFlight(c), since[c] + Len(got[c]), count)'
      BY <3>1, <3>6 DEF Follow
    <3>8. OnItsWay(c)'
      BY <3>1, <3>3, <3>7 DEF OnItsWay
    <3> QED BY <2>2, <3>1, <3>3, <3>8 DEF PageInv, Consecutive
  <2> QED BY <2>1, <2>2
<1>3. ASSUME NEW c \in Conns, Unregister(c) PROVE SkipInv'
  <2> TAKE d \in Conns
  <2>1. d \in connections' => d \in connections /\ Offered(d)' = Offered(d)
    BY <1>3 DEF Unregister, Offered
  <2>2. Kept(d)
    BY <1>3, <2>1 DEF Unregister, Kept, TypeOK
  <2> QED BY <2>2, PageKept
<1>4. ASSUME NEW c \in Conns, Offer(c) PROVE SkipInv'
  <2>1. /\ c \in left /\ c \in connections /\ left' = left \ {c} /\ count' = count
        /\ UNCHANGED <<reader, writer, writing, since, got>>
    BY <1>4 DEF Offer, HubInv, connVars
  <2> TAKE d \in Conns
  <2>2. CASE d # c
    <3>1. send'[d] = send[d] /\ connections' \subseteq connections
      BY <1>4, <2>2 DEF Offer, TypeOK
    <3>2. Offered(d)' = Offered(d)
      BY <2>1, <2>2 DEF Offered
    <3>3. Kept(d)
      BY <2>1, <3>1, <3>2 DEF Kept
    <3> QED BY <3>3, PageKept
  <2>3. CASE d = c /\ connections' = connections \ {c} /\ UNCHANGED send
    <3>1. Kept(c)
      BY <2>1, <2>3 DEF Kept
    <3> QED BY <2>3, <3>1, PageKept
  <2>4. CASE d = c /\ connections' = connections /\ send' = [send EXCEPT ![c] = Append(@, count)]
    <3>1. count \in Nat /\ send'[c] = Append(send[c], count) /\ since[c] \in Nat /\ got[c] \in Seq(Nat)
      BY <2>4 DEF TypeOK, Messages
    <3>2. writer[c] # "none"
      BY <2>1 DEF HubInv, PageInv
    <3>3. CASE writer[c] \in {"range", "write"}
      <4>1. PICK last \in Nat : /\ Follow(InFlight(c), since[c] + Len(got[c]), last)
                                /\ last = count - 1
        BY <2>1, <3>3 DEF PageInv, OnItsWay, Offered
      <4>2. InFlight(c)' = Append(InFlight(c), count) /\ InFlight(c) \in Seq(Nat)
        BY <2>1, <3>1, InFlightGrows
      <4>3. since[c] + Len(got[c]) \in Nat /\ last + 1 = count
        BY <3>1, <4>1
      <4>4. Follow(Append(InFlight(c), count), since[c] + Len(got[c]), count)
        <5>1. Follow(Append(InFlight(c), last + 1), since[c] + Len(got[c]), last + 1)
          BY <4>1, <4>2, <4>3, FollowNext
        <5> QED BY <4>3, <5>1
      <4>5. Follow(InFlight(c)', since'[c] + Len(got'[c]), count)
        BY <2>1, <4>2, <4>4
      <4>6. Follow(InFlight(c), since[c] + Len(got[c]), count)'
        BY <2>1, <4>5 DEF Follow
      <4>7. Offered(c)' = count
        BY <2>1 DEF Offered
      <4>8. OnItsWay(c)'
        BY <2>1, <3>1, <4>6, <4>7 DEF OnItsWay
      <4> QED BY <2>1, <2>4, <3>2, <4>8 DEF PageInv, Consecutive
    <3>4. CASE writer[c] \notin {"range", "write"}
      BY <2>1, <2>4, <3>2, <3>4 DEF PageInv, Consecutive
    <3> QED BY <3>3, <3>4
  <2> QED BY <1>4, <2>2, <2>3, <2>4 DEF Offer
<1> QED BY <1>1, <1>2, <1>3, <1>4 DEF HubActs

\* The reader's steps: the answer to a hello goes behind the reloads.
LEMMA ReaderSkips ==
  ASSUME TypeOK, HubInv, SkipInv, ReaderActs
  PROVE  SkipInv'
<1> USE DEF SkipInv
<1>1. ASSUME NEW c \in Conns, Connect(c) \/ ReadHello(c) \/ HelloPanics(c) \/ ReadFails(c)
      PROVE  SkipInv'
  <2> TAKE d \in Conns
  <2>1. Offered(d)' = Offered(d)
    BY <1>1 DEF Connect, ReadHello, HelloPanics, ReadFails, Offered, hubVars
  <2>2. Kept(d)
    BY <1>1, <2>1 DEF Connect, ReadHello, HelloPanics, ReadFails, Kept, hubVars, chanVars, TypeOK
  <2> QED BY <2>2, PageKept
<1>2. ASSUME NEW c \in Conns, AnswerHello(c) PROVE SkipInv'
  <2>1. /\ send' = [send EXCEPT ![c] = Append(@, Hello)] /\ reader[c] = "hello"
        /\ reader' = [reader EXCEPT ![c] = "read"]
        /\ UNCHANGED <<connections, left, count, writer, writing, since, got>>
    BY <1>2 DEF AnswerHello, hubVars
  <2> TAKE d \in Conns
  <2>2. Offered(d)' = Offered(d)
    BY <2>1 DEF Offered
  <2>3. CASE d # c
    <3>1. Kept(d)
      BY <2>1, <2>2, <2>3 DEF Kept, TypeOK
    <3> QED BY <3>1, PageKept
  <2>4. CASE d = c
    <3>1. /\ send'[c] = Append(send[c], Hello) /\ Hello \in Nat /\ reader'[c] = "read"
          /\ since[c] \in Nat /\ got[c] \in Seq(Nat)
      BY <2>1 DEF TypeOK, Messages, Hello
    <3>2. writer[c] # "none"
      BY <2>1 DEF PageInv
    <3>3. CASE writer[c] \in {"range", "write"}
      <4>1. PICK last \in Nat : /\ Follow(InFlight(c), since[c] + Len(got[c]), last)
                                /\ c \in connections => last = Offered(c)
        BY <3>3 DEF PageInv, OnItsWay
      <4>2. InFlight(c)' = Append(InFlight(c), Hello) /\ InFlight(c) \in Seq(Nat)
        BY <2>1, <3>1, InFlightGrows
      <4>3. since[c] + Len(got[c]) \in Nat
        BY <3>1
      <4>4. Follow(Append(InFlight(c), Hello), since[c] + Len(got[c]), last)
        BY <4>1, <4>2, <4>3, FollowHello
      <4>5. Follow(InFlight(c)', since'[c] + Len(got'[c]), last)
        BY <2>1, <4>2, <4>4
      <4>6. Follow(InFlight(c), since[c] + Len(got[c]), last)'
        BY <4>5 DEF Follow
      <4>7. OnItsWay(c)'
        BY <2>1, <2>2, <2>4, <4>1, <4>6 DEF OnItsWay
      <4> QED BY <2>1, <2>4, <3>1, <3>2, <4>7 DEF PageInv, Consecutive
    <3>4. CASE writer[c] \notin {"range", "write"}
      BY <2>1, <2>4, <3>1, <3>2, <3>4 DEF PageInv, Consecutive
    <3> QED BY <3>3, <3>4
  <2> QED BY <2>3, <2>4
<1> QED BY <1>1, <1>2 DEF ReaderActs

\* The writer's steps: it takes the first message and delivers it.
LEMMA WriterSkips ==
  ASSUME TypeOK, HubInv, SkipInv, WriterActs
  PROVE  SkipInv'
<1> USE DEF SkipInv
<1>1. PICK c \in Conns : WriterTakes(c) \/ Written(c) \/ WriteFails(c) \/ RangeEnds(c) \/ Leave(c)
  BY DEF WriterActs
<1>2. \A d \in Conns : Offered(d)' = Offered(d)
  BY <1>1 DEF WriterTakes, Written, WriteFails, RangeEnds, Leave, Offered, hubVars
<1>3. UNCHANGED <<connections, reader, since>>
  BY <1>1 DEF WriterTakes, Written, WriteFails, RangeEnds, Leave, hubVars
<1>4. \A d \in Conns \ {c} : Kept(d)
  BY <1>1, <1>2, <1>3 DEF WriterTakes, Written, WriteFails, RangeEnds, Leave, Kept, chanVars, TypeOK
<1>5. \A d \in Conns \ {c} : PageInv(d)'
  BY <1>4, PageKept
<1>6. /\ send[c] \in Seq(Nat) /\ writing[c] \in Nat /\ since[c] \in Nat /\ got[c] \in Seq(Nat)
      /\ since[c] + Len(got[c]) \in Nat
  BY DEF TypeOK, Messages
<1>7. CASE Leave(c)
  <2>1. Kept(c)
    BY <1>2, <1>3, <1>7 DEF Leave, Kept, chanVars
  <2> QED BY <1>5, <2>1, PageKept
<1>8. CASE WriteFails(c) \/ RangeEnds(c)
  <2>1. /\ writer'[c] = "done" /\ writer[c] # "none" /\ got'[c] = got[c]
    BY <1>8 DEF WriteFails, RangeEnds, TypeOK
  <2>2. PageInv(c)'
    BY <1>3, <2>1 DEF PageInv, Consecutive
  <2> QED BY <1>5, <2>2
<1>9. CASE WriterTakes(c)
  <2>1. /\ writer[c] = "range" /\ writer'[c] = "write" /\ got'[c] = got[c] /\ since'[c] = since[c]
        /\ writing'[c] = Head(send[c]) /\ send'[c] = Tail(send[c]) /\ send[c] # <<>>
    BY <1>9 DEF WriterTakes, TypeOK
  <2>2. InFlight(c)' = InFlight(c)
    <3>1. <<Head(send[c])>> \o Tail(send[c]) = send[c]
      BY <1>6, <2>1
    <3> QED BY <2>1, <3>1 DEF InFlight
  <2>3. PICK last \in Nat : /\ Follow(InFlight(c), since[c] + Len(got[c]), last)
                            /\ c \in connections => last = Offered(c)
    BY <2>1 DEF PageInv, OnItsWay
  <2>4. Follow(InFlight(c)', since'[c] + Len(got'[c]), last)
    BY <2>1, <2>2, <2>3
  <2>5. Follow(InFlight(c), since[c] + Len(got[c]), last)'
    BY <2>4 DEF Follow
  <2>6. OnItsWay(c)'
    BY <1>2, <1>3, <2>3, <2>5 DEF OnItsWay
  <2>7. PageInv(c)'
    BY <1>3, <2>1, <2>6 DEF PageInv, Consecutive
  <2> QED BY <1>5, <2>7
<1>10. CASE Written(c)
  <2>1. /\ writer[c] = "write" /\ writer'[c] = "range" /\ send'[c] = send[c] /\ since'[c] = since[c]
        /\ writing[c] = Hello => got'[c] = got[c]
        /\ writing[c] # Hello => got'[c] = Append(got[c], writing[c])
    BY <1>10 DEF Written, chanVars, TypeOK
  <2>2. InFlight(c) = <<writing[c]>> \o send[c] /\ InFlight(c)' = send[c]
    BY <2>1 DEF InFlight
  <2>3. PICK last \in Nat : /\ Follow(<<writing[c]>> \o send[c], since[c] + Len(got[c]), last)
                            /\ c \in connections => last = Offered(c)
    BY <2>1, <2>2 DEF PageInv, OnItsWay
  <2>4. /\ writing[c] = Hello => Follow(send[c], since[c] + Len(got[c]), last)
        /\ writing[c] # Hello => /\ writing[c] = since[c] + Len(got[c]) + 1
                                 /\ Follow(send[c], since[c] + Len(got[c]) + 1, last)
    BY <1>6, <2>3, FollowFirst
  <2>5. Follow(send[c], since[c] + Len(got'[c]), last) /\ Consecutive(got'[c], since[c])
    <3>1. CASE writing[c] = Hello
      BY <2>1, <2>4, <3>1 DEF PageInv
    <3>2. CASE writing[c] # Hello
      <4>1. /\ Len(got'[c]) = Len(got[c]) + 1 /\ Len(got[c]) \in Nat
            /\ DOMAIN got'[c] = 1..(Len(got[c]) + 1) /\ DOMAIN got[c] = 1..Len(got[c])
            /\ got'[c][Len(got[c]) + 1] = writing[c]
            /\ \A i \in 1..Len(got[c]) : got'[c][i] = got[c][i]
        BY <1>6, <2>1, <3>2
      <4>2. Follow(send[c], since[c] + Len(got'[c]), last)
        <5>1. since[c] + Len(got'[c]) = since[c] + Len(got[c]) + 1
          BY <1>6, <4>1
        <5> QED BY <2>4, <3>2, <5>1
      <4>3. ASSUME NEW i \in DOMAIN got'[c] PROVE got'[c][i] = since[c] + i
        <5>1. CASE i = Len(got[c]) + 1
          BY <1>6, <2>4, <3>2, <4>1, <5>1
        <5>2. CASE i # Len(got[c]) + 1
          <6>1. i \in DOMAIN got[c] /\ got'[c][i] = got[c][i]
            BY <4>1, <5>2
          <6> QED BY <6>1 DEF PageInv, Consecutive
        <5> QED BY <5>1, <5>2
      <4> QED BY <4>2, <4>3 DEF Consecutive
    <3> QED BY <3>1, <3>2
  <2>6. Follow(InFlight(c), since[c] + Len(got[c]), last)'
    <3>1. Follow(InFlight(c)', since'[c] + Len(got'[c]), last)
      BY <2>1, <2>2, <2>5
    <3> QED BY <3>1 DEF Follow
  <2>7. OnItsWay(c)'
    BY <1>2, <1>3, <2>3, <2>6 DEF OnItsWay
  <2>8. Consecutive(got[c], since[c])'
    BY <2>1, <2>5 DEF Consecutive
  <2>9. PageInv(c)'
    BY <1>3, <2>1, <2>7, <2>8 DEF PageInv
  <2> QED BY <1>5, <2>9
<1> QED BY <1>1, <1>7, <1>8, <1>9, <1>10

\* A step keeps SkipInv.
LEMMA SkipStep == TypeOK /\ HubInv /\ SkipInv /\ [Next]_vars => SkipInv'
<1> SUFFICES ASSUME TypeOK, HubInv, SkipInv, [Next]_vars PROVE SkipInv'
  OBVIOUS
<1>1. CASE MainNext \/ LoopActs \/ UNCHANGED vars
  <2>1. UNCHANGED <<connections, left, count, send, reader, writer, writing, since, got>>
    BY <1>1 DEF MainNext, FirstBuildStarts, FirstBuildEnds, Initialize, LoopActs, LoopEvent,
       LoopUnlock, Broadcast, hubVars, chanVars, connVars, vars
  <2>2. \A c \in Conns : Kept(c)
    BY <2>1 DEF Kept, Offered
  <2> QED BY <2>2, PageKept DEF SkipInv
<1> QED BY <1>1, HubSkips, ReaderSkips, WriterSkips, NextSplit

\* NothingSkipped: whatever connections, buffers and senders there are, a page
\* gets the reloads after its registration in order and without a gap, and
\* those that it has not got yet are on their way to it or it is cut off.
THEOREM PagesMissNothing == Spec => []NothingSkipped
<1>1. Init => SkipInv
  <2> SUFFICES ASSUME Init, NEW c \in Conns PROVE PageInv(c)
    BY DEF SkipInv
  <2>1. reader[c] = "none" /\ writer[c] = "none" /\ send[c] = <<>> /\ got[c] = <<>>
    BY DEF Init
  <2>2. Consecutive(<<>>, since[c])
    BY DEF Consecutive
  <2> QED BY <2>1, <2>2 DEF PageInv
<1>2. Init => HubInv
  BY DEF Init, HubInv, HubSendsOnOpen
<1>3. TypeOK /\ HubInv /\ SkipInv => NothingSkipped
  <2> SUFFICES ASSUME TypeOK, HubInv, SkipInv, NEW c \in Conns
               PROVE  /\ Consecutive(got[c], since[c])
                      /\ c \in connections /\ writer[c] # "done" =>
                           Follow(InFlight(c), since[c] + Len(got[c]), Offered(c))
    BY DEF NothingSkipped
  <2>1. PageInv(c)
    BY DEF SkipInv
  <2>2. c \in connections /\ writer[c] # "done" => writer[c] \in {"range", "write"}
    BY <2>1 DEF HubInv, PageInv, TypeOK
  <2> QED BY <2>1, <2>2 DEF PageInv, OnItsWay
<1> QED BY <1>1, <1>2, <1>3, HubStep, SkipStep, TypeCorrect, PTL DEF Spec
=============================================================================
