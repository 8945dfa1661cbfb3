---------------------------- MODULE ServicesProofs ----------------------------
(* Theorems about what the templates of a build call: the WebAssembly pool, *)
(* the file cache, the script batcher and the values made when they are     *)
(* first asked for, each for any instance, and the four side by side.       *)
EXTENDS ServicesMC, SequenceTheorems, TLAPS

-----------------------------------------------------------------------------
(* Warpc, for any calls, pool size and bounds.                              *)

\* The steps that move neither a call's number nor its dispatcher, nor what is
\* pending or handed over.
Elsewhere(d) == Trap(d) \/ CloseNext(d) \/ InstanceEnds(d)

\* Pool holds what getDispatcher's modulus gives.
LEMMA InPool == \A n \in Nat : (n + 1) % PoolSize \in Pool
BY WarpcAssumption DEF Pool

\* A step keeps the types.
LEMMA WarpcTypeStep == WarpcTypeOK /\ [WarpcNext]_warpcVars => WarpcTypeOK'
<1> SUFFICES ASSUME WarpcTypeOK, [WarpcNext]_warpcVars PROVE WarpcTypeOK'
  OBVIOUS
<1> USE WarpcAssumption DEF WarpcTypeOK, At, callVars, poolVars, Stages
<1>1. ASSUME NEW c \in Calls, CallSteps(c) PROVE WarpcTypeOK'
  <2>1. CASE Number(c)
    <3>1. Space[c] \in Namespaces /\ counters[Space[c]] + 1 \in Nat
      OBVIOUS
    <3>2. counters' \in [Namespaces -> Nat] /\ counters'[Space[c]] \in Nat
      BY <2>1, <3>1 DEF Number
    <3>3. number' \in [Calls -> Nat]
      BY <2>1, <3>2 DEF Number
    <3> QED BY <2>1, <3>2, <3>3 DEF Number
  <2>2. CASE GetDispatcher(c)
    BY <2>2, InPool DEF GetDispatcher
  <2>3. CASE Add(c)
    <3>1. Entry(c) \in [at : Pool, id : Nat, call : Calls]
      BY DEF Entry
    <3>2. doubled' \subseteq Calls
      BY <2>3 DEF Add, Twins
    <3> QED BY <2>3, <3>1, <3>2 DEF Add
  <2>4. CASE Send(c)
    BY <2>4 DEF Send, Returns
  <2>5. CASE Encode(c)
    BY <2>5 DEF Encode
  <2>6. CASE EncodeFails(c) \/ TimesOut(c)
    BY <2>6 DEF EncodeFails, TimesOut, Returns
  <2>7. CASE Answered(c) \/ PoolEnded(c)
    <3>1. Drained(handed[c]) \in Calls \cup {None, Zero, "failed"}
          /\ Drained(Zero) \in Calls \cup {None, Zero, "failed"}
      BY DEF Drained
    <3> QED BY <2>7, <3>1 DEF Answered, PoolEnded, Returns
  <2> QED BY <1>1, <2>1, <2>2, <2>3, <2>4, <2>5, <2>6, <2>7 DEF CallSteps
<1>2. ASSUME NEW d \in Pool, Respond(d) \/ InputEnds(d) PROVE WarpcTypeOK'
  <2>1. \A r \in Calls \cup {Zero}, c \in Calls : Handed(c, r)[c] \in Calls \cup {None, Zero}
    BY DEF Handed
  <2>2. CASE Respond(d)
    <3>1. instance[d] \in Calls
      BY <2>2 DEF Respond
    <3>2. handed' \in [Calls -> Calls \cup {None, Zero}]
      BY <2>1, <2>2, <3>1 DEF Respond
    <3> QED BY <2>2, <3>2 DEF Respond, Under
  <2>3. CASE InputEnds(d)
    BY <2>1, <2>3 DEF InputEnds
  <2> QED BY <1>2, <2>2, <2>3
<1>3. ASSUME NEW d \in Pool, Elsewhere(d) PROVE WarpcTypeOK'
  BY <1>3 DEF Elsewhere, Trap, CloseNext, InstanceEnds
<1>4. CASE RunReturns
  BY <1>4 DEF RunReturns
<1>5. CASE UNCHANGED warpcVars
  BY <1>5 DEF warpcVars
<1> QED BY <1>1, <1>2, <1>3, <1>4, <1>5 DEF WarpcNext, PoolSteps, Elsewhere

LEMMA WarpcTypeInit == WarpcInit => WarpcTypeOK
<1> SUFFICES ASSUME WarpcInit PROVE WarpcTypeOK
  OBVIOUS
<1>1. 0 \in Pool
  BY WarpcAssumption DEF Pool
<1>2. server \in [Calls -> Pool] /\ pending \subseteq [at : Pool, id : Nat, call : Calls]
  BY <1>1 DEF WarpcInit
<1>3. /\ counters \in [Namespaces -> Nat] /\ turn \in Nat /\ stage \in [Calls -> Stages]
      /\ number \in [Calls -> Nat] /\ handed \in [Calls -> Calls \cup {None, Zero}]
      /\ instance \in [Pool -> Calls \cup {"ready", "ended", "dead"}]
  BY DEF WarpcInit, Stages
<1>4. /\ closing \subseteq Pool /\ shut \subseteq Pool /\ donec \in BOOLEAN /\ errc \in {0, 1}
      /\ panicked \in BOOLEAN /\ deaths \in Nat /\ doubled \subseteq Calls
      /\ kept \in [Calls -> Calls \cup {None, Zero, "failed"}]
  BY DEF WarpcInit
<1> QED BY <1>2, <1>3, <1>4 DEF WarpcTypeOK

\* Every variable of the pool and its calls has its type: the dispatcher that
\* getDispatcher's counter names exists, and the error channel holds one error.
THEOREM WarpcTypes == WarpcSpec => []WarpcTypeOK
BY WarpcTypeInit, WarpcTypeStep, PTL DEF WarpcSpec

-----------------------------------------------------------------------------
Sent == {"sending", "encoding", "waiting", "done"}

\* What is pending is pending under the number and at the dispatcher of its
\* call; a response is empty only where the pipes are closed.
ServedInv ==
  /\ \A e \in pending : e = Entry(e.call) /\ stage[e.call] \in Sent
  /\ \A c \in Calls : handed[c] # None => stage[c] \in Sent
  /\ \A c \in Calls : handed[c] = Zero => server[c] \in closing
  /\ \A c \in Calls : kept[c] # None => stage[c] = "done"
  /\ EmptyOnlyAfterEnd

\* A step keeps ServedInv.
LEMMA ServedStep == WarpcTypeOK /\ ServedInv /\ [WarpcNext]_warpcVars => ServedInv'
<1> SUFFICES ASSUME WarpcTypeOK, ServedInv, [WarpcNext]_warpcVars PROVE ServedInv'
  OBVIOUS
<1> USE WarpcAssumption DEF WarpcTypeOK, At, callVars, poolVars, Stages, Sent,
        ServedInv, EmptyOnlyAfterEnd
\* A call that has been numbered and assigned goes on; nothing else moves.
<1>a. ASSUME UNCHANGED <<number, server, pending, handed, closing, donec>>,
             NEW c \in Calls, NEW next \in Sent, stage[c] \in Sent \ {"done"}, stage' = [stage EXCEPT ![c] = next],
             kept' = kept \/ (/\ next = "done"
                              /\ \E r : /\ kept' = [kept EXCEPT ![c] = r]
                                        /\ r = Zero => donec \/ server[c] \in closing)
      PROVE  ServedInv'
  <2>1. \A d \in Calls : Entry(d)' = Entry(d) /\ (stage[d] \in Sent => stage'[d] \in Sent)
    BY <1>a DEF Entry
  <2>2. CASE kept' = kept
    BY <1>a, <2>1, <2>2
  <2>3. CASE next = "done" /\ \E r : /\ kept' = [kept EXCEPT ![c] = r]
                                     /\ r = Zero => donec \/ server[c] \in closing
    BY <1>a, <2>1, <2>3
  <2> QED BY <1>a, <2>2, <2>3
<1>1. ASSUME NEW c \in Calls, CallSteps(c) PROVE ServedInv'
  <2>1. CASE Number(c)
    <3>1. \A d \in Calls \ {c} : Entry(d)' = Entry(d)
      BY <2>1 DEF Number, Entry
    <3>2. \A e \in pending : e.call # c
      BY <2>1 DEF Number
    <3> QED BY <2>1, <3>1, <3>2 DEF Number
  <2>2. CASE GetDispatcher(c)
    <3>1. \A d \in Calls \ {c} : Entry(d)' = Entry(d)
      BY <2>2 DEF GetDispatcher, Entry
    <3>2. (\A e \in pending : e.call # c) /\ handed[c] = None /\ kept[c] = None
      BY <2>2 DEF GetDispatcher
    <3> QED BY <2>2, <3>1, <3>2 DEF GetDispatcher
  <2>3. CASE Add(c)
    <3>1. \A d \in Calls : Entry(d)' = Entry(d)
      BY <2>3 DEF Add, Entry
    <3>2. Entry(c).call = c
      BY DEF Entry
    <3>3. pending' \subseteq pending \cup {Entry(c)}
      BY <2>3 DEF Add
    <3>4. \A e \in pending' : e = Entry(e.call)
      BY <3>2, <3>3
    <3>5. \A e \in pending' : e.call \in Calls /\ stage'[e.call] \in Sent
      BY <2>3, <3>2, <3>3 DEF Add
    <3> QED BY <2>3, <3>1, <3>4, <3>5 DEF Add
  <2>4. CASE Send(c)
    <3>1. CASE server[c] \in closing \cup shut /\ Returns(c, "sending", "failed")
      BY <1>a, <2>4, <3>1 DEF Send, Returns
    <3>2. CASE At(c, "sending", "encoding") /\ UNCHANGED kept
      BY <1>a, <2>4, <3>2 DEF Send
    <3> QED BY <2>4, <3>1, <3>2 DEF Send
  <2>5. CASE Encode(c)
    <3>1. /\ stage[c] = "encoding" /\ stage' = [stage EXCEPT ![c] = "waiting"]
          /\ UNCHANGED <<number, server, pending, handed, closing, donec, kept>>
      BY <2>5 DEF Encode
    <3> QED BY <1>a, <3>1
  <2>6. CASE EncodeFails(c) \/ TimesOut(c)
    <3>1. /\ stage[c] \in {"encoding", "waiting"} /\ stage' = [stage EXCEPT ![c] = "done"]
          /\ kept' = [kept EXCEPT ![c] = "failed"]
          /\ UNCHANGED <<number, server, pending, handed, closing, donec>>
      BY <2>6 DEF EncodeFails, TimesOut, Returns
    <3> QED BY <1>a, <3>1
  <2>7. CASE Answered(c)
    <3>1. Drained(handed[c]) = Zero => server[c] \in closing
      BY DEF Drained
    <3> QED BY <1>a, <2>7, <3>1 DEF Answered, Returns
  <2>8. CASE PoolEnded(c)
    BY <1>a, <2>8 DEF PoolEnded, Returns
  <2> QED BY <1>1, <2>1, <2>2, <2>3, <2>4, <2>5, <2>6, <2>7, <2>8 DEF CallSteps
<1>2. ASSUME UNCHANGED <<stage, number, server, kept>>, pending' \subseteq pending,
             closing \subseteq closing', donec => donec',
             \A c \in Calls :
               \/ handed'[c] = handed[c]
               \/ stage[c] \in Sent /\ (handed'[c] = Zero => server[c] \in closing)
      PROVE  ServedInv'
  <2>1. \A c \in Calls : Entry(c)' = Entry(c)
    BY <1>2 DEF Entry
  <2> QED BY <1>2, <2>1
<1>3. ASSUME NEW d \in Pool, Respond(d) PROVE ServedInv'
  <2>1. instance[d] \in Calls /\ instance[d] # Zero
    BY <1>3 DEF Respond
  <2>2. \A c \in Calls :
          handed'[c] = handed[c] \/ (stage[c] \in Sent /\ handed'[c] = instance[d])
    BY <1>3 DEF Respond, Handed, Under
  <2>3. /\ pending' \subseteq pending
        /\ UNCHANGED <<stage, number, server, kept, closing, donec>>
    BY <1>3 DEF Respond
  <2> QED BY <1>2, <2>1, <2>2, <2>3
<1>4. ASSUME NEW d \in Pool, InputEnds(d) PROVE ServedInv'
  <2>1. \A c \in Calls : (\E e \in pending : e.at = d /\ e.call = c) => stage[c] \in Sent /\ server[c] \in closing
    BY <1>4 DEF InputEnds, Entry
  <2>2. \A c \in Calls :
          handed'[c] = handed[c] \/ (stage[c] \in Sent /\ server[c] \in closing)
    BY <1>4, <2>1 DEF InputEnds
  <2> QED BY <1>2, <1>4, <2>2 DEF InputEnds
<1>5. ASSUME NEW d \in Pool, Elsewhere(d) PROVE ServedInv'
  BY <1>2, <1>5 DEF Elsewhere, Trap, CloseNext, InstanceEnds
<1>6. CASE RunReturns \/ UNCHANGED warpcVars
  BY <1>2, <1>6 DEF RunReturns, warpcVars
<1> QED BY <1>1, <1>3, <1>4, <1>5, <1>6 DEF WarpcNext, PoolSteps, Elsewhere

\* EmptyOnlyAfterEnd: while the pool serves, no formula is kept empty without an
\* error, however many namespaces number their requests alike.
THEOREM EmptyAfterEnd == WarpcSpec => []EmptyOnlyAfterEnd
<1>1. WarpcInit => ServedInv
  BY WarpcAssumption DEF WarpcInit, ServedInv, EmptyOnlyAfterEnd
<1>2. ServedInv => EmptyOnlyAfterEnd
  BY DEF ServedInv
<1> QED BY <1>1, <1>2, ServedStep, WarpcTypes, PTL DEF WarpcSpec

-----------------------------------------------------------------------------
\* A namespace numbers its requests apart.
NumbersInv ==
  /\ \A c \in Calls : stage[c] # "idle" => number[c] <= counters[Space[c]]
  /\ \A c, d \in Calls :
       stage[c] # "idle" /\ stage[d] # "idle" /\ c # d /\ Space[c] = Space[d] => number[c] # number[d]

\* Two requests that are open under one ID are known to be; the request that an
\* instance works on has been sent.
OpenInv ==
  /\ \A c \in Calls : \A d \in Twins(c) : Unanswered(c) /\ Unanswered(d) => c \in doubled
  /\ \A c \in doubled : stage[c] \in Sent /\ \E d \in Twins(c) : stage[d] \in Sent
  /\ \A d \in Pool : instance[d] \in Calls =>
       server[instance[d]] = d /\ stage[instance[d]] \in {"waiting", "done"}
  /\ shut \subseteq closing

\* The request an instance works on, or that its call is about to send, is
\* pending, unless another has its ID.
SentInv ==
  /\ \A c \in Calls \ doubled :
       stage[c] \in {"sending", "encoding"} => Entry(c) \in pending \/ server[c] \in closing
  /\ \A d \in Pool : instance[d] \in Calls \ doubled => Entry(instance[d]) \in pending

OwnInv ==
  /\ panicked => doubled # {}
  /\ \A c \in Calls \ doubled : kept[c] \in {None, "failed", Zero, c}
  /\ \A c \in Calls \ doubled : handed[c] \in {None, Zero, c}

AnswerInv == NumbersInv /\ OpenInv /\ SentInv /\ OwnInv

\* Numbers stay distinct: a new one is larger than all there are in its namespace.
LEMMA NumbersStep ==
  ASSUME WarpcTypeOK, NumbersInv, [WarpcNext]_warpcVars
  PROVE  NumbersInv'
<1> USE WarpcAssumption DEF WarpcTypeOK, At, callVars, poolVars, Stages, NumbersInv
<1>1. ASSUME NEW c \in Calls, Number(c) PROVE NumbersInv'
  <2> DEFINE next == counters[Space[c]] + 1
  <2>1. /\ next \in Nat /\ stage' = [stage EXCEPT ![c] = "numbered"]
        /\ counters' = [counters EXCEPT ![Space[c]] = next]
        /\ number' = [number EXCEPT ![c] = next]
    <3>1. Space[c] \in Namespaces /\ counters[Space[c]] \in Nat
      OBVIOUS
    <3>2. counters' = [counters EXCEPT ![Space[c]] = next] /\ counters'[Space[c]] = next
      BY <1>1, <3>1 DEF Number
    <3> QED BY <1>1, <3>1, <3>2 DEF Number
  <2>2. \A d \in Calls \ {c} :
          stage'[d] # "idle" => number'[d] = number[d] /\ (Space[d] = Space[c] => number[d] < next)
    BY <2>1
  <2>3. /\ number'[c] = next
        /\ \A d \in Calls : counters'[Space[d]] = IF Space[d] = Space[c] THEN next ELSE counters[Space[d]]
    BY <2>1
  <2>4. \A d \in Calls : number[d] \in Nat
    OBVIOUS
  <2>5. \A d \in Calls : stage'[d] # "idle" => number'[d] <= counters'[Space[d]]
    BY <2>1, <2>2, <2>3, <2>4
  <2>6. ASSUME NEW d \in Calls, NEW e \in Calls, stage'[d] # "idle", stage'[e] # "idle", d # e,
               Space[d] = Space[e]
        PROVE  number'[d] # number'[e]
    <3>1. CASE d # c /\ e # c
      BY <2>1, <2>6, <3>1
    <3>2. CASE d = c \/ e = c
      BY <2>2, <2>3, <2>4, <2>6, <3>2
    <3> QED BY <3>1, <3>2
  <2> QED BY <2>5, <2>6
<1>2. CASE UNCHANGED <<counters, number>> /\ \A c \in Calls : stage'[c] = "idle" <=> stage[c] = "idle"
  BY <1>2
<1>3. ASSUME NEW c \in Calls, CallSteps(c), ~Number(c)
      PROVE  UNCHANGED <<counters, number>> /\ \A d \in Calls : stage'[d] = "idle" <=> stage[d] = "idle"
  BY <1>3 DEF CallSteps, GetDispatcher, Add, Send, Encode, EncodeFails, Answered, PoolEnded,
              TimesOut, Returns
<1>4. ASSUME NEW d \in Pool, PoolSteps(d) \/ Trap(d) \/ CloseNext(d)
      PROVE  UNCHANGED <<counters, number, stage>>
  BY <1>4 DEF PoolSteps, Respond, InputEnds, InstanceEnds, Trap, CloseNext
<1>5. CASE RunReturns \/ UNCHANGED warpcVars
  BY <1>2, <1>5 DEF RunReturns, warpcVars
<1> QED BY <1>1, <1>2, <1>3, <1>4, <1>5 DEF WarpcNext

\* A call whose ID or dispatcher is not settled has nothing open.
LEMMA Unsent ==
  ASSUME WarpcTypeOK, ServedInv, OpenInv, NEW c \in Calls, stage[c] \in {"idle", "numbered", "adding"}
  PROVE  /\ ~Unanswered(c) /\ c \notin doubled /\ handed[c] = None /\ kept[c] = None
         /\ \A e \in pending : e.call # c
         /\ \A d \in Pool : instance[d] # c
         /\ \A d \in doubled : \E e \in Twins(d) : e # c /\ stage[e] \in Sent
<1> USE WarpcAssumption DEF WarpcTypeOK, ServedInv, OpenInv, Sent
<1>1. \A e \in pending : e.call # c
  OBVIOUS
<1>2. Entry(c) \notin pending
  BY <1>1 DEF Entry
<1>3. \A d \in Pool : instance[d] # c
  OBVIOUS
<1> QED BY <1>1, <1>2, <1>3 DEF Unanswered, Twins

\* Two requests are open under one ID only if the later was added while the
\* earlier was open, and then both are doubled.
LEMMA OpenStep ==
  ASSUME WarpcTypeOK, ServedInv, OpenInv, [WarpcNext]_warpcVars
  PROVE  OpenInv'
<1> USE WarpcAssumption DEF WarpcTypeOK, At, callVars, poolVars, Stages, Sent
\* Nothing is opened.
<1>a. ASSUME UNCHANGED <<number, server, doubled>>,
             \A c \in Calls : Unanswered(c)' => Unanswered(c),
             \A c \in Calls : stage[c] \in Sent => stage'[c] \in Sent,
             \A d \in Pool : instance'[d] \in Calls =>
               server[instance'[d]] = d /\ stage'[instance'[d]] \in {"waiting", "done"},
             shut' \subseteq closing'
      PROVE  OpenInv'
  <2>1. \A c \in Calls : Twins(c)' = Twins(c)
    BY <1>a DEF Twins
  <2> QED BY <1>a, <2>1 DEF OpenInv, Twins
\* The number or the dispatcher of a call is settled.
<1>b. ASSUME NEW c \in Calls, stage[c] \in {"idle", "numbered"},
             UNCHANGED <<pending, instance, closing, shut, doubled>>,
             \A d \in Calls \ {c} : /\ stage'[d] = stage[d]
                                    /\ number'[d] = number[d] /\ server'[d] = server[d],
             stage'[c] = "sending" => server'[c] \in closing,
             stage'[c] \in {"numbered", "adding", "sending"}, server'[c] \in Pool
      PROVE  OpenInv'
  <2>1. /\ ~Unanswered(c) /\ c \notin doubled
        /\ \A e \in pending : e.call # c
        /\ \A d \in Pool : instance[d] # c
        /\ \A d \in doubled : \E e \in Twins(d) : e # c /\ stage[e] \in Sent
    BY <1>b, Unsent
  <2>2. \A d \in Calls \ {c} : Unanswered(d)' = Unanswered(d) /\ \A e \in Calls \ {c} : e \in Twins(d)' <=> e \in Twins(d)
    BY <1>b DEF Unanswered, Entry, Twins
  <2>3. ~Unanswered(c)'
    <3>1. Entry(c)' \notin pending'
      BY <1>b, <2>1 DEF Entry
    <3> QED BY <1>b, <2>1, <3>1 DEF Unanswered
  <2>4. \A d \in Calls : \A e \in Twins(d)' : Unanswered(d)' /\ Unanswered(e)' => d \in doubled'
    <3> SUFFICES ASSUME NEW d \in Calls, NEW e \in Twins(d)', Unanswered(d)', Unanswered(e)' PROVE d \in doubled'
      OBVIOUS
    <3>1. d # c /\ e # c /\ e \in Calls
      BY <2>3 DEF Twins
    <3> QED BY <1>b, <2>2, <3>1 DEF OpenInv
  <2>5. \A d \in doubled' : stage'[d] \in Sent /\ \E e \in Twins(d)' : stage'[e] \in Sent
    <3> SUFFICES ASSUME NEW d \in doubled PROVE stage'[d] \in Sent /\ \E e \in Twins(d)' : stage'[e] \in Sent
      BY <1>b
    <3>1. d \in Calls \ {c} /\ stage[d] \in Sent
      BY <2>1 DEF OpenInv
    <3>2. PICK e \in Twins(d) : e # c /\ stage[e] \in Sent
      BY <2>1
    <3>3. e \in Calls \ {c} /\ e \in Twins(d)'
      BY <2>2, <3>1, <3>2 DEF Twins
    <3> QED BY <1>b, <3>1, <3>2, <3>3
  <2>6. \A d \in Pool : instance'[d] \in Calls =>
          server'[instance'[d]] = d /\ stage'[instance'[d]] \in {"waiting", "done"}
    BY <1>b, <2>1 DEF OpenInv
  <2> QED BY <1>b, <2>4, <2>5, <2>6 DEF OpenInv
<1>1. ASSUME NEW c \in Calls, CallSteps(c) PROVE OpenInv'
  <2>1. CASE Number(c)
    BY <1>b, <2>1 DEF Number
  <2>2. CASE GetDispatcher(c)
    <3>1. /\ server'[c] \in Pool /\ stage'[c] \in {"adding", "sending"}
          /\ stage'[c] = "sending" => server'[c] \in closing \cup shut
      BY <2>2, InPool DEF GetDispatcher
    <3>2. \A d \in Calls \ {c} : server'[d] = server[d] /\ stage'[d] = stage[d]
      BY <2>2 DEF GetDispatcher
    <3>3. stage[c] = "numbered" /\ UNCHANGED <<number, pending, instance, closing, shut, doubled>>
      BY <2>2 DEF GetDispatcher
    <3> QED BY <1>b, <3>1, <3>2, <3>3 DEF OpenInv
  <2>3. CASE Add(c)
    <3> DEFINE met == {d \in Twins(c) : Unanswered(d)}
    <3>1. /\ stage[c] = "adding" /\ stage' = [stage EXCEPT ![c] = "sending"]
          /\ pending' = (pending \ Under(server[c], number[c])) \cup {Entry(c)}
          /\ doubled' = doubled \cup met \cup {d \in {c} : met # {}}
          /\ UNCHANGED <<number, server, instance, closing, shut>>
      BY <2>3 DEF Add
    <3>2. ~Unanswered(c) /\ \A d \in Pool : instance[d] # c
      BY <3>1, Unsent
    <3>3. \A d \in Calls : Entry(d)' = Entry(d) /\ Entry(d).call = d /\ Twins(d)' = Twins(d)
      BY <3>1 DEF Entry, Twins
    <3>4. \A d \in Calls \ {c} : Unanswered(d)' => Unanswered(d)
      BY <3>1, <3>3 DEF Unanswered
    <3>5. \A d \in Twins(c) : c \in Twins(d) /\ d \in Calls \ {c}
      BY DEF Twins
    <3>6. \A d \in Calls : \A e \in Twins(d) : Unanswered(d)' /\ Unanswered(e)' => d \in doubled'
      <4> SUFFICES ASSUME NEW d \in Calls, NEW e \in Twins(d), Unanswered(d)', Unanswered(e)' PROVE d \in doubled'
        OBVIOUS
      <4>1. e \in Calls \ {d} /\ d \in Twins(e)
        BY DEF Twins
      <4>2. CASE d = c
        <5>1. e \in met
          BY <3>4, <4>1, <4>2
        <5> QED BY <3>1, <4>2, <5>1
      <4>3. CASE e = c
        <5>1. d \in met
          BY <3>4, <4>1, <4>3
        <5> QED BY <3>1, <5>1
      <4>4. CASE d # c /\ e # c
        BY <3>1, <3>4, <4>1, <4>4 DEF OpenInv
      <4> QED BY <4>2, <4>3, <4>4
    <3>7. \A d \in met : stage[d] \in Sent
      BY <3>5 DEF Unanswered, ServedInv, OpenInv, Entry, Twins
    <3>8. \A d \in doubled' : stage'[d] \in Sent /\ \E e \in Twins(d) : stage'[e] \in Sent
      <4> SUFFICES ASSUME NEW d \in doubled' PROVE stage'[d] \in Sent /\ \E e \in Twins(d) : stage'[e] \in Sent
        OBVIOUS
      <4>1. \A e \in Calls : stage[e] \in Sent \/ e = c => stage'[e] \in Sent
        BY <3>1
      <4>2. CASE d \in doubled
        <5>1. PICK e \in Twins(d) : stage[e] \in Sent
          BY <4>2 DEF OpenInv
        <5>2. e \in Calls /\ d \in Calls /\ stage[d] \in Sent
          BY <4>2, <5>1 DEF OpenInv, Twins
        <5> QED BY <4>1, <5>1, <5>2
      <4>3. CASE d \in met
        BY <3>5, <3>7, <4>1, <4>3
      <4>4. CASE d = c /\ met # {}
        <5>1. PICK e \in met : TRUE
          BY <4>4
        <5>2. e \in Twins(c) /\ e \in Calls /\ stage'[e] \in Sent
          BY <3>5, <3>7, <4>1, <5>1
        <5> QED BY <4>1, <4>4, <5>2
      <4> QED BY <3>1, <4>2, <4>3, <4>4
    <3>9. \A d \in Pool : instance'[d] \in Calls =>
            server'[instance'[d]] = d /\ stage'[instance'[d]] \in {"waiting", "done"}
      BY <3>1, <3>2 DEF OpenInv
    <3>10. \A d \in Calls : \A e \in Twins(d)' : Unanswered(d)' /\ Unanswered(e)' => d \in doubled'
      BY <3>3, <3>6
    <3>11. \A d \in doubled' : stage'[d] \in Sent /\ \E e \in Twins(d)' : stage'[e] \in Sent
      BY <3>1, <3>3, <3>5, <3>8
    <3> QED BY <3>1, <3>9, <3>10, <3>11 DEF OpenInv
  <2>4. CASE Send(c)
    <3>1. /\ stage[c] = "sending" /\ \E next \in {"encoding", "done"} : stage' = [stage EXCEPT ![c] = next]
          /\ UNCHANGED <<number, server, doubled, pending, instance, closing, shut>>
      BY <2>4 DEF Send, Returns
    <3>2. \A d \in Calls : Unanswered(d)' => Unanswered(d)
      BY <3>1 DEF Unanswered, Entry
    <3> QED BY <1>a, <3>1, <3>2 DEF OpenInv
  <2>5. CASE Encode(c)
    <3>1. /\ stage[c] = "encoding" /\ stage' = [stage EXCEPT ![c] = "waiting"]
          /\ server[c] \notin closing /\ instance' = [instance EXCEPT ![server[c]] = c]
          /\ UNCHANGED <<number, server, doubled, pending, closing, shut>>
      BY <2>5 DEF Encode
    <3>2. Unanswered(c)
      BY <3>1 DEF Unanswered
    <3>3. \A d \in Calls : Unanswered(d)' => Unanswered(d)
      <4> SUFFICES ASSUME NEW d \in Calls, d # c, Unanswered(d)' PROVE Unanswered(d)
        BY <3>2
      <4> QED BY <3>1 DEF Unanswered, Entry
    <3> QED BY <1>a, <3>1, <3>3 DEF OpenInv
  <2>6. CASE EncodeFails(c) \/ TimesOut(c) \/ Answered(c) \/ PoolEnded(c)
    <3>1. /\ stage[c] \in {"encoding", "waiting"} /\ stage' = [stage EXCEPT ![c] = "done"]
          /\ UNCHANGED <<number, server, doubled, pending, instance, closing, shut>>
      BY <2>6 DEF EncodeFails, TimesOut, Answered, PoolEnded, Returns
    <3>2. \A d \in Calls : Unanswered(d)' => Unanswered(d)
      BY <3>1 DEF Unanswered, Entry
    <3> QED BY <1>a, <3>1, <3>2 DEF OpenInv
  <2> QED BY <1>1, <2>1, <2>2, <2>3, <2>4, <2>5, <2>6 DEF CallSteps
\* A step of the pool closes what it touches.
<1>c. ASSUME UNCHANGED <<stage, number, server, doubled>>, pending' \subseteq pending,
             closing \subseteq closing', shut' \subseteq closing',
             \A d \in Pool : instance'[d] \in Calls => instance'[d] = instance[d]
      PROVE  OpenInv'
  <2>1. \A c \in Calls : Unanswered(c)' => Unanswered(c)
    BY <1>c DEF Unanswered, Entry
  <2> QED BY <1>a, <1>c, <2>1 DEF OpenInv
<1>2. ASSUME NEW d \in Pool, Respond(d) \/ InputEnds(d) PROVE OpenInv'
  BY <1>c, <1>2 DEF Respond, InputEnds, OpenInv
<1>3. ASSUME NEW d \in Pool, Elsewhere(d) PROVE OpenInv'
  BY <1>c, <1>3 DEF Elsewhere, Trap, CloseNext, InstanceEnds, OpenInv
<1>4. CASE RunReturns \/ UNCHANGED warpcVars
  BY <1>c, <1>4 DEF RunReturns, warpcVars, OpenInv
<1> QED BY <1>1, <1>2, <1>3, <1>4 DEF WarpcNext, PoolSteps, Elsewhere

\* The entry of a call that is not doubled goes only with its own response.
LEMMA SentStep ==
  ASSUME WarpcTypeOK, ServedInv, OpenInv, SentInv, [WarpcNext]_warpcVars
  PROVE  SentInv'
<1> USE WarpcAssumption DEF WarpcTypeOK, At, callVars, poolVars, Stages, SentInv
<1>1. ASSUME NEW c \in Calls, CallSteps(c) PROVE SentInv'
  <2>1. CASE Number(c) \/ GetDispatcher(c)
    <3>1. stage[c] \in {"idle", "numbered"}
      BY <2>1 DEF Number, GetDispatcher
    <3>2. \A d \in Pool : instance[d] # c
      BY <3>1, Unsent
    <3>3. \A d \in Calls \ {c} : Entry(d)' = Entry(d) /\ stage'[d] = stage[d] /\ server'[d] = server[d]
      BY <2>1 DEF Number, GetDispatcher, Entry
    <3>4. stage'[c] = "sending" => server'[c] \in closing
      BY <2>1, InPool DEF Number, GetDispatcher, OpenInv
    <3>5. stage'[c] # "encoding" /\ UNCHANGED <<pending, instance, closing, doubled>>
      BY <2>1 DEF Number, GetDispatcher
    <3> QED BY <3>2, <3>3, <3>4, <3>5
  <2>3. CASE Add(c)
    <3>1. /\ stage[c] = "adding" /\ stage' = [stage EXCEPT ![c] = "sending"]
          /\ pending' = (pending \ Under(server[c], number[c])) \cup {Entry(c)}
          /\ doubled \subseteq doubled' /\ {d \in Twins(c) : Unanswered(d)} \subseteq doubled'
          /\ UNCHANGED <<number, server, instance, closing>>
      BY <2>3 DEF Add
    <3>2. \A d \in Calls : /\ Entry(d)' = Entry(d) /\ Entry(d).at = server[d]
                           /\ Entry(d).id = number[d] /\ Entry(d).call = d
      BY <3>1 DEF Entry
    <3>3. \A d \in Calls \ doubled' : Entry(d) \in pending => Entry(d) \in pending'
      <4> SUFFICES ASSUME NEW d \in Calls \ doubled', Entry(d) \in pending PROVE Entry(d) \in pending'
        OBVIOUS
      <4>1. d = c \/ d \notin Twins(c)
        BY <3>1 DEF Unanswered
      <4> QED BY <3>1, <3>2, <4>1 DEF Twins, Under
    <3>4. Entry(c)' \in pending' /\ \A d \in Pool : instance[d] # c
      BY <3>1, <3>2, Unsent
    <3> QED BY <3>1, <3>2, <3>3, <3>4
  <2>4. CASE Send(c)
    <3>1. \A d \in Calls : Entry(d)' = Entry(d)
      BY <2>4 DEF Send, Entry
    <3> QED BY <2>4, <3>1 DEF Send, Returns
  <2>5. CASE Encode(c)
    <3>1. \A d \in Calls : Entry(d)' = Entry(d)
      BY <2>5 DEF Encode, Entry
    <3> QED BY <2>5, <3>1 DEF Encode
  <2>6. CASE EncodeFails(c) \/ TimesOut(c) \/ Answered(c) \/ PoolEnded(c)
    <3>1. \A d \in Calls : Entry(d)' = Entry(d)
      BY <2>6 DEF EncodeFails, TimesOut, Answered, PoolEnded, Entry
    <3> QED BY <2>6, <3>1 DEF EncodeFails, TimesOut, Answered, PoolEnded, Returns
  <2> QED BY <1>1, <2>1, <2>3, <2>4, <2>5, <2>6 DEF CallSteps
<1>2. ASSUME NEW d \in Pool, Respond(d) PROVE SentInv'
  <2> DEFINE q == instance[d]
  <2>1. /\ q \in Calls /\ server[q] = d /\ stage[q] \in {"waiting", "done"}
        /\ pending' = pending \ Under(d, number[q])
        /\ instance' = [instance EXCEPT ![d] = "ready"]
        /\ UNCHANGED <<stage, number, server, closing, doubled>>
    BY <1>2 DEF Respond, OpenInv
  <2>2. \A e \in Calls \ doubled : e # q /\ Entry(e) \in pending => Entry(e) \in pending'
    <3> SUFFICES ASSUME NEW e \in Calls \ doubled, e # q, Entry(e) \in pending PROVE Entry(e) \in pending'
      OBVIOUS
    <3>1. Unanswered(e) /\ Unanswered(q)
      BY <2>1 DEF Unanswered
    <3>2. q \notin Twins(e)
      BY <3>1 DEF OpenInv
    <3>3. Entry(e).at = server[e] /\ Entry(e).id = number[e]
      BY DEF Entry
    <3> QED BY <2>1, <3>2, <3>3 DEF Under, Twins
  <2>3. \A e \in Pool : instance'[e] \in Calls => e # d /\ instance'[e] = instance[e] /\ instance[e] # q
    BY <2>1 DEF OpenInv
  <2>4. \A e \in Calls : stage[e] \in {"sending", "encoding"} => e # q
    BY <2>1
  <2>5. \A e \in Calls : Entry(e)' = Entry(e)
    BY <2>1 DEF Entry
  <2> QED BY <2>1, <2>2, <2>3, <2>4, <2>5
\* The other steps take no instance to work and no entry away.
<1>3. ASSUME UNCHANGED <<stage, number, server, pending, doubled>>, closing \subseteq closing',
             \A d \in Pool : instance'[d] \in Calls => instance'[d] = instance[d]
      PROVE  SentInv'
  <2>1. \A d \in Calls : Entry(d)' = Entry(d)
    BY <1>3 DEF Entry
  <2> QED BY <1>3, <2>1
<1>4. ASSUME NEW d \in Pool, InputEnds(d) \/ Elsewhere(d) PROVE SentInv'
  BY <1>3, <1>4 DEF InputEnds, Elsewhere, Trap, CloseNext, InstanceEnds
<1>5. CASE RunReturns \/ UNCHANGED warpcVars
  BY <1>3, <1>5 DEF RunReturns, warpcVars
<1> QED BY <1>1, <1>2, <1>4, <1>5 DEF WarpcNext, PoolSteps, Elsewhere

\* Only Respond hands an answer over, and it finds the call it works for, and no
\* other that is not doubled.
LEMMA OwnStep ==
  ASSUME WarpcTypeOK, ServedInv, OpenInv, SentInv, OwnInv, [WarpcNext]_warpcVars
  PROVE  OwnInv'
<1> USE WarpcAssumption DEF WarpcTypeOK, At, callVars, poolVars, Stages, OwnInv
<1>1. ASSUME NEW c \in Calls, CallSteps(c) PROVE OwnInv'
  BY <1>1 DEF CallSteps, Number, GetDispatcher, Add, Send, Encode, EncodeFails, Answered,
              PoolEnded, TimesOut, Returns, Drained
<1>2. ASSUME NEW d \in Pool, Respond(d) PROVE OwnInv'
  <2> DEFINE q == instance[d]
  <2>1. q \in Calls /\ server[q] = d /\ (q \notin doubled => Entry(q) \in pending)
    BY <1>2 DEF Respond, SentInv, OpenInv
  <2>2. \A e \in Under(d, number[q]) : e.call \notin doubled => e.call = q
    <3> SUFFICES ASSUME NEW e \in Under(d, number[q]), e.call \notin doubled, e.call # q PROVE FALSE
      OBVIOUS
    <3>1. e \in pending /\ e.call \in Calls /\ e = Entry(e.call)
      BY DEF Under, ServedInv
    <3>2. server[e.call] = d /\ number[e.call] = number[q]
      BY <3>1 DEF Under, Entry
    <3>3. Unanswered(e.call) /\ Unanswered(q) /\ q \in Twins(e.call)
      BY <2>1, <3>1, <3>2 DEF Unanswered, Twins
    <3> QED BY <3>1, <3>3 DEF OpenInv
  <2>3. Entry(q) \in pending => Entry(q) \in Under(d, number[q])
    BY <2>1 DEF Under, Entry
  <2>4. panicked' => doubled' # {}
    BY <1>2, <2>1, <2>3 DEF Respond
  <2>5. \A c \in Calls \ doubled : handed'[c] \in {handed[c]} \cup {r \in {q} : c = q}
    BY <1>2, <2>2 DEF Respond, Handed
  <2>6. UNCHANGED <<kept, doubled>>
    BY <1>2 DEF Respond
  <2> QED BY <2>4, <2>5, <2>6
<1>3. ASSUME NEW d \in Pool, InputEnds(d) PROVE OwnInv'
  <2>1. \A c \in Calls : handed'[c] \in {handed[c], Zero}
    BY <1>3 DEF InputEnds, Handed
  <2> QED BY <1>3, <2>1 DEF InputEnds
<1>4. ASSUME NEW d \in Pool, Elsewhere(d) PROVE OwnInv'
  BY <1>4 DEF Elsewhere, Trap, CloseNext, InstanceEnds
<1>5. CASE RunReturns \/ UNCHANGED warpcVars
  BY <1>5 DEF RunReturns, warpcVars
<1> QED BY <1>1, <1>2, <1>3, <1>4, <1>5 DEF WarpcNext, PoolSteps, Elsewhere

\* OwnAnswers: whatever times out, traps or is closed, for any namespaces, a
\* formula is rendered as another, or a reader panics, only after two requests of
\* two namespaces were at one dispatcher under one ID.
THEOREM AnswersOwn == WarpcSpec => []OwnAnswers
<1>1. ASSUME WarpcInit PROVE ServedInv /\ AnswerInv
  <2>1. \A c \in Calls : ~Unanswered(c)
    <3> SUFFICES ASSUME NEW c \in Calls PROVE ~Unanswered(c)
      OBVIOUS
    <3>1. server[c] \in Pool /\ instance[server[c]] = "ready" /\ "ready" # c
      BY <1>1, WarpcTypeInit, WarpcAssumption DEF WarpcInit, WarpcTypeOK
    <3> QED BY <1>1, <3>1 DEF WarpcInit, Unanswered
  <2>2. \A d \in Pool : instance[d] \notin Calls
    BY <1>1, WarpcAssumption DEF WarpcInit
  <2>3. ServedInv /\ NumbersInv
    BY <1>1, WarpcAssumption DEF WarpcInit, ServedInv, EmptyOnlyAfterEnd, NumbersInv
  <2>4. OpenInv /\ SentInv
    BY <1>1, <2>1, <2>2 DEF WarpcInit, OpenInv, SentInv
  <2>5. OwnInv
    BY <1>1 DEF WarpcInit, OwnInv
  <2> QED BY <2>3, <2>4, <2>5 DEF AnswerInv
<1>2. WarpcTypeOK /\ ServedInv /\ AnswerInv /\ [WarpcNext]_warpcVars => AnswerInv'
  BY NumbersStep, OpenStep, SentStep, OwnStep DEF AnswerInv
<1>3. WarpcTypeOK /\ AnswerInv => OwnAnswers
  <2> SUFFICES ASSUME WarpcTypeOK, AnswerInv PROVE OwnAnswers
    OBVIOUS
  <2>1. \A c \in doubled : \E d \in Twins(c) : Space[d] # Space[c]
    <3> SUFFICES ASSUME NEW c \in doubled PROVE \E d \in Twins(c) : Space[d] # Space[c]
      OBVIOUS
    <3>1. PICK d \in Twins(c) : stage[d] \in Sent /\ stage[c] \in Sent
      BY DEF AnswerInv, OpenInv
    <3>2. Space[d] # Space[c]
      BY <3>1 DEF AnswerInv, NumbersInv, Twins, Sent, WarpcTypeOK
    <3> QED BY <3>1, <3>2
  <2> QED BY <2>1 DEF AnswerInv, OwnInv, OwnAnswers
<1> QED BY <1>1, <1>2, <1>3, ServedStep, WarpcTypes, PTL DEF WarpcSpec

\* AnswersFit: a call gets its own answer, an error, or nothing once the pool has
\* ended, where the property says so.
THEOREM AllAnswersFit == WarpcSpec => []AnswersFit
BY AnswersOwn, EmptyAfterEnd, PTL DEF AnswersFit

-----------------------------------------------------------------------------
(* FileCache, for any users, files and tasks.                               *)

\* A step keeps the types.
LEMMA FileCacheTypeStep == FileCacheTypeOK /\ [FileCacheNext]_fileVars => FileCacheTypeOK'
<1> SUFFICES ASSUME FileCacheTypeOK, [FileCacheNext]_fileVars PROVE FileCacheTypeOK'
  OBVIOUS
<1> USE FileCacheAssumption DEF FileCacheTypeOK, Goes, Ends
<1>1. ASSUME NEW u \in Users, Uses(u) PROVE FileCacheTypeOK'
  <2>1. CASE Ask(u)
    <3>1. on[u] \in Files
      OBVIOUS
    <3>2. seen' \subseteq Files
      BY <2>1, <3>1 DEF Ask
    <3> QED BY <2>1, <3>2 DEF Ask
  <2>2. CASE Take(u)
    BY <2>2 DEF Take
  <2>3. CASE Misses(u)
    BY <2>3 DEF Misses
  <2>4. CASE Gets(u)
    <3>1. Seen(on[u]) \in {"torn", "whole"}
      BY DEF Seen
    <3> QED BY <2>4, <3>1 DEF Gets
  <2>5. CASE GetsMeta(u)
    <3>1. seen' \subseteq Files /\ on' \in [Users -> Files]
      BY <2>5 DEF GetsMeta
    <3>2. /\ step' \in [Users -> {"idle", "asking", "looking", "creating", "writing", "done"}]
          /\ got' \in [Users -> {"whole", "torn", "own", "failed", "nothing"}]
          /\ lock' \in [Files -> Users \cup {None}]
      BY <2>5 DEF GetsMeta
    <3>3. UNCHANGED <<task, file, cut, crashes>>
      BY <2>5 DEF GetsMeta
    <3> QED BY <3>1, <3>2, <3>3
  <2>6. CASE Reads(u)
    <3>1. Seen(on[u]) \in {"torn", "whole"}
      BY DEF Seen
    <3>2. UNCHANGED <<task, file, seen, on, cut, crashes>>
      BY <2>6 DEF Reads
    <3>3. CASE Ends(u, "looking", Seen(on[u]))
      BY <3>1, <3>2, <3>3
    <3>4. CASE Goes(u, "looking", "creating") /\ UNCHANGED <<lock, got>>
      BY <3>2, <3>4
    <3> QED BY <2>6, <3>3, <3>4 DEF Reads
  <2>7. CASE CreateFails(u)
    BY <2>7 DEF CreateFails
  <2>8. CASE Opens(u)
    BY <2>8 DEF Opens
  <2>9. CASE Writes(u)
    <3>1. file' \in [Files -> {"none", "part", "whole", "expired"}]
      <4>1. file' = [file EXCEPT ![on[u]] = "whole"]
        BY <2>9 DEF Writes
      <4> QED BY <4>1
    <3>4. seen' \subseteq Files /\ on' \in [Users -> Files]
      <4>1. \/ seen' = seen \cup {Content} /\ on' = [on EXCEPT ![u] = Content]
            \/ seen' = seen /\ on' = on
        BY <2>9 DEF Writes
      <4> QED BY <4>1
    <3>2. /\ step' \in [Users -> {"idle", "asking", "looking", "creating", "writing", "done"}]
          /\ got' \in [Users -> {"whole", "torn", "own", "failed", "nothing"}]
          /\ lock' \in [Files -> Users \cup {None}]
      BY <2>9 DEF Writes
    <3>3. UNCHANGED <<task, cut, crashes>>
      BY <2>9 DEF Writes
    <3> QED BY <3>1, <3>2, <3>3, <3>4
  <2>10. CASE WriteCut(u)
    <3>1. cut' = cut \cup {on[u]} /\ UNCHANGED <<task, file, seen, on, crashes>>
      BY <2>10 DEF WriteCut
    <3>2. CASE Goes(u, "writing", "done") /\ got' = [got EXCEPT ![u] = "failed"] /\ UNCHANGED lock
      BY <3>1, <3>2
    <3>3. ASSUME NEW result \in AfterCut(u), Ends(u, "writing", result) PROVE FileCacheTypeOK'
      <4>1. result \in {"own", "torn", "failed"}
        BY <3>3 DEF AfterCut
      <4> QED BY <3>1, <3>3, <4>1
    <3> QED BY <2>10, <3>2, <3>3 DEF WriteCut
  <2> QED BY <1>1, <2>1, <2>2, <2>3, <2>4, <2>5, <2>6, <2>7, <2>8, <2>9, <2>10 DEF Uses
<1>2. ASSUME NEW f \in Files, Expires(f) \/ Prune(f) PROVE FileCacheTypeOK'
  BY <1>2 DEF Expires, Prune
<1>3. CASE Crash
  BY <1>3 DEF Crash
<1>4. CASE UNCHANGED fileVars
  BY <1>4 DEF fileVars
<1> QED BY <1>1, <1>2, <1>3, <1>4 DEF FileCacheNext

LEMMA FileCacheTypeInit == FileCacheInit => FileCacheTypeOK
<1> SUFFICES ASSUME FileCacheInit PROVE FileCacheTypeOK
  OBVIOUS
<1>1. task \in Tasks /\ on \in [Users -> Files]
  BY FileCacheAssumption DEF FileCacheInit
<1>2. /\ file \in [Files -> {"none", "part", "whole", "expired"}]
      /\ lock \in [Files -> Users \cup {None}] /\ crashes \in Nat
      /\ step \in [Users -> {"idle", "asking", "looking", "creating", "writing", "done"}]
      /\ got \in [Users -> {"whole", "torn", "own", "failed", "nothing"}]
  BY DEF FileCacheInit
<1>3. seen \subseteq Files /\ cut \subseteq Files
  BY DEF FileCacheInit
<1> QED BY <1>1, <1>2, <1>3 DEF FileCacheTypeOK

\* Every variable of the file cache and its users has its type.
THEOREM FileCacheTypes == FileCacheSpec => []FileCacheTypeOK
BY FileCacheTypeInit, FileCacheTypeStep, PTL DEF FileCacheSpec

-----------------------------------------------------------------------------
\* Who is at a file has its lock, and who goes on to the content still has that
\* of the metadata.
AtMeta(u) ==
  How(u) = "writePair" /\ on[u] = Content /\ step[u] \in {"asking", "creating"}

HolderInv ==
  \A u \in Users :
    /\ step[u] \in {"looking", "creating", "writing"} => lock[on[u]] = u
    /\ AtMeta(u) => lock[Meta] = u
    /\ step[u] = "looking" => How(u) # "writePair"
    /\ step[u] = "idle" => on[u] = task[u].file

\* A file is partial while it is written, and after a write that was cut short.
PartInv ==
  \A f \in Files : file[f] = "part" =>
    f \in cut \/ \E u \in Users : step[u] = "writing" /\ on[u] = f

\* A step keeps HolderInv: a lock is taken when nobody has it, and only its
\* holder gives it back.
LEMMA HolderStep == FileCacheTypeOK /\ HolderInv /\ [FileCacheNext]_fileVars => HolderInv'
<1> SUFFICES ASSUME FileCacheTypeOK, HolderInv, [FileCacheNext]_fileVars PROVE HolderInv'
  OBVIOUS
<1> USE FileCacheAssumption DEF FileCacheTypeOK, HolderInv, AtMeta, How, Pairs, Goes, Ends
<1>1. ASSUME NEW u \in Users, Uses(u) PROVE HolderInv'
  <2>1. CASE Ask(u)
    BY <2>1 DEF Ask
  <2>2. CASE Take(u)
    BY <2>2 DEF Take
  <2>3. CASE Misses(u)
    BY <2>3 DEF Misses
  <2>4. CASE Gets(u)
    BY <2>4 DEF Gets
  <2>5. CASE GetsMeta(u)
    BY <2>5 DEF GetsMeta
  <2>6. CASE Reads(u)
    BY <2>6 DEF Reads
  <2>7. CASE CreateFails(u)
    BY <2>7 DEF CreateFails
  <2>8. CASE Opens(u)
    BY <2>8 DEF Opens
  <2>9. CASE Writes(u)
    BY <2>9 DEF Writes
  <2>10. CASE WriteCut(u)
    BY <2>10 DEF WriteCut, AfterCut
  <2> QED BY <1>1, <2>1, <2>2, <2>3, <2>4, <2>5, <2>6, <2>7, <2>8, <2>9, <2>10 DEF Uses
<1>2. ASSUME NEW f \in Files, Expires(f) \/ Prune(f) PROVE HolderInv'
  BY <1>2 DEF Expires, Prune
<1>3. CASE Crash
  BY <1>3 DEF Crash
<1>4. CASE UNCHANGED fileVars
  BY <1>4 DEF fileVars
<1> QED BY <1>1, <1>2, <1>3, <1>4 DEF FileCacheNext

\* A step keeps PartInv: a writer leaves its file whole, or cut.
LEMMA PartStep ==
  FileCacheTypeOK /\ HolderInv /\ PartInv /\ [FileCacheNext]_fileVars => PartInv'
<1> SUFFICES ASSUME FileCacheTypeOK, HolderInv, PartInv, [FileCacheNext]_fileVars PROVE PartInv'
  OBVIOUS
<1> USE FileCacheAssumption DEF FileCacheTypeOK, PartInv, Goes, Ends
\* Steps of those who do not write leave the writers alone.
<1>a. ASSUME NEW u \in Users, step[u] # "writing", \A v \in Users \ {u} : step'[v] = step[v] /\ on'[v] = on[v],
             cut' = cut, \A f \in Files : file'[f] = "part" => file[f] = "part"
      PROVE  PartInv'
  BY <1>a
<1>1. ASSUME NEW u \in Users, Uses(u) PROVE PartInv'
  <2>1. CASE Ask(u)
    BY <1>a, <2>1 DEF Ask
  <2>2. CASE Take(u)
    BY <1>a, <2>2 DEF Take
  <2>3. CASE Misses(u)
    BY <1>a, <2>3 DEF Misses
  <2>4. CASE Gets(u)
    BY <1>a, <2>4 DEF Gets
  <2>5. CASE GetsMeta(u)
    BY <1>a, <2>5 DEF GetsMeta
  <2>6. CASE Reads(u)
    BY <1>a, <2>6 DEF Reads
  <2>7. CASE CreateFails(u)
    BY <1>a, <2>7 DEF CreateFails
  <2>8. CASE Opens(u)
    <3>1. step'[u] = "writing" /\ on'[u] = on[u]
      BY <2>8 DEF Opens
    <3>2. \A v \in Users : step[v] = "writing" => step'[v] = "writing" /\ on'[v] = on[v]
      BY <2>8 DEF Opens
    <3>3. \A f \in Files \ {on[u]} : file'[f] = file[f] /\ (f \in cut => f \in cut')
      BY <2>8 DEF Opens
    <3> QED BY <3>1, <3>2, <3>3
  <2>9. CASE Writes(u)
    <3>1. file'[on[u]] = "whole" /\ \A f \in Files \ {on[u]} : file'[f] = file[f]
      BY <2>9 DEF Writes
    <3>2. cut' = cut /\ \A v \in Users \ {u} : step'[v] = step[v] /\ on'[v] = on[v]
      BY <2>9 DEF Writes
    <3> SUFFICES ASSUME NEW f \in Files, file'[f] = "part"
                 PROVE  f \in cut' \/ \E v \in Users : step'[v] = "writing" /\ on'[v] = f
      OBVIOUS
    <3>3. f # on[u] /\ file[f] = "part"
      BY <3>1
    <3> QED BY <3>1, <3>2, <3>3
  <2>10. CASE WriteCut(u)
    <3>1. file' = file /\ on' = on /\ cut' = cut \cup {on[u]}
      BY <2>10 DEF WriteCut, AfterCut
    <3>2. \A v \in Users \ {u} : step'[v] = step[v]
      BY <2>10 DEF WriteCut, AfterCut
    <3> QED BY <3>1, <3>2
  <2> QED BY <1>1, <2>1, <2>2, <2>3, <2>4, <2>5, <2>6, <2>7, <2>8, <2>9, <2>10 DEF Uses
<1>2. ASSUME NEW f \in Files, Expires(f) \/ Prune(f) PROVE PartInv'
  BY <1>2 DEF Expires, Prune
<1>3. CASE Crash
  BY <1>3 DEF Crash
<1>4. CASE UNCHANGED fileVars
  BY <1>4 DEF fileVars
<1> QED BY <1>1, <1>2, <1>3, <1>4 DEF FileCacheNext

\* TornOnlyWhenCut: who gets part of a file has its lock, so nobody else was
\* writing it; its last write had been cut short.
THEOREM NothingHalfWritten == FileCacheSpec => TornOnlyWhenCut
<1>1. FileCacheInit => HolderInv /\ PartInv
  BY DEF FileCacheInit, HolderInv, AtMeta, PartInv
<1>2. FileCacheTypeOK /\ HolderInv /\ PartInv /\ [FileCacheNext]_fileVars =>
        [\A u \in Users : got'[u] = "torn" /\ got[u] # "torn" => on[u] \in cut']_fileVars
  <2> SUFFICES ASSUME FileCacheTypeOK, HolderInv, PartInv, FileCacheNext,
                      NEW u \in Users, got'[u] = "torn", got[u] # "torn"
               PROVE  on[u] \in cut'
    OBVIOUS
  <2> DEFINE looks == /\ Gets(u) \/ Reads(u)
                      /\ step[u] = "looking" /\ file[on[u]] = "part" /\ cut' = cut
  <2>1. WriteCut(u) \/ looks
    <3>1. ASSUME NEW v \in Users, Uses(v) PROVE v = u /\ (WriteCut(u) \/ looks)
      BY <3>1 DEF FileCacheTypeOK, Uses, Ask, Take, Misses, Gets, GetsMeta, Reads, CreateFails, Opens,
                  Writes, WriteCut, AfterCut, Ends, Goes, Seen
    <3>2. ASSUME NEW f \in Files, Expires(f) \/ Prune(f) PROVE FALSE
      BY <3>2 DEF Expires, Prune
    <3>3. CASE Crash
      BY <3>3 DEF Crash
    <3> QED BY <3>1, <3>2, <3>3 DEF FileCacheNext
  <2>2. CASE WriteCut(u)
    BY <2>2 DEF WriteCut, AfterCut
  <2>3. CASE looks
    <3>1. ~\E v \in Users : step[v] = "writing" /\ on[v] = on[u]
      BY <2>3 DEF HolderInv
    <3> QED BY <2>3, <3>1 DEF PartInv, FileCacheTypeOK
  <2> QED BY <2>1, <2>2, <2>3
<1> QED BY <1>1, <1>2, HolderStep, PartStep, FileCacheTypes, PTL DEF FileCacheSpec, TornOnlyWhenCut

-----------------------------------------------------------------------------
(* JSBatch, for any setters, groups, scripts and bound.                     *)

\* A script has changed no oftener than anything has.
VersionsBehind == \A s \in Scripts : version[s] <= edits

LEMMA HolderType ==
  ASSUME JSBatchTypeOK, NEW i \in Items
  PROVE  /\ Holder(i) \in Holders
         /\ \A m \in Maps : SetOptions(Holder(i), m) \in Holders
<1>1. Holder(i) \in Holders
  <2>1. NewHolder \in Holders
    BY DEF NewHolder, Holders
  <2> QED BY <2>1 DEF Holder, JSBatchTypeOK
<1>2. ASSUME NEW h \in Holders, NEW m \in Maps PROVE SetOptions(h, m) \in Holders
  <2>1. ASSUME NEW n \in 0..2
        PROVE  [h EXCEPT !.curr = m, !.before = h.curr, !.sets = n, !.once = TRUE] \in Holders
    BY DEF Holders
  <2>2. (IF h.sets = 2 THEN 2 ELSE h.sets + 1) \in 0..2
    BY DEF Holders
  <2> QED BY <2>1, <2>2 DEF SetOptions
<1> QED BY <1>1, <1>2

\* The holders after a build: unset, and none for what was removed.
LEMMA ResetType ==
  ASSUME JSBatchTypeOK, NEW items, items \subseteq Live, ResetAll(items)
  PROVE  opts' \in [Items -> Holders \cup {None}]
<1>1. ASSUME NEW h \in Holders PROVE [h EXCEPT !.once = FALSE, !.reset = TRUE] \in Holders
  BY DEF Holders
<1>2. \A i \in items : opts[i] \in Holders
  BY DEF JSBatchTypeOK, Live
<1> QED BY <1>1, <1>2 DEF ResetAll

LEMMA KeptType == RemoveNotSet.groups \subseteq groups /\ RemoveNotSet.items \subseteq Live
BY DEF RemoveNotSet, Untouched, Kept

\* A bundle has options and versions.
LEMMA PackageType ==
  ASSUME JSBatchTypeOK, NEW items, items \subseteq Live PROVE IsPackage(PackageOf(items))
<1>1. \A i \in items : i \in Items /\ opts[i].curr \in Maps \cup {None}
  BY DEF JSBatchTypeOK, Live, Holders
<1>2. \A i \in items : (IF i \in Scripts THEN version[i] ELSE 0) \in 0..MaxEdits
  BY JSBatchAssumption DEF JSBatchTypeOK
<1> DEFINE all == {j \in items : j \in Instances => ScriptOf[j] \in items}
           one(i) == [options |-> opts[i].curr, version |-> IF i \in Scripts THEN version[i] ELSE 0]
<1>3. \A i \in all : one(i) \in [options : Maps \cup {None}, version : 0..MaxEdits]
  BY <1>1, <1>2
<1>4. PackageOf(items) = [i \in all |-> one(i)]
  BY DEF PackageOf
<1>5. all \subseteq Items
  BY <1>1
<1> HIDE DEF all, one
<1> QED BY <1>3, <1>4, <1>5 DEF IsPackage, Contents

\* A step keeps the types.
LEMMA JSBatchTypeStep ==
  JSBatchTypeOK /\ VersionsBehind /\ [JSBatchNext]_batchVars => JSBatchTypeOK' /\ VersionsBehind'
<1> SUFFICES ASSUME JSBatchTypeOK, VersionsBehind, [JSBatchNext]_batchVars
             PROVE  JSBatchTypeOK' /\ VersionsBehind'
  OBVIOUS
<1>0. IsPackage(prevBuild)' <=> IsPackage(prevBuild')
  BY DEF IsPackage
<1>1. ASSUME NEW s \in Setters, EditSetter(s) PROVE JSBatchTypeOK' /\ VersionsBehind'
  <2>1. PICK p \in Programs[s] : program' = [program EXCEPT ![s] = p]
    BY <1>1 DEF EditSetter
  <2>2. p \in [Items -> Maps \cup {None}]
    BY JSBatchAssumption
  <2>3. program' \in [Setters -> [Items -> Maps \cup {None}]]
    BY <2>1, <2>2 DEF JSBatchTypeOK
  <2>4. edits' \in 0..MaxEdits /\ edits' = edits + 1
    BY <1>1, JSBatchAssumption DEF EditSetter, JSBatchTypeOK
  <2>5. batch' \subseteq Setters \cup Scripts
    BY <1>1 DEF EditSetter, JSBatchTypeOK
  <2>6. UNCHANGED <<version, broken, retry, phase, due, built, touched, groups, opts, imported,
                    used, staleVersion, prevBuild, asked, lapse, mixed>>
    BY <1>1 DEF EditSetter
  <2>7. VersionsBehind'
    BY <2>4, <2>6, JSBatchAssumption DEF VersionsBehind, JSBatchTypeOK
  <2> QED BY <2>3, <2>4, <2>5, <2>6, <2>7, <1>0 DEF JSBatchTypeOK
<1>2. ASSUME NEW s \in Scripts, EditScript(s) PROVE JSBatchTypeOK' /\ VersionsBehind'
  <2>1. edits' \in 0..MaxEdits /\ edits' = edits + 1
    BY <1>2, JSBatchAssumption DEF EditScript, JSBatchTypeOK
  <2>2. version' = [version EXCEPT ![s] = version[s] + 1] /\ \A t \in Scripts : version[t] \in Nat
    BY <1>2, JSBatchAssumption DEF EditScript, JSBatchTypeOK
  <2>3. \A t \in Scripts : version'[t] \in 0..MaxEdits /\ version'[t] <= edits'
    BY <2>1, <2>2, JSBatchAssumption DEF VersionsBehind, JSBatchTypeOK
  <2>4. version' \in [Scripts -> 0..MaxEdits]
    BY <2>2, <2>3 DEF JSBatchTypeOK
  <2>5. broken' \subseteq Scripts /\ batch' \subseteq Setters \cup Scripts
    BY <1>2 DEF EditScript, JSBatchTypeOK
  <2>6. UNCHANGED <<program, retry, phase, due, built, touched, groups, opts, imported, used,
                    staleVersion, prevBuild, asked, lapse, mixed>>
    BY <1>2 DEF EditScript
  <2> QED BY <2>1, <2>3, <2>4, <2>5, <2>6, <1>0 DEF JSBatchTypeOK, VersionsBehind
<1>3. ASSUME Start PROVE JSBatchTypeOK' /\ VersionsBehind'
  <2>1. PICK heard \in SUBSET Changes : Heard(heard)
    BY <1>3 DEF Start
  <2>2. touched' \subseteq Groups \cup Items
    BY <2>1 DEF Heard, Known, JSBatchTypeOK
  <2>3. staleVersion' \in BOOLEAN
    BY <2>1 DEF Heard, JSBatchTypeOK
  <2>4. due' \subseteq Setters
    BY <1>3, JSBatchAssumption DEF Start
  <2>5. /\ mixed' \in BOOLEAN /\ phase' = "render" /\ batch' = {} /\ retry' = {}
        /\ UNCHANGED <<program, version, broken, built, groups, opts, imported, used,
                       prevBuild, asked, lapse, edits>>
    BY <1>3, <2>3 DEF Start, JSBatchTypeOK
  <2> QED BY <2>2, <2>3, <2>4, <2>5, <1>0 DEF JSBatchTypeOK, VersionsBehind
<1>4. ASSUME NEW s \in Setters, Run(s) PROVE JSBatchTypeOK' /\ VersionsBehind'
  <2> DEFINE free == {i \in SetBy(s) : ~Holder(i).once}
             mine == {GroupIn(i) : i \in SetBy(s)}
  <2>1. /\ groups' = groups \cup mine
        /\ opts' = [i \in Items |-> IF i \in free THEN SetOptions(Holder(i), program[s][i]) ELSE opts[i]]
        /\ built' = built \cup mine \cup free
        /\ used' = [used EXCEPT ![s] = mine \cup free]
        /\ due' = due \ {s} /\ asked' = (asked \/ s \in Builders)
        /\ UNCHANGED <<program, version, broken, batch, retry, phase, touched, imported,
                       staleVersion, prevBuild, lapse, mixed, edits>>
    BY <1>4 DEF Run
  <2>2. mine \subseteq Groups
    BY JSBatchAssumption DEF SetBy, GroupIn, Items
  <2>3. free \subseteq Items /\ \A i \in free : program[s][i] \in Maps
    BY DEF SetBy, JSBatchTypeOK
  <2>4. \A i \in free : SetOptions(Holder(i), program[s][i]) \in Holders
    BY <2>3, HolderType
  <2> HIDE DEF free, mine
  <2>5. opts' \in [Items -> Holders \cup {None}]
    BY <2>1, <2>4 DEF JSBatchTypeOK
  <2>6. used' \in [Setters -> SUBSET (Groups \cup Items)]
    BY <2>1, <2>2, <2>3 DEF JSBatchTypeOK
  <2>7. asked' \in BOOLEAN
    BY <2>1 DEF JSBatchTypeOK
  <2>8. /\ groups' \subseteq Groups /\ built' \subseteq Groups \cup Items /\ due' \subseteq Setters
    BY <2>1, <2>2, <2>3 DEF JSBatchTypeOK
  <2>9. UNCHANGED <<program, version, broken, batch, retry, phase, touched, imported,
                    staleVersion, prevBuild, lapse, mixed, edits>>
    BY <2>1
  <2> QED BY <2>5, <2>6, <2>7, <2>8, <2>9, <1>0 DEF JSBatchTypeOK, VersionsBehind
<1>5. ASSUME NEW s \in Setters, RunFails(s) PROVE JSBatchTypeOK' /\ VersionsBehind'
  <2>1. edits' \in 0..MaxEdits /\ edits' = edits + 1
    BY <1>5, JSBatchAssumption DEF RunFails, JSBatchTypeOK
  <2>2. used' \in [Setters -> SUBSET (Groups \cup Items)]
    BY <1>5 DEF RunFails, JSBatchTypeOK
  <2>3. /\ due' \subseteq Setters /\ retry' \subseteq Setters \cup Scripts /\ mixed' \in BOOLEAN
        /\ UNCHANGED <<program, version, broken, batch, phase, built, touched, groups, opts, imported,
                       staleVersion, prevBuild, asked, lapse>>
    BY <1>5 DEF RunFails, JSBatchTypeOK
  <2>4. VersionsBehind'
    BY <2>1, <2>3, JSBatchAssumption DEF VersionsBehind, JSBatchTypeOK
  <2> QED BY <2>1, <2>2, <2>3, <2>4, <1>0 DEF JSBatchTypeOK
<1>6. ASSUME Build PROVE JSBatchTypeOK' /\ VersionsBehind'
  <2> DEFINE now == IF prevBuild # None /\ ~staleVersion THEN RemoveNotSet
                    ELSE [groups |-> groups, items |-> Live]
             fails == now.items \cap broken
  <2>1. now.groups \subseteq groups /\ now.items \subseteq Live
    BY KeptType
  <2> HIDE DEF now
  <2>2. /\ groups' = now.groups /\ ResetAll(now.items)
        /\ \/ UNCHANGED <<prevBuild, imported, retry, lapse>>
           \/ /\ imported' = imported \cup (now.items \cap Scripts)
              /\ \/ prevBuild' = PackageOf(now.items) /\ UNCHANGED <<retry, lapse>>
                 \/ lapse' = TRUE /\ (\E s \in fails : retry' = {s}) /\ UNCHANGED prevBuild
    BY <1>6 DEF Build, now
  <2>3. opts' \in [Items -> Holders \cup {None}]
    BY <2>1, <2>2, ResetType
  <2>4. imported' \subseteq Scripts /\ retry' \subseteq Setters \cup Scripts /\ lapse' \in BOOLEAN
    BY <2>2 DEF JSBatchTypeOK
  <2>5. prevBuild' # None => IsPackage(prevBuild')
    BY <2>1, <2>2, PackageType DEF JSBatchTypeOK
  <2>6. /\ staleVersion' = FALSE /\ built' = {} /\ touched' = {} /\ phase' = "idle" /\ asked' = FALSE
        /\ UNCHANGED <<program, version, broken, batch, due, used, mixed, edits>>
    BY <1>6 DEF Build
  <2>7. groups' \subseteq Groups
    BY <2>1, <2>2 DEF JSBatchTypeOK
  <2> QED BY <2>3, <2>4, <2>5, <2>6, <2>7, <1>0 DEF JSBatchTypeOK, VersionsBehind
<1>7. ASSUME Unasked PROVE JSBatchTypeOK' /\ VersionsBehind'
  <2>1. opts' \in [Items -> Holders \cup {None}]
    BY <1>7, ResetType DEF Unasked
  <2>2. /\ lapse' \in BOOLEAN /\ phase' = "idle"
        /\ UNCHANGED <<program, version, broken, batch, retry, due, built, touched, groups, imported,
                       used, staleVersion, prevBuild, asked, mixed, edits>>
    BY <1>7 DEF Unasked, JSBatchTypeOK
  <2> QED BY <2>1, <2>2, <1>0 DEF JSBatchTypeOK, VersionsBehind
<1>8. CASE UNCHANGED batchVars
  BY <1>0, <1>8 DEF batchVars, JSBatchTypeOK, VersionsBehind
<1> QED BY <1>1, <1>2, <1>3, <1>4, <1>5, <1>6, <1>7, <1>8 DEF JSBatchNext

LEMMA JSBatchTypeInit == JSBatchInit => JSBatchTypeOK /\ VersionsBehind
<1> SUFFICES ASSUME JSBatchInit PROVE JSBatchTypeOK /\ VersionsBehind
  OBVIOUS
<1>1. First \in [Setters -> [Items -> Maps \cup {None}]]
  BY JSBatchAssumption
<1>2. /\ program = First /\ version = [s \in Scripts |-> 0] /\ edits = 0 /\ prevBuild = None
      /\ opts = [i \in Items |-> None] /\ used = [s \in Setters |-> {}]
      /\ broken = {} /\ batch = {} /\ retry = {} /\ phase = "render" /\ due = Setters
      /\ built = {} /\ touched = {} /\ groups = {} /\ imported = {} /\ staleVersion = FALSE
      /\ asked = FALSE /\ lapse = FALSE /\ mixed = FALSE
  BY DEF JSBatchInit
<1>3. /\ version \in [Scripts -> 0..MaxEdits] /\ opts \in [Items -> Holders \cup {None}]
      /\ used \in [Setters -> SUBSET (Groups \cup Items)] /\ edits \in 0..MaxEdits
  BY <1>2, JSBatchAssumption
<1>4. VersionsBehind
  BY <1>2 DEF VersionsBehind
<1> QED BY <1>1, <1>2, <1>3, <1>4 DEF JSBatchTypeOK

\* Every variable of the batcher has its type.
THEOREM JSBatchTypes == JSBatchSpec => []JSBatchTypeOK
BY JSBatchTypeInit, JSBatchTypeStep, PTL DEF JSBatchSpec

-----------------------------------------------------------------------------
(* What a bundle has.  With groups that one setter alone fills:             *)

Could(s) == {i \in Items : \E p \in Programs[s] : p[i] # None}

\* The items that a setter may set, and their groups.
Fills(s) == Could(s) \cup {GroupIn(i) : i \in Could(s)}

\* What a setter sets, without instances of scripts that it does not set.
Whole(s) == {i \in SetBy(s) : i \in Instances => ScriptOf[i] \in SetBy(s)}

Clean == Setters \ (due \cup retry \cup batch)

\* An item's options when the build began.
Began(i) == IF opts[i] = None THEN None ELSE IF i \in built THEN opts[i].before ELSE opts[i].curr

\* Between builds nothing is counted as set or touched, in one nothing is saved.
RestInv ==
  /\ phase = "idle" => built = {} /\ touched = {} /\ due = {}
  /\ phase = "render" => batch = {}
  /\ \A s \in Setters : program[s] \in Programs[s]

\* A holder's counters tell whether it is new in this build.
HolderCounts(i) ==
  /\ \E s \in Setters : i \in Could(s)
  /\ opts[i].curr # None /\ opts[i].sets # 0
  /\ i \in Scripts => opts[i].curr # Empty
  /\ i \notin built => opts[i].reset = TRUE /\ opts[i].once = FALSE
  /\ i \in built /\ opts[i].sets = 1 => opts[i].reset = FALSE /\ opts[i].before = None
  /\ i \in built /\ opts[i].sets # 1 => opts[i].before # None

HoldersInv == \A i \in Items : opts[i] # None => HolderCounts(i)

\* Only setters that have run set anything in this build.
OwnersInv ==
  /\ \A x \in built : \E s \in Setters \ due : x \in Fills(s)
  /\ \A s \in Setters : used[s] \subseteq Fills(s)

\* What a setter that need not run again sets is held as it sets it, and what it
\* fills was set in this build, or was neither set nor touched.
Holds(s) ==
  /\ \A i \in SetBy(s) : GroupIn(i) \in used[s]
  /\ \A i \in Whole(s) : opts[i] # None /\ opts[i].curr = program[s][i] /\ GroupIn(i) \in groups
  /\ \/ Fills(s) \cap (built \cup touched) = {}
     \/ \A i \in SetBy(s) : i \in built /\ GroupIn(i) \in built

HeldInv == \A s \in Clean : Holds(s)

\* The last bundle has what was held when the build began, except for items that
\* were given an empty map.
Packed(i) ==
  /\ i \in DOMAIN prevBuild =>
       Began(i) # None /\ prevBuild[i].options = Began(i) /\ (i \in Scripts => i \in imported)
  /\ i \notin DOMAIN prevBuild /\ Began(i) # None
     /\ (i \in Instances => Began(ScriptOf[i]) # None) => Began(i) = Empty

PackInv ==
  /\ prevBuild = None => \A i \in Items : Began(i) = None
  /\ prevBuild # None => \A i \in Items : Packed(i)

\* A script that has changed since the last bundle is still to be heard of, or has
\* made the bundle stale; whoever sets it runs again, or has run.
VersionFollows(i) ==
  /\ i \in batch \/ staleVersion = TRUE
  /\ \A s \in Clean : i \in SetBy(s) => i \in batch \/ built # {}

VersionInv ==
  prevBuild # None =>
    \A i \in Scripts \cap DOMAIN prevBuild :
      prevBuild[i].version # version[i] => VersionFollows(i)

BundleInv ==
  RestInv /\ HoldersInv /\ OwnersInv /\ HeldInv /\ PackInv /\ VersionInv

LEMMA GroupOfItem == \A i \in Items : GroupIn(i) \in Groups /\ GroupIn(i) \notin Items
BY JSBatchAssumption DEF GroupIn, Items

LEMMA InFills == \A s \in Setters : \A i \in Could(s) : i \in Items /\ i \in Fills(s) /\ GroupIn(i) \in Fills(s)
BY DEF Fills, Could

LEMMA FillsApart ==
  ASSUME OneSetter, NEW s \in Setters, NEW t \in Setters, s # t
  PROVE  Fills(s) \cap Fills(t) = {}
<1>1. \A i \in Could(s), j \in Could(t) : GroupIn(i) # GroupIn(j)
  BY DEF OneSetter, Could
<1>2. \A i \in Could(s) : GroupIn(i) \notin Could(t)
  BY GroupOfItem DEF Could
<1>3. \A j \in Could(t) : GroupIn(j) \notin Could(s)
  BY GroupOfItem DEF Could
<1>4. Could(s) \cap Could(t) = {}
  BY <1>1
<1> QED BY <1>1, <1>2, <1>3, <1>4 DEF Fills

LEMMA SetsOwn ==
  ASSUME JSBatchTypeOK, RestInv, NEW s \in Setters
  PROVE  /\ SetBy(s) \subseteq Could(s)
         /\ \A i \in SetBy(s) : i \in Items /\ program[s][i] \in Maps
         /\ \A i \in SetBy(s) \cap Scripts : program[s][i] # Empty
<1>1. program[s] \in Programs[s]
  BY DEF RestInv
<1>2. \A i \in Scripts : program[s][i] # Empty
  BY <1>1, JSBatchAssumption
<1> QED BY <1>1, <1>2 DEF SetBy, Could, JSBatchTypeOK

LEMMA SetOptionsIs ==
  ASSUME NEW h \in Holders, NEW m \in Maps, NEW set, set = SetOptions(h, m)
  PROVE  /\ set # None /\ set.curr = m /\ set.before = h.curr /\ set.reset = h.reset
         /\ set.sets # 0 /\ (set.sets = 1 <=> h.sets = 0)
<1> DEFINE n == IF h.sets = 2 THEN 2 ELSE h.sets + 1
<1>1. SetOptions(h, m) = [h EXCEPT !.curr = m, !.before = h.curr, !.sets = n, !.once = TRUE]
  BY DEF SetOptions
<1>2. h.sets \in 0..2 /\ n \in 0..2 /\ n # 0 /\ (n = 1 <=> h.sets = 0)
  BY DEF Holders
<1> HIDE DEF n
<1>3. /\ set \in Holders /\ set.curr = m /\ set.before = h.curr /\ set.sets = n
      /\ set.reset = h.reset
  BY <1>1, <1>2 DEF Holders
<1> QED BY <1>1, <1>2, <1>3, JSBatchAssumption

LEMMA ResetIs ==
  ASSUME JSBatchTypeOK, NEW items, items \subseteq Live, ResetAll(items)
  PROVE  \A i \in Items :
           /\ opts'[i] # None <=> i \in items
           /\ i \in items =>
                /\ opts'[i].curr = opts[i].curr /\ opts'[i].sets = opts[i].sets
                /\ opts'[i].reset = TRUE /\ opts'[i].once = FALSE
<1> SUFFICES ASSUME NEW i \in Items
             PROVE  /\ opts'[i] # None <=> i \in items
                    /\ i \in items =>
                         /\ opts'[i].curr = opts[i].curr /\ opts'[i].sets = opts[i].sets
                         /\ opts'[i].reset = TRUE /\ opts'[i].once = FALSE
  OBVIOUS
<1>1. CASE i \notin items
  BY <1>1 DEF ResetAll
<1>2. CASE i \in items
  <2>1. opts[i] \in Holders
    BY <1>2 DEF Live, JSBatchTypeOK
  <2>2. opts'[i] = [opts[i] EXCEPT !.once = FALSE, !.reset = TRUE]
    BY <1>2 DEF ResetAll
  <2> DEFINE next == [curr |-> opts[i].curr, before |-> opts[i].before, sets |-> opts[i].sets,
                      reset |-> TRUE, once |-> FALSE]
  <2>3. opts'[i] = next
    BY <2>1, <2>2 DEF Holders
  <2>4. next \in Holders
    BY <2>1 DEF Holders
  <2>5. opts'[i] # None
    BY <2>3, <2>4, JSBatchAssumption
  <2> QED BY <1>2, <2>3, <2>5
<1> QED BY <1>1, <1>2

\* A bundle is no missing bundle.
LEMMA PackageIs ==
  ASSUME JSBatchTypeOK, NEW items, items \subseteq Live
  PROVE  /\ PackageOf(items) # None
         /\ DOMAIN PackageOf(items) = {j \in items : j \in Instances => ScriptOf[j] \in items}
         /\ \A i \in DOMAIN PackageOf(items) : PackageOf(items)[i].options = opts[i].curr
         /\ \A i \in DOMAIN PackageOf(items) \cap Scripts : PackageOf(items)[i].version = version[i]
<1> DEFINE all == {j \in items : j \in Instances => ScriptOf[j] \in items}
           one(i) == [options |-> opts[i].curr, version |-> IF i \in Scripts THEN version[i] ELSE 0]
<1>1. PackageOf(items) = [i \in all |-> one(i)]
  BY DEF PackageOf
<1>2. all \subseteq Items
  BY DEF Live
<1>3. \A i \in all : opts[i].curr \in Maps \cup {None}
  BY DEF JSBatchTypeOK, Live, Holders
<1>4. \A i \in all : (IF i \in Scripts THEN version[i] ELSE 0) \in 0..MaxEdits
  BY JSBatchAssumption DEF JSBatchTypeOK
<1>5. \A i \in all : /\ one(i) \in Contents /\ one(i).options = opts[i].curr
                     /\ i \in Scripts => one(i).version = version[i]
  BY <1>3, <1>4 DEF Contents
<1> HIDE DEF one, all
<1>6. [i \in all |-> one(i)] \in [all -> Contents]
  BY <1>5
<1>7. None \notin [all -> Contents]
  BY <1>2, JSBatchAssumption
<1>8. PackageOf(items) # None
  BY <1>1, <1>6, <1>7
<1>9. DOMAIN PackageOf(items) = all
  BY <1>1
<1> QED BY <1>1, <1>5, <1>8, <1>9 DEF all

\* What holds of a setter goes on to hold when neither it nor anything that it
\* fills is concerned.
LEMMA HoldsOn ==
  ASSUME NEW t \in Setters, Holds(t), SetBy(t) \subseteq Could(t),
         program'[t] = program[t], used'[t] = used[t], groups \subseteq groups',
         \A i \in Could(t) : opts'[i] = opts[i],
         Fills(t) \cap (built \cup touched) = {} => Fills(t) \cap (built' \cup touched') = {},
         built \subseteq built'
  PROVE  Holds(t)'
<1>1. SetBy(t)' = SetBy(t)
  BY DEF SetBy
<1>2. Whole(t)' = Whole(t)
  BY <1>1 DEF Whole
<1>3. Fills(t)' = Fills(t)
  BY DEF Fills, Could, GroupIn
<1>4. \A i \in Whole(t) : i \in SetBy(t)
  BY DEF Whole
<1>5. \A i : GroupIn(i)' = GroupIn(i)
  BY DEF GroupIn
<1>6. \A i \in SetBy(t) : GroupIn(i) \in used'[t]
  BY DEF Holds
<1>7. \A i \in Whole(t) : opts'[i] # None /\ opts'[i].curr = program'[t][i] /\ GroupIn(i) \in groups'
  BY <1>4 DEF Holds
<1>8. \/ Fills(t) \cap (built' \cup touched') = {}
      \/ \A i \in SetBy(t) : i \in built' /\ GroupIn(i) \in built'
  BY DEF Holds
<1> QED BY <1>1, <1>2, <1>3, <1>5, <1>6, <1>7, <1>8 DEF Holds

\* Holders, and what they were when the build began, stay with what they are told
\* from.
LEMMA HoldersStay ==
  ASSUME UNCHANGED <<opts, built>>
  PROVE  /\ HoldersInv => HoldersInv'
         /\ \A i : Began(i)' = Began(i)
         /\ UNCHANGED <<prevBuild, imported>> /\ PackInv => PackInv'
<1>1. \A i : Began(i)' = Began(i)
  BY DEF Began
<1>2. HoldersInv => HoldersInv'
  BY DEF HoldersInv, HolderCounts, Could
<1>3. UNCHANGED <<prevBuild, imported>> /\ PackInv => PackInv'
  BY <1>1 DEF PackInv, Packed
<1> QED BY <1>1, <1>2, <1>3

LEMMA EditSetterKeeps ==
  ASSUME JSBatchTypeOK, BundleInv, NEW s \in Setters, EditSetter(s) PROVE BundleInv'
<1>1. PICK p \in Programs[s] : program' = [program EXCEPT ![s] = p]
  BY DEF EditSetter
<1>2. /\ phase = "idle" /\ batch' = batch \cup {s}
      /\ UNCHANGED <<version, broken, retry, phase, due, built, touched, groups, opts, imported,
                     used, staleVersion, prevBuild, asked, lapse, mixed>>
  BY DEF EditSetter
<1>3. RestInv'
  BY <1>1, <1>2 DEF BundleInv, RestInv, JSBatchTypeOK
<1>4. HoldersInv' /\ PackInv'
  BY <1>2, HoldersStay DEF BundleInv
<1>5. OwnersInv'
  BY <1>2 DEF BundleInv, OwnersInv, Fills, Could, GroupIn
<1>6. Clean' \subseteq Clean \ {s}
  BY <1>2 DEF Clean
<1>7. \A t \in Clean' : t \in Setters /\ program'[t] = program[t]
  BY <1>1, <1>6 DEF JSBatchTypeOK, Clean
<1>8. HeldInv'
  <2>1. ASSUME NEW t \in Clean' PROVE Holds(t)'
    BY <1>2, <1>6, <1>7, HoldsOn, SetsOwn DEF BundleInv, HeldInv
  <2> QED BY <2>1 DEF HeldInv
<1>9. VersionInv'
  <2>1. \A t \in Clean' : SetBy(t)' = SetBy(t)
    BY <1>7 DEF SetBy
  <2>2. \A i : VersionFollows(i) => VersionFollows(i)'
    BY <1>2, <1>6, <2>1 DEF VersionFollows
  <2> QED BY <1>2, <2>2 DEF BundleInv, VersionInv
<1> QED BY <1>3, <1>4, <1>5, <1>8, <1>9 DEF BundleInv

LEMMA EditScriptKeeps ==
  ASSUME JSBatchTypeOK, BundleInv, NEW s \in Scripts, EditScript(s) PROVE BundleInv'
<1>2. /\ phase = "idle" /\ batch' = batch \cup {s} /\ version' = [version EXCEPT ![s] = @ + 1]
      /\ UNCHANGED <<program, retry, phase, due, built, touched, groups, opts, imported,
                     used, staleVersion, prevBuild, asked, lapse, mixed>>
  BY DEF EditScript
<1>3. RestInv'
  BY <1>2 DEF BundleInv, RestInv
<1>4. HoldersInv' /\ PackInv'
  BY <1>2, HoldersStay DEF BundleInv
<1>5. OwnersInv'
  BY <1>2 DEF BundleInv, OwnersInv, Fills, Could, GroupIn
<1>6. Clean' \subseteq Clean
  BY <1>2 DEF Clean
<1>8. HeldInv'
  <2>1. ASSUME NEW t \in Clean' PROVE Holds(t)'
    <3>1. t \in Setters /\ t \in Clean
      BY <1>6 DEF Clean
    <3> QED BY <1>2, <3>1, HoldsOn, SetsOwn DEF BundleInv, HeldInv
  <2> QED BY <2>1 DEF HeldInv
<1>9. VersionInv'
  <2>1. \A t : SetBy(t)' = SetBy(t)
    BY <1>2 DEF SetBy
  <2>2. \A i : VersionFollows(i) => VersionFollows(i)'
    BY <1>2, <1>6, <2>1 DEF VersionFollows
  <2>3. \A i \in Scripts : i # s => version'[i] = version[i]
    BY <1>2 DEF JSBatchTypeOK
  <2>4. VersionFollows(s)'
    BY <1>2 DEF VersionFollows
  <2> QED BY <1>2, <2>2, <2>3, <2>4 DEF BundleInv, VersionInv
<1> QED BY <1>3, <1>4, <1>5, <1>8, <1>9 DEF BundleInv

LEMMA StartKeeps ==
  ASSUME JSBatchTypeOK, OneSetter, BundleInv, Start PROVE BundleInv'
<1> DEFINE changed == {s \in Setters : s \in Changes \/ DependsOn(s) \cap Changes # {}}
<1>1. PICK heard \in SUBSET Changes : Heard(heard)
  BY DEF Start
<1>2. /\ phase = "idle" /\ phase' = "render" /\ batch' = {} /\ retry' = {}
      /\ due' = changed \cup UNION {Along[s] : s \in changed}
      /\ UNCHANGED <<program, version, broken, built, groups, opts, imported, used,
                     prevBuild, asked, lapse, edits>>
  BY DEF Start
<1>3. built = {} /\ touched = {} /\ due = {}
  BY <1>2 DEF BundleInv, RestInv
<1>4. RestInv'
  BY <1>2 DEF BundleInv, RestInv
<1>5. HoldersInv' /\ PackInv'
  BY <1>2, HoldersStay DEF BundleInv
<1>6. OwnersInv'
  BY <1>2, <1>3 DEF BundleInv, OwnersInv, Fills, Could, GroupIn
<1>7. ASSUME NEW t \in Clean'
      PROVE  t \in Setters \ changed /\ t \in Clean /\ \A s \in changed : t \notin Along[s]
  BY <1>2, <1>3, <1>7 DEF Clean, Changes
<1>8. \A x \in touched' : \E s \in Setters \cap due' : x \in Fills(s)
  <2>1. touched' = (UNION {UsedBy(s) : s \in heard \cap Pages}) \cap Known
    BY <1>1, <1>3 DEF Heard
  <2> SUFFICES ASSUME NEW x \in touched' PROVE \E s \in Setters \cap due' : x \in Fills(s)
    OBVIOUS
  <2>2. PICK s \in heard \cap Pages : x \in UsedBy(s)
    BY <2>1
  <2>3. s \in changed /\ s \in Setters /\ Along[s] \subseteq Setters
    BY <2>2, JSBatchAssumption
  <2>4. CASE x \in used[s]
    BY <1>2, <2>3, <2>4 DEF BundleInv, OwnersInv
  <2>5. ASSUME NEW along \in Along[s], x \in used[along]
        PROVE  \E t \in Setters \cap due' : x \in Fills(t)
    BY <1>2, <2>3, <2>5 DEF BundleInv, OwnersInv
  <2> QED BY <2>2, <2>4, <2>5 DEF UsedBy
<1>9. HeldInv'
  <2>1. ASSUME NEW t \in Clean' PROVE Holds(t)'
    <3>1. t \in Setters /\ t \in Clean /\ t \notin due'
      BY <1>7 DEF Clean
    <3>2. Fills(t) \cap touched' = {}
      BY <1>8, <3>1, FillsApart
    <3> QED BY <1>2, <1>3, <3>1, <3>2, HoldsOn, SetsOwn DEF BundleInv, HeldInv
  <2> QED BY <2>1 DEF HeldInv
<1>10. VersionInv'
  <2> SUFFICES ASSUME prevBuild # None, NEW i \in Scripts \cap DOMAIN prevBuild,
                      prevBuild[i].version # version[i]
               PROVE  VersionFollows(i)'
    BY <1>2 DEF VersionInv
  <2>1. VersionFollows(i)
    BY DEF BundleInv, VersionInv
  <2>2. i \in Items /\ i \in imported
    BY DEF BundleInv, PackInv, Packed, Items
  <2>3. staleVersion' = TRUE
    <3>1. CASE staleVersion = TRUE
      BY <1>1, <3>1 DEF Heard
    <3>2. CASE i \in batch
      BY <1>1, <2>2, <3>2 DEF Heard, Changes
    <3> QED BY <2>1, <3>1, <3>2 DEF VersionFollows
  <2>4. ASSUME NEW t \in Clean', i \in SetBy(t)' PROVE FALSE
    <3>1. t \in Setters /\ t \in Clean /\ t \notin changed
      BY <1>7
    <3>2. i \in SetBy(t)
      BY <1>2, <2>4 DEF SetBy
    <3>3. i \in batch
      BY <1>3, <2>1, <3>1, <3>2 DEF VersionFollows
    <3>4. GroupOf[i] \in used[t]
      BY <3>1, <3>2 DEF BundleInv, HeldInv, Holds, GroupIn
    <3>5. i \in DependsOn(t)
      BY <2>2, <3>4 DEF DependsOn, UsedBy
    <3> QED BY <3>1, <3>3, <3>5 DEF Changes
  <2> QED BY <2>3, <2>4 DEF VersionFollows
<1> QED BY <1>4, <1>5, <1>6, <1>9, <1>10 DEF BundleInv

LEMMA RunFailsKeeps ==
  ASSUME JSBatchTypeOK, BundleInv, NEW s \in Setters, RunFails(s) PROVE BundleInv'
<1>2. /\ phase = "render" /\ s \in due /\ retry = {}
      /\ due' = due \ {s} /\ retry' = {s} /\ used' = [used EXCEPT ![s] = {}]
      /\ UNCHANGED <<program, version, broken, batch, phase, built, touched, groups, opts, imported,
                     staleVersion, prevBuild, asked, lapse>>
  BY DEF RunFails
<1>3. RestInv'
  BY <1>2 DEF BundleInv, RestInv
<1>4. HoldersInv' /\ PackInv'
  BY <1>2, HoldersStay DEF BundleInv
<1>5. OwnersInv'
  <2>1. \A t \in Setters : Fills(t)' = Fills(t) /\ used'[t] \subseteq used[t]
    BY <1>2 DEF Fills, Could, GroupIn, JSBatchTypeOK
  <2> QED BY <1>2, <2>1 DEF BundleInv, OwnersInv
<1>6. Clean' \subseteq Clean \ {s}
  BY <1>2 DEF Clean
<1>8. HeldInv'
  <2>1. ASSUME NEW t \in Clean' PROVE Holds(t)'
    <3>1. t \in Setters /\ t \in Clean /\ used'[t] = used[t]
      BY <1>2, <1>6 DEF Clean, JSBatchTypeOK
    <3> QED BY <1>2, <3>1, HoldsOn, SetsOwn DEF BundleInv, HeldInv
  <2> QED BY <2>1 DEF HeldInv
<1>9. VersionInv'
  <2>1. \A t : SetBy(t)' = SetBy(t)
    BY <1>2 DEF SetBy
  <2>2. \A i : VersionFollows(i) => VersionFollows(i)'
    BY <1>2, <1>6, <2>1 DEF VersionFollows
  <2> QED BY <1>2, <2>2 DEF BundleInv, VersionInv
<1> QED BY <1>3, <1>4, <1>5, <1>8, <1>9 DEF BundleInv

\* A setter that is rendered is the first to set what it sets in this build.
LEMMA RunSetsAll ==
  ASSUME JSBatchTypeOK, OneSetter, BundleInv, NEW s \in Setters, Run(s)
  PROVE  /\ {i \in SetBy(s) : ~Holder(i).once} = SetBy(s)
         /\ \A i \in Could(s) : i \in Items /\ i \in Fills(s) /\ GroupIn(i) \in Fills(s) /\ i \notin built
<1>1. SetBy(s) \subseteq Could(s) /\ \A i \in SetBy(s) : i \in Items /\ program[s][i] \in Maps
  BY SetsOwn DEF BundleInv
<1>2. s \in due
  BY DEF Run
\* Nothing that the setter fills has been set in this build.
<1>3. Fills(s) \cap built = {}
  <2>1. ASSUME NEW x \in built PROVE x \notin Fills(s)
    <3>1. PICK t \in Setters \ due : x \in Fills(t)
      BY DEF BundleInv, OwnersInv
    <3> QED BY <1>2, <3>1, FillsApart
  <2> QED BY <2>1
<1>4. \A i \in Could(s) : i \in Items /\ i \in Fills(s) /\ GroupIn(i) \in Fills(s) /\ i \notin built
  BY <1>3, InFills
<1>5. \A i \in Could(s) : opts[i] # None => opts[i].reset = TRUE /\ opts[i].once = FALSE
  BY <1>4 DEF BundleInv, HoldersInv, HolderCounts
<1>6. {i \in SetBy(s) : ~Holder(i).once} = SetBy(s)
  <2>1. NewHolder.once = FALSE
    BY DEF NewHolder
  <2> QED BY <1>1, <1>5, <2>1 DEF Holder
<1> QED BY <1>4, <1>6

LEMMA RunKeeps ==
  ASSUME JSBatchTypeOK, OneSetter, BundleInv, NEW s \in Setters, Run(s) PROVE BundleInv'
<1> DEFINE mine == {GroupIn(i) : i \in SetBy(s)}
           free == {i \in SetBy(s) : ~Holder(i).once}
<1>1. SetBy(s) \subseteq Could(s) /\ \A i \in SetBy(s) : i \in Items /\ program[s][i] \in Maps
  BY SetsOwn DEF BundleInv
<1>2. phase = "render" /\ s \in due /\ batch = {}
  BY DEF Run, BundleInv, RestInv
<1>4. \A i \in Could(s) : i \in Items /\ i \in Fills(s) /\ GroupIn(i) \in Fills(s) /\ i \notin built
  BY RunSetsAll
<1>6. free = SetBy(s)
  BY RunSetsAll
<1>7. /\ groups' = groups \cup mine
      /\ opts' = [i \in Items |-> IF i \in SetBy(s) THEN SetOptions(Holder(i), program[s][i]) ELSE opts[i]]
      /\ built' = built \cup mine \cup SetBy(s)
      /\ used' = [used EXCEPT ![s] = mine \cup SetBy(s)]
      /\ due' = due \ {s}
      /\ UNCHANGED <<program, version, broken, batch, retry, phase, touched, imported,
                     staleVersion, prevBuild, lapse, mixed, edits>>
  BY <1>6 DEF Run
<1> HIDE DEF free
<1>8. \A x \in mine : x \in Groups /\ x \notin Items /\ x \in Fills(s)
  BY <1>1, <1>4, GroupOfItem
<1>9. \A i \in Items \ SetBy(s) : opts'[i] = opts[i] /\ (i \in built' <=> i \in built)
  BY <1>7, <1>8
\* What a set holder becomes.
<1>10. ASSUME NEW i \in SetBy(s)
       PROVE  /\ i \in Could(s) /\ i \in Items /\ i \in built' /\ i \notin built
              /\ opts'[i] # None /\ opts'[i].curr = program[s][i] /\ opts'[i].sets # 0
              /\ opts'[i].before = Began(i)
              /\ opts'[i].sets = 1 => opts[i] = None /\ opts'[i].reset = FALSE
              /\ opts'[i].sets # 1 => opts[i] # None
  <2>1. i \in Items /\ i \in Could(s) /\ program[s][i] \in Maps /\ i \notin built
    BY <1>1, <1>4
  <2>2. Holder(i) \in Holders
    BY <2>1, HolderType
  <2>3. opts'[i] = SetOptions(Holder(i), program[s][i])
    BY <1>7, <2>1
  <2>4. /\ opts'[i] # None /\ opts'[i].curr = program[s][i] /\ opts'[i].before = Holder(i).curr
        /\ opts'[i].reset = Holder(i).reset
        /\ opts'[i].sets # 0 /\ (opts'[i].sets = 1 <=> Holder(i).sets = 0)
    BY <2>1, <2>2, <2>3, SetOptionsIs
  <2>5. CASE opts[i] = None
    <3>1. Holder(i) = NewHolder
      BY <2>5 DEF Holder
    <3>2. NewHolder.curr = None /\ NewHolder.sets = 0 /\ NewHolder.reset = FALSE
      BY DEF NewHolder
    <3> QED BY <1>7, <2>1, <2>4, <2>5, <3>1, <3>2 DEF Began
  <2>6. CASE opts[i] # None
    <3>1. Holder(i) = opts[i]
      BY <2>6 DEF Holder
    <3>2. opts[i].sets # 0
      BY <2>1, <2>6 DEF BundleInv, HoldersInv, HolderCounts
    <3> QED BY <1>7, <2>1, <2>4, <2>6, <3>1, <3>2 DEF Began
  <2> QED BY <2>5, <2>6
<1>11. \A i \in Items : Began(i)' = Began(i)
  <2>1. ASSUME NEW i \in Items PROVE Began(i)' = Began(i)
    <3>1. CASE i \in SetBy(s)
      BY <1>10, <3>1 DEF Began
    <3>2. CASE i \notin SetBy(s)
      BY <1>9, <3>2 DEF Began
    <3> QED BY <3>1, <3>2
  <2> QED BY <2>1
<1>12. RestInv'
  BY <1>2, <1>7 DEF BundleInv, RestInv
<1>13. HoldersInv'
  <2> SUFFICES ASSUME NEW i \in Items, opts'[i] # None PROVE HolderCounts(i)'
    BY DEF HoldersInv
  <2>0. \A t : Could(t)' = Could(t)
    BY DEF Could
  <2>1. CASE i \in SetBy(s)
    <3>1. i \in Could(s)'
      BY <1>10, <2>0, <2>1
    <3>2. opts'[i].curr # None /\ opts'[i].sets # 0 /\ (i \in Scripts => opts'[i].curr # Empty)
      <4>1. program[s][i] \in Maps /\ None \notin Maps
        BY <1>1, <2>1, JSBatchAssumption
      <4>2. i \in Scripts => program[s][i] # Empty
        BY <2>1, SetsOwn DEF BundleInv
      <4> QED BY <1>10, <2>1, <4>1, <4>2
    <3>3. opts'[i].sets = 1 => opts'[i].reset = FALSE /\ opts'[i].before = None
      BY <1>10, <2>1 DEF Began
    <3>4. opts'[i].sets # 1 => opts'[i].before # None
      <4>1. opts'[i].sets # 1 => opts[i] # None /\ opts'[i].before = opts[i].curr
        BY <1>10, <2>1 DEF Began
      <4>2. opts[i] # None => opts[i].curr # None
        BY DEF BundleInv, HoldersInv, HolderCounts
      <4> QED BY <4>1, <4>2
    <3>5. i \in built'
      BY <1>10, <2>1
    <3> QED BY <3>1, <3>2, <3>3, <3>4, <3>5 DEF HolderCounts
  <2>2. CASE i \notin SetBy(s)
    <3>1. opts'[i] = opts[i] /\ (i \in built' <=> i \in built)
      BY <1>9, <2>2
    <3>2. HolderCounts(i)
      BY <3>1 DEF BundleInv, HoldersInv
    <3> QED BY <2>0, <3>1, <3>2 DEF HolderCounts
  <2> QED BY <2>1, <2>2
<1>14. OwnersInv'
  <2>1. \A t : Fills(t)' = Fills(t)
    BY DEF Fills, Could, GroupIn
  <2>2. \A x \in mine \cup SetBy(s) : x \in Fills(s)
    BY <1>1, <1>4, <1>8
  <2> HIDE DEF mine
  <2>3. \A x \in built' : \E t \in Setters \ due' : x \in Fills(t)
    BY <1>7, <2>2 DEF BundleInv, OwnersInv
  <2>4. \A t \in Setters : used'[t] \subseteq Fills(t)
    BY <1>7, <2>2 DEF BundleInv, OwnersInv, JSBatchTypeOK
  <2> QED BY <2>1, <2>3, <2>4 DEF OwnersInv
<1>15. HeldInv'
  <2> SUFFICES ASSUME NEW t \in Clean' PROVE Holds(t)'
    BY DEF HeldInv
  <2>1. CASE t = s
    <3>1. SetBy(s)' = SetBy(s) /\ Whole(s)' = Whole(s)
      BY <1>7 DEF SetBy, Whole
    <3>2. \A i : GroupIn(i)' = GroupIn(i)
      BY DEF GroupIn
    <3>3. used'[s] = mine \cup SetBy(s)
      BY <1>7 DEF JSBatchTypeOK
    <3>4. \A i \in SetBy(s) : /\ GroupIn(i) \in used'[s] /\ GroupIn(i) \in groups'
                              /\ i \in built' /\ GroupIn(i) \in built'
      BY <1>7, <3>3
    <3>5. \A i \in Whole(s) : i \in SetBy(s) /\ opts'[i] # None /\ opts'[i].curr = program'[s][i]
      BY <1>7, <1>10 DEF Whole
    <3> QED BY <2>1, <3>1, <3>2, <3>4, <3>5 DEF Holds
  <2>2. CASE t # s
    <3>1. t \in Setters /\ t \in Clean
      BY <1>7, <2>2 DEF Clean
    <3>2. Fills(t) \cap Fills(s) = {}
      BY <2>2, <3>1, FillsApart
    <3>3. Fills(t) \cap (mine \cup SetBy(s)) = {}
      BY <1>1, <1>4, <1>8, <3>2
    <3>4. \A i \in Could(t) : i \in Items \ SetBy(s)
      BY <1>1, <1>4, <3>1, <3>2, InFills
    <3>5. \A i \in Could(t) : opts'[i] = opts[i]
      BY <1>9, <3>4
    <3>6. Holds(t) /\ SetBy(t) \subseteq Could(t)
      BY <3>1, SetsOwn DEF BundleInv, HeldInv
    <3> HIDE DEF mine
    <3>7. Fills(t) \cap (built \cup touched) = {} => Fills(t) \cap (built' \cup touched') = {}
      BY <1>7, <3>3
    <3>8. program'[t] = program[t] /\ used'[t] = used[t] /\ groups \subseteq groups' /\ built \subseteq built'
      BY <1>7, <2>2, <3>1 DEF JSBatchTypeOK
    <3> QED BY <3>1, <3>5, <3>6, <3>7, <3>8, HoldsOn
  <2> QED BY <2>1, <2>2
<1>16. PackInv'
  <2>1. \A i \in Instances : ScriptOf[i] \in Items
    BY JSBatchAssumption DEF Items
  <2> QED BY <1>7, <1>11, <2>1 DEF BundleInv, PackInv, Packed
<1>17. VersionInv'
  <2> SUFFICES ASSUME NEW i, VersionFollows(i) PROVE VersionFollows(i)'
    BY <1>7 DEF BundleInv, VersionInv
  <2>1. ASSUME NEW t \in Clean', i \in SetBy(t)' PROVE i \in batch' \/ built' # {}
    <3>1. i \in SetBy(t)
      BY <1>7, <2>1 DEF SetBy
    <3>2. CASE t = s
      BY <1>7, <3>1, <3>2
    <3>3. CASE t # s
      <4>1. t \in Clean
        BY <1>7, <3>3 DEF Clean
      <4> QED BY <1>7, <3>1, <4>1 DEF VersionFollows
    <3> QED BY <3>2, <3>3
  <2> QED BY <1>7, <2>1 DEF VersionFollows
<1> QED BY <1>12, <1>13, <1>14, <1>15, <1>16, <1>17 DEF BundleInv

\* The end of a build with nothing set or touched leaves the holders as they are.
LEMMA UnaskedKeeps ==
  ASSUME JSBatchTypeOK, BundleInv, Unasked, lapse' = FALSE PROVE BundleInv'
<1>1. /\ phase = "render" /\ due = {} /\ ResetAll(Live) /\ phase' = "idle"
      /\ UNCHANGED <<program, version, broken, batch, retry, due, built, touched, groups, imported,
                     used, staleVersion, prevBuild, asked, mixed, edits>>
  BY DEF Unasked
<1>2. built = {} /\ touched = {} /\ batch = {}
  BY DEF Unasked, BundleInv, RestInv
<1>3. \A i \in Items : /\ opts'[i] # None <=> opts[i] # None
                       /\ opts[i] # None => /\ opts'[i].curr = opts[i].curr /\ opts'[i].sets = opts[i].sets
                                            /\ opts'[i].reset = TRUE /\ opts'[i].once = FALSE
  <2>1. \A i \in Items : i \in Live <=> opts[i] # None
    BY DEF Live
  <2> HIDE DEF Live
  <2> QED BY <1>1, <2>1, ResetIs
<1>4. RestInv'
  BY <1>1, <1>2 DEF BundleInv, RestInv
<1>5. HoldersInv'
  <2> SUFFICES ASSUME NEW i \in Items, opts'[i] # None PROVE HolderCounts(i)'
    BY DEF HoldersInv
  <2>1. HolderCounts(i)
    BY <1>3 DEF BundleInv, HoldersInv
  <2> QED BY <1>1, <1>2, <1>3, <2>1 DEF HolderCounts, Could
<1>6. OwnersInv'
  BY <1>1 DEF BundleInv, OwnersInv, Fills, Could, GroupIn
<1>7. Clean' = Clean
  BY <1>1 DEF Clean
<1>8. HeldInv'
  <2> SUFFICES ASSUME NEW t \in Clean PROVE Holds(t)'
    BY <1>7 DEF HeldInv
  <2>1. Holds(t)
    BY DEF BundleInv, HeldInv
  <2>2. SetBy(t)' = SetBy(t) /\ Whole(t)' = Whole(t) /\ \A i : GroupIn(i)' = GroupIn(i)
    BY <1>1 DEF SetBy, Whole, GroupIn
  <2>3. \A i \in Whole(t) : i \in Items
    BY DEF Whole, SetBy
  <2> QED BY <1>1, <1>2, <1>3, <2>1, <2>2, <2>3 DEF Holds
<1>9. PackInv'
  <2>1. \A i \in Items : Began(i)' = Began(i)
    BY <1>1, <1>2, <1>3 DEF Began
  <2>2. \A i \in Instances : ScriptOf[i] \in Items
    BY JSBatchAssumption DEF Items
  <2> QED BY <1>1, <2>1, <2>2 DEF BundleInv, PackInv, Packed
<1>10. VersionInv'
  <2>1. \A t : SetBy(t)' = SetBy(t)
    BY <1>1 DEF SetBy
  <2>2. \A i : VersionFollows(i) => VersionFollows(i)'
    BY <1>1, <1>7, <2>1 DEF VersionFollows
  <2> QED BY <1>1, <2>2 DEF BundleInv, VersionInv
<1> QED BY <1>4, <1>5, <1>6, <1>8, <1>9, <1>10 DEF BundleInv

\* What a setter that need not run again sets is not removed.
LEMMA WholeStays ==
  ASSUME JSBatchTypeOK, BundleInv, NEW s \in Clean, NEW i \in Whole(s)
  PROVE  i \in RemoveNotSet.items /\ GroupIn(i) \in RemoveNotSet.groups /\ i \in Live
<1> DEFINE g == GroupIn(i)
           set == Live \ With({j \in Live : j \in touched /\ j \notin built})
           left == (UNION {T \in Tables(g) : g \in built /\ T \cap set \cap built # {}}) \ built
<1>1. s \in Setters /\ Holds(s) /\ SetBy(s) \subseteq Could(s)
  BY SetsOwn DEF BundleInv, HeldInv, Clean
<1>2. i \in SetBy(s) /\ i \in Items /\ opts[i] # None /\ g \in groups
  BY <1>1 DEF Whole, SetBy, Holds
<1>3. i \in Live
  BY <1>2 DEF Live
<1>4. i \in Fills(s) /\ g \in Fills(s)
  BY <1>1, <1>2, InFills
<1>5. i \in Instances => ScriptOf[i] \in SetBy(s) /\ ScriptOf[i] \in Fills(s)
  BY <1>1, InFills DEF Whole
<1>6. \/ i \in built /\ g \in built /\ (i \in Instances => ScriptOf[i] \in built)
      \/ /\ i \notin touched /\ g \notin touched /\ g \notin built
         /\ i \in Instances => ScriptOf[i] \notin touched
  BY <1>1, <1>2, <1>4, <1>5 DEF Holds
<1>7. g \in Untouched
  BY <1>2, <1>6 DEF Untouched
<1>8. i \in set
  BY <1>3, <1>6 DEF With
<1>9. i \notin With(left)
  <2>1. CASE g \notin built
    BY <2>1 DEF With
  <2>2. CASE i \in built /\ (i \in Instances => ScriptOf[i] \in built)
    BY <2>2 DEF With
  <2> QED BY <1>6, <2>1, <2>2
<1>10. Kept(g) = {j \in set : GroupIn(j) = g} \ With(left)
  BY DEF Kept
<1> HIDE DEF set, left
<1>11. i \in Kept(g)
  BY <1>8, <1>9, <1>10
<1> QED BY <1>3, <1>7, <1>11 DEF RemoveNotSet

LEMMA BuildKeeps ==
  ASSUME JSBatchTypeOK, BundleInv, Build, lapse' = FALSE PROVE BundleInv'
<1> DEFINE looks == prevBuild # None /\ ~staleVersion
           now == IF looks THEN RemoveNotSet ELSE [groups |-> groups, items |-> Live]
           stale == prevBuild = None \/ IsStale(now.items)
           items == now.items
<1>1. /\ phase = "render" /\ due = {} /\ phase' = "idle"
      /\ staleVersion' = FALSE /\ built' = {} /\ touched' = {}
      /\ UNCHANGED <<program, version, broken, batch, due, used, mixed, edits>>
  BY DEF Build
<1>2. groups' = now.groups /\ ResetAll(items)
  BY DEF Build
<1>3. \/ ~stale /\ UNCHANGED <<prevBuild, imported, retry>>
      \/ /\ prevBuild' = PackageOf(items) /\ imported' = imported \cup (items \cap Scripts)
         /\ UNCHANGED retry
  BY DEF Build
<1>4. items \subseteq Live /\ now.groups \subseteq groups
  BY KeptType
<1>5. \A t \in Clean : \A i \in Whole(t) : i \in items /\ GroupIn(i) \in now.groups
  <2> SUFFICES ASSUME NEW t \in Clean, NEW i \in Whole(t)
               PROVE  i \in items /\ GroupIn(i) \in now.groups
    OBVIOUS
  <2>1. i \in Live /\ i \in RemoveNotSet.items /\ GroupIn(i) \in RemoveNotSet.groups
    BY WholeStays
  <2>2. GroupIn(i) \in groups
    BY <2>1, KeptType
  <2> QED BY <2>1, <2>2
<1>6. ~stale => /\ prevBuild # None /\ staleVersion # TRUE /\ items = Live
                /\ \A i \in Live : ~IsStaleOpts(opts[i])
  BY DEF IsStale
<1> HIDE DEF now, looks, stale
<1>7. \A i \in Items : /\ opts'[i] # None <=> i \in items
                       /\ i \in items => /\ opts'[i].curr = opts[i].curr /\ opts'[i].sets = opts[i].sets
                                         /\ opts'[i].reset = TRUE /\ opts'[i].once = FALSE
  BY <1>2, <1>4, ResetIs
<1>8. batch = {}
  BY <1>1 DEF BundleInv, RestInv
<1>9. RestInv'
  BY <1>1, <1>8 DEF BundleInv, RestInv
<1>10. HoldersInv'
  <2> SUFFICES ASSUME NEW i \in Items, opts'[i] # None PROVE HolderCounts(i)'
    BY DEF HoldersInv
  <2>1. i \in items /\ HolderCounts(i)
    BY <1>4, <1>7 DEF BundleInv, HoldersInv, Live
  <2> QED BY <1>1, <1>7, <2>1 DEF HolderCounts, Could
<1>11. OwnersInv'
  BY <1>1 DEF BundleInv, OwnersInv, Fills, Could, GroupIn
<1>12. Clean' = Clean
  BY <1>1, <1>3 DEF Clean
<1>13. HeldInv'
  <2> SUFFICES ASSUME NEW t \in Clean PROVE Holds(t)'
    BY <1>12 DEF HeldInv
  <2>1. Holds(t)
    BY DEF BundleInv, HeldInv
  <2>2. SetBy(t)' = SetBy(t) /\ Whole(t)' = Whole(t) /\ \A i : GroupIn(i)' = GroupIn(i)
    BY <1>1 DEF SetBy, Whole, GroupIn
  <2>3. \A i \in Whole(t) : i \in Items
    BY DEF Whole, SetBy
  <2>4. \A i \in Whole(t) : opts'[i] # None /\ opts'[i].curr = program'[t][i] /\ GroupIn(i) \in groups'
    BY <1>1, <1>2, <1>5, <1>7, <2>1, <2>3 DEF Holds
  <2>5. \A i \in SetBy(t) : GroupIn(i) \in used'[t]
    BY <1>1, <2>1 DEF Holds
  <2> QED BY <1>1, <2>2, <2>4, <2>5 DEF Holds
<1>14. \A i \in Items : Began(i)' = IF i \in items THEN opts[i].curr ELSE None
  BY <1>1, <1>7 DEF Began
<1>15. \A i \in items : i \in Items /\ opts[i].curr # None /\ HolderCounts(i)
  BY <1>4 DEF BundleInv, HoldersInv, HolderCounts, Live
<1>16. \A i \in Instances : ScriptOf[i] \in Items /\ ScriptOf[i] \in Scripts
  BY JSBatchAssumption DEF Items
<1>17. CASE prevBuild' = PackageOf(items) /\ imported' = imported \cup (items \cap Scripts)
  <2>1. /\ prevBuild' # None
        /\ DOMAIN prevBuild' = {j \in items : j \in Instances => ScriptOf[j] \in items}
        /\ \A i \in DOMAIN prevBuild' : prevBuild'[i].options = opts[i].curr
        /\ \A i \in DOMAIN prevBuild' \cap Scripts : prevBuild'[i].version = version[i]
    BY <1>4, <1>17, PackageIs
  <2>2. ASSUME NEW i \in Items PROVE Packed(i)'
    <3>1. i \in DOMAIN prevBuild' =>
            Began(i)' # None /\ prevBuild'[i].options = Began(i)' /\ (i \in Scripts => i \in imported')
      BY <1>14, <1>15, <1>17, <2>1
    <3>2. i \notin DOMAIN prevBuild' /\ Began(i)' # None => i \in Instances /\ ScriptOf[i] \notin items
      BY <1>14, <2>1
    <3>3. i \in Instances /\ ScriptOf[i] \notin items => Began(ScriptOf[i])' = None
      BY <1>14, <1>16
    <3> QED BY <3>1, <3>2, <3>3 DEF Packed
  <2>3. PackInv'
    BY <2>1, <2>2 DEF PackInv
  <2>4. VersionInv'
    BY <1>1, <2>1 DEF VersionInv
  <2> QED BY <1>9, <1>10, <1>11, <1>13, <2>3, <2>4 DEF BundleInv
<1>18. CASE ~stale /\ UNCHANGED <<prevBuild, imported, retry>>
  <2>1. prevBuild # None /\ items = Live /\ staleVersion # TRUE /\ \A i \in Live : ~IsStaleOpts(opts[i])
    BY <1>6, <1>18
  \* A holder that is not stale is as it was, or new with an empty map.
  <2>2. ASSUME NEW i \in Live
        PROVE  \/ Began(i) = opts[i].curr
               \/ Began(i) = None /\ opts[i].curr = Empty /\ i \notin Scripts
    <3>1. i \in Items /\ opts[i] # None /\ HolderCounts(i)
      BY DEF Live, BundleInv, HoldersInv
    <3>2. CASE i \notin built
      BY <3>1, <3>2 DEF Began
    <3>3. CASE i \in built /\ opts[i].sets = 1
      <4>1. opts[i].reset = FALSE /\ opts[i].before = None /\ opts[i].curr # None
        BY <3>1, <3>3 DEF HolderCounts
      <4>2. ~Differ(opts[i].curr, None)
        BY <2>1, <4>1 DEF IsStaleOpts
      <4>3. opts[i].curr = Empty
        BY <4>1, <4>2 DEF Differ
      <4> QED BY <3>1, <3>3, <4>1, <4>3 DEF Began, HolderCounts
    <3>4. CASE i \in built /\ opts[i].sets # 1
      <4>1. opts[i].before # None /\ opts[i].curr # None
        BY <3>1, <3>4 DEF HolderCounts
      <4>2. ~Differ(opts[i].curr, opts[i].before)
        BY <2>1, <3>4 DEF IsStaleOpts
      <4>3. opts[i].curr = opts[i].before
        BY <4>1, <4>2 DEF Differ
      <4> QED BY <3>1, <3>4, <4>3 DEF Began
    <3> QED BY <3>2, <3>3, <3>4
  <2>3. \A i \in Items : Began(i)' = Began(i) \/ (Began(i) = None /\ Began(i)' = Empty /\ i \notin Scripts)
    <3>1. \A i \in Items \ Live : Began(i) = None
      BY DEF Live, Began
    <3> QED BY <1>14, <2>1, <2>2, <3>1
  <2>4. ASSUME NEW i \in Items PROVE Packed(i)'
    <3>1. Packed(i)
      BY <2>1 DEF BundleInv, PackInv
    <3>2. i \in Instances => Began(ScriptOf[i])' = Began(ScriptOf[i])
      BY <1>16, <2>3
    <3>3. Began(i)' = Began(i) \/ (Began(i) = None /\ Began(i)' = Empty)
      BY <2>3
    <3> QED BY <1>18, <3>1, <3>2, <3>3 DEF Packed
  <2>5. PackInv'
    BY <1>18, <2>1, <2>4 DEF PackInv
  <2>6. VersionInv'
    <3>1. \A i \in Scripts \cap DOMAIN prevBuild : prevBuild[i].version = version[i]
      BY <1>8, <2>1 DEF BundleInv, VersionInv, VersionFollows
    <3> QED BY <1>1, <1>18, <3>1 DEF VersionInv
  <2> QED BY <1>9, <1>10, <1>11, <1>13, <2>5, <2>6 DEF BundleInv
<1> QED BY <1>3, <1>17, <1>18

\* A step keeps BundleInv, while builds end with a bundle.
LEMMA BundleStep ==
  JSBatchTypeOK /\ OneSetter /\ (lapse = FALSE => BundleInv) /\ [JSBatchNext]_batchVars
    => (lapse' = FALSE => BundleInv')
<1> SUFFICES ASSUME JSBatchTypeOK, OneSetter, lapse = FALSE => BundleInv,
                    [JSBatchNext]_batchVars, lapse' = FALSE
             PROVE  BundleInv'
  OBVIOUS
<1>1. lapse = FALSE
  BY DEF JSBatchNext, EditSetter, Run, RunFails, EditScript, Start, Build, Unasked, batchVars,
         JSBatchTypeOK
<1>2. BundleInv
  BY <1>1
<1>3. CASE \E s \in Setters : EditSetter(s) \/ Run(s) \/ RunFails(s)
  BY <1>2, <1>3, EditSetterKeeps, RunKeeps, RunFailsKeeps
<1>4. CASE \E s \in Scripts : EditScript(s)
  BY <1>2, <1>4, EditScriptKeeps
<1>5. CASE Start \/ Build \/ Unasked
  BY <1>2, <1>5, StartKeeps, BuildKeeps, UnaskedKeeps
<1>6. CASE UNCHANGED batchVars
  BY <1>2, <1>6 DEF batchVars, BundleInv, RestInv, HoldersInv, HolderCounts, Could, OwnersInv,
     Fills, GroupIn, HeldInv, Clean, Holds, Whole, SetBy, PackInv, Packed, Began, VersionInv,
     VersionFollows
<1> QED BY <1>3, <1>4, <1>5, <1>6 DEF JSBatchNext

LEMMA BundleStarts == JSBatchInit => BundleInv
<1> SUFFICES ASSUME JSBatchInit PROVE BundleInv
  OBVIOUS
<1>1. /\ program = First /\ prevBuild = None /\ opts = [i \in Items |-> None]
      /\ used = [s \in Setters |-> {}] /\ batch = {} /\ phase = "render" /\ due = Setters /\ built = {}
  BY DEF JSBatchInit
<1>2. RestInv /\ OwnersInv /\ VersionInv
  BY <1>1, JSBatchAssumption DEF RestInv, OwnersInv, VersionInv
<1>3. HoldersInv /\ PackInv
  BY <1>1 DEF HoldersInv, PackInv, Began
<1>4. HeldInv
  BY <1>1 DEF HeldInv, Clean
<1> QED BY <1>2, <1>3, <1>4 DEF BundleInv

\* At rest, what the setters set is in the bundle.
LEMMA BundleHolds ==
  ASSUME JSBatchTypeOK, OneSetter, BundleInv PROVE BundleHasAll
<1> SUFFICES ASSUME BatchAtRest, NEW s \in Setters, NEW i \in SetBy(s), program[s][i] # Empty,
                    i \in Instances => ScriptOf[i] \in Wanted
             PROVE  BundleHas(i, program[s][i])
  BY DEF BundleHasAll
<1>1. built = {} /\ s \in Clean /\ batch = {}
  BY DEF BatchAtRest, BundleInv, RestInv, Clean
<1>2. SetBy(s) \subseteq Could(s) /\ i \in Items
  BY SetsOwn DEF BundleInv
<1>3. i \in Instances => ScriptOf[i] \in SetBy(s) /\ ScriptOf[i] \in Scripts
  <2> SUFFICES ASSUME i \in Instances PROVE ScriptOf[i] \in SetBy(s) /\ ScriptOf[i] \in Scripts
    OBVIOUS
  <2>1. PICK t \in Setters : ScriptOf[i] \in SetBy(t)
    BY DEF Wanted
  <2>2. ScriptOf[i] \in Could(t) /\ ScriptOf[i] \in Scripts
    BY <2>1, SetsOwn, JSBatchAssumption DEF BundleInv
  <2>3. i \notin Scripts
    BY JSBatchAssumption
  <2>4. GroupIn(ScriptOf[i]) = GroupIn(i)
    BY <2>2, <2>3 DEF GroupIn
  <2>5. s = t
    BY <1>2, <2>2, <2>4, FillsApart, InFills
  <2> QED BY <2>1, <2>2, <2>5
<1>4. i \in Whole(s) /\ (i \in Instances => ScriptOf[i] \in Whole(s))
  BY <1>3, JSBatchAssumption DEF Whole
<1>5. \A j \in Whole(s) : opts[j] # None /\ opts[j].curr = program[s][j] /\ program[s][j] # None
  BY <1>1 DEF BundleInv, HeldInv, Holds, Whole, SetBy
<1>6. \A j \in Whole(s) : Began(j) = program[s][j] /\ Began(j) # None
  BY <1>1, <1>5 DEF Began
<1>7. prevBuild # None /\ Packed(i)
  BY <1>2, <1>4, <1>6 DEF BundleInv, PackInv
<1>8. i \in DOMAIN prevBuild /\ prevBuild[i].options = program[s][i]
  BY <1>4, <1>6, <1>7 DEF Packed
<1>9. i \in Scripts => prevBuild[i].version = version[i]
  BY <1>1, <1>7, <1>8 DEF BundleInv, VersionInv, VersionFollows
<1> QED BY <1>8, <1>9 DEF BundleHas

\* Of what a page may set, the batcher holds what the page sets and has used, and
\* what is about to be removed.
Leaves(s) ==
  /\ phase = "idle" \/ s \in due => Live \cap Could(s) \subseteq used[s]
  /\ Live \cap SetBy(s) \subseteq used[s]
  /\ \A i \in (Live \cap Could(s)) \ SetBy(s) :
       s \in batch \/ (phase = "render" /\ staleVersion = FALSE /\ i \in touched /\ i \notin built)

MoreInv == retry = {} /\ \A s \in Pages : Leaves(s)

LEMMA LeavesOn ==
  ASSUME NEW s, Leaves(s), Live' \cap Could(s) = Live \cap Could(s), program'[s] = program[s],
         used'[s] = used[s], batch \subseteq batch', phase' = phase, due' \subseteq due,
         UNCHANGED <<touched, staleVersion>>, Could(s) \cap built' \subseteq built,
         SetBy(s) \subseteq Could(s)
  PROVE  Leaves(s)'
<1>1. Could(s)' = Could(s) /\ SetBy(s)' = SetBy(s)
  BY DEF Could, SetBy
<1>2. Live' \cap SetBy(s) = Live \cap SetBy(s)
  OBVIOUS
<1> HIDE DEF Live
<1>3. phase' = "idle" \/ s \in due' => Live' \cap Could(s) \subseteq used'[s]
  BY DEF Leaves
<1>4. Live' \cap SetBy(s) \subseteq used'[s]
  BY <1>2 DEF Leaves
<1>5. \A i \in (Live' \cap Could(s)) \ SetBy(s) :
        s \in batch' \/ (phase' = "render" /\ staleVersion' = FALSE /\ i \in touched' /\ i \notin built')
  BY DEF Leaves
<1> QED BY <1>1, <1>3, <1>4, <1>5 DEF Leaves

\* At the end of a build nothing is left that a page does not set.
LEMMA LeavesNothing ==
  ASSUME NEW s, Live' \cap Could(s) \subseteq SetBy(s), Live' \subseteq Live, Leaves(s),
         UNCHANGED <<program, used>>, SetBy(s) \subseteq Could(s)
  PROVE  Leaves(s)'
<1>1. Could(s)' = Could(s) /\ SetBy(s)' = SetBy(s)
  BY DEF Could, SetBy
<1> HIDE DEF Live
<1>2. Live' \cap Could(s) \subseteq used'[s] /\ Live' \cap SetBy(s) \subseteq used'[s]
  BY DEF Leaves
<1> QED BY <1>1, <1>2 DEF Leaves

LEMMA MoreStep ==
  ASSUME JSBatchTypeOK, OneSetter, BundleInv, MoreInv, [JSBatchNext]_batchVars,
         lapse' = FALSE, mixed' = FALSE
  PROVE  MoreInv'
<1>0. \A s \in Pages : s \in Setters /\ SetBy(s) \subseteq Could(s) /\ Leaves(s)
  BY SetsOwn, JSBatchAssumption DEF BundleInv, MoreInv
<1>1. ASSUME NEW s \in Setters, EditSetter(s) PROVE MoreInv'
  <2>1. PICK p \in Programs[s] : program' = [program EXCEPT ![s] = p]
    BY <1>1 DEF EditSetter
  <2>2. /\ phase = "idle" /\ batch' = batch \cup {s}
        /\ UNCHANGED <<version, broken, retry, phase, due, built, touched, groups, opts, imported,
                       used, staleVersion, prevBuild, asked, lapse, mixed>>
    BY <1>1 DEF EditSetter
  <2>3. Live' = Live
    BY <2>2 DEF Live
  <2>4. ASSUME NEW t \in Pages PROVE Leaves(t)'
    <3>1. CASE t = s
      <4>1. Could(s)' = Could(s)
        BY DEF Could
      <4>2. program'[s] = p
        BY <2>1 DEF JSBatchTypeOK
      <4>3. SetBy(s)' \subseteq Could(s)
        BY <2>1, <4>2 DEF SetBy, Could
      <4>4. Live \cap Could(s) \subseteq used[s]
        BY <1>0, <2>2, <3>1 DEF Leaves
      <4> HIDE DEF Live
      <4> QED BY <2>2, <2>3, <3>1, <4>1, <4>3, <4>4 DEF Leaves
    <3>2. CASE t # s
      <4>1. program'[t] = program[t]
        BY <1>0, <2>1, <3>2 DEF JSBatchTypeOK
      <4> QED BY <1>0, <2>2, <2>3, <4>1, LeavesOn
    <3> QED BY <3>1, <3>2
  <2> QED BY <2>2, <2>4 DEF MoreInv
<1>2. ASSUME NEW s \in Scripts, EditScript(s) PROVE MoreInv'
  <2>1. /\ batch' = batch \cup {s}
        /\ UNCHANGED <<program, retry, phase, due, built, touched, groups, opts, imported,
                       used, staleVersion, prevBuild, asked, lapse, mixed>>
    BY <1>2 DEF EditScript
  <2>2. Live' = Live
    BY <2>1 DEF Live
  <2>3. ASSUME NEW t \in Pages PROVE Leaves(t)'
    BY <1>0, <2>1, <2>2, LeavesOn
  <2> QED BY <2>1, <2>3 DEF MoreInv
<1>3. ASSUME Start PROVE MoreInv'
  <2> DEFINE changed == {s \in Setters : s \in Changes \/ DependsOn(s) \cap Changes # {}}
  <2>1. PICK heard \in SUBSET Changes :
          (Changes \cap imported = {} => heard = Changes) /\ Heard(heard)
    BY <1>3 DEF Start
  <2>2. /\ phase = "idle" /\ phase' = "render" /\ batch' = {} /\ retry' = {}
        /\ mixed' = (mixed \/ (Changes \cap Setters # {} /\ staleVersion'))
        /\ UNCHANGED <<program, version, broken, built, groups, opts, imported, used,
                       prevBuild, asked, lapse, edits>>
    BY <1>3 DEF Start
  <2>3. built = {} /\ Changes = batch /\ staleVersion' \in BOOLEAN
    BY <2>1, <2>2 DEF BundleInv, RestInv, MoreInv, Changes, Heard, JSBatchTypeOK
  <2>4. ASSUME NEW t \in Pages PROVE Leaves(t)'
    <3>1. Live' = Live /\ Could(t)' = Could(t) /\ SetBy(t)' = SetBy(t) /\ used'[t] = used[t]
      BY <2>2 DEF Live, Could, SetBy
    <3>2. Live \cap Could(t) \subseteq used[t]
      BY <1>0, <2>2 DEF Leaves
    <3>3. ASSUME NEW i \in (Live \cap Could(t)) \ SetBy(t)
          PROVE  staleVersion' = FALSE /\ i \in touched' /\ i \notin built'
      <4>1. t \in batch
        BY <1>0, <2>2, <3>3 DEF Leaves
      <4>2. staleVersion' = FALSE
        BY <1>0, <2>2, <2>3, <4>1
      <4>3. heard = Changes
        BY <2>1, <4>2 DEF Heard
      <4>4. i \in used[t] /\ i \in Known
        BY <3>2, <3>3 DEF Known, Live
      <4>5. i \in UsedBy(t)
        BY <4>4 DEF UsedBy
      <4>6. i \in touched'
        BY <2>1, <2>3, <4>1, <4>3, <4>4, <4>5 DEF Heard
      <4> QED BY <2>2, <2>3, <4>2, <4>6
    <3> HIDE DEF Live
    <3>4. Live \cap SetBy(t) \subseteq used[t]
      BY <1>0 DEF Leaves
    <3> QED BY <2>2, <3>1, <3>2, <3>3, <3>4 DEF Leaves
  <2> QED BY <2>2, <2>4 DEF MoreInv
<1>4. ASSUME NEW s \in Setters, Run(s) PROVE MoreInv'
  <2> DEFINE mine == {GroupIn(i) : i \in SetBy(s)}
             free == {i \in SetBy(s) : ~Holder(i).once}
  <2>1. /\ opts' = [i \in Items |-> IF i \in free THEN SetOptions(Holder(i), program[s][i]) ELSE opts[i]]
        /\ built' = built \cup mine \cup free
        /\ used' = [used EXCEPT ![s] = mine \cup free]
        /\ due' = due \ {s} /\ s \in due /\ phase = "render"
        /\ UNCHANGED <<program, version, broken, batch, retry, phase, touched, imported,
                       staleVersion, prevBuild, lapse, mixed, edits>>
    BY <1>4 DEF Run
  <2>2. free = SetBy(s)
    BY <1>4, RunSetsAll
  <2>3. SetBy(s) \subseteq Could(s) /\ SetBy(s) \subseteq Items
    BY SetsOwn DEF BundleInv
  <2>4. \A x \in mine : x \notin Items /\ x \in Fills(s)
    BY <2>3, InFills, GroupOfItem
  <2>5. \A i \in Items \ SetBy(s) : opts'[i] = opts[i] /\ (i \in built' => i \in built)
    BY <2>1, <2>2, <2>4
  <2> HIDE DEF mine, free
  <2>6. ASSUME NEW t \in Pages PROVE Leaves(t)'
    <3>1. Could(t)' = Could(t) /\ SetBy(t)' = SetBy(t) /\ Could(t) \subseteq Items
      BY <2>1 DEF Could, SetBy
    <3>2. CASE t = s
      <4>1. s \notin due' /\ phase' = "render" /\ used'[s] = mine \cup SetBy(s)
        BY <2>1, <2>2 DEF JSBatchTypeOK
      <4>3. \A i \in (Live \cap Could(s)) \ SetBy(s) :
              s \in batch \/ (staleVersion = FALSE /\ i \in touched /\ i \notin built)
        BY <1>0, <3>2 DEF Leaves
      <4>4. \A i \in (Live' \cap Could(s)) \ SetBy(s) : i \in Items /\ i \in (Live \cap Could(s)) \ SetBy(s)
        BY <2>5, <3>1, <3>2 DEF Live
      <4> HIDE DEF Live
      <4>5. \A i \in (Live' \cap Could(s)) \ SetBy(s) :
              s \in batch' \/ (staleVersion' = FALSE /\ i \in touched' /\ i \notin built')
        BY <2>1, <2>5, <4>3, <4>4
      <4> QED BY <3>1, <3>2, <4>1, <4>5 DEF Leaves
    <3>3. CASE t # s
      <4>1. Fills(t) \cap Fills(s) = {}
        BY <1>0, <3>3, FillsApart
      <4>2. \A i \in Could(t) : i \in Items \ SetBy(s)
        BY <1>0, <2>3, <3>1, <4>1, InFills
      <4>3. Live' \cap Could(t) = Live \cap Could(t) /\ Could(t) \cap built' \subseteq built
        BY <2>5, <4>2 DEF Live
      <4>4. program'[t] = program[t] /\ used'[t] = used[t] /\ due' \subseteq due
        BY <1>0, <2>1, <3>3 DEF JSBatchTypeOK
      <4> HIDE DEF Live
      <4> QED BY <1>0, <2>1, <4>3, <4>4, LeavesOn
    <3> QED BY <3>2, <3>3
  <2> QED BY <2>1, <2>6 DEF MoreInv
<1>5. ASSUME NEW s \in Setters, RunFails(s) PROVE MoreInv'
  BY <1>5 DEF RunFails
<1>6. ASSUME Build PROVE MoreInv'
  <2> DEFINE looks == prevBuild # None /\ ~staleVersion
             now == IF looks THEN RemoveNotSet ELSE [groups |-> groups, items |-> Live]
  <2>1. /\ phase' = "idle" /\ due = {} /\ UNCHANGED <<program, used>> /\ ResetAll(now.items)
        /\ phase = "render" /\ retry' = retry /\ batch = {}
    BY <1>6 DEF Build, BundleInv, RestInv
  <2>2. now.items \subseteq Live
    BY KeptType
  <2>3. Live' = now.items
    <3> HIDE DEF now
    <3>1. \A i \in Items : opts'[i] # None <=> i \in now.items
      BY <2>1, <2>2, ResetIs
    <3>2. Live' = {i \in Items : opts'[i] # None}
      BY DEF Live
    <3>3. now.items \subseteq Items
      BY <2>2 DEF Live
    <3> QED BY <3>1, <3>2, <3>3
  <2>4. ASSUME NEW t \in Pages, NEW i \in (Live \cap Could(t)) \ SetBy(t) PROVE i \notin now.items
    <3>1. staleVersion = FALSE /\ i \in touched /\ i \notin built
      BY <1>0, <2>1, <2>4 DEF Leaves
    <3>2. opts[i] # None /\ i \in Items
      BY <2>4 DEF Live
    <3>3. prevBuild # None
      BY <3>1, <3>2 DEF BundleInv, PackInv, Began, HoldersInv, HolderCounts
    <3>4. \A g : i \notin Kept(g)
      BY <2>4, <3>1 DEF Kept, With
    <3>5. i \notin RemoveNotSet.items
      BY <3>4 DEF RemoveNotSet
    <3> QED BY <3>1, <3>3, <3>5
  <2> HIDE DEF now, looks
  <2>5. ASSUME NEW t \in Pages PROVE Leaves(t)'
    <3>1. now.items \cap Could(t) \subseteq SetBy(t)
      BY <2>2, <2>4
    <3> QED BY <1>0, <2>1, <2>2, <2>3, <3>1, LeavesNothing
  <2> QED BY <2>1, <2>5 DEF MoreInv
<1>7. ASSUME Unasked PROVE MoreInv'
  <2>1. /\ phase' = "idle" /\ UNCHANGED <<program, used>> /\ ResetAll(Live)
        /\ phase = "render" /\ retry' = retry /\ batch = {} /\ touched = {}
    BY <1>7 DEF Unasked, BundleInv, RestInv
  <2>2. Live' = Live
    <3>1. Live' = {i \in Items : opts'[i] # None} /\ Live \subseteq Items
      BY DEF Live
    <3> HIDE DEF Live
    <3>2. \A i \in Items : opts'[i] # None <=> i \in Live
      BY <2>1, ResetIs
    <3> QED BY <3>1, <3>2
  <2>3. ASSUME NEW t \in Pages PROVE Leaves(t)'
    <3>1. Live \cap Could(t) \subseteq SetBy(t)
      BY <1>0, <2>1 DEF Leaves
    <3> QED BY <1>0, <2>1, <2>2, <3>1, LeavesNothing
  <2> QED BY <2>1, <2>3 DEF MoreInv
<1>8. CASE UNCHANGED batchVars
  BY <1>8 DEF batchVars, MoreInv, Leaves, Live, Could, SetBy
<1> QED BY <1>1, <1>2, <1>3, <1>4, <1>5, <1>6, <1>7, <1>8 DEF JSBatchNext

LEMMA MoreStarts == JSBatchInit => MoreInv
<1> SUFFICES ASSUME JSBatchInit PROVE MoreInv
  OBVIOUS
<1>1. retry = {} /\ opts = [i \in Items |-> None]
  BY DEF JSBatchInit
<1>2. Live = {}
  BY <1>1 DEF Live
<1> QED BY <1>1, <1>2 DEF MoreInv, Leaves

\* At rest, the bundle has nothing of a page that no page sets.
LEMMA BundleLeavesNothing ==
  ASSUME JSBatchTypeOK, BundleInv, MoreInv PROVE BundleHasNoMore
<1> SUFFICES ASSUME BatchAtRest, prevBuild # None, NEW i \in DOMAIN prevBuild \cap OfPages
             PROVE  i \in Wanted
  BY DEF BundleHasNoMore
<1>1. i \in Items /\ \A s \in Setters \ Pages : i \notin Could(s)
  BY DEF OfPages, Could
<1>2. opts[i] # None
  BY <1>1 DEF BundleInv, PackInv, Packed, Began
<1>3. PICK s \in Setters : i \in Could(s)
  BY <1>1, <1>2 DEF BundleInv, HoldersInv, HolderCounts
<1>4. s \in Pages /\ i \in Live \cap Could(s)
  BY <1>1, <1>2, <1>3 DEF Live
<1>5. phase = "idle" /\ s \notin batch
  BY DEF BatchAtRest
<1>6. i \in SetBy(s)
  BY <1>4, <1>5 DEF MoreInv, Leaves
<1> QED BY <1>3, <1>6 DEF Wanted

\* At rest, the bundle that pages are served with, new or used again, has what the
\* pages and layouts set, as it is now, and nothing else: for any setters, groups,
\* scripts and options and any number of changes, where BundleFits says so.
THEOREM BundleIsFitting == JSBatchSpec => []BundleFits
<1> DEFINE Inv == /\ OneSetter /\ lapse = FALSE => BundleInv
                  /\ OneSetter /\ lapse = FALSE /\ mixed = FALSE => MoreInv
<1>1. JSBatchInit => Inv
  BY BundleStarts, MoreStarts
<1>2. JSBatchTypeOK /\ Inv /\ [JSBatchNext]_batchVars => Inv'
  <2> SUFFICES ASSUME JSBatchTypeOK, Inv, [JSBatchNext]_batchVars PROVE Inv'
    OBVIOUS
  <2>1. OneSetter' <=> OneSetter
    BY DEF OneSetter, GroupIn
  <2>2. lapse' = FALSE => lapse = FALSE
    BY DEF JSBatchNext, EditSetter, Run, RunFails, EditScript, Start, Build, Unasked, batchVars,
           JSBatchTypeOK
  <2>3. mixed' = FALSE => mixed = FALSE
    BY DEF JSBatchNext, EditSetter, Run, RunFails, EditScript, Start, Build, Unasked, batchVars,
           JSBatchTypeOK
  <2>4. OneSetter /\ lapse' = FALSE => BundleInv'
    BY <2>2, BundleStep
  <2>5. OneSetter /\ lapse' = FALSE /\ mixed' = FALSE => MoreInv'
    BY <2>2, <2>3, MoreStep
  <2> QED BY <2>1, <2>4, <2>5
<1>3. JSBatchTypeOK /\ Inv => BundleFits
  BY BundleHolds, BundleLeavesNothing
     DEF BundleFits, BundleHasAllUnlessLapsed, BundleHasNoMoreUnlessMixed, JSBatchTypeOK
<1> HIDE DEF Inv
<1> QED BY <1>1, <1>2, <1>3, JSBatchTypes, PTL DEF JSBatchSpec

-----------------------------------------------------------------------------
(* LazyInit, for any Inits, callers and number of builds.                   *)

\* A caller's calls of Do begin with an Init that templates ask for, and stand at
\* a child only where there is one.
StackOK(s) ==
  /\ s \in Seq(Frame)
  /\ s # <<>> => s[1].init \in Asked
  /\ \A n \in 1..Len(s) : s[n].at = "child" => Child[s[n].init] # None

StacksOK == \A c \in Callers : StackOK(stack[c])

Places == {"swap", "enter", "work", "working", "child", "store", "unlock", "open", "wait"}

LEMMA TopFrame ==
  ASSUME NEW s, StackOK(s), s # <<>>
  PROVE  Len(s) \in Nat \ {0} /\ s[Len(s)] \in Frame
BY DEF StackOK

\* The innermost call goes on.
LEMMA OtherTop ==
  ASSUME NEW s, StackOK(s), s # <<>>, NEW f \in Frame, f.init = s[Len(s)].init,
         f.at = "child" => Child[f.init] # None
  PROVE  StackOK([s EXCEPT ![Len(s)] = f])
<1> DEFINE t == [s EXCEPT ![Len(s)] = f]
<1>1. Len(s) \in Nat \ {0} /\ s[Len(s)] \in Frame
  BY TopFrame
<1>2. t \in Seq(Frame) /\ Len(t) = Len(s)
  BY <1>1 DEF StackOK
<1>3. \A n \in 1..Len(s) : t[n] = IF n = Len(s) THEN f ELSE s[n]
  BY DEF StackOK
<1> HIDE DEF t
<1>4. t[1].init \in Asked
  BY <1>1, <1>3 DEF StackOK
<1>5. \A n \in 1..Len(t) : t[n].at = "child" => Child[t[n].init] # None
  BY <1>2, <1>3 DEF StackOK
<1>6. StackOK(t)
  BY <1>2, <1>4, <1>5 DEF StackOK
<1> QED BY <1>6 DEF t

\* One more call begins.
LEMMA OneMore ==
  ASSUME NEW s, StackOK(s), NEW f \in Frame, s = <<>> => f.init \in Asked, f.at # "child"
  PROVE  StackOK(Append(s, f))
<1>1. s \in Seq(Frame)
  BY DEF StackOK
<1>2. /\ Append(s, f) \in Seq(Frame) /\ Len(Append(s, f)) = Len(s) + 1 /\ Len(s) \in Nat
      /\ \A n \in 1..Len(s) : Append(s, f)[n] = s[n]
      /\ Append(s, f)[Len(s) + 1] = f
  BY <1>1
<1> DEFINE t == Append(s, f)
<1> HIDE DEF t
<1>3. t[1].init \in Asked
  <2>1. CASE s = <<>>
    BY <1>2, <2>1 DEF t
  <2>2. CASE s # <<>>
    <3>1. Len(s) >= 1
      BY <1>1, <2>2
    <3> QED BY <1>2, <2>2, <3>1 DEF t, StackOK
  <2> QED BY <2>1, <2>2
<1>4. \A n \in 1..Len(t) : t[n].at = "child" => Child[t[n].init] # None
  BY <1>2 DEF t, StackOK
<1>5. StackOK(t)
  BY <1>2, <1>3, <1>4 DEF t, StackOK
<1> QED BY <1>5 DEF t

\* The innermost call returns to the one below it, which may be changed to end.
LEMMA OneLess ==
  ASSUME NEW s, StackOK(s), Len(s) - 1 # 0, s # <<>>, NEW f \in Frame,
         f.init = s[Len(s) - 1].init, f.at \in {s[Len(s) - 1].at, "store"}
  PROVE  StackOK(Append(SubSeq(s, 1, Len(s) - 2), f))
<1>1. s \in Seq(Frame) /\ Len(s) \in Nat /\ Len(s) >= 2
  <2>1. s \in Seq(Frame) /\ Len(s) \in Nat \ {0}
    BY TopFrame DEF StackOK
  <2> DEFINE n == Len(s)
  <2>2. n \in Nat \ {0} /\ n - 1 # 0
    BY <2>1
  <2> HIDE DEF n
  <2>3. n >= 2
    BY <2>2
  <2> QED BY <2>1, <2>3 DEF n
<1> DEFINE rest == SubSeq(s, 1, Len(s) - 2)
           t == Append(rest, f)
<1>2. rest \in Seq(Frame) /\ Len(rest) = Len(s) - 2 /\ \A n \in 1..Len(rest) : rest[n] = s[n]
  <2> DEFINE k == Len(s) - 2
  <2>1. 1 \in Int /\ k \in Int /\ \A n \in 1..k : s[n] \in Frame
    BY <1>1
  <2> HIDE DEF k
  <2>2. /\ SubSeq(s, 1, k) \in Seq(Frame)
        /\ Len(SubSeq(s, 1, k)) = IF 1 <= k THEN k - 1 + 1 ELSE 0
        /\ \A n \in 1..(k - 1 + 1) : SubSeq(s, 1, k)[n] = s[1 + n - 1]
    BY <2>1, SubSeqProperties
  <2>3. k \in Nat /\ k - 1 + 1 = k /\ \A n \in Nat : 1 + n - 1 = n
    BY <1>1 DEF k
  <2>4. Len(SubSeq(s, 1, k)) = k
    BY <2>2, <2>3
  <2> QED BY <2>2, <2>3, <2>4 DEF k
<1> HIDE DEF rest
<1>3. /\ t \in Seq(Frame) /\ Len(t) = Len(s) - 1
      /\ \A n \in 1..Len(rest) : t[n] = rest[n]
      /\ t[Len(rest) + 1] = f
  BY <1>1, <1>2
<1>4. \A n \in 1..Len(t) : t[n] = IF n = Len(s) - 1 THEN f ELSE s[n]
  BY <1>1, <1>2, <1>3
<1> HIDE DEF t
<1>5. \A n \in 1..Len(t) : t[n].init = s[n].init /\ t[n].at \in {s[n].at, "store"}
  BY <1>1, <1>3, <1>4
<1>6. t[1].init \in Asked
  BY <1>1, <1>3, <1>5 DEF StackOK
<1>7. \A n \in 1..Len(t) : t[n].at = "child" => Child[t[n].init] # None
  BY <1>1, <1>3, <1>5 DEF StackOK
<1>8. StackOK(t)
  BY <1>3, <1>6, <1>7 DEF StackOK
<1> QED BY <1>8 DEF t, rest

\* What Init.Do begins with is a call.
LEMMA CallType == ASSUME NEW i \in Inits PROVE Call(i) \in Frame /\ Call(i).init = i /\ Call(i).at # "child"
BY DEF Call, Frame

LEMMA FrameType ==
  ASSUME NEW f \in Frame, NEW p \in Places, NEW v \in Nat \cup {Mixed}
  PROVE  /\ [f EXCEPT !.at = p] \in Frame
         /\ [f EXCEPT !.at = p].init = f.init /\ [f EXCEPT !.at = p].at = p
         /\ [f EXCEPT !.at = p, !.from = v] \in Frame
         /\ [f EXCEPT !.at = p, !.from = v].init = f.init
         /\ [f EXCEPT !.at = p, !.from = v].at = p
BY DEF Frame, Places

\* A caller moves on: its stack stays a stack.
LEMMA MovesOn ==
  ASSUME LazyInitTypeOK, StacksOK, NEW c \in Callers, stack[c] # <<>>, NEW p \in Places,
         p = "child" => Child[On(c)] # None, Moves(c, p)
  PROVE  stack' \in [Callers -> Seq(Frame)] /\ StacksOK'
<1>1. StackOK(stack[c])
  BY DEF StacksOK
<1> DEFINE s == stack[c]
           f == [s[Len(s)] EXCEPT !.at = p]
           t == [s EXCEPT ![Len(s)] = f]
<1>2. f \in Frame /\ f.init = s[Len(s)].init /\ f.at = p
  <2>1. s[Len(s)] \in Frame
    BY <1>1, TopFrame
  <2> HIDE DEF s
  <2>2. 0 \in Nat \cup {Mixed}
    OBVIOUS
  <2> QED BY <2>1, <2>2, FrameType
<1>3. StackOK(t)
  <2>1. f.at = "child" => Child[f.init] # None
    BY <1>2 DEF On, Top
  <2> HIDE DEF f
  <2> QED BY <1>1, <1>2, <2>1, OtherTop
<1>4. stack' = [stack EXCEPT ![c] = t]
  BY DEF Moves, LazyInitTypeOK
<1> HIDE DEF t
<1>5. \A d \in Callers : stack'[d] = IF d = c THEN t ELSE stack[d]
  BY <1>4 DEF LazyInitTypeOK
<1>6. t \in Seq(Frame)
  BY <1>3 DEF StackOK
<1>7. StacksOK'
  BY <1>3, <1>5 DEF StacksOK, StackOK
<1> QED BY <1>4, <1>6, <1>7 DEF LazyInitTypeOK

\* A step that leaves the types of the rest to the stacks.
LEMMA LazyInitRest ==
  ASSUME LazyInitTypeOK, stack' \in [Callers -> Seq(Frame)], UNCHANGED <<lapsed, answer, buildVars>>,
         locked' \in [Inits -> BOOLEAN], done' \in [Inits -> BOOLEAN],
         mu' \in [Inits -> Callers \cup {None}], err' \in [Inits -> BOOLEAN],
         value' \in [Works -> Nat \cup {Mixed}]
  PROVE  LazyInitTypeOK'
BY DEF LazyInitTypeOK, buildVars

LEMMA AfterIs ==
  ASSUME NEW i \in Inits
  PROVE  /\ AfterWork(i) \in Places /\ (AfterWork(i) = "child" => Child[i] # None)
         /\ AfterCheck(i) \in Places /\ (AfterCheck(i) = "child" => Child[i] # None)
BY DEF AfterWork, AfterCheck, Places

\* What a template is given is what a function has made, or None.
LEMMA ValueType ==
  ASSUME LazyInitTypeOK, NEW i \in Inits PROVE Value(i) \in Nat \cup {Mixed, None}
BY DEF Value, LazyInitTypeOK

\* A Do that returns, to a template or to the Do below it.
LEMMA AnswersType ==
  ASSUME LazyInitTypeOK, StacksOK, NEW c \in Callers, stack[c] # <<>>, Answers(c)
  PROVE  LazyInitTypeOK' /\ StacksOK'
<1> DEFINE s == stack[c]
           outer == Len(s) - 1
<1>1. StackOK(s) /\ Len(s) \in Nat \ {0} /\ s[Len(s)] \in Frame /\ On(c) = s[Len(s)].init
  BY TopFrame DEF StacksOK, On, Top
<1>2. On(c) \in Inits /\ UNCHANGED <<onceVars, value, lapsed, buildVars>>
  BY <1>1 DEF Frame, Answers
<1>3. CASE outer = 0
  <2>1. /\ answer' = [answer EXCEPT ![c] = [init |-> On(c), value |-> Value(On(c))]]
        /\ stack' = [stack EXCEPT ![c] = <<>>] /\ UNCHANGED err
    BY <1>3 DEF Answers
  <2>2. On(c) \in Asked
    BY <1>1, <1>3 DEF StackOK
  <2>3. Value(On(c)) \in Nat \cup {Mixed, None}
    BY <1>2, ValueType
  <2>4. answer' \in [Callers -> [init : Asked, value : Nat \cup {Mixed, None}] \cup {None}]
    BY <2>1, <2>2, <2>3 DEF LazyInitTypeOK
  <2>5. StackOK(<<>>) /\ <<>> \in Seq(Frame)
    BY DEF StackOK
  <2>6. stack' \in [Callers -> Seq(Frame)] /\ StacksOK'
    <3>1. \A d \in Callers : stack'[d] = IF d = c THEN <<>> ELSE stack[d]
      BY <2>1 DEF LazyInitTypeOK
    <3> QED BY <2>1, <2>5, <3>1 DEF StacksOK, StackOK, LazyInitTypeOK
  <2> QED BY <1>2, <2>1, <2>4, <2>6 DEF LazyInitTypeOK, onceVars, buildVars
<1>4. CASE outer # 0
  <2> DEFINE caller == s[outer]
             then == IF err[On(c)] THEN [caller EXCEPT !.at = "store"] ELSE caller
             t == Append(SubSeq(s, 1, outer - 1), then)
  <2>1. stack' = [stack EXCEPT ![c] = t] /\ UNCHANGED answer
        /\ err' = [err EXCEPT ![caller.init] = @ \/ err[On(c)]]
    BY <1>4 DEF Answers, LazyInitTypeOK
  <2>2. caller \in Frame
    <3>1. outer \in 1..Len(s)
      <4> DEFINE n == Len(s)
      <4>1. n \in Nat \ {0} /\ n - 1 # 0
        BY <1>1, <1>4
      <4> HIDE DEF n
      <4>2. n - 1 \in 1..n
        BY <4>1
      <4> QED BY <4>2 DEF n
    <3> QED BY <1>1, <3>1 DEF StackOK
  <2>3. then \in Frame /\ then.init = caller.init /\ then.at \in {caller.at, "store"}
    <3>1. "store" \in Places
      BY DEF Places
    <3> HIDE DEF caller
    <3> QED BY <2>2, <3>1, FrameType
  <2>4. StackOK(t)
    <3>1. outer - 1 = Len(s) - 2
      BY <1>1
    <3> HIDE DEF then
    <3>2. StackOK(Append(SubSeq(s, 1, Len(s) - 2), then))
      BY <1>1, <1>4, <2>3, OneLess
    <3> QED BY <3>1, <3>2
  <2> HIDE DEF t, then
  <2>5. err' \in [Inits -> BOOLEAN]
    <3>1. caller.init \in Inits
      BY <2>2 DEF Frame
    <3>2. (err[caller.init] \/ err[On(c)]) \in BOOLEAN
      OBVIOUS
    <3> QED BY <2>1, <3>1, <3>2 DEF LazyInitTypeOK
  <2>6. stack' \in [Callers -> Seq(Frame)] /\ StacksOK'
    <3>1. \A d \in Callers : stack'[d] = IF d = c THEN t ELSE stack[d]
      BY <2>1 DEF LazyInitTypeOK
    <3> QED BY <2>1, <2>4, <3>1 DEF StacksOK, StackOK, LazyInitTypeOK
  <2> QED BY <1>2, <2>1, <2>5, <2>6 DEF LazyInitTypeOK, onceVars, buildVars
<1> QED BY <1>3, <1>4

LEMMA DoesType ==
  ASSUME LazyInitTypeOK, StacksOK, NEW c \in Callers, Does(c)
  PROVE  LazyInitTypeOK' /\ StacksOK'
<1> USE DEF Stands
<1>0. stack[c] # <<>>
  BY DEF Does, Swap, Enter, Work, Worked, Children, Store, Unlock, Open, Waited
<1>1. StackOK(stack[c]) /\ Top(c) \in Frame /\ On(c) \in Inits
  BY <1>0, TopFrame DEF StacksOK, On, Top, Frame
<1>2. {"enter", "wait", "unlock", "open", "store"} \subseteq Places
  BY DEF Places
<1>3. ASSUME NEW p \in Places, Moves(c, p), p = "child" => Child[On(c)] # None
      PROVE  stack' \in [Callers -> Seq(Frame)] /\ StacksOK'
  BY <1>0, <1>3, MovesOn
<1>4. CASE Swap(c)
  <2>1. stack' \in [Callers -> Seq(Frame)] /\ StacksOK'
    BY <1>2, <1>3, <1>4 DEF Swap
  <2>2. locked' \in [Inits -> BOOLEAN] /\ crossed' \subseteq Inits
    BY <1>1, <1>4 DEF Swap, LazyInitTypeOK
  <2>3. UNCHANGED <<done, mu, valueVars, lapsed, answer, build, changing, toReset, since>>
    BY <1>4 DEF Swap
  <2> QED BY <2>1, <2>2, <2>3 DEF LazyInitTypeOK, valueVars
<1>5. CASE Enter(c)
  <2>1. Moves(c, IF done[On(c)] THEN "unlock" ELSE AfterCheck(On(c)))
    BY <1>5 DEF Enter
  <2>2. stack' \in [Callers -> Seq(Frame)] /\ StacksOK'
    BY <1>1, <1>2, <1>3, <2>1, AfterIs
  <2>3. mu' \in [Inits -> Callers \cup {None}]
    BY <1>1, <1>5 DEF Enter, LazyInitTypeOK
  <2>4. UNCHANGED <<locked, done, valueVars, lapsed, answer, buildVars>>
    BY <1>5 DEF Enter
  <2> QED BY <2>2, <2>3, <2>4 DEF LazyInitTypeOK, valueVars, buildVars
<1>6. CASE Work(c)
  <2> DEFINE s == stack[c]
             f == [s[Len(s)] EXCEPT !.at = "working", !.from = Finds(On(c))]
             t == [s EXCEPT ![Len(s)] = f]
  <2>1. stack' = [stack EXCEPT ![c] = t] /\ UNCHANGED <<onceVars, valueVars, lapsed, answer, buildVars>>
    BY <1>6 DEF Work, LazyInitTypeOK
  <2>2. Finds(On(c)) \in Nat \cup {Mixed} /\ "working" \in Places
    BY <1>1 DEF Finds, LazyInitTypeOK, Places
  <2>3. f \in Frame /\ f.init = s[Len(s)].init /\ f.at = "working"
    <3> DEFINE g == s[Len(s)]
               v == Finds(On(c))
    <3>1. g \in Frame /\ v \in Nat \cup {Mixed}
      BY <1>1, <2>2 DEF Top
    <3> HIDE DEF g, v
    <3>2. /\ [g EXCEPT !.at = "working", !.from = v] \in Frame
          /\ [g EXCEPT !.at = "working", !.from = v].init = g.init
          /\ [g EXCEPT !.at = "working", !.from = v].at = "working"
      BY <3>1 DEF Frame
    <3> QED BY <3>2 DEF g, v
  <2> HIDE DEF f
  <2>4. StackOK(t)
    <3> HIDE DEF s
    <3>1. StackOK(s) /\ s # <<>>
      BY <1>0, <1>1 DEF s
    <3> QED BY <2>3, <3>1, OtherTop
  <2> HIDE DEF t
  <2>5. stack' \in [Callers -> Seq(Frame)] /\ StacksOK'
    <3>1. \A d \in Callers : stack'[d] = IF d = c THEN t ELSE stack[d]
      BY <2>1 DEF LazyInitTypeOK
    <3> QED BY <2>1, <2>4, <3>1 DEF StacksOK, StackOK, LazyInitTypeOK
  <2> QED BY <2>1, <2>5 DEF LazyInitTypeOK, onceVars, valueVars, buildVars
<1>7. CASE Worked(c)
  <2>1. Moves(c, AfterWork(On(c)))
    BY <1>7 DEF Worked
  <2>2. stack' \in [Callers -> Seq(Frame)] /\ StacksOK'
    BY <1>1, <1>3, <2>1, AfterIs
  <2>3. PICK fails \in BOOLEAN :
          /\ err' = [err EXCEPT ![On(c)] = fails]
          /\ value' = [value EXCEPT ![On(c)] =
                         IF ~fails /\ Top(c).from = Finds(On(c)) THEN Top(c).from ELSE Mixed]
    BY <1>7 DEF Worked
  <2>4. err' \in [Inits -> BOOLEAN]
    BY <2>3 DEF LazyInitTypeOK
  <2>5. Top(c).from \in Nat \cup {Mixed}
    BY <1>1 DEF Frame
  <2>6. value' \in [Works -> Nat \cup {Mixed}]
    BY <2>3, <2>5 DEF LazyInitTypeOK
  <2>7. UNCHANGED <<onceVars, lapsed, answer, buildVars>>
    BY <1>7 DEF Worked
  <2> QED BY <2>2, <2>4, <2>6, <2>7 DEF LazyInitTypeOK, onceVars, buildVars
<1>8. CASE Children(c)
  <2> DEFINE s == stack[c]
             k == Child[On(c)]
             f == [s[Len(s)] EXCEPT !.at = "store"]
             t == [s EXCEPT ![Len(s)] = f]
  <2>0. UNCHANGED <<onceVars, valueVars, lapsed, answer, buildVars>>
    BY <1>8 DEF Children
  <2>1. k \in Inits
    <3>1. Len(s) \in Nat \ {0} /\ s[Len(s)].at = "child" /\ On(c) = s[Len(s)].init
      BY <1>0, <1>1, <1>8, TopFrame DEF Children, Top, On
    <3>2. k # None
      BY <1>1, <3>1 DEF StackOK
    <3> QED BY <1>1, <3>2, LazyInitAssumption
  <2>2. f \in Frame /\ f.init = s[Len(s)].init /\ f.at = "store"
    <3>1. s[Len(s)] \in Frame /\ "store" \in Places /\ 0 \in Nat \cup {Mixed}
      BY <1>1 DEF Top, Places
    <3> HIDE DEF s
    <3> QED BY <3>1, FrameType
  <2>3. CASE ShouldInitialize(k)
    <3>1. stack' = [stack EXCEPT ![c] = Append(t, Call(k))]
      BY <1>8, <2>3 DEF Children, LazyInitTypeOK
    <3> HIDE DEF f, k
    <3>2. StackOK(t) /\ t # <<>>
      <4> HIDE DEF s
      <4>1. StackOK(s) /\ s # <<>>
        BY <1>0, <1>1 DEF s
      <4>2. StackOK(t)
        BY <2>2, <4>1, OtherTop
      <4>3. Len(t) = Len(s) /\ Len(s) \in Nat \ {0}
        BY <2>2, <4>1, TopFrame DEF StackOK
      <4> QED BY <4>2, <4>3
    <3> HIDE DEF t
    <3>3. StackOK(Append(t, Call(k)))
      BY <2>1, <3>2, CallType, OneMore
    <3> DEFINE u == Append(t, Call(k))
    <3> HIDE DEF u
    <3>4. \A d \in Callers : stack'[d] = IF d = c THEN u ELSE stack[d]
      BY <3>1 DEF LazyInitTypeOK, u
    <3>5. stack' \in [Callers -> Seq(Frame)] /\ StacksOK'
      BY <3>1, <3>3, <3>4 DEF StacksOK, StackOK, LazyInitTypeOK, u
    <3> QED BY <2>0, <3>5 DEF LazyInitTypeOK, onceVars, valueVars, buildVars
  <2>4. CASE ~ShouldInitialize(k)
    <3>1. Moves(c, "store")
      BY <1>8, <2>4 DEF Children
    <3>2. stack' \in [Callers -> Seq(Frame)] /\ StacksOK'
      BY <1>2, <1>3, <3>1
    <3> QED BY <2>0, <3>2 DEF LazyInitTypeOK, onceVars, valueVars, buildVars
  <2> QED BY <2>3, <2>4
<1>9. CASE Store(c)
  <2>1. stack' \in [Callers -> Seq(Frame)] /\ StacksOK'
    BY <1>2, <1>3, <1>9 DEF Store
  <2> QED BY <1>9, <2>1 DEF Store, LazyInitTypeOK, valueVars, buildVars
<1>10. CASE Unlock(c)
  <2>1. stack' \in [Callers -> Seq(Frame)] /\ StacksOK'
    BY <1>2, <1>3, <1>10 DEF Unlock
  <2> QED BY <1>10, <2>1 DEF Unlock, LazyInitTypeOK, valueVars, buildVars
<1>11. CASE Open(c)
  <2>1. stack' \in [Callers -> Seq(Frame)] /\ StacksOK'
    BY <1>2, <1>3, <1>11 DEF Open
  <2> QED BY <1>11, <2>1 DEF Open, LazyInitTypeOK, valueVars, buildVars
<1>12. CASE Waited(c)
  BY <1>0, <1>12, AnswersType DEF Waited
<1> QED BY <1>4, <1>5, <1>6, <1>7, <1>8, <1>9, <1>10, <1>11, <1>12 DEF Does

\* A step keeps the types.
LEMMA LazyInitTypeStep ==
  LazyInitTypeOK /\ StacksOK /\ [LazyInitNext]_lazyVars => LazyInitTypeOK' /\ StacksOK'
<1> SUFFICES ASSUME LazyInitTypeOK, StacksOK, [LazyInitNext]_lazyVars
             PROVE  LazyInitTypeOK' /\ StacksOK'
  OBVIOUS
<1>1. ASSUME NEW c \in Callers, Lapse(c) PROVE LazyInitTypeOK' /\ StacksOK'
  BY <1>1 DEF Lapse, LazyInitTypeOK, StacksOK, onceVars, valueVars, buildVars
<1>2. ASSUME NEW c \in Callers, LapsedEnds(c) PROVE LazyInitTypeOK' /\ StacksOK'
  BY <1>2 DEF LapsedEnds, LazyInitTypeOK, StacksOK, onceVars, valueVars, buildVars
<1>3. ASSUME NEW c \in Callers, NEW i \in Asked, Asks(c, i) PROVE LazyInitTypeOK' /\ StacksOK'
  <2>1. /\ stack' = [stack EXCEPT ![c] = <<Call(i)>>] /\ answer' = [answer EXCEPT ![c] = None]
        /\ UNCHANGED <<onceVars, valueVars, lapsed, buildVars>>
    BY <1>3 DEF Asks
  <2>2. StackOK(<<Call(i)>>)
    <3>1. Call(i) \in Frame /\ Call(i).init = i /\ Call(i).at # "child"
      BY LazyInitAssumption, CallType
    <3> QED BY <3>1 DEF StackOK
  <2>3. \A d \in Callers : stack'[d] = IF d = c THEN <<Call(i)>> ELSE stack[d]
    BY <2>1 DEF LazyInitTypeOK
  <2>4. stack' \in [Callers -> Seq(Frame)] /\ StacksOK'
    BY <2>1, <2>2, <2>3 DEF StacksOK, StackOK, LazyInitTypeOK
  <2> QED BY <2>1, <2>4 DEF LazyInitTypeOK, onceVars, valueVars, buildVars
<1>4. ASSUME NEW i \in Asked, Reset(i) PROVE LazyInitTypeOK' /\ StacksOK'
  <2>1. crossed' \subseteq Inits
    BY <1>4 DEF Reset, Family, LazyInitTypeOK
  <2> QED BY <1>4, <2>1 DEF Reset, LazyInitTypeOK, StacksOK, askVars
<1>5. CASE BeginBuild
  <2>1. PICK more \in SUBSET (Asked \ Always) :
          /\ toReset' = Always \cup more
          /\ LET dropped == UNION {Family(j) : j \in Always \cup more}
             IN  since' = [i \in Inits |-> IF i \in dropped THEN build' ELSE since[i]]
    BY <1>5 DEF BeginBuild
  <2>2. build' = build + 1 /\ changing' = TRUE /\ answer' = [c \in Callers |-> None]
        /\ UNCHANGED <<onceVars, valueVars, stack, lapsed, crossed>>
    BY <1>5 DEF BeginBuild
  <2>3. build' \in Nat /\ toReset' \subseteq Asked
    BY <2>1, <2>2, LazyInitAssumption DEF LazyInitTypeOK
  <2>4. since' \in [Inits -> Nat]
    BY <2>1, <2>3 DEF LazyInitTypeOK
  <2> QED BY <2>2, <2>3, <2>4 DEF LazyInitTypeOK, StacksOK, onceVars, valueVars
<1>6. CASE Assembled
  BY <1>6 DEF Assembled, LazyInitTypeOK, StacksOK, onceVars, valueVars, askVars
<1>7. CASE UNCHANGED lazyVars
  BY <1>7 DEF lazyVars, LazyInitTypeOK, StacksOK, onceVars, valueVars, askVars, buildVars
<1> QED BY <1>1, <1>2, <1>3, <1>4, <1>5, <1>6, <1>7, DoesType DEF LazyInitNext

LEMMA LazyInitTypeInit == LazyInitInit => LazyInitTypeOK /\ StacksOK
<1> SUFFICES ASSUME LazyInitInit PROVE LazyInitTypeOK /\ StacksOK
  OBVIOUS
<1>1. StackOK(<<>>) /\ <<>> \in Seq(Frame)
  BY DEF StackOK
<1>2. stack \in [Callers -> Seq(Frame)] /\ StacksOK
  BY <1>1 DEF LazyInitInit, StacksOK
<1>3. /\ locked \in [Inits -> BOOLEAN] /\ done \in [Inits -> BOOLEAN] /\ err \in [Inits -> BOOLEAN]
      /\ mu \in [Inits -> Callers \cup {None}] /\ value \in [Works -> Nat \cup {Mixed}]
      /\ lapsed = {} /\ answer = [c \in Callers |-> None]
      /\ build = 0 /\ changing = FALSE /\ toReset = {} /\ since = [i \in Inits |-> 0] /\ crossed = {}
  BY DEF LazyInitInit
<1> QED BY <1>2, <1>3 DEF LazyInitTypeOK

\* Every variable of the Inits and of those who ask has its type.
THEOREM LazyInitTypes == LazyInitSpec => []LazyInitTypeOK
BY LazyInitTypeInit, LazyInitTypeStep, PTL DEF LazyInitSpec

-----------------------------------------------------------------------------
(* What a build is given.  At most two calls of Do are on a stack, a child's *)
(* over its parent's, so where a caller stands in an Init is one place.     *)

\* Where a stack's call of Do for Init j stands, and what its function has read.
PlaceIn(s, j) ==
  IF s # <<>> /\ s[1].init = j THEN s[1].at
  ELSE IF Len(s) = 2 /\ s[2].init = j THEN s[2].at ELSE "out"

FromIn(s, j) ==
  IF s # <<>> /\ s[1].init = j THEN s[1].from
  ELSE IF Len(s) = 2 /\ s[2].init = j THEN s[2].from ELSE Mixed

ShapeOK(s) ==
  /\ StackOK(s)
  /\ s = <<>> \/ Len(s) = 1 \/ Len(s) = 2
  /\ Len(s) = 2 => /\ Child[s[1].init] # None /\ s[2].init = Child[s[1].init]
                   /\ s[1].at = "store"
  /\ \A n \in 1..Len(s) : s[n].at \in {"work", "working"} => s[n].init \in Works

\* A stack with a call in it is not empty.
LEMMA NotEmpty == ASSUME NEW s, Len(s) \in {1, 2} PROVE s # <<>>
<1>1. Len(<<>>) = 0 /\ Len(s) # 0
  OBVIOUS
<1> QED BY <1>1, Zenon

\* The calls of a stack are for different Inits, and only one of the first call
\* can have a child.
LEMMA ShapeIs ==
  ASSUME NEW s, ShapeOK(s), s # <<>>
  PROVE  /\ s \in Seq(Frame) /\ Len(s) \in {1, 2} /\ s[1] \in Frame /\ s[1].init \in Asked
         /\ Len(s) = 2 => /\ s[2] \in Frame /\ s[2].init \in Works \ Asked
                          /\ Child[s[2].init] = None /\ s[2].init # s[1].init
                          /\ s[2].at # "child"
         /\ PlaceIn(s, s[Len(s)].init) = s[Len(s)].at
         /\ FromIn(s, s[Len(s)].init) = s[Len(s)].from
<1>1. s \in Seq(Frame) /\ Len(s) \in {1, 2}
  BY DEF ShapeOK, StackOK
<1>2. s[1] \in Frame /\ s[1].init \in Asked
  BY <1>1 DEF ShapeOK, StackOK
<1>3. ASSUME Len(s) = 2
      PROVE  /\ s[2] \in Frame /\ s[2].init \in Works \ Asked
             /\ Child[s[2].init] = None /\ s[2].init # s[1].init /\ s[2].at # "child"
  <2>1. s[2] \in Frame /\ s[2].init = Child[s[1].init] /\ Child[s[1].init] # None
    <3>1. s[2] \in Frame
      <4>1. s \in Seq(Frame) /\ 2 \in 1..Len(s)
        BY <1>1, <1>3
      <4> QED BY <4>1, ElementOfSeq
    <3>2. s[2].init = Child[s[1].init] /\ Child[s[1].init] # None
      BY <1>3 DEF ShapeOK
    <3> QED BY <3>1, <3>2
  <2>2. s[2].at = "child" => Child[s[2].init] # None
    BY <1>1, <1>3 DEF ShapeOK, StackOK
  <2> QED BY <1>2, <2>1, <2>2, LazyInitAssumption
<1>4. CASE Len(s) = 1
  BY <1>1, <1>2, <1>4 DEF PlaceIn, FromIn
<1>5. CASE Len(s) = 2
  BY <1>1, <1>2, <1>3, <1>5 DEF PlaceIn, FromIn
<1> QED BY <1>1, <1>2, <1>3, <1>4, <1>5

\* A child's call is over its parent's, which is about to end.
LEMMA ParentStores ==
  ASSUME NEW s, ShapeOK(s), NEW i \in Asked, Child[i] # None, PlaceIn(s, Child[i]) # "out"
  PROVE  PlaceIn(s, i) = "store"
<1>1. s # <<>> /\ Child[i] \notin Asked
  BY LazyInitAssumption DEF PlaceIn, ShapeOK
<1>2. s[1].init \in Asked
  BY <1>1, ShapeIs
<1>3. Len(s) = 2 /\ s[2].init = Child[i]
  BY <1>1, <1>2 DEF PlaceIn
<1>4. Child[s[1].init] = Child[i] /\ s[1].at = "store"
  BY <1>3 DEF ShapeOK
<1>5. s[1].init = i
  BY <1>2, <1>4, LazyInitAssumption
<1> QED BY <1>1, <1>4, <1>5 DEF PlaceIn

\* A function belongs to an Init that has one, a child to one that has one.
LEMMA PlaceMeans ==
  ASSUME NEW s, ShapeOK(s), NEW j
  PROVE  /\ PlaceIn(s, j) \in Places \cup {"out"}
         /\ PlaceIn(s, j) \in {"work", "working"} => j \in Works
         /\ PlaceIn(s, j) = "child" => j \in Asked /\ Child[j] # None
<1>1. CASE s = <<>>
  <2>1. PlaceIn(s, j) = "out"
    BY <1>1 DEF PlaceIn
  <2> QED BY <2>1
<1>2. CASE s # <<>>
  <2>1. /\ s \in Seq(Frame) /\ Len(s) \in {1, 2} /\ s[1] \in Frame /\ s[1].init \in Asked
        /\ Len(s) = 2 => s[2] \in Frame /\ s[2].at # "child"
    BY <1>2, ShapeIs
  <2>2. /\ s[1].at \in Places /\ (s[1].at \in {"work", "working"} => s[1].init \in Works)
        /\ s[1].at = "child" => Child[s[1].init] # None
    BY <2>1 DEF ShapeOK, StackOK, Frame, Places
  <2>3. Len(s) = 2 => s[2].at \in Places /\ (s[2].at \in {"work", "working"} => s[2].init \in Works)
    BY <2>1 DEF ShapeOK, Frame, Places
  <2> QED BY <2>1, <2>2, <2>3 DEF PlaceIn
<1> QED BY <1>1, <1>2

OnTop(s, f) == [s EXCEPT ![Len(s)] = f]

\* The innermost call goes on.
LEMMA TopMoves ==
  ASSUME NEW s, ShapeOK(s), s # <<>>, NEW f \in Frame, f.init = s[Len(s)].init,
         f.at = "child" => Child[f.init] # None,
         f.at \in {"work", "working"} => f.init \in Works,
         NEW t, t = OnTop(s, f)
  PROVE  /\ ShapeOK(t) /\ t # <<>> /\ Len(t) = Len(s) /\ t[Len(t)] = f
         /\ \A j : PlaceIn(t, j) = IF j = f.init THEN f.at ELSE PlaceIn(s, j)
         /\ \A j : FromIn(t, j) = IF j = f.init THEN f.from ELSE FromIn(s, j)
<1>1. /\ s \in Seq(Frame) /\ Len(s) \in {1, 2} /\ s[1].init \in Asked
      /\ Len(s) = 2 => s[2].init # s[1].init
  BY ShapeIs
<1>0. t = [s EXCEPT ![Len(s)] = f]
  BY DEF OnTop
<1>2. StackOK(t)
  BY <1>0, OtherTop DEF ShapeOK
<1>3. /\ t \in Seq(Frame) /\ Len(t) = Len(s) /\ t # <<>>
      /\ \A n \in 1..Len(s) : t[n] = IF n = Len(s) THEN f ELSE s[n]
  BY <1>0, <1>1
<1>4. Len(s) = 2 => /\ Child[t[1].init] # None /\ t[2].init = Child[t[1].init]
                    /\ t[1].at = "store"
  BY <1>1, <1>3 DEF ShapeOK
<1>5. \A n \in 1..Len(t) : t[n].at \in {"work", "working"} => t[n].init \in Works
  BY <1>3 DEF ShapeOK
<1>6. ShapeOK(t)
  BY <1>1, <1>2, <1>3, <1>4, <1>5 DEF ShapeOK
<1>7. CASE Len(s) = 1
  <2>1. t[1] = f /\ s[1].init = f.init
    BY <1>3, <1>7
  <2> QED BY <1>3, <1>6, <1>7, <2>1 DEF PlaceIn, FromIn
<1>8. CASE Len(s) = 2
  <2>1. t[1] = s[1] /\ t[2] = f /\ s[2].init = f.init
    BY <1>3, <1>8
  <2> QED BY <1>1, <1>3, <1>6, <1>8, <2>1 DEF PlaceIn, FromIn
<1> QED BY <1>1, <1>7, <1>8

LEMMA LongerStack ==
  ASSUME NEW s \in Seq(Frame), NEW f \in Frame
  PROVE  /\ Append(s, f) \in Seq(Frame) /\ Len(Append(s, f)) = Len(s) + 1
         /\ \A n \in 1..Len(s) : Append(s, f)[n] = s[n]
         /\ Append(s, f)[Len(s) + 1] = f
OBVIOUS

Above(s, f) == Append(s, f)
Back(s, f) == Append(SubSeq(s, 1, 0), f)

\* A child's Do is called.
LEMMA ChildComes ==
  ASSUME NEW s, ShapeOK(s), Len(s) = 1, s[1].at = "store", Child[s[1].init] # None,
         NEW f \in Frame, f.init = Child[s[1].init], f.at \in {"swap", "wait"},
         NEW t, t = Above(s, f)
  PROVE  /\ ShapeOK(t)
         /\ \A j : PlaceIn(t, j) = IF j = f.init THEN f.at ELSE PlaceIn(s, j)
         /\ \A j \in Inits : FromIn(t, j) = IF j = f.init THEN f.from ELSE FromIn(s, j)
<1>1. s # <<>> /\ s \in Seq(Frame) /\ s[1].init \in Asked
  <2>1. s # <<>>
    BY NotEmpty
  <2>2. StackOK(s)
    BY DEF ShapeOK
  <2> QED BY <2>1, <2>2 DEF StackOK
<1>0. t = Append(s, f)
  BY DEF Above
<1>2. StackOK(t)
  BY <1>0, <1>1, OneMore DEF ShapeOK
<1>3. t \in Seq(Frame) /\ Len(t) = 2 /\ t[1] = s[1] /\ t[2] = f /\ t # <<>>
  <2>1. /\ Append(s, f) \in Seq(Frame) /\ Len(Append(s, f)) = Len(s) + 1
        /\ \A n \in 1..Len(s) : Append(s, f)[n] = s[n]
        /\ Append(s, f)[Len(s) + 1] = f
    BY <1>1, LongerStack
  <2>2. t \in Seq(Frame) /\ Len(t) = 2 /\ t[1] = s[1] /\ t[2] = f
    BY <1>0, <2>1
  <2> QED BY <2>2, NotEmpty
<1>4. \A n \in 1..Len(t) : t[n].at \in {"work", "working"} => t[n].init \in Works
  BY <1>3 DEF ShapeOK
<1>5. ShapeOK(t)
  BY <1>2, <1>3, <1>4 DEF ShapeOK
<1>6. s[1].init # f.init
  BY <1>1, LazyInitAssumption
<1> QED BY <1>1, <1>3, <1>5, <1>6 DEF PlaceIn, FromIn

\* A child's Do returns.
LEMMA ChildGoes ==
  ASSUME NEW s, ShapeOK(s), Len(s) = 2, NEW f \in Frame, f.init = s[1].init, f.at = "store",
         NEW t, t = Back(s, f)
  PROVE  /\ ShapeOK(t)
         /\ \A j : PlaceIn(t, j) = IF j = s[2].init THEN "out" ELSE PlaceIn(s, j)
         /\ \A j : PlaceIn(t, j) # "working"
<1>1. /\ s # <<>> /\ s \in Seq(Frame) /\ s[1].init \in Asked /\ s[1].at = "store"
      /\ s[2].init # s[1].init
  <2>1. s \in Seq(Frame) /\ s # <<>>
    BY NotEmpty DEF ShapeOK, StackOK
  <2>2. s[1].init \in Asked /\ s[2].init # s[1].init
    BY <2>1, ShapeIs
  <2> QED BY <2>1, <2>2 DEF ShapeOK
<1>2. t \in Seq(Frame) /\ Len(t) = 1 /\ t[1] = f
  <2> DEFINE none == SubSeq(s, 1, 0)
  <2>1. none \in Seq(Frame) /\ Len(none) = 0
    BY <1>1, SubSeqProperties
  <2> HIDE DEF none
  <2>2. Append(none, f) \in Seq(Frame) /\ Len(Append(none, f)) = 1 /\ Append(none, f)[1] = f
    BY <2>1
  <2> QED BY <2>2 DEF none, Back
<1>3. t # <<>>
  BY <1>2, NotEmpty
<1>4. StackOK(t)
  BY <1>1, <1>2 DEF StackOK
<1>5. ShapeOK(t)
  BY <1>2, <1>4 DEF ShapeOK
<1> QED BY <1>1, <1>2, <1>3, <1>5 DEF PlaceIn

Place == [c \in Callers |-> [j \in Inits |-> PlaceIn(stack[c], j)]]
Made == [c \in Callers |-> [j \in Inits |-> FromIn(stack[c], j)]]

ShapesOK == \A c \in Callers : ShapeOK(stack[c])

\* The Init of an Init's family that has the function.
WorkOf(i) == IF Child[i] = None THEN i ELSE Child[i]

\* Between the swap of the word and its opening, and between the mutex's lock and
\* its unlock.
Inside == {"enter", "work", "working", "child", "store", "unlock", "open"}
Guarded == {"work", "working", "child", "store", "unlock"}

\* The word and the mutex let one caller in, and an Init is not done before it
\* stores that it is.
LocksOf(j) ==
  /\ locked[j] => \E c \in Callers : Place[c][j] \in Inside
  /\ \A c \in Callers : Place[c][j] \in Inside => locked[j]
  /\ \A c, d \in Callers : Place[c][j] \in Inside /\ Place[d][j] \in Inside => c = d
  /\ \A c \in Callers : Place[c][j] \in Guarded => mu[j] = c
  /\ \A c \in Callers : Place[c][j] \in Guarded \ {"unlock"} => ~done[j]

\* A child is done when its parent is, or is about to be, and has told its error.
ChildOf(i) ==
  Child[i] # None =>
    /\ done[Child[i]] => done[i] \/ \E c \in Callers : Place[c][i] = "store"
    /\ \A c \in Callers :
         Place[c][i] = "store" => \/ Place[c][Child[i]] # "out"
                                  \/ done[Child[i]] /\ (err[Child[i]] => err[i])
    /\ done[i] => done[Child[i]] /\ (err[Child[i]] => err[i])

ErrOf(j) == err[j] => Family(j) \cap MayFail # {}

Fresh(i) == i \notin toReset /\ ~Crossed(i)

Current(i) == value[WorkOf(i)] = since[i] \/ err[WorkOf(i)]

\* What an Init that has been reset has made or is making is of this build, unless
\* it was crossed; nobody has begun with those that are always reset before the
\* pages are assembled.
ValueOf(i) ==
  /\ since[WorkOf(i)] = since[i]
  /\ Fresh(i) =>
       /\ done[WorkOf(i)] => Current(i)
       /\ \A c \in Callers : Place[c][WorkOf(i)] = "working" => Made[c][WorkOf(i)] = since[i]
       /\ \A c \in Callers : Place[c][WorkOf(i)] = "store" => Current(i)
       /\ changing /\ i \in Always => \A j \in Family(i) : ~locked[j]

OnceInv ==
  /\ LazyInitTypeOK /\ ShapesOK
  /\ \A j \in Inits : LocksOf(j) /\ ErrOf(j)
  /\ \A i \in Asked : ChildOf(i) /\ ValueOf(i)

\* Who renders has no answers while the pages are assembled.
RenderInv ==
  IF changing THEN \A c \in Callers \ lapsed : answer[c] = None /\ stack[c] = <<>>
  ELSE toReset = {}

LazyInv == OnceInv /\ RenderInv /\ AnswersOfThisBuild

\* What belongs to an Init belongs to no other that is asked.
LEMMA Families ==
  /\ \A i \in Asked : /\ i \in Inits /\ WorkOf(i) \in Works /\ WorkOf(i) \in Family(i)
                      /\ Family(i) \cap Works = {WorkOf(i)} /\ Family(i) = {i, WorkOf(i)}
                      /\ Child[WorkOf(i)] = None
                      /\ Child[i] # None => Child[i] = WorkOf(i) /\ i \notin Works
                      /\ Child[i] = None => WorkOf(i) = i
  /\ \A i, j \in Asked : i # j => Family(i) \cap Family(j) = {}
  /\ \A i \in Asked : WorkOf(i) \in FromPages => i \in Always
<1>1. \A i \in Asked : /\ i \in Inits /\ WorkOf(i) \in Works /\ WorkOf(i) \in Family(i)
                       /\ Family(i) \cap Works = {WorkOf(i)} /\ Family(i) = {i, WorkOf(i)}
                       /\ Child[WorkOf(i)] = None
                       /\ Child[i] # None => Child[i] = WorkOf(i) /\ i \notin Works
                       /\ Child[i] = None => WorkOf(i) = i
  BY LazyInitAssumption DEF WorkOf, Family
<1>2. \A i, j \in Asked : i # j => Family(i) \cap Family(j) = {}
  BY LazyInitAssumption DEF Family
<1>3. ASSUME NEW i \in Asked, WorkOf(i) \in FromPages PROVE i \in Always
  <2>1. PICK j \in Always : WorkOf(i) \in Family(j)
    BY <1>3, LazyInitAssumption
  <2>2. j \in Asked /\ WorkOf(i) \in Family(i)
    BY <1>1, LazyInitAssumption
  <2> QED BY <1>2, <2>1, <2>2
<1> QED BY <1>1, <1>2, <1>3

LEMMA PlaceFacts ==
  ASSUME ShapesOK, NEW c \in Callers, NEW j \in Inits
  PROVE  /\ Place[c][j] = PlaceIn(stack[c], j) /\ Made[c][j] = FromIn(stack[c], j)
         /\ Place[c][j] \in Places \cup {"out"}
         /\ Place[c][j] \in {"work", "working"} => j \in Works
         /\ Place[c][j] = "child" => j \in Asked /\ Child[j] # None
         /\ j \in Asked /\ Child[j] # None /\ Place[c][Child[j]] # "out" => Place[c][j] = "store"
<1>1. ShapeOK(stack[c])
  BY DEF ShapesOK
<1>2. Place[c][j] = PlaceIn(stack[c], j) /\ Made[c][j] = FromIn(stack[c], j)
  BY DEF Place, Made
<1>3. ASSUME j \in Asked, Child[j] # None, Place[c][Child[j]] # "out" PROVE Place[c][j] = "store"
  <2>1. Child[j] \in Inits
    BY <1>3, LazyInitAssumption
  <2>2. PlaceIn(stack[c], Child[j]) # "out"
    BY <1>3, <2>1 DEF Place
  <2> QED BY <1>1, <1>2, <1>3, <2>2, ParentStores
<1> QED BY <1>1, <1>2, <1>3, PlaceMeans

\* Only one place has changed.
Moved(c, j, p) ==
  \A d \in Callers, i \in Inits : Place'[d][i] = IF d = c /\ i = j THEN p ELSE Place[d][i]

NoneBegins ==
  \A d \in Callers, i \in Inits :
    Place'[d][i] = "working" => Place[d][i] = "working" /\ Made'[d][i] = Made[d][i]

LEMMA OneStack ==
  ASSUME LazyInitTypeOK, ShapesOK, NEW c \in Callers, NEW t, ShapeOK(t),
         stack' = [stack EXCEPT ![c] = t]
  PROVE  /\ ShapesOK'
         /\ \A d \in Callers, i \in Inits :
              /\ Place'[d][i] = IF d = c THEN PlaceIn(t, i) ELSE Place[d][i]
              /\ Made'[d][i] = IF d = c THEN FromIn(t, i) ELSE Made[d][i]
<1>1. \A d \in Callers : stack'[d] = IF d = c THEN t ELSE stack[d]
  BY DEF LazyInitTypeOK
<1>2. ShapesOK'
  BY <1>1 DEF ShapesOK, ShapeOK, StackOK
<1> QED BY <1>1, <1>2 DEF Place, Made, PlaceIn, FromIn

LEMMA TopPlace ==
  ASSUME LazyInitTypeOK, ShapesOK, NEW c \in Callers, stack[c] # <<>>
  PROVE  /\ On(c) \in Inits /\ Top(c) \in Frame /\ Top(c).init = On(c)
         /\ Place[c][On(c)] = Top(c).at /\ Made[c][On(c)] = Top(c).from
         /\ On(c) \in Asked \/ On(c) \in Works
<1>1. ShapeOK(stack[c])
  BY DEF ShapesOK
<1>2. /\ Len(stack[c]) \in {1, 2} /\ stack[c][1] \in Frame /\ stack[c][1].init \in Asked
      /\ Len(stack[c]) = 2 => stack[c][2] \in Frame /\ stack[c][2].init \in Works \ Asked
      /\ PlaceIn(stack[c], stack[c][Len(stack[c])].init) = stack[c][Len(stack[c])].at
      /\ FromIn(stack[c], stack[c][Len(stack[c])].init) = stack[c][Len(stack[c])].from
  BY <1>1, ShapeIs
<1>3. Top(c) \in Frame /\ (On(c) \in Asked \/ On(c) \in Works)
  BY <1>2 DEF Top, On
<1>4. On(c) \in Inits
  BY <1>3 DEF On, Frame
<1> QED BY <1>2, <1>3, <1>4, PlaceFacts DEF On, Top

LEMMA Moving ==
  ASSUME LazyInitTypeOK, ShapesOK, NEW c \in Callers, stack[c] # <<>>, NEW p \in Places,
         Moves(c, p), p = "child" => Child[On(c)] # None, p = "work" => On(c) \in Works,
         p # "working"
  PROVE  ShapesOK' /\ Moved(c, On(c), p) /\ NoneBegins
<1> DEFINE s == stack[c]
           f == [s[Len(s)] EXCEPT !.at = p]
           t == OnTop(s, f)
<1>1. ShapeOK(s) /\ s[Len(s)] \in Frame /\ On(c) = s[Len(s)].init
  BY TopPlace DEF ShapesOK, Top, On
<1>2. f \in Frame /\ f.init = s[Len(s)].init /\ f.at = p /\ f.from = s[Len(s)].from
  BY <1>1 DEF Frame, Places
<1>3. stack' = [stack EXCEPT ![c] = t]
  BY DEF Moves, LazyInitTypeOK, OnTop
<1> HIDE DEF f
<1>4. /\ ShapeOK(t)
      /\ \A j : PlaceIn(t, j) = IF j = f.init THEN f.at ELSE PlaceIn(s, j)
      /\ \A j : FromIn(t, j) = IF j = f.init THEN f.from ELSE FromIn(s, j)
  <2> HIDE DEF s
  <2>1. ShapeOK(s) /\ s # <<>>
    BY <1>1 DEF s
  <2>2. f.at = "child" => Child[f.init] # None
    BY <1>1, <1>2
  <2>4. f.at \in {"work", "working"} => f.init \in Works
    BY <1>1, <1>2
  <2>5. f \in Frame /\ f.init = s[Len(s)].init
    BY <1>2
  <2>3. t = OnTop(s, f)
    OBVIOUS
  <2> HIDE DEF t
  <2>6. /\ ShapeOK(t) /\ t # <<>> /\ Len(t) = Len(s) /\ t[Len(t)] = f
        /\ \A j : PlaceIn(t, j) = IF j = f.init THEN f.at ELSE PlaceIn(s, j)
        /\ \A j : FromIn(t, j) = IF j = f.init THEN f.from ELSE FromIn(s, j)
    BY <2>1, <2>2, <2>3, <2>4, <2>5, TopMoves
  <2> QED BY <2>6
<1> HIDE DEF t
<1>5. /\ ShapesOK'
      /\ \A d \in Callers, i \in Inits :
           /\ Place'[d][i] = IF d = c THEN PlaceIn(t, i) ELSE Place[d][i]
           /\ Made'[d][i] = IF d = c THEN FromIn(t, i) ELSE Made[d][i]
  BY <1>3, <1>4, OneStack
<1>6. \A i \in Inits : Place[c][i] = PlaceIn(s, i) /\ Made[c][i] = FromIn(s, i)
  BY PlaceFacts
<1> HIDE DEF s
<1>7. Moved(c, On(c), p)
  BY <1>1, <1>2, <1>4, <1>5, <1>6 DEF Moved
<1>8. NoneBegins
  BY <1>1, <1>2, <1>4, <1>5, <1>6 DEF NoneBegins
<1> QED BY <1>5, <1>7, <1>8

LEMMA LocksElsewhere ==
  ASSUME NEW j \in Inits, LocksOf(j), \A d \in Callers : Place'[d][j] = Place[d][j],
         locked'[j] = locked[j], mu'[j] = mu[j], done'[j] = done[j]
  PROVE  LocksOf(j)'
BY DEF LocksOf

\* A caller may come in when nobody is, and is out when the word is open.
LEMMA LocksAt ==
  ASSUME NEW j \in Inits, LocksOf(j), NEW c \in Callers, NEW p,
         \A d \in Callers : Place'[d][j] = IF d = c THEN p ELSE Place[d][j],
         p \in Inside => (Place[c][j] \in Inside \/ ~locked[j]) /\ locked'[j],
         p \notin Inside /\ Place[c][j] \in Inside => ~locked'[j],
         p \notin Inside /\ Place[c][j] \notin Inside =>
           (locked'[j] <=> locked[j]) /\ mu'[j] = mu[j] /\ (done'[j] <=> done[j]),
         p \in Guarded => mu'[j] = c,
         p \in Guarded \ {"unlock"} => ~done'[j]
  PROVE  LocksOf(j)'
<1>1. Guarded \subseteq Inside
  BY DEF Guarded, Inside
<1>2. CASE p \in Inside
  <2>1. \A d \in Callers \ {c} : Place'[d][j] \notin Inside
    BY <1>2 DEF LocksOf
  <2> QED BY <1>1, <1>2, <2>1 DEF LocksOf
<1>3. CASE p \notin Inside /\ Place[c][j] \in Inside
  <2>1. \A d \in Callers : Place'[d][j] \notin Inside
    BY <1>3 DEF LocksOf
  <2> QED BY <1>1, <1>3, <2>1 DEF LocksOf
<1>4. CASE p \notin Inside /\ Place[c][j] \notin Inside
  <2>1. \A d \in Callers : Place'[d][j] \in Inside <=> Place[d][j] \in Inside
    BY <1>4
  <2>2. \A d \in Callers : Place'[d][j] \in Inside => Place'[d][j] = Place[d][j]
    BY <1>4
  <2> QED BY <1>1, <1>4, <2>1, <2>2 DEF LocksOf
<1> QED BY <1>2, <1>3, <1>4

LEMMA LocksHere ==
  ASSUME NEW j \in Inits, LocksOf(j), NEW c \in Callers, NEW p, Moved(c, j, p),
         p \in Inside => (Place[c][j] \in Inside \/ ~locked[j]) /\ locked'[j],
         p \notin Inside /\ Place[c][j] \in Inside => ~locked'[j],
         p \notin Inside /\ Place[c][j] \notin Inside =>
           (locked'[j] <=> locked[j]) /\ mu'[j] = mu[j] /\ (done'[j] <=> done[j]),
         p \in Guarded => mu'[j] = c,
         p \in Guarded \ {"unlock"} => ~done'[j]
  PROVE  LocksOf(j)'
<1>1. \A d \in Callers : Place'[d][j] = IF d = c THEN p ELSE Place[d][j]
  BY DEF Moved
<1> QED BY <1>1, LocksAt

\* Swapping the word.
LEMMA SwapKeeps ==
  ASSUME OnceInv, NEW c \in Callers, Swap(c)
  PROVE  OnceInv'
<1> DEFINE o == On(c)
           p == IF locked[o] THEN "wait" ELSE "enter"
<1>1. /\ stack[c] # <<>> /\ Top(c).at = "swap" /\ Moves(c, p)
      /\ locked' = [locked EXCEPT ![o] = TRUE]
      /\ crossed' = IF ~locked[o] /\ changing THEN crossed \cup {o} ELSE crossed
      /\ UNCHANGED <<done, mu, err, value, changing, toReset, since>>
  BY DEF Swap, Stands, valueVars
<1>2. o \in Inits /\ Place[c][o] = "swap"
  BY <1>1, TopPlace DEF OnceInv
<1>3. ShapesOK' /\ Moved(c, o, p) /\ NoneBegins
  BY <1>1, Moving DEF OnceInv, Places
<1>4. LazyInitTypeOK'
  BY DoesType DEF OnceInv, Does, ShapesOK, StacksOK, ShapeOK
<1> HIDE DEF o
<1>5. ASSUME NEW j \in Inits PROVE LocksOf(j)'
  <2>1. LocksOf(j) /\ LazyInitTypeOK
    BY DEF OnceInv
  <2>2. p \in {"wait", "enter"} /\ "enter" \in Inside \ Guarded /\ {"wait", "swap"} \cap Inside = {}
        /\ "wait" \notin Guarded
    BY DEF Inside, Guarded
  <2>3. locked'[o] /\ (p = "enter" <=> ~locked[o])
    BY <1>1, <1>2, <2>1 DEF LazyInitTypeOK
  <2>4. CASE j = o
    BY <1>1, <1>2, <1>3, <2>1, <2>2, <2>3, <2>4, LocksHere
  <2>5. CASE j # o
    BY <1>1, <1>3, <2>1, <2>5, LocksElsewhere DEF Moved, LazyInitTypeOK
  <2> QED BY <2>4, <2>5
<1>6. ASSUME NEW j \in Inits PROVE ErrOf(j)'
  BY <1>1 DEF OnceInv, ErrOf
<1>7. ASSUME NEW i \in Asked PROVE ChildOf(i)'
  <2>1. ChildOf(i) /\ i \in Inits /\ (Child[i] # None => Child[i] \in Inits)
    BY LazyInitAssumption DEF OnceInv
  <2> QED BY <1>1, <1>2, <1>3, <2>1 DEF ChildOf, Moved
<1>8. ASSUME NEW i \in Asked PROVE ValueOf(i)'
  <2>1. ValueOf(i) /\ i \in Inits /\ WorkOf(i) \in Inits
    BY Families, LazyInitAssumption DEF OnceInv
  <2>2. Fresh(i)' => Fresh(i) /\ (changing => o \notin Family(i) \/ locked[o])
    BY <1>1, <1>2 DEF Fresh, Crossed
  <2>3. WorkOf(i)' = WorkOf(i) /\ Family(i)' = Family(i)
    BY DEF WorkOf, Family
  <2>4. Current(i)' <=> Current(i)
    BY <1>1, <2>3 DEF Current
  <2>5. \A j \in Inits : j # o => locked'[j] = locked[j]
    BY <1>1 DEF OnceInv, LazyInitTypeOK
  <2> QED BY <1>1, <1>2, <1>3, <2>1, <2>2, <2>3, <2>4, <2>5 DEF ValueOf, Moved, NoneBegins
<1> QED BY <1>3, <1>4, <1>5, <1>6, <1>7, <1>8 DEF OnceInv

\* Taking the mutex, and the double check.
LEMMA EnterKeeps ==
  ASSUME OnceInv, NEW c \in Callers, Enter(c)
  PROVE  OnceInv'
<1> DEFINE o == On(c)
           p == IF done[o] THEN "unlock" ELSE AfterCheck(o)
<1>1. /\ stack[c] # <<>> /\ Top(c).at = "enter" /\ Moves(c, p)
      /\ mu' = [mu EXCEPT ![o] = c]
      /\ UNCHANGED <<locked, done, err, value, changing, toReset, since, crossed>>
  BY DEF Enter, Stands, valueVars, buildVars
<1>2. o \in Inits /\ Place[c][o] = "enter" /\ (o \in Asked \/ o \in Works)
  BY <1>1, TopPlace DEF OnceInv
<1>3. /\ AfterCheck(o) \in {"work", "child", "store"}
      /\ (p = "child" => Child[o] # None) /\ (p = "work" => o \in Works)
      /\ AfterCheck(o) = "store" => o \notin Works /\ Child[o] = None
  BY DEF AfterCheck, AfterWork
<1>4. ShapesOK' /\ Moved(c, o, p) /\ NoneBegins
  BY <1>1, <1>3, Moving DEF OnceInv, Places
<1>5. LazyInitTypeOK'
  BY DoesType DEF OnceInv, Does, ShapesOK, StacksOK, ShapeOK
<1>6. AfterCheck(o) # "store"
  BY <1>2, <1>3, Families
<1> HIDE DEF o
<1>7. ASSUME NEW j \in Inits PROVE LocksOf(j)'
  <2>1. LocksOf(j) /\ LazyInitTypeOK
    BY DEF OnceInv
  <2>2. p \in Guarded /\ Guarded \subseteq Inside /\ Place[c][o] \in Inside
    BY <1>2, <1>3 DEF Inside, Guarded
  <2>3. CASE j = o
    <3>1. locked[j] /\ mu'[j] = c
      BY <1>1, <1>2, <2>1, <2>2, <2>3 DEF LocksOf, LazyInitTypeOK
    <3>2. p # "unlock" => ~done'[j]
      BY <1>1, <2>3
    <3> QED BY <1>1, <1>4, <2>1, <2>2, <2>3, <3>1, <3>2, LocksHere
  <2>4. CASE j # o
    BY <1>1, <1>4, <2>1, <2>4, LocksElsewhere DEF Moved, LazyInitTypeOK
  <2> QED BY <2>3, <2>4
<1>8. ASSUME NEW j \in Inits PROVE ErrOf(j)'
  BY <1>1 DEF OnceInv, ErrOf
<1>9. ASSUME NEW i \in Asked PROVE ChildOf(i)'
  <2>1. ChildOf(i) /\ i \in Inits /\ (Child[i] # None => Child[i] \in Inits)
    BY LazyInitAssumption DEF OnceInv
  <2>2. p \notin {"store", "out"}
    BY <1>3, <1>6
  <2> QED BY <1>1, <1>2, <1>4, <2>1, <2>2 DEF ChildOf, Moved
<1>10. ASSUME NEW i \in Asked PROVE ValueOf(i)'
  <2>1. ValueOf(i) /\ i \in Inits /\ WorkOf(i) \in Inits
    BY Families, LazyInitAssumption DEF OnceInv
  <2>2. WorkOf(i)' = WorkOf(i) /\ Family(i)' = Family(i)
    BY DEF WorkOf, Family
  <2>3. (Fresh(i)' <=> Fresh(i)) /\ (Current(i)' <=> Current(i))
    BY <1>1, <2>2 DEF Fresh, Crossed, Current
  <2>4. p # "store"
    BY <1>3, <1>6
  <2> QED BY <1>1, <1>2, <1>4, <2>1, <2>2, <2>3, <2>4 DEF ValueOf, Moved, NoneBegins
<1> QED BY <1>4, <1>5, <1>7, <1>8, <1>9, <1>10 DEF OnceInv

\* Over an Init that is asked for stands its child's call only.
LEMMA AskedAlone ==
  ASSUME LazyInitTypeOK, ShapesOK, NEW c \in Callers, stack[c] # <<>>, On(c) \in Asked
  PROVE  /\ Len(stack[c]) = 1
         /\ Child[On(c)] # None => Place[c][Child[On(c)]] = "out"
<1>1. ShapeOK(stack[c])
  BY DEF ShapesOK
<1>2. /\ Len(stack[c]) \in {1, 2} /\ stack[c][1].init \in Asked
      /\ Len(stack[c]) = 2 => stack[c][2].init \in Works \ Asked
  BY <1>1, ShapeIs
<1>3. Len(stack[c]) = 1 /\ stack[c][1].init = On(c)
  BY <1>2 DEF On, Top
<1>4. ASSUME Child[On(c)] # None PROVE Place[c][Child[On(c)]] = "out"
  <2>1. Child[On(c)] \in Inits /\ Child[On(c)] # On(c)
    BY <1>4, LazyInitAssumption
  <2>2. PlaceIn(stack[c], Child[On(c)]) = "out"
    BY <1>3, <2>1 DEF PlaceIn
  <2> QED BY <2>1, <2>2, PlaceFacts
<1> QED BY <1>3, <1>4

\* An Init is done: what it made is of this build, and its child is done too.
LEMMA StoreKeeps ==
  ASSUME OnceInv, NEW c \in Callers, Store(c)
  PROVE  OnceInv'
<1> DEFINE o == On(c)
<1>1. /\ stack[c] # <<>> /\ Top(c).at = "store" /\ Moves(c, "unlock")
      /\ done' = [done EXCEPT ![o] = TRUE]
      /\ UNCHANGED <<locked, mu, err, value, changing, toReset, since, crossed>>
  BY DEF Store, Stands, valueVars, buildVars
<1>2. o \in Inits /\ Place[c][o] = "store"
  BY <1>1, TopPlace DEF OnceInv
<1>3. ShapesOK' /\ Moved(c, o, "unlock") /\ NoneBegins
  BY <1>1, Moving DEF OnceInv, Places
<1>4. LazyInitTypeOK'
  BY DoesType DEF OnceInv, Does, ShapesOK, StacksOK, ShapeOK
<1>5. done'[o] /\ \A j \in Inits : j # o => done'[j] = done[j]
  BY <1>1, <1>2 DEF OnceInv, LazyInitTypeOK
<1>6. o \in Asked /\ Child[o] # None => Place[c][Child[o]] = "out"
  BY <1>1, AskedAlone DEF OnceInv
<1> HIDE DEF o
<1>7. ASSUME NEW j \in Inits PROVE LocksOf(j)'
  <2>1. LocksOf(j)
    BY DEF OnceInv
  <2>2. "unlock" \in Inside /\ "store" \in Inside /\ "store" \in Guarded
    BY DEF Inside, Guarded
  <2>3. CASE j = o
    <3>1. locked[j] /\ mu[j] = c
      BY <1>2, <2>1, <2>2, <2>3 DEF LocksOf
    <3> QED BY <1>1, <1>2, <1>3, <2>1, <2>2, <2>3, <3>1, LocksHere
  <2>4. CASE j # o
    BY <1>1, <1>3, <1>5, <2>1, <2>4, LocksElsewhere DEF Moved
  <2> QED BY <2>3, <2>4
<1>8. ASSUME NEW j \in Inits PROVE ErrOf(j)'
  BY <1>1 DEF OnceInv, ErrOf
<1>9. ASSUME NEW i \in Asked PROVE ChildOf(i)'
  <2>1. ChildOf(i) /\ i \in Inits /\ (Child[i] # None => Child[i] \in Inits /\ Child[i] \notin Asked)
    BY LazyInitAssumption DEF OnceInv
  <2>2. CASE Child[i] = None \/ o \notin {i, Child[i]}
    BY <1>1, <1>3, <1>5, <2>1, <2>2 DEF ChildOf, Moved
  <2>3. CASE Child[i] # None /\ o = i
    <3>1. done[Child[i]] /\ (err[Child[i]] => err[i])
      BY <1>2, <1>6, <2>1, <2>3 DEF ChildOf
    <3> QED BY <1>1, <1>5, <2>1, <2>3, <3>1 DEF ChildOf
  <2>4. CASE Child[i] # None /\ o = Child[i]
    <3>1. Place[c][i] = "store" /\ i # o
      BY <1>2, <2>1, <2>4, PlaceFacts DEF OnceInv
    <3>2. LocksOf(i)
      BY <2>1 DEF OnceInv
    <3>3. ~done[i]
      BY <3>1, <3>2 DEF LocksOf, Guarded
    <3>4. \A d \in Callers : Place[d][i] = "store" => d = c
      BY <3>1, <3>2 DEF LocksOf, Inside
    <3> QED BY <1>1, <1>3, <1>5, <2>1, <2>4, <3>1, <3>3, <3>4 DEF ChildOf, Moved
  <2> QED BY <2>2, <2>3, <2>4
<1>10. ASSUME NEW i \in Asked PROVE ValueOf(i)'
  <2>1. ValueOf(i) /\ i \in Inits /\ WorkOf(i) \in Inits
    BY Families, LazyInitAssumption DEF OnceInv
  <2>2. WorkOf(i)' = WorkOf(i) /\ Family(i)' = Family(i)
    BY DEF WorkOf, Family
  <2>3. (Fresh(i)' <=> Fresh(i)) /\ (Current(i)' <=> Current(i))
    BY <1>1, <2>2 DEF Fresh, Crossed, Current
  <2> QED BY <1>1, <1>2, <1>3, <1>5, <2>1, <2>2, <2>3 DEF ValueOf, Moved, NoneBegins
<1> QED BY <1>3, <1>4, <1>7, <1>8, <1>9, <1>10 DEF OnceInv

\* Unlocking and opening change only who is inside.
LEMMA LeavingKeeps ==
  ASSUME OnceInv, NEW c \in Callers, Unlock(c) \/ Open(c)
  PROVE  OnceInv'
<1> DEFINE o == On(c)
           p == IF Unlock(c) THEN "open" ELSE "wait"
<1>1. /\ stack[c] # <<>> /\ Moves(c, p)
      /\ Top(c).at = IF Unlock(c) THEN "unlock" ELSE "open"
      /\ locked' = IF Unlock(c) THEN locked ELSE [locked EXCEPT ![o] = FALSE]
      /\ mu' = IF Unlock(c) THEN [mu EXCEPT ![o] = None] ELSE mu
      /\ UNCHANGED <<done, err, value, changing, toReset, since, crossed>>
  BY DEF Unlock, Open, Stands, valueVars, buildVars
<1>2. o \in Inits /\ Place[c][o] = IF Unlock(c) THEN "unlock" ELSE "open"
  BY <1>1, TopPlace DEF OnceInv
<1>3. p \in {"open", "wait"}
  OBVIOUS
<1>4. ShapesOK' /\ Moved(c, o, p) /\ NoneBegins
  BY <1>1, <1>3, Moving DEF OnceInv, Places
<1>5. LazyInitTypeOK'
  BY DoesType DEF OnceInv, Does, ShapesOK, StacksOK, ShapeOK
<1>6. \A j \in Inits : /\ j # o => locked'[j] = locked[j] /\ mu'[j] = mu[j]
                       /\ locked'[j] => locked[j]
  BY <1>1, <1>2 DEF OnceInv, LazyInitTypeOK
<1>7. locked'[o] <=> Unlock(c) /\ locked[o]
  BY <1>1, <1>2 DEF OnceInv, LazyInitTypeOK
<1> HIDE DEF o
<1>8. ASSUME NEW j \in Inits PROVE LocksOf(j)'
  <2>1. LocksOf(j)
    BY DEF OnceInv
  <2>2. /\ "unlock" \in Inside /\ "open" \in Inside /\ "wait" \notin Inside
        /\ "open" \notin Guarded /\ "wait" \notin Guarded
    BY DEF Inside, Guarded
  <2>3. CASE j = o
    <3>1. locked[j] /\ Place[c][j] \in Inside
      BY <1>2, <2>1, <2>2, <2>3 DEF LocksOf
    <3>2. CASE Unlock(c)
      BY <1>1, <1>4, <1>7, <2>1, <2>2, <2>3, <3>1, <3>2, LocksHere
    <3>3. CASE ~Unlock(c)
      BY <1>1, <1>4, <1>7, <2>1, <2>2, <2>3, <3>1, <3>3, LocksHere
    <3> QED BY <3>2, <3>3
  <2>4. CASE j # o
    BY <1>1, <1>4, <1>6, <2>1, <2>4, LocksElsewhere DEF Moved
  <2> QED BY <2>3, <2>4
<1>9. ASSUME NEW j \in Inits PROVE ErrOf(j)'
  BY <1>1 DEF OnceInv, ErrOf
<1>10. ASSUME NEW i \in Asked PROVE ChildOf(i)'
  <2>1. ChildOf(i) /\ i \in Inits /\ (Child[i] # None => Child[i] \in Inits)
    BY LazyInitAssumption DEF OnceInv
  <2>2. Place[c][o] \notin {"store", "out"} /\ p \notin {"store", "out"}
    BY <1>2, <1>3
  <2> QED BY <1>1, <1>4, <2>1, <2>2 DEF ChildOf, Moved
<1>11. ASSUME NEW i \in Asked PROVE ValueOf(i)'
  <2>1. ValueOf(i) /\ i \in Inits /\ WorkOf(i) \in Inits /\ Family(i) \subseteq Inits
    BY Families, LazyInitAssumption DEF OnceInv, Family
  <2>2. WorkOf(i)' = WorkOf(i) /\ Family(i)' = Family(i)
    BY DEF WorkOf, Family
  <2>3. (Fresh(i)' <=> Fresh(i)) /\ (Current(i)' <=> Current(i))
    BY <1>1, <2>2 DEF Fresh, Crossed, Current
  <2>4. p # "store"
    BY <1>3
  <2> QED BY <1>1, <1>2, <1>4, <1>6, <2>1, <2>2, <2>3, <2>4 DEF ValueOf, Moved, NoneBegins
<1> QED BY <1>4, <1>5, <1>8, <1>9, <1>10, <1>11 DEF OnceInv

\* A function reads: what is there in this build, as nobody who reads pages has
\* come in before they are assembled.
LEMMA WorkKeeps ==
  ASSUME OnceInv, NEW c \in Callers, Work(c)
  PROVE  OnceInv'
<1> DEFINE o == On(c)
           s == stack[c]
           f == [s[Len(s)] EXCEPT !.at = "working", !.from = Finds(o)]
           t == OnTop(s, f)
<1>1. /\ stack[c] # <<>> /\ Top(c).at = "work" /\ stack' = [stack EXCEPT ![c] = t]
      /\ UNCHANGED <<locked, done, mu, err, value, changing, toReset, since, crossed>>
  BY DEF Work, Stands, onceVars, valueVars, buildVars, OnceInv, LazyInitTypeOK, OnTop
<1>2. o \in Inits /\ Place[c][o] = "work" /\ Top(c) \in Frame /\ o = Top(c).init /\ o \in Works
  BY <1>1, TopPlace, PlaceFacts DEF OnceInv
<1>3. Finds(o) \in Nat \cup {Mixed}
  BY <1>2 DEF Finds, OnceInv, LazyInitTypeOK
<1>4. f \in Frame /\ f.init = o /\ f.at = "working" /\ f.from = Finds(o)
  <2> DEFINE g == s[Len(s)]
             v == Finds(o)
  <2>1. g \in Frame /\ g.init = o /\ v \in Nat \cup {Mixed}
    BY <1>2, <1>3 DEF Top
  <2> HIDE DEF g, v
  <2>2. /\ [g EXCEPT !.at = "working", !.from = v] \in Frame
        /\ [g EXCEPT !.at = "working", !.from = v].init = g.init
        /\ [g EXCEPT !.at = "working", !.from = v].at = "working"
        /\ [g EXCEPT !.at = "working", !.from = v].from = v
    BY <2>1 DEF Frame
  <2> QED BY <2>1, <2>2 DEF g, v
<1>5. s[Len(s)].init = o
  BY <1>2 DEF Top
<1> HIDE DEF f
<1>6. /\ ShapeOK(t)
      /\ \A j : PlaceIn(t, j) = IF j = o THEN "working" ELSE PlaceIn(s, j)
      /\ \A j : FromIn(t, j) = IF j = o THEN Finds(o) ELSE FromIn(s, j)
  <2>1. ShapeOK(s) /\ s # <<>>
    BY <1>1 DEF OnceInv, ShapesOK
  <2> HIDE DEF s
  <2>2. t = OnTop(s, f)
    OBVIOUS
  <2> HIDE DEF t
  <2> QED BY <1>2, <1>4, <1>5, <2>1, <2>2, TopMoves
<1> HIDE DEF t
<1>7. /\ ShapesOK'
      /\ \A d \in Callers, i \in Inits :
           /\ Place'[d][i] = IF d = c THEN PlaceIn(t, i) ELSE Place[d][i]
           /\ Made'[d][i] = IF d = c THEN FromIn(t, i) ELSE Made[d][i]
  BY <1>1, <1>6, OneStack DEF OnceInv
<1>8. \A i \in Inits : Place[c][i] = PlaceIn(s, i) /\ Made[c][i] = FromIn(s, i)
  BY PlaceFacts DEF OnceInv
<1>9. LazyInitTypeOK'
  BY DoesType DEF OnceInv, Does, ShapesOK, StacksOK, ShapeOK
<1> HIDE DEF s, o
<1>10. /\ Moved(c, o, "working")
       /\ \A d \in Callers, i \in Inits :
            Made'[d][i] = IF d = c /\ i = o THEN Finds(o) ELSE Made[d][i]
  BY <1>6, <1>7, <1>8 DEF Moved
<1>11. ASSUME NEW j \in Inits PROVE LocksOf(j)'
  <2>1. LocksOf(j)
    BY DEF OnceInv
  <2>2. "work" \in Guarded \ {"unlock"} /\ "working" \in Guarded \ {"unlock"} /\ Guarded \subseteq Inside
    BY DEF Inside, Guarded
  <2>3. CASE j = o
    <3>1. locked[j] /\ mu[j] = c /\ ~done[j] /\ Place[c][j] \in Inside
      BY <1>2, <2>1, <2>2, <2>3 DEF LocksOf
    <3> QED BY <1>1, <1>10, <2>1, <2>2, <2>3, <3>1, LocksHere
  <2>4. CASE j # o
    BY <1>1, <1>10, <2>1, <2>4, LocksElsewhere DEF Moved
  <2> QED BY <2>3, <2>4
<1>12. ASSUME NEW j \in Inits PROVE ErrOf(j)'
  BY <1>1 DEF OnceInv, ErrOf
<1>13. ASSUME NEW i \in Asked PROVE ChildOf(i)'
  <2>1. ChildOf(i) /\ i \in Inits /\ (Child[i] # None => Child[i] \in Inits)
    BY LazyInitAssumption DEF OnceInv
  <2> QED BY <1>1, <1>2, <1>10, <2>1 DEF ChildOf, Moved
<1>14. ASSUME NEW i \in Asked PROVE ValueOf(i)'
  <2>1. ValueOf(i) /\ i \in Inits /\ WorkOf(i) \in Inits /\ WorkOf(i) \in Family(i)
    BY Families, LazyInitAssumption DEF OnceInv
  <2>2. WorkOf(i)' = WorkOf(i) /\ Family(i)' = Family(i)
    BY DEF WorkOf, Family
  <2>3. (Fresh(i)' <=> Fresh(i)) /\ (Current(i)' <=> Current(i))
    BY <1>1, <2>2 DEF Fresh, Crossed, Current
  <2>4. ASSUME Fresh(i), o = WorkOf(i) PROVE Finds(o) = since[i]
    <3>1. locked[o]
      <4>1. LocksOf(o) /\ Place[c][o] \in Inside
        BY <1>2 DEF OnceInv, Inside
      <4> QED BY <4>1 DEF LocksOf
    <3>2. ~(changing /\ i \in Always)
      BY <2>1, <2>4, <3>1 DEF ValueOf
    <3>3. ~(changing /\ o \in FromPages)
      BY <2>4, <3>2, Families
    <3> QED BY <2>1, <2>4, <3>3 DEF Finds, ValueOf
  <2> QED BY <1>1, <1>2, <1>10, <2>1, <2>2, <2>3, <2>4 DEF ValueOf, Moved
<1> QED BY <1>7, <1>9, <1>11, <1>12, <1>13, <1>14 DEF OnceInv

\* A function ends with what it has read, or with an error.
LEMMA WorkedKeeps ==
  ASSUME OnceInv, NEW c \in Callers, Worked(c)
  PROVE  OnceInv'
<1> DEFINE o == On(c)
           p == AfterWork(o)
<1>1. PICK fails \in BOOLEAN :
        /\ fails => o \in MayFail
        /\ err' = [err EXCEPT ![o] = fails]
        /\ value' = [value EXCEPT ![o] =
                       IF ~fails /\ Top(c).from = Finds(o) THEN Top(c).from ELSE Mixed]
  BY DEF Worked
<1>2. /\ stack[c] # <<>> /\ Top(c).at = "working" /\ Moves(c, p)
      /\ UNCHANGED <<locked, done, mu, changing, toReset, since, crossed>>
  BY DEF Worked, Stands, onceVars, buildVars
<1>3. /\ o \in Inits /\ Place[c][o] = "working" /\ o \in Works /\ Made[c][o] = Top(c).from
  BY <1>2, TopPlace, PlaceFacts DEF OnceInv
<1>4. p \in {"child", "store"} /\ (p = "child" => Child[o] # None)
  BY DEF AfterWork
<1>5. ShapesOK' /\ Moved(c, o, p) /\ NoneBegins
  BY <1>2, <1>4, Moving DEF OnceInv, Places
<1>6. LazyInitTypeOK'
  BY DoesType DEF OnceInv, Does, ShapesOK, StacksOK, ShapeOK
<1>7. /\ err'[o] = fails
      /\ value'[o] = IF ~fails /\ Top(c).from = Finds(o) THEN Top(c).from ELSE Mixed
      /\ \A j \in Inits : j # o => err'[j] = err[j]
      /\ \A j \in Works : j # o => value'[j] = value[j]
  BY <1>1, <1>3 DEF OnceInv, LazyInitTypeOK
<1> HIDE DEF o, p
<1>8. LocksOf(o) /\ "working" \in Guarded \ {"unlock"} /\ Guarded \subseteq Inside
      /\ p \in Guarded \ {"unlock"}
  BY <1>3, <1>4 DEF OnceInv, Inside, Guarded
<1>9. locked[o] /\ mu[o] = c /\ ~done[o] /\ Place[c][o] \in Inside
  BY <1>3, <1>8 DEF LocksOf
<1>10. ASSUME NEW j \in Inits PROVE LocksOf(j)'
  <2>1. CASE j = o
    BY <1>2, <1>5, <1>8, <1>9, <2>1, LocksHere
  <2>2. CASE j # o
    <3>1. LocksOf(j)
      BY DEF OnceInv
    <3> QED BY <1>2, <1>5, <2>2, <3>1, LocksElsewhere DEF Moved
  <2> QED BY <2>1, <2>2
<1>11. ASSUME NEW j \in Inits PROVE ErrOf(j)'
  <2>1. ErrOf(j) /\ Family(j)' = Family(j)
    BY DEF OnceInv, Family
  <2>2. CASE j = o
    <3>1. fails => o \in Family(j)
      BY <1>3, <2>2 DEF Family
    <3> QED BY <1>1, <1>7, <2>1, <2>2, <3>1 DEF ErrOf
  <2>3. CASE j # o
    BY <1>7, <2>1, <2>3 DEF ErrOf
  <2> QED BY <2>2, <2>3
<1>12. ASSUME NEW i \in Asked PROVE ChildOf(i)'
  <2>1. ChildOf(i) /\ i \in Inits /\ (Child[i] # None => Child[i] \in Inits /\ i \notin Works)
    BY LazyInitAssumption DEF OnceInv
  <2>2. CASE Child[i] = None
    BY <2>2 DEF ChildOf
  <2>3. CASE Child[i] # None /\ o # Child[i]
    <3>1. o # i
      BY <1>3, <2>1, <2>3
    <3>2. \A d \in Callers : Place'[d][i] = Place[d][i] /\ Place'[d][Child[i]] = Place[d][Child[i]]
      BY <1>5, <2>1, <2>3, <3>1 DEF Moved
    <3>3. err'[i] = err[i] /\ err'[Child[i]] = err[Child[i]]
      BY <1>7, <2>1, <2>3, <3>1
    <3> QED BY <1>2, <2>1, <2>3, <3>2, <3>3 DEF ChildOf
  <2>4. CASE Child[i] # None /\ o = Child[i]
    <3>1. Place[c][i] = "store" /\ LocksOf(i)
      BY <1>3, <2>1, <2>4, PlaceFacts DEF OnceInv
    <3>2. ~done[i] /\ \A d \in Callers : Place[d][i] = "store" => d = c
      BY <3>1 DEF LocksOf, Inside, Guarded
    <3>3. Place'[c][Child[i]] # "out" /\ \A d \in Callers : Place'[d][i] = Place[d][i]
      BY <1>3, <1>4, <1>5, <2>1, <2>4 DEF Moved
    <3> QED BY <1>2, <1>9, <2>4, <3>2, <3>3 DEF ChildOf
  <2> QED BY <2>2, <2>3, <2>4
<1>13. ASSUME NEW i \in Asked PROVE ValueOf(i)'
  <2>1. /\ ValueOf(i) /\ i \in Inits /\ WorkOf(i) \in Inits /\ WorkOf(i) \in Family(i)
        /\ WorkOf(i) \in Works /\ Family(i) \subseteq Inits
    BY Families, LazyInitAssumption DEF OnceInv, Family
  <2>2. WorkOf(i)' = WorkOf(i) /\ Family(i)' = Family(i)
    BY DEF WorkOf, Family
  <2>3. Fresh(i)' <=> Fresh(i)
    BY <1>2, <2>2 DEF Fresh, Crossed
  <2>4. CASE o # WorkOf(i)
    <3>1. Current(i)' <=> Current(i)
      BY <1>2, <1>7, <2>1, <2>2, <2>4 DEF Current
    <3> QED BY <1>2, <1>5, <2>1, <2>2, <2>3, <2>4, <3>1 DEF ValueOf, Moved, NoneBegins
  <2>5. CASE o = WorkOf(i)
    <3>1. ASSUME Fresh(i) PROVE Current(i)'
      <4>1. Top(c).from = since[i]
        BY <1>3, <2>1, <2>5, <3>1 DEF ValueOf
      <4>2. ~(changing /\ i \in Always)
        BY <1>9, <2>1, <2>5, <3>1 DEF ValueOf
      <4>3. Finds(o) = since[i]
        BY <2>1, <2>5, <4>2, Families DEF Finds, ValueOf
      <4> QED BY <1>2, <1>7, <2>2, <2>5, <4>1, <4>3 DEF Current
    <3> QED BY <1>2, <1>5, <2>1, <2>2, <2>3, <3>1 DEF ValueOf, Moved, NoneBegins
  <2> QED BY <2>4, <2>5
<1> QED BY <1>5, <1>6, <1>10, <1>11, <1>12, <1>13 DEF OnceInv

\* The child of an Init that is not done has not begun, so its Do is called.
LEMMA ChildrenKeeps ==
  ASSUME OnceInv, NEW c \in Callers, Children(c)
  PROVE  OnceInv'
<1> DEFINE o == On(c)
           k == Child[o]
           s == stack[c]
           f == [s[Len(s)] EXCEPT !.at = "store"]
           t == OnTop(s, f)
           u == Above(t, Call(k))
<1>1. /\ stack[c] # <<>> /\ Top(c).at = "child"
      /\ UNCHANGED <<locked, done, mu, err, value, changing, toReset, since, crossed>>
  BY DEF Children, Stands, onceVars, valueVars, buildVars
<1>2. /\ o \in Inits /\ Place[c][o] = "child" /\ Top(c) \in Frame /\ o = Top(c).init
      /\ o \in Asked /\ k # None
  BY <1>1, TopPlace, PlaceFacts DEF OnceInv
<1>3. Len(s) = 1 /\ k \in Inits \ Asked /\ Place[c][k] = "out"
  BY <1>1, <1>2, AskedAlone, LazyInitAssumption DEF OnceInv
<1>4. LocksOf(o) /\ LocksOf(k) /\ ChildOf(o) /\ "child" \in Guarded \ {"unlock"} /\ Guarded \subseteq Inside
  BY <1>2, <1>3 DEF OnceInv, Inside, Guarded
<1>5. locked[o] /\ mu[o] = c /\ ~done[o] /\ \A d \in Callers : Place[d][o] # "store"
  BY <1>2, <1>4 DEF LocksOf, Inside, Guarded
<1>6. ~done[k]
  BY <1>2, <1>4, <1>5 DEF ChildOf
<1>7. \A d \in Callers : Place[d][k] = "out"
  BY <1>2, <1>5, PlaceFacts DEF OnceInv
<1>8. ~locked[k]
  BY <1>4, <1>7 DEF LocksOf, Inside
<1>9. stack' = [stack EXCEPT ![c] = u]
  BY <1>6, <1>8 DEF Children, ShouldInitialize, OnceInv, LazyInitTypeOK, OnTop, Above
<1>10. Call(k) \in Frame /\ Call(k).init = k /\ Call(k).at = "swap"
  BY <1>3, <1>6, CallType DEF Call
<1>11. f \in Frame /\ f.init = o /\ f.at = "store"
  <2> DEFINE g == s[Len(s)]
  <2>1. g \in Frame /\ g.init = o
    BY <1>2 DEF Top
  <2> HIDE DEF g
  <2>2. /\ [g EXCEPT !.at = "store"] \in Frame /\ [g EXCEPT !.at = "store"].init = g.init
        /\ [g EXCEPT !.at = "store"].at = "store"
    BY <2>1 DEF Frame
  <2> QED BY <2>1, <2>2 DEF g
<1>12. s[Len(s)].init = o
  BY <1>2 DEF Top
<1> HIDE DEF f
<1>13. /\ ShapeOK(t) /\ Len(t) = 1 /\ t[1] = f
       /\ \A j : PlaceIn(t, j) = IF j = o THEN "store" ELSE PlaceIn(s, j)
       /\ \A j : j # o => FromIn(t, j) = FromIn(s, j)
  <2>1. ShapeOK(s) /\ s # <<>>
    BY <1>1 DEF OnceInv, ShapesOK
  <2> HIDE DEF s
  <2>2. t = OnTop(s, f)
    OBVIOUS
  <2> HIDE DEF t
  <2> QED BY <1>3, <1>11, <1>12, <2>1, <2>2, TopMoves
<1> HIDE DEF t
<1>14. /\ ShapeOK(u)
       /\ \A j : PlaceIn(u, j) = IF j = k THEN "swap" ELSE PlaceIn(t, j)
       /\ \A j \in Inits : j # k => FromIn(u, j) = FromIn(t, j)
  <2>1. t[1].at = "store" /\ t[1].init = o
    BY <1>11, <1>13
  <2>2. u = Above(t, Call(k))
    OBVIOUS
  <2> HIDE DEF u
  <2> DEFINE h == Call(k)
  <2>3. h \in Frame /\ h.init = k /\ h.at = "swap" /\ u = Above(t, h)
    BY <1>10, <2>2
  <2> HIDE DEF h
  <2> QED BY <1>2, <1>13, <2>1, <2>3, ChildComes
<1> HIDE DEF u
<1>15. /\ ShapesOK'
       /\ \A d \in Callers, i \in Inits :
            /\ Place'[d][i] = IF d = c THEN PlaceIn(u, i) ELSE Place[d][i]
            /\ Made'[d][i] = IF d = c THEN FromIn(u, i) ELSE Made[d][i]
  BY <1>9, <1>14, OneStack DEF OnceInv
<1>16. \A i \in Inits : Place[c][i] = PlaceIn(s, i) /\ Made[c][i] = FromIn(s, i)
  BY PlaceFacts DEF OnceInv
<1>17. LazyInitTypeOK'
  BY DoesType DEF OnceInv, Does, ShapesOK, StacksOK, ShapeOK
<1>18. o # k
  BY <1>2, <1>3
<1> HIDE DEF s, o, k
<1>19. \A d \in Callers, i \in Inits :
         /\ Place'[d][i] = IF d = c /\ i = k THEN "swap" ELSE IF d = c /\ i = o THEN "store"
                           ELSE Place[d][i]
         /\ Place'[d][i] = "working" => Place[d][i] = "working" /\ Made'[d][i] = Made[d][i]
  BY <1>13, <1>14, <1>15, <1>16
<1>20. ASSUME NEW j \in Inits PROVE LocksOf(j)'
  <2>1. LocksOf(j) /\ "store" \in Guarded \ {"unlock"} /\ {"swap", "out"} \cap Inside = {}
    BY DEF OnceInv, Inside, Guarded
  <2>2. CASE j = o
    <3>1. \A d \in Callers : Place'[d][j] = IF d = c THEN "store" ELSE Place[d][j]
      BY <1>2, <1>18, <1>19, <2>2
    <3> QED BY <1>1, <1>2, <1>4, <1>5, <2>1, <2>2, <3>1, LocksAt
  <2>3. CASE j = k
    <3>1. \A d \in Callers : Place'[d][j] = IF d = c THEN "swap" ELSE Place[d][j]
      BY <1>19, <2>3
    <3> QED BY <1>1, <1>4, <1>7, <2>1, <2>3, <3>1, LocksAt
  <2>4. CASE j # o /\ j # k
    BY <1>1, <1>19, <2>1, <2>4, LocksElsewhere
  <2> QED BY <2>2, <2>3, <2>4
<1>21. ASSUME NEW j \in Inits PROVE ErrOf(j)'
  BY <1>1 DEF OnceInv, ErrOf
<1>22. ASSUME NEW i \in Asked PROVE ChildOf(i)'
  <2>1. ChildOf(i) /\ i \in Inits /\ (Child[i] # None => Child[i] \in Inits \ Asked)
    BY LazyInitAssumption DEF OnceInv
  <2>2. CASE i = o
    BY <1>1, <1>2, <1>3, <1>5, <1>6, <1>19, <2>1, <2>2 DEF ChildOf, k
  <2>3. CASE i # o
    <3>1. Child[i] # k /\ i # k
      BY <1>2, <1>3, <2>1, <2>3, LazyInitAssumption DEF k
    <3>2. Child[i] # None => Child[i] # o
      BY <1>2, <2>1
    <3>3. \A d \in Callers : /\ Place'[d][i] = Place[d][i]
                             /\ Child[i] # None => Place'[d][Child[i]] = Place[d][Child[i]]
      BY <1>19, <2>1, <2>3, <3>1, <3>2
    <3> QED BY <1>1, <2>1, <3>3 DEF ChildOf
  <2> QED BY <2>2, <2>3
<1>23. ASSUME NEW i \in Asked PROVE ValueOf(i)'
  <2>1. ValueOf(i) /\ i \in Inits /\ WorkOf(i) \in Inits
    BY Families, LazyInitAssumption DEF OnceInv
  <2>2. WorkOf(i)' = WorkOf(i) /\ Family(i)' = Family(i)
    BY DEF WorkOf, Family
  <2>3. (Fresh(i)' <=> Fresh(i)) /\ (Current(i)' <=> Current(i))
    BY <1>1, <2>2 DEF Fresh, Crossed, Current
  <2>4. o # WorkOf(i)
    BY <1>2, Families, LazyInitAssumption DEF k
  <2> QED BY <1>1, <1>19, <2>1, <2>2, <2>3, <2>4 DEF ValueOf
<1> QED BY <1>15, <1>17, <1>20, <1>21, <1>22, <1>23 DEF OnceInv

\* A Do returns: a child's to its parent's with its error.
LEMMA WaitedKeeps ==
  ASSUME OnceInv, NEW c \in Callers, Waited(c)
  PROVE  OnceInv'
<1> DEFINE o == On(c)
           s == stack[c]
           outer == Len(s) - 1
<1>1. /\ s # <<>> /\ Top(c).at = "wait" /\ done[o] /\ Answers(c)
      /\ UNCHANGED <<locked, done, mu, value, changing, toReset, since, crossed>>
  BY DEF Waited, Stands, Answers, onceVars, valueVars, buildVars
<1>2. o \in Inits /\ Place[c][o] = "wait" /\ o = s[Len(s)].init
  BY <1>1, TopPlace DEF OnceInv, On, Top
<1>3. LazyInitTypeOK'
  BY DoesType DEF OnceInv, Does, ShapesOK, StacksOK, ShapeOK
<1>4. ShapeOK(s) /\ Len(s) \in {1, 2}
  BY <1>1, ShapeIs DEF OnceInv, ShapesOK
<1>5. \A i \in Inits : Place[c][i] = PlaceIn(s, i)
  BY PlaceFacts DEF OnceInv
<1>6. ASSUME Moved(c, o, "out") PROVE \A j \in Inits : LocksOf(j)'
  <2> TAKE j \in Inits
  <2>1. LocksOf(j) /\ {"wait", "out"} \cap Inside = {} /\ "out" \notin Guarded
    BY DEF OnceInv, Inside, Guarded
  <2>2. CASE j = o
    BY <1>1, <1>2, <1>6, <2>1, <2>2, LocksHere
  <2>3. CASE j # o
    BY <1>1, <1>6, <2>1, <2>3, LocksElsewhere DEF Moved
  <2> QED BY <2>2, <2>3
<1>7. CASE outer = 0
  <2>1. stack' = [stack EXCEPT ![c] = <<>>] /\ UNCHANGED err
    BY <1>1, <1>7 DEF Answers
  <2>2. ShapeOK(<<>>)
    BY DEF ShapeOK, StackOK
  <2>3. /\ ShapesOK'
        /\ \A d \in Callers, i \in Inits :
             /\ Place'[d][i] = IF d = c THEN PlaceIn(<<>>, i) ELSE Place[d][i]
             /\ Made'[d][i] = IF d = c THEN FromIn(<<>>, i) ELSE Made[d][i]
    BY <2>1, <2>2, OneStack DEF OnceInv
  <2>4. \A i \in Inits : PlaceIn(<<>>, i) = "out" /\ (i # o => PlaceIn(s, i) = "out")
    BY <1>2, <1>4, <1>7 DEF PlaceIn
  <2> HIDE DEF s, o
  <2>5. Moved(c, o, "out") /\ NoneBegins
    BY <1>5, <2>3, <2>4 DEF Moved, NoneBegins
  <2>6. ASSUME NEW j \in Inits PROVE ErrOf(j)'
    BY <1>1, <2>1 DEF OnceInv, ErrOf
  <2>7. ASSUME NEW i \in Asked PROVE ChildOf(i)'
    <3>1. ChildOf(i) /\ i \in Inits /\ (Child[i] # None => Child[i] \in Inits)
      BY LazyInitAssumption DEF OnceInv
    <3>2. o = Child[i] /\ Child[i] # None => Place[c][i] = "store"
      BY <1>2, <3>1, PlaceFacts DEF OnceInv
    <3>3. o = Child[i] /\ Child[i] # None => FALSE
      BY <1>2, <1>5, <2>4, <3>1, <3>2, LazyInitAssumption
    <3> QED BY <1>1, <1>2, <2>1, <2>5, <3>1, <3>3 DEF ChildOf, Moved
  <2>8. ASSUME NEW i \in Asked PROVE ValueOf(i)'
    <3>1. ValueOf(i) /\ i \in Inits /\ WorkOf(i) \in Inits
      BY Families, LazyInitAssumption DEF OnceInv
    <3>2. WorkOf(i)' = WorkOf(i) /\ Family(i)' = Family(i)
      BY DEF WorkOf, Family
    <3>3. (Fresh(i)' <=> Fresh(i)) /\ (Current(i)' <=> Current(i))
      BY <1>1, <2>1, <3>2 DEF Fresh, Crossed, Current
    <3> QED BY <1>1, <1>2, <2>5, <3>1, <3>2, <3>3 DEF ValueOf, Moved, NoneBegins
  <2> QED BY <1>3, <1>6, <2>3, <2>5, <2>6, <2>7, <2>8 DEF OnceInv
<1>8. CASE outer # 0
  <2> DEFINE g == s[1]
             i0 == s[1].init
             f == IF err[o] THEN [g EXCEPT !.at = "store"] ELSE g
             t == Back(s, f)
  <2>1. Len(s) = 2
    BY <1>4, <1>8
  <2>2. /\ g \in Frame /\ i0 \in Asked /\ g.at = "store" /\ Child[i0] # None /\ o = Child[i0]
        /\ s[2].init = o
    BY <1>1, <1>2, <1>4, <2>1, ShapeIs DEF ShapeOK
  <2>3. /\ stack' = [stack EXCEPT ![c] = t]
        /\ err' = [err EXCEPT ![i0] = err[i0] \/ err[o]]
    BY <1>1, <2>1 DEF Answers, OnceInv, LazyInitTypeOK, Back
  <2>4. f \in Frame /\ f.init = i0 /\ f.at = "store"
    <3>1. "store" \in Places /\ 0 \in Nat \cup {Mixed} /\ g.init = i0
      BY DEF Places
    <3> HIDE DEF g
    <3>2. f = [g EXCEPT !.at = "store"] \/ f = g
      OBVIOUS
    <3> QED BY <2>2, <3>1, <3>2, FrameType
  <2> HIDE DEF f
  <2>5. /\ ShapeOK(t)
        /\ \A j : PlaceIn(t, j) = IF j = o THEN "out" ELSE PlaceIn(s, j)
    <3>1. t = Back(s, f) /\ f.init = s[1].init
      BY <2>4
    <3> HIDE DEF t, s
    <3> QED BY <1>4, <2>1, <2>2, <2>4, <3>1, ChildGoes
  <2>6. \A j : PlaceIn(t, j) # "working"
    <3>1. t = Back(s, f) /\ f.init = s[1].init
      BY <2>4
    <3> HIDE DEF t, s
    <3> QED BY <1>4, <2>1, <2>2, <2>4, <3>1, ChildGoes
  <2> HIDE DEF t
  <2>7. /\ ShapesOK'
        /\ \A d \in Callers, i \in Inits :
             /\ Place'[d][i] = IF d = c THEN PlaceIn(t, i) ELSE Place[d][i]
             /\ Made'[d][i] = IF d = c THEN FromIn(t, i) ELSE Made[d][i]
    BY <2>3, <2>5, OneStack DEF OnceInv
  <2> HIDE DEF s, o, i0
  <2>8. Moved(c, o, "out") /\ NoneBegins
    BY <1>5, <2>5, <2>6, <2>7 DEF Moved, NoneBegins
  <2>9. i0 \in Inits /\ i0 \notin Works /\ o \notin Asked /\ Family(o) = {o} /\ o \in Family(i0)
    BY <2>2, LazyInitAssumption DEF Family
  <2>10. /\ err'[i0] = (err[i0] \/ err[o]) /\ \A j \in Inits : j # i0 => err'[j] = err[j]
    BY <2>3, <2>9 DEF OnceInv, LazyInitTypeOK
  <2>11. Place[c][i0] = "store" /\ LocksOf(i0)
    BY <1>2, <2>2, <2>9, PlaceFacts DEF OnceInv
  <2>12. ~done[i0] /\ \A d \in Callers : Place[d][i0] = "store" => d = c
    BY <2>11 DEF LocksOf, Inside, Guarded
  <2>13. ASSUME NEW j \in Inits PROVE ErrOf(j)'
    <3>1. ErrOf(j) /\ ErrOf(o) /\ Family(j)' = Family(j)
      BY <1>2 DEF OnceInv, Family
    <3> QED BY <2>9, <2>10, <3>1 DEF ErrOf
  <2>14. ASSUME NEW i \in Asked PROVE ChildOf(i)'
    <3>1. ChildOf(i) /\ i \in Inits /\ (Child[i] # None => Child[i] \in Inits \ Asked)
      BY LazyInitAssumption DEF OnceInv
    <3>2. CASE i = i0
      <4>1. done[o] /\ o # i0 /\ done'[o] /\ err'[o] = err[o] /\ ~done'[i0]
        BY <1>1, <1>2, <2>9, <2>10, <2>12
      <4>2. Place'[c][i0] = "store"
        BY <2>8, <2>9, <2>11, <4>1 DEF Moved
      <4> QED BY <2>2, <2>10, <3>2, <4>1, <4>2 DEF ChildOf
    <3>3. CASE i # i0
      <4>1. Child[i] # o /\ i # o
        BY <2>2, <2>9, <3>3, LazyInitAssumption
      <4>2. Child[i] # None => Child[i] # i0
        BY <2>2, <3>1
      <4>3. \A d \in Callers : /\ Place'[d][i] = Place[d][i]
                               /\ Child[i] # None => Place'[d][Child[i]] = Place[d][Child[i]]
        BY <2>8, <3>1, <4>1 DEF Moved
      <4>4. err'[i] = err[i] /\ (Child[i] # None => err'[Child[i]] = err[Child[i]])
        BY <2>10, <3>1, <3>3, <4>2
      <4> QED BY <1>1, <3>1, <4>3, <4>4 DEF ChildOf
    <3> QED BY <3>2, <3>3
  <2>15. ASSUME NEW i \in Asked PROVE ValueOf(i)'
    <3>1. ValueOf(i) /\ i \in Inits /\ WorkOf(i) \in Inits /\ WorkOf(i) # i0
      BY <2>9, Families, LazyInitAssumption DEF OnceInv
    <3>2. WorkOf(i)' = WorkOf(i) /\ Family(i)' = Family(i)
      BY DEF WorkOf, Family
    <3>3. (Fresh(i)' <=> Fresh(i)) /\ (Current(i)' <=> Current(i))
      BY <1>1, <2>10, <3>1, <3>2 DEF Fresh, Crossed, Current
    <3> QED BY <1>1, <1>2, <2>8, <3>1, <3>2, <3>3 DEF ValueOf, Moved, NoneBegins
  <2> QED BY <1>3, <1>6, <2>7, <2>8, <2>13, <2>14, <2>15 DEF OnceInv
<1> QED BY <1>7, <1>8

\* A template asks.
LEMMA AsksKeeps ==
  ASSUME OnceInv, LazyInitTypeOK', NEW c \in Callers, NEW i0 \in Asked, Asks(c, i0)
  PROVE  OnceInv'
<1> DEFINE f == Call(i0)
           t == <<f>>
<1>1. /\ stack[c] = <<>> /\ stack' = [stack EXCEPT ![c] = t]
      /\ UNCHANGED <<locked, done, mu, err, value, changing, toReset, since, crossed>>
  BY DEF Asks, onceVars, valueVars, buildVars
<1>2. f \in Frame /\ f.init = i0 /\ f.at \in {"swap", "wait"} /\ i0 \in Inits
  BY LazyInitAssumption, CallType DEF Call
<1> HIDE DEF f
<1>3. t \in Seq(Frame) /\ Len(t) = 1 /\ t[1] = f
  BY <1>2
<1> HIDE DEF t
<1>4. StackOK(t) /\ t # <<>>
  BY <1>2, <1>3, NotEmpty DEF StackOK
<1>5. ShapeOK(t)
  BY <1>2, <1>3, <1>4 DEF ShapeOK
<1>6. \A i : PlaceIn(t, i) = IF i = i0 THEN f.at ELSE "out"
  BY <1>2, <1>3, <1>4 DEF PlaceIn
<1>7. \A i \in Inits : Place[c][i] = "out"
  <2>1. Len(<<>>) # 2
    OBVIOUS
  <2>2. \A i : PlaceIn(<<>>, i) = "out"
    BY <2>1 DEF PlaceIn
  <2> QED BY <1>1, <2>2, PlaceFacts DEF OnceInv
<1>8. /\ ShapesOK'
      /\ \A d \in Callers, i \in Inits :
           /\ Place'[d][i] = IF d = c THEN PlaceIn(t, i) ELSE Place[d][i]
           /\ Made'[d][i] = IF d = c THEN FromIn(t, i) ELSE Made[d][i]
  BY <1>1, <1>5, OneStack DEF OnceInv
<1>9. Moved(c, i0, f.at) /\ NoneBegins
  BY <1>2, <1>6, <1>7, <1>8 DEF Moved, NoneBegins
<1>10. ASSUME NEW j \in Inits PROVE LocksOf(j)'
  <2>1. LocksOf(j) /\ {"swap", "wait", "out"} \cap Inside = {} /\ {"swap", "wait", "out"} \cap Guarded = {}
    BY DEF OnceInv, Inside, Guarded
  <2>2. CASE j = i0
    BY <1>1, <1>2, <1>7, <1>9, <2>1, <2>2, LocksHere
  <2>3. CASE j # i0
    BY <1>1, <1>9, <2>1, <2>3, LocksElsewhere DEF Moved
  <2> QED BY <2>2, <2>3
<1>11. ASSUME NEW j \in Inits PROVE ErrOf(j)'
  BY <1>1 DEF OnceInv, ErrOf
<1>12. ASSUME NEW i \in Asked PROVE ChildOf(i)'
  <2>1. ChildOf(i) /\ i \in Inits /\ (Child[i] # None => Child[i] \in Inits \ Asked)
    BY LazyInitAssumption DEF OnceInv
  <2> QED BY <1>1, <1>2, <1>7, <1>9, <2>1 DEF ChildOf, Moved
<1>13. ASSUME NEW i \in Asked PROVE ValueOf(i)'
  <2>1. ValueOf(i) /\ i \in Inits /\ WorkOf(i) \in Inits
    BY Families, LazyInitAssumption DEF OnceInv
  <2>2. WorkOf(i)' = WorkOf(i) /\ Family(i)' = Family(i)
    BY DEF WorkOf, Family
  <2>3. (Fresh(i)' <=> Fresh(i)) /\ (Current(i)' <=> Current(i))
    BY <1>1, <2>2 DEF Fresh, Crossed, Current
  <2> QED BY <1>1, <1>2, <1>9, <2>1, <2>2, <2>3 DEF ValueOf, Moved, NoneBegins
<1> QED BY <1>8, <1>10, <1>11, <1>12, <1>13 DEF OnceInv

\* A step that leaves the stacks alone leaves the places alone.
LEMMA SamePlaces ==
  ASSUME UNCHANGED stack
  PROVE  Place' = Place /\ Made' = Made /\ (ShapesOK => ShapesOK')
BY DEF Place, Made, ShapesOK, PlaceIn, FromIn, ShapeOK, StackOK

\* A reset Init and its child have nobody under their mutexes: whoever is in is
\* seen by the word, and crosses.
LEMMA ResetKeeps ==
  ASSUME OnceInv, LazyInitTypeOK', NEW i0 \in Asked, Reset(i0)
  PROVE  OnceInv'
<1>1. /\ i0 \in toReset /\ \A j \in Family(i0) : mu[j] = None
      /\ toReset' = toReset \ {i0}
      /\ done' = [j \in Inits |-> j \notin Family(i0) /\ done[j]]
      /\ err' = [j \in Inits |-> j \notin Family(i0) /\ err[j]]
      /\ crossed' = (crossed \ Family(i0)) \cup {j \in Family(i0) : locked[j]}
      /\ UNCHANGED <<locked, mu, value, stack, changing, since>>
  BY DEF Reset, askVars
<1>2. Place' = Place /\ Made' = Made /\ ShapesOK'
  BY <1>1, SamePlaces DEF OnceInv
<1>3. \A j \in Family(i0), c \in Callers : j \in Inits /\ Place[c][j] \notin Guarded
  <2> TAKE j \in Family(i0), c \in Callers
  <2>1. j \in Inits /\ LocksOf(j) /\ mu[j] = None
    BY <1>1 DEF OnceInv, Family
  <2>2. c # None
    BY LazyInitAssumption
  <2> QED BY <2>1, <2>2 DEF LocksOf
<1>4. \A j \in Inits : /\ done'[j] <=> j \notin Family(i0) /\ done[j]
                       /\ err'[j] <=> j \notin Family(i0) /\ err[j]
  BY <1>1
<1>5. ASSUME NEW j \in Inits PROVE LocksOf(j)'
  <2>1. LocksOf(j)
    BY DEF OnceInv
  <2> QED BY <1>1, <1>2, <1>4, <2>1 DEF LocksOf
<1>6. ASSUME NEW j \in Inits PROVE ErrOf(j)'
  <2>1. ErrOf(j) /\ Family(j)' = Family(j)
    BY DEF OnceInv, Family
  <2> QED BY <1>4, <2>1 DEF ErrOf
<1>7. ASSUME NEW i \in Asked PROVE ChildOf(i)'
  <2>1. ChildOf(i) /\ i \in Family(i) /\ (Child[i] # None => Child[i] \in Family(i)) /\ i \in Inits
        /\ (Child[i] # None => Child[i] \in Inits)
    BY Families, LazyInitAssumption DEF OnceInv
  <2>2. CASE i = i0
    <3>1. \A c \in Callers : Place[c][i] # "store"
      BY <1>3, <2>1, <2>2 DEF Guarded
    <3>2. ~done'[i] /\ (Child[i] # None => ~done'[Child[i]])
      BY <1>4, <2>1, <2>2
    <3> QED BY <1>2, <3>1, <3>2 DEF ChildOf
  <2>3. CASE i # i0
    <3>1. i \notin Family(i0) /\ (Child[i] # None => Child[i] \notin Family(i0))
      BY <2>1, <2>3, Families
    <3> QED BY <1>2, <1>4, <2>1, <3>1 DEF ChildOf
  <2> QED BY <2>2, <2>3
<1>8. ASSUME NEW i \in Asked PROVE ValueOf(i)'
  <2>1. ValueOf(i) /\ i \in Inits /\ WorkOf(i) \in Inits /\ WorkOf(i) \in Family(i)
    BY Families, LazyInitAssumption DEF OnceInv
  <2>2. WorkOf(i)' = WorkOf(i) /\ Family(i)' = Family(i)
    BY DEF WorkOf, Family
  <2>3. CASE i = i0
    <3>1. ~done'[WorkOf(i)] /\ \A c \in Callers : Place[c][WorkOf(i)] \notin {"working", "store"}
      BY <1>3, <1>4, <2>1, <2>3 DEF Guarded
    <3>2. ~Crossed(i)' => \A j \in Family(i) : ~locked'[j]
      BY <1>1, <2>2, <2>3 DEF Crossed
    <3> QED BY <1>1, <1>2, <2>1, <2>2, <3>1, <3>2 DEF ValueOf, Fresh
  <2>4. CASE i # i0
    <3>1. Family(i) \cap Family(i0) = {}
      BY <2>4, Families
    <3>2. Fresh(i)' <=> Fresh(i)
      BY <1>1, <2>2, <2>4, <3>1 DEF Fresh, Crossed
    <3>3. done'[WorkOf(i)] = done[WorkOf(i)] /\ (Current(i)' <=> Current(i))
      <4>1. WorkOf(i) \notin Family(i0)
        BY <2>1, <3>1
      <4>2. (done'[WorkOf(i)] <=> done[WorkOf(i)]) /\ (err'[WorkOf(i)] <=> err[WorkOf(i)])
        BY <1>4, <2>1, <4>1
      <4>3. done'[WorkOf(i)] \in BOOLEAN /\ done[WorkOf(i)] \in BOOLEAN
        BY <2>1 DEF OnceInv, LazyInitTypeOK
      <4> QED BY <1>1, <2>2, <4>2, <4>3 DEF Current
    <3> QED BY <1>1, <1>2, <2>1, <2>2, <3>2, <3>3 DEF ValueOf
  <2> QED BY <2>3, <2>4
<1> QED BY <1>2, <1>5, <1>6, <1>7, <1>8 DEF OnceInv

\* What a build changes it resets.
LEMMA BeginBuildKeeps ==
  ASSUME OnceInv, RenderInv, LazyInitTypeOK', BeginBuild
  PROVE  OnceInv'
<1>1. PICK more \in SUBSET (Asked \ Always) :
        /\ toReset' = Always \cup more
        /\ LET dropped == UNION {Family(j) : j \in Always \cup more}
           IN  since' = [i \in Inits |-> IF i \in dropped THEN build' ELSE since[i]]
  BY DEF BeginBuild
<1>2. /\ UNCHANGED <<locked, done, mu, err, value, stack, crossed>>
      /\ toReset = {}
  BY DEF BeginBuild, RenderInv, onceVars, valueVars
<1>3. Place' = Place /\ Made' = Made /\ ShapesOK'
  BY <1>2, SamePlaces DEF OnceInv
<1>4. ASSUME NEW j \in Inits PROVE LocksOf(j)' /\ ErrOf(j)'
  <2>1. LocksOf(j) /\ ErrOf(j)
    BY DEF OnceInv
  <2> QED BY <1>2, <1>3, <2>1 DEF LocksOf, ErrOf, Family
<1>5. ASSUME NEW i \in Asked PROVE ChildOf(i)'
  <2>1. ChildOf(i)
    BY DEF OnceInv
  <2> QED BY <1>2, <1>3, <2>1 DEF ChildOf
<1>6. ASSUME NEW i \in Asked PROVE ValueOf(i)'
  <2>1. ValueOf(i) /\ i \in Inits /\ WorkOf(i) \in Inits /\ WorkOf(i) \in Family(i) /\ i \in Family(i)
    BY Families, LazyInitAssumption DEF OnceInv
  <2>2. WorkOf(i)' = WorkOf(i) /\ Family(i)' = Family(i)
    BY DEF WorkOf, Family
  <2>3. CASE i \in toReset'
    <3>1. since'[i] = build' /\ since'[WorkOf(i)] = build'
      BY <1>1, <2>1, <2>3
    <3> QED BY <2>2, <2>3, <3>1 DEF ValueOf, Fresh
  <2>4. CASE i \notin toReset'
    <3>1. \A j \in Always \cup more : Family(i) \cap Family(j) = {}
      BY <1>1, <2>4, Families, LazyInitAssumption
    <3>2. since'[i] = since[i] /\ since'[WorkOf(i)] = since[WorkOf(i)]
      BY <1>1, <2>1, <3>1
    <3>3. i \notin Always /\ (Fresh(i)' => Fresh(i)) /\ (Current(i)' <=> Current(i))
      BY <1>1, <1>2, <2>2, <2>4, <3>2 DEF Fresh, Crossed, Current
    <3> QED BY <1>2, <1>3, <2>1, <2>2, <3>2, <3>3 DEF ValueOf
  <2> QED BY <2>3, <2>4
<1> QED BY <1>3, <1>4, <1>5, <1>6 DEF OnceInv

\* The rest changes nothing that the Inits have.
LEMMA QuietKeeps ==
  ASSUME OnceInv, LazyInitTypeOK', UNCHANGED <<onceVars, valueVars, stack, toReset, since, crossed>>,
         changing' => changing
  PROVE  OnceInv'
<1>1. UNCHANGED <<locked, done, mu, err, value>>
  BY DEF onceVars, valueVars
<1>2. Place' = Place /\ Made' = Made /\ ShapesOK'
  BY SamePlaces DEF OnceInv
<1>3. ASSUME NEW j \in Inits PROVE LocksOf(j)' /\ ErrOf(j)'
  <2>1. LocksOf(j) /\ ErrOf(j)
    BY DEF OnceInv
  <2> QED BY <1>1, <1>2, <2>1 DEF LocksOf, ErrOf, Family
<1>4. ASSUME NEW i \in Asked PROVE ChildOf(i)' /\ ValueOf(i)'
  <2>1. ChildOf(i) /\ ValueOf(i)
    BY DEF OnceInv
  <2> QED BY <1>1, <1>2, <2>1 DEF ChildOf, ValueOf, WorkOf, Family, Fresh, Crossed, Current
<1> QED BY <1>2, <1>3, <1>4 DEF OnceInv

LEMMA OnceStep == OnceInv /\ RenderInv /\ [LazyInitNext]_lazyVars => OnceInv'
<1> SUFFICES ASSUME OnceInv, RenderInv, [LazyInitNext]_lazyVars PROVE OnceInv'
  OBVIOUS
<1>1. LazyInitTypeOK'
  BY LazyInitTypeStep DEF OnceInv, ShapesOK, StacksOK, ShapeOK
<1>2. ASSUME NEW c \in Callers, Does(c) PROVE OnceInv'
  BY <1>2, SwapKeeps, EnterKeeps, WorkKeeps, WorkedKeeps, ChildrenKeeps, StoreKeeps,
     LeavingKeeps, WaitedKeeps DEF Does
<1>3. ASSUME NEW c \in Callers, Lapse(c) \/ LapsedEnds(c) PROVE OnceInv'
  BY <1>1, <1>3, QuietKeeps DEF Lapse, LapsedEnds, buildVars
<1>4. ASSUME NEW c \in Callers, NEW i \in Asked, Asks(c, i) PROVE OnceInv'
  BY <1>1, <1>4, AsksKeeps
<1>5. ASSUME NEW i \in Asked, Reset(i) PROVE OnceInv'
  BY <1>1, <1>5, ResetKeeps
<1>6. CASE BeginBuild
  BY <1>1, <1>6, BeginBuildKeeps
<1>7. CASE Assembled
  BY <1>1, <1>7, QuietKeeps DEF Assembled, askVars
<1>8. CASE UNCHANGED lazyVars
  BY <1>1, <1>8, QuietKeeps DEF lazyVars, askVars, buildVars
<1> QED BY <1>2, <1>3, <1>4, <1>5, <1>6, <1>7, <1>8 DEF LazyInitNext

\* What a template is given by an Init that is done.
LEMMA GivenIs ==
  ASSUME OnceInv, NEW i \in Asked, i \notin toReset, done[i]
  PROVE  \/ Value(i) = since[i]
         \/ Value(i) = None /\ Family(i) \cap MayFail # {}
         \/ Crossed(i)
<1>1. /\ ErrOf(i) /\ ChildOf(i) /\ ValueOf(i) /\ i \in Inits
      /\ Family(i) \cap Works = {WorkOf(i)}
  BY Families DEF OnceInv
<1>2. CASE err[i]
  BY <1>1, <1>2 DEF Value, ErrOf
<1>3. CASE ~err[i]
  <2>1. done[WorkOf(i)] /\ ~err[WorkOf(i)]
    BY <1>1, <1>3 DEF ChildOf, WorkOf
  <2>2. (CHOOSE j \in {WorkOf(i)} : TRUE) = WorkOf(i)
    OBVIOUS
  <2>3. Value(i) = value[WorkOf(i)]
    BY <1>1, <1>3, <2>2 DEF Value
  <2>4. Fresh(i) => Current(i)
    BY <1>1, <2>1 DEF ValueOf
  <2> QED BY <2>1, <2>3, <2>4 DEF Fresh, Current
<1> QED BY <1>2, <1>3

AnswerOK(c) ==
  answer[c] # None =>
    \/ answer[c].value = since[answer[c].init]
    \/ answer[c].value = None /\ Family(answer[c].init) \cap MayFail # {}
    \/ Crossed(answer[c].init)

LEMMA AnswersAreOK == AnswersOfThisBuild <=> \A c \in Callers \ lapsed : AnswerOK(c)
BY DEF AnswersOfThisBuild, AnswerOK

\* A caller's steps leave the others alone, and the build.
LEMMA DoesOwn ==
  ASSUME OnceInv, NEW c \in Callers, Does(c)
  PROVE  /\ stack[c] # <<>> /\ UNCHANGED <<lapsed, changing, toReset, since>>
         /\ crossed \subseteq crossed'
         /\ \A d \in Callers : d # c => stack'[d] = stack[d] /\ answer'[d] = answer[d]
         /\ answer'[c] = answer[c] \/ (Waited(c) /\ Len(stack[c]) - 1 = 0)
<1>1. stack[c] # <<>>
  BY DEF Does, Swap, Enter, Work, Worked, Children, Store, Unlock, Open, Waited, Stands
<1>2. UNCHANGED <<lapsed, changing, toReset, since>> /\ crossed \subseteq crossed'
  BY DEF Does, Swap, Enter, Work, Worked, Children, Store, Unlock, Open, Waited, Answers, buildVars
<1>3. \E t : stack' = [stack EXCEPT ![c] = t]
  BY DEF Does, Swap, Enter, Work, Worked, Children, Store, Unlock, Open, Waited, Answers, Moves,
     OnceInv, LazyInitTypeOK
<1>4. UNCHANGED answer \/ (Waited(c) /\ Len(stack[c]) - 1 = 0 /\ \E v : answer' = [answer EXCEPT ![c] = v])
  BY DEF Does, Swap, Enter, Work, Worked, Children, Store, Unlock, Open, Waited, Answers
<1>5. \A d \in Callers : d # c => stack'[d] = stack[d] /\ answer'[d] = answer[d]
  BY <1>3, <1>4 DEF OnceInv, LazyInitTypeOK
<1>6. answer'[c] = answer[c] \/ (Waited(c) /\ Len(stack[c]) - 1 = 0)
  BY <1>4
<1> QED BY <1>1, <1>2, <1>5, <1>6

LEMMA LazyInvStep == LazyInv /\ [LazyInitNext]_lazyVars => LazyInv'
<1> SUFFICES ASSUME LazyInv, [LazyInitNext]_lazyVars PROVE RenderInv' /\ AnswersOfThisBuild'
  BY OnceStep DEF LazyInv
<1>1. OnceInv /\ RenderInv /\ \A c \in Callers \ lapsed : AnswerOK(c)
  BY AnswersAreOK DEF LazyInv
<1>2. answer \in [Callers -> [init : Asked, value : Nat \cup {Mixed, None}] \cup {None}]
      /\ stack \in [Callers -> Seq(Frame)]
  BY <1>1 DEF OnceInv, LazyInitTypeOK
<1> SUFFICES RenderInv' /\ \A c \in Callers \ lapsed' : AnswerOK(c)'
  BY DEF AnswersOfThisBuild, AnswerOK, Crossed, Family
<1>3. ASSUME NEW c, answer'[c] = answer[c], UNCHANGED since, crossed \subseteq crossed', AnswerOK(c)
      PROVE  AnswerOK(c)'
  BY <1>3 DEF AnswerOK, Crossed, Family
<1>4. ASSUME NEW c \in Callers, Does(c) PROVE RenderInv' /\ \A d \in Callers \ lapsed' : AnswerOK(d)'
  <2>1. /\ stack[c] # <<>> /\ UNCHANGED <<lapsed, changing, toReset, since>>
        /\ crossed \subseteq crossed'
        /\ \A d \in Callers : d # c => stack'[d] = stack[d] /\ answer'[d] = answer[d]
        /\ answer'[c] = answer[c] \/ (Waited(c) /\ Len(stack[c]) - 1 = 0)
    BY <1>1, <1>4, DoesOwn
  <2>2. RenderInv'
    BY <1>1, <2>1 DEF RenderInv
  <2>3. ASSUME NEW d \in Callers \ lapsed' PROVE AnswerOK(d)'
    <3>1. CASE answer'[d] = answer[d]
      BY <1>1, <1>3, <2>1, <3>1
    <3>2. CASE answer'[d] # answer[d]
      <4>1. d = c /\ Waited(c) /\ Len(stack[c]) - 1 = 0
        BY <2>1, <3>2
      <4>2. /\ done[On(c)] /\ UNCHANGED crossed
            /\ answer' = [answer EXCEPT ![c] = [init |-> On(c), value |-> Value(On(c))]]
        BY <4>1 DEF Waited, Answers, buildVars
      <4>3. toReset = {}
        BY <1>1, <2>1, <4>1 DEF RenderInv
      <4>4. On(c) \in Asked
        <5>1. ShapeOK(stack[c]) /\ Len(stack[c]) = 1
          <6>1. ShapeOK(stack[c]) /\ Len(stack[c]) \in {1, 2}
            BY <1>1, <2>1, ShapeIs DEF OnceInv, ShapesOK
          <6> QED BY <4>1, <6>1
        <5>2. stack[c][1].init \in Asked
          BY <2>1, <5>1, ShapeIs
        <5> QED BY <5>1, <5>2 DEF On, Top
      <4>5. \/ Value(On(c)) = since[On(c)]
            \/ Value(On(c)) = None /\ Family(On(c)) \cap MayFail # {}
            \/ Crossed(On(c))
        BY <1>1, <4>2, <4>3, <4>4, GivenIs
      <4>6. answer'[c].init = On(c) /\ answer'[c].value = Value(On(c))
        BY <1>2, <4>2
      <4> QED BY <2>1, <4>1, <4>2, <4>5, <4>6 DEF AnswerOK, Crossed, Family
    <3> QED BY <3>1, <3>2
  <2> QED BY <2>2, <2>3
<1>5. ASSUME NEW c \in Callers, Lapse(c) PROVE RenderInv' /\ \A d \in Callers \ lapsed' : AnswerOK(d)'
  <2>1. /\ ~changing /\ lapsed' = lapsed \cup {c}
        /\ UNCHANGED <<stack, answer, build, changing, toReset, since, crossed>>
    BY <1>5 DEF Lapse, buildVars
  <2> QED BY <1>1, <1>3, <2>1 DEF RenderInv
<1>6. ASSUME NEW c \in Callers, LapsedEnds(c)
      PROVE  RenderInv' /\ \A d \in Callers \ lapsed' : AnswerOK(d)'
  <2>1. /\ stack[c] = <<>> /\ lapsed' = lapsed \ {c} /\ answer' = [answer EXCEPT ![c] = None]
        /\ UNCHANGED <<stack, build, changing, toReset, since, crossed>>
    BY <1>6 DEF LapsedEnds, buildVars
  <2>2. answer'[c] = None /\ \A d \in Callers : d # c => answer'[d] = answer[d]
    BY <1>2, <2>1
  <2>3. RenderInv'
    BY <1>1, <2>1, <2>2 DEF RenderInv
  <2>4. AnswerOK(c)'
    BY <2>2 DEF AnswerOK
  <2> QED BY <1>1, <1>3, <2>1, <2>2, <2>3, <2>4
<1>7. ASSUME NEW c \in Callers, NEW i \in Asked, Asks(c, i)
      PROVE  RenderInv' /\ \A d \in Callers \ lapsed' : AnswerOK(d)'
  <2>1. /\ changing => c \in lapsed
        /\ stack' = [stack EXCEPT ![c] = <<Call(i)>>] /\ answer' = [answer EXCEPT ![c] = None]
        /\ UNCHANGED <<lapsed, build, changing, toReset, since, crossed>>
    BY <1>7 DEF Asks, buildVars
  <2>2. /\ answer'[c] = None
        /\ \A d \in Callers : d # c => answer'[d] = answer[d] /\ stack'[d] = stack[d]
    BY <1>2, <2>1
  <2>3. RenderInv'
    BY <1>1, <2>1, <2>2 DEF RenderInv
  <2>4. AnswerOK(c)'
    BY <2>2 DEF AnswerOK
  <2> QED BY <1>1, <1>3, <2>1, <2>2, <2>3, <2>4
<1>8. ASSUME NEW i \in Asked, Reset(i) PROVE RenderInv' /\ \A d \in Callers \ lapsed' : AnswerOK(d)'
  <2>1. /\ i \in toReset /\ toReset' \subseteq toReset
        /\ UNCHANGED <<stack, lapsed, answer, changing>>
    BY <1>8 DEF Reset, askVars
  <2>2. changing
    BY <1>1, <2>1 DEF RenderInv
  <2> QED BY <1>1, <2>1, <2>2 DEF RenderInv, AnswerOK
<1>9. CASE BeginBuild
  <2>1. /\ changing' /\ answer' = [c \in Callers |-> None] /\ UNCHANGED <<stack, lapsed>>
        /\ \A c \in Callers \ lapsed : stack[c] = <<>>
    BY <1>9 DEF BeginBuild
  <2> QED BY <2>1 DEF RenderInv, AnswerOK
<1>10. CASE Assembled
  <2>1. ~changing' /\ toReset' = {} /\ UNCHANGED <<lapsed, answer, since, crossed>>
    BY <1>10 DEF Assembled, askVars
  <2> QED BY <1>1, <1>3, <2>1 DEF RenderInv
<1>11. CASE UNCHANGED lazyVars
  BY <1>1, <1>3, <1>11 DEF lazyVars, askVars, buildVars, RenderInv
<1> QED BY <1>4, <1>5, <1>6, <1>7, <1>8, <1>9, <1>10, <1>11 DEF LazyInitNext

LEMMA LazyInvInit == LazyInitInit => LazyInv
<1> SUFFICES ASSUME LazyInitInit PROVE LazyInv
  OBVIOUS
<1>1. LazyInitTypeOK
  BY LazyInitTypeInit
<1>2. ShapeOK(<<>>) /\ \A i : PlaceIn(<<>>, i) = "out"
  <2>1. Len(<<>>) = 0
    OBVIOUS
  <2> QED BY <2>1 DEF ShapeOK, StackOK, PlaceIn
<1>3. \A c \in Callers : stack[c] = <<>> /\ answer[c] = None
  BY DEF LazyInitInit
<1>4. ShapesOK /\ \A c \in Callers, i \in Inits : Place[c][i] = "out"
  BY <1>2, <1>3 DEF ShapesOK, Place
<1>5. /\ \A j \in Inits : ~locked[j] /\ ~done[j] /\ ~err[j] /\ since[j] = 0
      /\ ~changing /\ toReset = {} /\ lapsed = {}
  BY DEF LazyInitInit
<1>6. ASSUME NEW j \in Inits PROVE LocksOf(j) /\ ErrOf(j)
  BY <1>4, <1>5 DEF LocksOf, ErrOf, Inside, Guarded
<1>7. ASSUME NEW i \in Asked PROVE ChildOf(i) /\ ValueOf(i)
  <2>1. i \in Inits /\ WorkOf(i) \in Inits /\ (Child[i] # None => Child[i] \in Inits)
    BY Families, LazyInitAssumption
  <2> QED BY <1>4, <1>5, <2>1 DEF ChildOf, ValueOf
<1> QED BY <1>1, <1>3, <1>4, <1>5, <1>6, <1>7 DEF LazyInv, OnceInv, RenderInv, AnswersOfThisBuild

\* Whatever a template is given in a build was made in it, of assembled pages, or
\* is an error to report, for any number of templates that ask at once and of
\* those that outlive their build; the exception is an Init that one of the
\* latter was in when it was reset, or has begun since.
THEOREM AnswersAreOfThisBuild == LazyInitSpec => []AnswersOfThisBuild
<1>1. LazyInv => AnswersOfThisBuild
  BY DEF LazyInv
<1> QED BY <1>1, LazyInvInit, LazyInvStep, PTL DEF LazyInitSpec

-----------------------------------------------------------------------------
(* The four side by side.                                                   *)

\* A behaviour of the services side by side is one of each of them, so what is
\* proved of one holds of it in any company.
THEOREM PartsOfServices ==
  ServicesSpec => WarpcSpec /\ FileCacheSpec /\ JSBatchSpec /\ LazyInitSpec
<1>1. ServicesInit => WarpcInit /\ FileCacheInit /\ JSBatchInit /\ LazyInitInit
  BY DEF ServicesInit
<1>2. [ServicesNext]_servicesVars => [WarpcNext]_warpcVars
  BY DEF ServicesNext, servicesVars
<1>3. [ServicesNext]_servicesVars => [FileCacheNext]_fileVars
  BY DEF ServicesNext, servicesVars
<1>4. [ServicesNext]_servicesVars => [JSBatchNext]_batchVars
  BY DEF ServicesNext, servicesVars
<1>5. [ServicesNext]_servicesVars => [LazyInitNext]_lazyVars
  BY DEF ServicesNext, servicesVars
<1> QED
  BY <1>1, <1>2, <1>3, <1>4, <1>5, PTL
  DEF ServicesSpec, WarpcSpec, FileCacheSpec, JSBatchSpec, LazyInitSpec

\* Every variable of the four services has its type, whichever runs.
THEOREM ServicesTypes == ServicesSpec => []ServicesTypeOK
<1>1. WarpcTypeOK /\ FileCacheTypeOK /\ JSBatchTypeOK /\ LazyInitTypeOK => ServicesTypeOK
  BY DEF ServicesTypeOK
<1> QED
  BY <1>1, PartsOfServices, WarpcTypes, FileCacheTypes, JSBatchTypes, LazyInitTypes, PTL
=============================================================================
