-------------------------- MODULE LazyCacheProofs --------------------------
(* Proofs about LazyCache: its type invariant, its safety invariants, and    *)
(* that it implements Flight, for any calls, keys, sizes, sweepers and needs. *)
EXTENDS LazyCache, FiniteSetTheorems, TLAPS

Outcomes == {"ok", "err", "panic"}

(***************************************************************************)
(* The inductive invariant.                                                *)
(***************************************************************************)

\* Where a call is says whether it has a wrapper, one for its key, and whether
\* that has been completed.
Holding(c) == \/ pc[c] \in {"wait", "create", "undo", "check"}
              \/ pc[c] = "evict" /\ after \in {"create", "check"}
Landed(c) == pc[c] \in {"undo", "check"} \/ (pc[c] = "evict" /\ after = "check")
CallInv == \A c \in Calls :
  /\ pc[c] \in {"idle", "get", "find", "wait", "create", "undo", "check", "purge", "evict"}
  /\ key[c] = None <=> pc[c] = "idle"
  /\ wrap[c] # None <=> Holding(c)
  /\ wrap[c] # None => wkey[wrap[c]] = key[c] /\ result[wrap[c]] # "none"
  /\ Landed(c) => result[wrap[c]] \in Outcomes

\* The lock is held exactly while there are victims, by who evicts them.
LockInv ==
  /\ \A a \in Actors : mu = a <=> pc[a] = "evict"
  /\ mu = None <=> victims = {}
  /\ mu \in Calls => after \in {"create", "check", "get"}
  /\ mu \in Sweepers \cup {Ticker} => after = "idle"
  /\ \A a \in Sweepers \cup {Ticker} : pc[a] \in {"idle", "scan", "sweep", "evict"}

EntryInv ==
  \A k \in Keys : entry[k] # None => wkey[entry[k]] = k /\ result[entry[k]] # "none"

\* While a wrapper waits for its OnEvict, its key has no entry.
VictimInv == \A w \in victims :
  /\ wkey[w] \in Keys /\ entry[wkey[w]] = None /\ result[w] # "none"
  /\ \A v \in victims : wkey[v] = wkey[w] => v = w

UnusedInv ==
  \A w \in Wrappers : /\ Unused(w) => result[w] = "none" /\ wkey[w] = None
                      /\ result[w] = "none" => w \notin evicted
                      /\ result[w] # "none" => wkey[w] \in Keys

CreateInv == \A c \in Calls : Creating(c) =>
  /\ result[wrap[c]] = "pending"
  /\ \A d \in Calls : Creating(d) /\ wrap[c] = wrap[d] => c = d

\* A creation under way is in the cache or has the lock held for it: this is
\* why there is no second one for its key.
PendingInv == \A w \in Wrappers : result[w] = "pending" =>
  /\ \E c \in Calls : Creating(c) /\ wrap[c] = w
  /\ entry[wkey[w]] = w \/ w \in victims
  /\ w \notin evicted

IInv == /\ DataOK /\ CallInv /\ LockInv /\ EntryInv /\ VictimInv /\ UnusedInv
        /\ CreateInv /\ PendingInv /\ FailuresUndone /\ RemovalsNoticed

(***************************************************************************)
(* The types.                                                              *)
(***************************************************************************)

\* Removing keys keeps the types of what it changes.
LEMMA DeleteTyped ==
  ASSUME DataOK, NEW a \in Actors, NEW K, NEW l \in Labels, Delete(a, K, l)
  PROVE  /\ pc' \in [Actors -> Labels] /\ mu' \in Actors \cup {None}
         /\ victims' \subseteq Wrappers /\ after' \in Labels
         /\ entry' \in [Keys -> Wrappers \cup {None}] /\ newer' \subseteq Keys \X Keys
  <1> USE DEF Delete, DataOK
  <1>1. entry' \in [Keys -> Wrappers \cup {None}] /\ newer' \subseteq Keys \X Keys
    BY DEF Without
  <1>2. CASE K \cap Cached = {}
    BY <1>1, <1>2 DEF RemoveThen, Goto, lockVars
  <1>3. CASE K \cap Cached # {}
    BY <1>1, <1>3 DEF RemoveThen, Goto, lockVars, Labels, Cached
  <1> QED BY <1>2, <1>3

\* So does forgetting garbage.
LEMMA CollectTyped ==
  ASSUME DataOK, NEW st \in SUBSET Wrappers, NEW ev \in SUBSET Wrappers, Collect(st, ev)
  PROVE  /\ result' \in [Wrappers -> Results] /\ wkey' \in [Wrappers -> Keys \cup {None}]
         /\ stale' \subseteq Wrappers /\ evicted' \subseteq Wrappers
  BY DEF DataOK, Collect, Results

\* An eviction callback keeps every type.
LEMMA EvictTyped ==
  ASSUME DataOK, NEW a \in Actors, Evict(a)
  PROVE DataOK'
  <1> USE DEF DataOK
  <1>1. PICK w \in victims :
       LET found == IF result[w] = "ok" THEN {w} ELSE {}
       IN  /\ result[w] # "pending"
           /\ victims' = victims \ {w}
           /\ IF victims = {w} THEN mu' = None /\ after' = "idle" /\ Goto(a, after)
                               ELSE UNCHANGED <<mu, after, pc>>
           /\ Collect(IF Watching THEN stale \cup found ELSE stale, evicted \cup found)
    BY DEF Evict
  <1>2. /\ result' \in [Wrappers -> Results] /\ wkey' \in [Wrappers -> Keys \cup {None}]
         /\ stale' \subseteq Wrappers /\ evicted' \subseteq Wrappers
    <2> DEFINE found == IF result[w] = "ok" THEN {w} ELSE {}
               st == IF Watching THEN stale \cup found ELSE stale
    <2>1. st \in SUBSET Wrappers /\ evicted \cup found \in SUBSET Wrappers
      OBVIOUS
    <2>2. Collect(st, evicted \cup found)
      BY <1>1
    <2> HIDE DEF st, found, DataOK
    <2> QED BY <2>1, <2>2, CollectTyped
  <1>3. pc' \in [Actors -> Labels] /\ mu' \in Actors \cup {None} /\ after' \in Labels
        /\ victims' \subseteq Wrappers
    BY <1>1 DEF Goto, Labels
  <1> QED BY <1>2, <1>3 DEF Evict, callVars, sweepVars, lruVars
\* Every step keeps the types of everything but `final`.
LEMMA DataStep == DataOK /\ CallInv /\ [Next]_vars => DataOK'
  <1> SUFFICES ASSUME DataOK, CallInv, [Next]_vars PROVE DataOK' OBVIOUS
  <1>a. ASSUME NEW a \in Actors, NEW K, NEW l \in Labels, Delete(a, K, l)
        PROVE  /\ pc' \in [Actors -> Labels] /\ mu' \in Actors \cup {None}
               /\ victims' \subseteq Wrappers /\ after' \in Labels
               /\ entry' \in [Keys -> Wrappers \cup {None}] /\ newer' \subseteq Keys \X Keys
    BY <1>a, DeleteTyped
  <1>b. ASSUME Collect(stale, evicted)
        PROVE  /\ result' \in [Wrappers -> Results] /\ wkey' \in [Wrappers -> Keys \cup {None}]
               /\ stale' \subseteq Wrappers /\ evicted' \subseteq Wrappers
    BY <1>b, CollectTyped DEF DataOK
  <1>c. \A c \in Calls : pc[c] # "idle" => key[c] \in Keys
    BY DEF CallInv, DataOK, Calls, Actors
  <1>1. ASSUME NEW c \in Calls, CallNext(c) PROVE DataOK'
    <2> USE <1>1 DEF DataOK, Calls, Actors, Labels, Results
    <2>1. CASE Hit(c)
      BY <1>c, <2>1 DEF Touched, Cached, Hit, Goto, callVars, lockVars, sweepVars, lruVars,
          valueVars
    <2>2. CASE NotFound(c)
      BY <2>2, <1>b DEF NotFound, Answered, At, Goto, callVars, lockVars, sweepVars, lruVars,
          valueVars
    <2>3. CASE Miss(c)
      <3> DEFINE out == Excess(Touched(key[c], newer), size) \ {key[c]}
      <3>1. PICK w \in Wrappers :
              /\ Fresh(w)
              /\ wrap' = [wrap EXCEPT ![c] = w]
              /\ result' = [result EXCEPT ![w] = "pending"]
              /\ wkey' = [wkey EXCEPT ![w] = key[c]]
              /\ entry' = [k \in Keys |-> IF k = key[c] THEN w
                                          ELSE IF k \in out THEN None ELSE entry[k]]
              /\ newer' = Without(out, Touched(key[c], newer))
              /\ RemoveThen(c, out, "create")
        BY <2>3 DEF Miss
      <3>2. key[c] \in Keys
        BY <1>c, <2>3 DEF Miss, At
      <3>3. newer' \subseteq Keys \X Keys
        BY <3>1, <3>2 DEF Without, Touched, Cached
      <3>4. entry' \in [Keys -> Wrappers \cup {None}]
        BY <3>1
      <3> HIDE DEF out
      <3>5. /\ pc' \in [Actors -> Labels] /\ mu' \in Actors \cup {None}
            /\ victims' \subseteq Wrappers /\ after' \in Labels
        BY <3>1 DEF RemoveThen, Goto, Cached, lockVars
      <3> QED BY <2>3, <3>1, <3>2, <3>3, <3>4, <3>5, CacheAssumption DEF Miss, sweepVars
    <2>4. CASE Undo(c)
      <3>1. Delete(c, {key[c]}, "check")
        BY <2>4 DEF Undo
      <3> QED BY <2>4, <3>1, <1>a DEF Undo, callVars, sweepVars, valueVars
    <2>5. CASE Ready(c)
      BY <2>5 DEF Ready, Step, At, Goto, callVars, lockVars, sweepVars, lruVars, valueVars
    <2>6. CASE Return(c)
      BY <2>6, <1>b DEF Return, At, Goto, Answered, callVars, lockVars, sweepVars, lruVars,
          valueVars
    <2>7. CASE Discard(c)
      BY <2>7, <1>b DEF Discard, Step, At, Goto, callVars, lockVars, sweepVars, lruVars, valueVars
    <2>8. CASE Purge(c)
      <3>1. Delete(c, {key[c]}, "get")
        BY <2>8 DEF Purge
      <3> QED BY <2>8, <3>1, <1>a DEF Purge, callVars, sweepVars, valueVars
    <2>9. ASSUME NEW r \in {"ok", "err", "panic"}, Create(c, r) PROVE DataOK'
      BY <2>9 DEF Create, At, Goto, callVars, lockVars, sweepVars, lruVars, valueVars
    <2> QED BY <2>1, <2>2, <2>3, <2>4, <2>5, <2>6, <2>7, <2>8, <2>9 DEF CallNext
  <1>2. ASSUME NEW c \in Calls, Timeout(c) PROVE DataOK'
    BY <1>2 DEF Timeout, DataOK, Calls, Actors, Labels, Results, callVars, lockVars, sweepVars,
        lruVars, valueVars
  <1>3. ASSUME NEW c \in Calls, NEW p \in Calls, Nest(p, c) PROVE DataOK'
    BY <1>3 DEF Nest, Start, Step, At, Goto, DataOK, Calls, Actors, Labels, Results, callVars,
        lockVars, sweepVars, lruVars, valueVars
  <1>4. ASSUME NEW c \in Callers, NEW k \in Keys, Begin(c, k) PROVE DataOK'
    BY <1>4 DEF Begin, Start, Step, At, Goto, DataOK, Calls, Actors, Labels, Results, callVars,
        lockVars, sweepVars, lruVars, valueVars
  <1>5. ASSUME NEW c \in Callers, NEW k \in Keys, Lookup(c, k) PROVE DataOK'
    BY <1>5 DEF Lookup, Start, Step, At, Goto, DataOK, Calls, Actors, Labels, Results, callVars,
        lockVars, sweepVars, lruVars, valueVars
  <1>6. ASSUME NEW s \in Sweepers, BeginSweep(s) PROVE DataOK'
    BY <1>6 DEF BeginSweep, Step, At, Goto, Cached, DataOK, Calls, Actors, Labels, Results,
        callVars, lockVars, sweepVars, lruVars, valueVars
  <1>7. ASSUME NEW s \in Sweepers, ScanKey(s) PROVE DataOK'
    BY <1>7 DEF ScanKey, At, DataOK, Calls, Actors, Labels, Results, callVars, lockVars,
        sweepVars, lruVars, valueVars
  <1>8. ASSUME NEW s \in Sweepers, EndScan(s) PROVE DataOK'
    BY <1>8 DEF EndScan, Step, At, Goto, DataOK, Calls, Actors, Labels, Results, callVars,
        lockVars, sweepVars, lruVars, valueVars
  <1>9. ASSUME NEW s \in Sweepers, Sweep(s) PROVE DataOK'
    <2>1. Delete(s, hits[s], "idle")
      BY <1>9 DEF Sweep
    <2> QED BY <1>9, <1>a, <2>1 DEF Sweep, DataOK, Calls, Actors, Labels, Results, callVars,
        valueVars
  <1>10. ASSUME NEW n \in Sizes, Resize(n) PROVE DataOK'
    <2>1. Delete(Ticker, Excess(newer, n), "idle") /\ size' = n
      BY <1>10 DEF Resize
    <2> QED BY <1>10, <1>a, <2>1 DEF Resize, DataOK, Calls, Actors, Labels, Results, callVars,
        sweepVars, valueVars
  <1>11. ASSUME NEW w \in Wrappers, MarkStale(w) PROVE DataOK'
    BY <1>11 DEF MarkStale, DataOK, Calls, Actors, Labels, Results, callVars, lockVars, sweepVars,
        lruVars
  <1>12. CASE UNCHANGED vars
    BY <1>12 DEF vars, DataOK
  <1> QED
    BY <1>1, <1>2, <1>3, <1>4, <1>5, <1>6, <1>7, <1>8, <1>9, <1>10, <1>11, <1>12, EvictTyped
       DEF Next, SweepNext

FinalOK == final \in [Calls -> BOOLEAN]

\* `final` stays Boolean.
LEMMA FlagsStep == FinalOK /\ [Next]_vars => FinalOK'
  <1> USE DEF FinalOK
  <1> SUFFICES ASSUME final \in [Calls -> BOOLEAN], [Next]_vars PROVE final' \in [Calls -> BOOLEAN]
    OBVIOUS
  <1>1. ASSUME NEW c \in Calls, CallNext(c) PROVE final' \in [Calls -> BOOLEAN]
    BY <1>1 DEF CallNext, Hit, NotFound, Miss, Undo, Ready, Return, Discard, Purge, Create,
       Answered, callVars
  <1>2. ASSUME NEW c \in Calls, Timeout(c) \/ \E p \in Calls : Nest(p, c) PROVE UNCHANGED final
    BY <1>2 DEF Timeout, Nest
  <1>3. ASSUME NEW c \in Callers, NEW k \in Keys, Begin(c, k) \/ Lookup(c, k)
        PROVE  final' \in [Calls -> BOOLEAN]
    BY <1>3 DEF Begin, Lookup
  <1>4. ASSUME NEW s \in Sweepers, BeginSweep(s) \/ SweepNext(s) PROVE UNCHANGED final
    BY <1>4 DEF BeginSweep, SweepNext, ScanKey, EndScan, Sweep, callVars
  <1>5. ASSUME NEW n \in Sizes, Resize(n) PROVE UNCHANGED final
    BY <1>5 DEF Resize, callVars
  <1>6. ASSUME NEW w \in Wrappers, MarkStale(w) PROVE UNCHANGED final
    BY <1>6 DEF MarkStale, callVars
  <1>7. ASSUME NEW a \in Actors, Evict(a) PROVE UNCHANGED final
    BY <1>7 DEF Evict, callVars
  <1> QED BY <1>1, <1>2, <1>3, <1>4, <1>5, <1>6, <1>7 DEF Next, vars

(***************************************************************************)
(* The steps.                                                              *)
(***************************************************************************)

\* Steps that touch neither calls, wrappers nor the cache: sweeps, timeouts, marks.
LEMMA QuietStep ==
  ASSUME IInv, DataOK', UNCHANGED <<key, wrap, mu, victims, after, entry, result, wkey, evicted>>,
         \A c \in Calls : pc'[c] = pc[c],
         \A a \in Sweepers \cup {Ticker} : pc'[a] \in {"idle", "scan", "sweep", "evict"},
         \A a \in Actors : pc'[a] = "evict" <=> pc[a] = "evict"
  PROVE  IInv'
  <1> USE CacheAssumption DEF IInv, DataOK, Calls, Actors, CallInv, Holding, Landed, Outcomes,
      LockInv, EntryInv, VictimInv, UnusedInv, Unused, CreateInv, Creating, PendingInv,
      FailuresUndone, RemovalsNoticed, At, Results, Labels
  <1>1. CallInv'
    OBVIOUS
  <1>2. LockInv'
    OBVIOUS
  <1>3. EntryInv'
    OBVIOUS
  <1>4. VictimInv'
    OBVIOUS
  <1>5. UnusedInv'
    OBVIOUS
  <1>6. CreateInv'
    OBVIOUS
  <1>7. PendingInv'
    OBVIOUS
  <1>8. FailuresUndone'
    OBVIOUS
  <1>9. RemovalsNoticed'
    OBVIOUS
  <1> QED BY <1>1, <1>2, <1>3, <1>4, <1>5, <1>6, <1>7, <1>8, <1>9

\* A call that starts, from outside or from a creation.
LEMMA StartStep ==
  ASSUME IInv, DataOK', NEW c \in Calls, NEW k \in Keys, NEW l \in {"get", "find"}, NEW who,
         Start(c, k, l, who)
  PROVE  IInv'
  <1> USE CacheAssumption DEF IInv, DataOK, Calls, Actors, CallInv, Holding, Landed, Outcomes,
      LockInv, EntryInv, VictimInv, UnusedInv, Unused, CreateInv, Creating, PendingInv,
      FailuresUndone, RemovalsNoticed, At, Results, Labels, Start, Step, Goto, lockVars, lruVars,
      valueVars
  <1>1. CallInv'
    OBVIOUS
  <1>2. LockInv'
    OBVIOUS
  <1>3. EntryInv'
    OBVIOUS
  <1>4. VictimInv'
    OBVIOUS
  <1>5. UnusedInv'
    OBVIOUS
  <1>6. CreateInv'
    OBVIOUS
  <1>7. PendingInv'
    OBVIOUS
  <1>8. FailuresUndone'
    OBVIOUS
  <1>9. RemovalsNoticed'
    OBVIOUS
  <1> QED BY <1>1, <1>2, <1>3, <1>4, <1>5, <1>6, <1>7, <1>8, <1>9

\* A call that finds an entry holds its wrapper from then on.
LEMMA HitStep ==
  ASSUME IInv, DataOK', NEW c \in Calls, Hit(c)
  PROVE  IInv'
  <1> USE CacheAssumption DEF IInv, DataOK, Calls, Actors, CallInv, Holding, Landed, Outcomes,
      LockInv, EntryInv, VictimInv, UnusedInv, Unused, CreateInv, Creating, PendingInv,
      FailuresUndone, RemovalsNoticed, At, Results, Labels, Hit, Goto, lockVars, valueVars,
      Unlocked
  <1>1. CallInv'
    OBVIOUS
  <1>2. LockInv'
    OBVIOUS
  <1>3. EntryInv'
    OBVIOUS
  <1>4. VictimInv'
    OBVIOUS
  <1>5. UnusedInv'
    OBVIOUS
  <1>6. CreateInv'
    OBVIOUS
  <1>7. PendingInv'
    OBVIOUS
  <1>8. FailuresUndone'
    OBVIOUS
  <1>9. RemovalsNoticed'
    OBVIOUS
  <1> QED BY <1>1, <1>2, <1>3, <1>4, <1>5, <1>6, <1>7, <1>8, <1>9

\* A call that has waited goes on with a completed wrapper.
LEMMA ReadyStep ==
  ASSUME IInv, DataOK', NEW c \in Calls, Ready(c)
  PROVE  IInv'
  <1> USE CacheAssumption DEF IInv, DataOK, Calls, Actors, CallInv, Holding, Landed, Outcomes,
      LockInv, EntryInv, VictimInv, UnusedInv, Unused, CreateInv, Creating, PendingInv,
      FailuresUndone, RemovalsNoticed, At, Results, Labels, Ready, Step, Goto, callVars, lockVars,
      lruVars, valueVars
  <1>1. CallInv'
    OBVIOUS
  <1>2. LockInv'
    OBVIOUS
  <1>3. EntryInv'
    OBVIOUS
  <1>4. VictimInv'
    OBVIOUS
  <1>5. UnusedInv'
    OBVIOUS
  <1>6. CreateInv'
    OBVIOUS
  <1>7. PendingInv'
    OBVIOUS
  <1>8. FailuresUndone'
    OBVIOUS
  <1>9. RemovalsNoticed'
    OBVIOUS
  <1> QED BY <1>1, <1>2, <1>3, <1>4, <1>5, <1>6, <1>7, <1>8, <1>9

\* A creation completes the wrapper of its own call, and of no other.
LEMMA CreateStep ==
  ASSUME IInv, DataOK', NEW c \in Calls, NEW r \in Outcomes, Create(c, r)
  PROVE  IInv'
  <1> USE CacheAssumption DEF IInv, DataOK, Calls, Actors, CallInv, Holding, Landed, Outcomes,
      LockInv, EntryInv, VictimInv, UnusedInv, Unused, CreateInv, Creating, PendingInv,
      FailuresUndone, RemovalsNoticed, At, Results, Labels, Create, Goto, lockVars, lruVars
  <1>1. CallInv'
    OBVIOUS
  <1>2. LockInv'
    OBVIOUS
  <1>3. EntryInv'
    OBVIOUS
  <1>4. VictimInv'
    OBVIOUS
  <1>5. UnusedInv'
    OBVIOUS
  <1>6. CreateInv'
    OBVIOUS
  <1>7. PendingInv'
    OBVIOUS
  <1>8. FailuresUndone'
    OBVIOUS
  <1>9. RemovalsNoticed'
    OBVIOUS
  <1> QED BY <1>1, <1>2, <1>3, <1>4, <1>5, <1>6, <1>7, <1>8, <1>9

\* Removing keys, for each of the callers of Delete: the values become victims.
LEMMA DeleteStep ==
  ASSUME IInv, DataOK', NEW a \in Actors, NEW K \in SUBSET Keys, NEW l, Delete(a, K, l),
         UNCHANGED <<key, wrap, result, wkey, stale, evicted>>,
         \/ a \in Calls /\ pc[a] = "undo" /\ l = "check" /\ K = {key[a]}
         \/ a \in Calls /\ pc[a] = "purge" /\ l = "get"
         \/ a \in Sweepers \cup {Ticker} /\ pc[a] \in {"sweep", "idle"} /\ l = "idle"
  PROVE  IInv'
  <1> USE CacheAssumption DEF IInv, DataOK, Calls, Actors, CallInv, Holding, Landed, Outcomes,
      LockInv, EntryInv, VictimInv, UnusedInv, Unused, CreateInv, Creating, PendingInv,
      FailuresUndone, RemovalsNoticed, At, Results, Labels
  <1>1. entry' = [k \in Keys |-> IF k \in K THEN None ELSE entry[k]] /\ mu = None
    BY DEF Delete, Unlocked
  <1>2. CASE K \cap Cached = {}
    <2>1. Goto(a, l) /\ UNCHANGED lockVars /\ entry' = entry
      BY <1>1, <1>2 DEF Delete, RemoveThen, Cached
    <2>2. CallInv'
      BY <1>1, <2>1 DEF Goto, lockVars
    <2>3. LockInv'
      BY <1>1, <2>1 DEF Goto, lockVars
    <2>4. EntryInv'
      BY <1>1, <2>1 DEF Goto, lockVars
    <2>5. VictimInv'
      BY <1>1, <2>1 DEF Goto, lockVars
    <2>6. UnusedInv'
      BY <1>1, <2>1 DEF Goto, lockVars
    <2>7. CreateInv'
      BY <1>1, <2>1 DEF Goto, lockVars
    <2>8. PendingInv'
      BY <1>1, <2>1 DEF Goto, lockVars
    <2>9. FailuresUndone'
      BY <1>1, <2>1 DEF Goto, lockVars
    <2>10. RemovalsNoticed'
      BY <1>1, <2>1 DEF Goto, lockVars
    <2> QED BY <2>2, <2>3, <2>4, <2>5, <2>6, <2>7, <2>8, <2>9, <2>10
  <1>3. CASE K \cap Cached # {}
    <2>1. /\ Goto(a, "evict") /\ mu' = a /\ after' = l
          /\ victims' = {entry[k] : k \in K \cap Cached}
      BY <1>3 DEF Delete, RemoveThen
    <2>2. K \cap Cached = {k \in K : entry[k] # None}
      BY DEF Cached
    <2>3. victims' # {} /\ pc[a] # "evict" /\ a # None
      BY <1>3, <2>1
    <2>4. CallInv'
      BY <1>1, <2>1, <2>2, <2>3 DEF Goto
    <2>5. LockInv'
      <3>1. \A b \in Actors : mu' = b <=> pc'[b] = "evict"
        BY <1>1, <2>1, <2>3 DEF Goto
      <3>2. mu' = None <=> victims' = {}
        BY <2>1, <2>3
      <3>3. /\ mu' \in Calls => after' \in {"create", "check", "get"}
            /\ mu' \in Sweepers \cup {Ticker} => after' = "idle"
        BY <2>1
      <3>4. \A b \in Sweepers \cup {Ticker} : pc'[b] \in {"idle", "scan", "sweep", "evict"}
        BY <2>1 DEF Goto
      <3> QED BY <3>1, <3>2, <3>3, <3>4, Zenon DEF LockInv
    <2>6. EntryInv'
      BY <1>1, <2>1, <2>2, <2>3 DEF Goto
    <2>7. VictimInv'
      BY <1>1, <2>1, <2>2, <2>3 DEF Goto
    <2>8. UnusedInv'
      BY <1>1, <2>1, <2>2, <2>3 DEF Goto
    <2>9. CreateInv'
      BY <1>1, <2>1, <2>2, <2>3 DEF Goto
    <2>10. PendingInv'
      BY <1>1, <2>1, <2>2, <2>3 DEF Goto
    <2>11. FailuresUndone'
      BY <1>1, <2>1, <2>2, <2>3 DEF Goto
    <2>12. RemovalsNoticed'
      BY <1>1, <2>1, <2>2, <2>3 DEF Goto
    <2> QED BY <2>4, <2>5, <2>6, <2>7, <2>8, <2>9, <2>10, <2>11, <2>12
  <1> QED BY <1>2, <1>3

\* A call that returns drops its wrapper.
LEMMA AnsweredStep ==
  ASSUME IInv, DataOK', NEW c \in Calls, Answered(c), pc[c] \in {"find", "check"}
  PROVE  IInv'
  <1> USE CacheAssumption DEF IInv, DataOK, Calls, Actors, CallInv, Holding, Landed, Outcomes,
      LockInv, EntryInv, VictimInv, UnusedInv, Unused, CreateInv, Creating, PendingInv,
      FailuresUndone, RemovalsNoticed, At, Results, Labels, Answered, Goto, Collect, lockVars,
      lruVars
  <1>1. CallInv'
    OBVIOUS
  <1>2. LockInv'
    OBVIOUS
  <1>3. EntryInv'
    OBVIOUS
  <1>4. VictimInv'
    OBVIOUS
  <1>5. UnusedInv'
    OBVIOUS
  <1>6. CreateInv'
    OBVIOUS
  <1>7. PendingInv'
    OBVIOUS
  <1>8. FailuresUndone'
    OBVIOUS
  <1>9. RemovalsNoticed'
    OBVIOUS
  <1> QED BY <1>1, <1>2, <1>3, <1>4, <1>5, <1>6, <1>7, <1>8, <1>9

\* A call that found its value stale drops its wrapper.
LEMMA DiscardStep ==
  ASSUME IInv, DataOK', NEW c \in Calls, Discard(c)
  PROVE  IInv'
  <1> USE CacheAssumption DEF IInv, DataOK, Calls, Actors, CallInv, Holding, Landed, Outcomes,
      LockInv, EntryInv, VictimInv, UnusedInv, Unused, CreateInv, Creating, PendingInv,
      FailuresUndone, RemovalsNoticed, At, Results, Labels, Discard, Step, Goto, Collect,
      lockVars, lruVars
  <1>1. CallInv'
    OBVIOUS
  <1>2. LockInv'
    OBVIOUS
  <1>3. EntryInv'
    OBVIOUS
  <1>4. VictimInv'
    OBVIOUS
  <1>5. UnusedInv'
    OBVIOUS
  <1>6. CreateInv'
    OBVIOUS
  <1>7. PendingInv'
    OBVIOUS
  <1>8. FailuresUndone'
    OBVIOUS
  <1>9. RemovalsNoticed'
    OBVIOUS
  <1> QED BY <1>1, <1>2, <1>3, <1>4, <1>5, <1>6, <1>7, <1>8, <1>9

\* One eviction callback: a victim less, and the lock given back after the last.
LEMMA EvictStep ==
  ASSUME IInv, DataOK', NEW a \in Actors, Evict(a)
  PROVE  IInv'
  <1> USE CacheAssumption DEF IInv, DataOK, Calls, Actors, CallInv, Holding, Landed, Outcomes,
      LockInv, EntryInv, VictimInv, UnusedInv, Unused, CreateInv, Creating, PendingInv,
      FailuresUndone, RemovalsNoticed, At, Results, Labels
  <1>1. PICK w \in victims :
          LET found == IF result[w] = "ok" THEN {w} ELSE {}
          IN  /\ result[w] # "pending"
              /\ victims' = victims \ {w}
              /\ IF victims = {w} THEN mu' = None /\ after' = "idle" /\ Goto(a, after)
                                  ELSE UNCHANGED <<mu, after, pc>>
              /\ Collect(IF Watching THEN stale \cup found ELSE stale, evicted \cup found)
    BY Zenon DEF Evict
  <1>2. /\ mu = a /\ pc[a] = "evict" /\ UNCHANGED <<key, wrap, entry>>
        /\ \A b \in Actors : pc[b] = "evict" => b = a
    BY DEF Evict, callVars, lruVars
  <1>3. /\ result' = [v \in Wrappers |-> IF Unused(v)' THEN "none" ELSE result[v]]
        /\ wkey' = [v \in Wrappers |-> IF Unused(v)' THEN None ELSE wkey[v]]
        /\ evicted' = {v \in evicted \cup (IF result[w] = "ok" THEN {w} ELSE {}) : ~Unused(v)'}
    BY <1>1 DEF Collect
  <1>4. CASE victims = {w}
    <2>1. mu' = None /\ after' = "idle" /\ pc' = [pc EXCEPT ![a] = after] /\ victims' = {}
      BY <1>1, <1>4 DEF Goto
    <2>2. CallInv'
      BY <1>1, <1>2, <1>3, <2>1
    <2>3. LockInv'
      BY <1>1, <1>2, <1>3, <2>1
    <2>4. EntryInv'
      BY <1>1, <1>2, <1>3, <2>1
    <2>5. VictimInv'
      BY <1>1, <1>2, <1>3, <2>1
    <2>6. UnusedInv'
      BY <1>1, <1>2, <1>3, <2>1
    <2>7. CreateInv'
      BY <1>1, <1>2, <1>3, <2>1
    <2>8. PendingInv'
      BY <1>1, <1>2, <1>3, <2>1
    <2>9. FailuresUndone'
      BY <1>1, <1>2, <1>3, <2>1
    <2>10. RemovalsNoticed'
      BY <1>1, <1>2, <1>3, <2>1
    <2> QED BY <2>2, <2>3, <2>4, <2>5, <2>6, <2>7, <2>8, <2>9, <2>10
  <1>5. CASE victims # {w}
    <2>1. UNCHANGED <<mu, after, pc>> /\ victims' = victims \ {w} /\ victims' # {}
      BY <1>1, <1>5
    <2>2. CallInv'
      BY <1>1, <1>2, <1>3, <2>1
    <2>3. LockInv'
      BY <1>1, <1>2, <1>3, <2>1
    <2>4. EntryInv'
      BY <1>1, <1>2, <1>3, <2>1
    <2>5. VictimInv'
      BY <1>1, <1>2, <1>3, <2>1
    <2>6. UnusedInv'
      BY <1>1, <1>2, <1>3, <2>1
    <2>7. CreateInv'
      BY <1>1, <1>2, <1>3, <2>1
    <2>8. PendingInv'
      BY <1>1, <1>2, <1>3, <2>1
    <2>9. FailuresUndone'
      BY <1>1, <1>2, <1>3, <2>1
    <2>10. RemovalsNoticed'
      BY <1>1, <1>2, <1>3, <2>1
    <2> QED BY <2>2, <2>3, <2>4, <2>5, <2>6, <2>7, <2>8, <2>9, <2>10
  <1> QED BY <1>4, <1>5

\* A new wrapper under a name nobody holds, and the entries it pushes out.
LEMMA MissStep ==
  ASSUME IInv, DataOK', NEW c \in Calls, Miss(c)
  PROVE  IInv'
  <1> USE CacheAssumption DEF IInv, DataOK, Calls, Actors, CallInv, Holding, Landed, Outcomes,
      LockInv, EntryInv, VictimInv, UnusedInv, Unused, CreateInv, Creating, PendingInv,
      FailuresUndone, RemovalsNoticed, At, Results, Labels
  <1> DEFINE out == Excess(Touched(key[c], newer), size) \ {key[c]}
  <1>1. PICK w \in Wrappers :
          /\ Fresh(w)
          /\ wrap' = [wrap EXCEPT ![c] = w]
          /\ result' = [result EXCEPT ![w] = "pending"]
          /\ wkey' = [wkey EXCEPT ![w] = key[c]]
          /\ entry' = [k \in Keys |-> IF k = key[c] THEN w
                                      ELSE IF k \in out THEN None ELSE entry[k]]
          /\ RemoveThen(c, out, "create")
    BY DEF Miss
  <1>2. out \subseteq Keys /\ key[c] \notin out
    BY DEF Excess
  <1>3. /\ pc[c] = "get" /\ mu = None /\ entry[key[c]] = None /\ key[c] \in Keys
        /\ UNCHANGED <<key, evicted>> /\ victims = {}
        /\ \A a \in Actors : pc[a] # "evict"
    BY DEF Miss, Unlocked
  <1>4. Unused(w)
    BY <1>1 DEF Fresh
  <1>5. result[w] = "none" /\ w \notin evicted
    BY <1>4
  <1> HIDE DEF out
  <1>6. CASE out \cap Cached = {}
    <2>1. /\ pc' = [pc EXCEPT ![c] = "create"] /\ UNCHANGED <<mu, victims, after>>
          /\ \A k \in Keys : entry'[k] = IF k = key[c] THEN w ELSE entry[k]
      BY <1>1, <1>2, <1>6 DEF RemoveThen, lockVars, Goto, Cached
    <2>2. CallInv'
      BY <1>1, <1>2, <1>3, <1>4, <1>5, <2>1
    <2>3. LockInv'
      BY <1>1, <1>2, <1>3, <1>4, <1>5, <2>1
    <2>4. EntryInv'
      BY <1>1, <1>2, <1>3, <1>4, <1>5, <2>1
    <2>5. VictimInv'
      BY <1>1, <1>2, <1>3, <1>4, <1>5, <2>1
    <2>6. UnusedInv'
      <3>1. result'[w] = "pending" /\ wkey'[w] = key[c] /\ entry'[key[c]] = w
        BY <1>1, <1>3, <2>1
      <3>2. ASSUME NEW v \in Wrappers, v # w
            PROVE  /\ result'[v] = result[v] /\ wkey'[v] = wkey[v]
                   /\ Unused(v)' => Unused(v)
        <4>1. result'[v] = result[v] /\ wkey'[v] = wkey[v]
          BY <1>1, <3>2
        <4>2. \A k \in Keys : entry'[k] # v => entry[k] # v
          BY <1>3, <2>1, <3>2
        <4>3. \A d \in Calls : wrap'[d] # v => wrap[d] # v
          <5>1. wrap[c] = None
            BY <1>3
          <5> QED BY <1>1, <3>2, <5>1
        <4> QED BY <4>1, <4>2, <4>3, <2>1
      <3> QED BY <1>1, <1>3, <3>1, <3>2
    <2>7. CreateInv'
      BY <1>1, <1>2, <1>3, <1>4, <1>5, <2>1
    <2>8. PendingInv'
      BY <1>1, <1>2, <1>3, <1>4, <1>5, <2>1
    <2>9. FailuresUndone'
      BY <1>1, <1>2, <1>3, <1>4, <1>5, <2>1
    <2>10. RemovalsNoticed'
      BY <1>1, <1>2, <1>3, <1>4, <1>5, <2>1
    <2> QED BY <2>2, <2>3, <2>4, <2>5, <2>6, <2>7, <2>8, <2>9, <2>10
  <1>7. CASE out \cap Cached # {}
    <2>1. /\ pc' = [pc EXCEPT ![c] = "evict"] /\ mu' = c /\ after' = "create"
          /\ victims' = {entry[k] : k \in {k \in out : entry[k] # None}}
      BY <1>1, <1>2, <1>7 DEF RemoveThen, Goto, Cached
    <2>2. victims' # {} /\ c # None
      <3>1. PICK k \in out : entry[k] # None
        BY <1>7 DEF Cached
      <3>2. entry[k] \in victims'
        BY <2>1, <3>1
      <3> QED BY <3>2
    <2>3. CallInv'
      BY <1>1, <1>2, <1>3, <1>4, <1>5, <2>1, <2>2
    <2>4. LockInv'
      BY <1>1, <1>2, <1>3, <1>4, <1>5, <2>1, <2>2
    <2>5. EntryInv'
      BY <1>1, <1>2, <1>3, <1>4, <1>5, <2>1, <2>2
    <2>6. VictimInv'
      BY <1>1, <1>2, <1>3, <1>4, <1>5, <2>1, <2>2
    <2>7. UnusedInv'
      BY <1>1, <1>2, <1>3, <1>4, <1>5, <2>1, <2>2
    <2>8. CreateInv'
      BY <1>1, <1>2, <1>3, <1>4, <1>5, <2>1, <2>2
    <2>9. PendingInv'
      BY <1>1, <1>2, <1>3, <1>4, <1>5, <2>1, <2>2
    <2>10. FailuresUndone'
      BY <1>1, <1>2, <1>3, <1>4, <1>5, <2>1, <2>2
    <2>11. RemovalsNoticed'
      BY <1>1, <1>2, <1>3, <1>4, <1>5, <2>1, <2>2
    <2> QED BY <2>3, <2>4, <2>5, <2>6, <2>7, <2>8, <2>9, <2>10, <2>11
  <1> QED BY <1>6, <1>7

\* The invariant holds at the start and is kept by every step.
LEMMA Initially == Init => IInv /\ FinalOK
  BY CacheAssumption
     DEF Init, IInv, FinalOK, DataOK, Labels, Results, CallInv, Holding, Landed, LockInv, EntryInv,
         VictimInv, UnusedInv, CreateInv, Creating, At, PendingInv, FailuresUndone,
         RemovalsNoticed, Calls, Actors

\* IInv is inductive: one case for each action.
LEMMA Inductive == IInv /\ [Next]_vars => IInv'
  <1> SUFFICES ASSUME IInv, [Next]_vars PROVE IInv' OBVIOUS
  <1>a. DataOK'
    BY DataStep DEF IInv
  <1>b. DataOK
    BY DEF IInv
  <1> USE <1>a
  <1>1. ASSUME NEW c \in Calls, CallNext(c) PROVE IInv'
    <2>1. CASE Hit(c)
      BY <2>1, HitStep
    <2>2. CASE NotFound(c)
      BY <2>2, AnsweredStep DEF NotFound, At
    <2>3. CASE Miss(c)
      BY <2>3, MissStep
    <2>4. CASE Undo(c)
      <3>1. /\ Delete(c, {key[c]}, "check") /\ pc[c] = "undo" /\ key[c] \in Keys
            /\ UNCHANGED <<key, wrap, result, wkey, stale, evicted>>
        BY <2>4, <1>b DEF Undo, At, callVars, valueVars, IInv, CallInv, DataOK
      <3> QED BY <3>1, DeleteStep DEF Actors
    <2>5. CASE Ready(c)
      BY <2>5, ReadyStep
    <2>6. CASE Return(c)
      BY <2>6, AnsweredStep DEF Return, At
    <2>7. CASE Discard(c)
      BY <2>7, DiscardStep
    <2>8. CASE Purge(c)
      <3>1. /\ Delete(c, {key[c]}, "get") /\ pc[c] = "purge" /\ key[c] \in Keys
            /\ UNCHANGED <<key, wrap, result, wkey, stale, evicted>>
        BY <2>8, <1>b DEF Purge, At, callVars, valueVars, IInv, CallInv, DataOK
      <3> QED BY <3>1, DeleteStep DEF Actors
    <2>9. ASSUME NEW r \in {"ok", "err", "panic"}, Create(c, r) PROVE IInv'
      BY <2>9, CreateStep DEF Outcomes
    <2> QED
      BY <1>1, <2>1, <2>2, <2>3, <2>4, <2>5, <2>6, <2>7, <2>8, <2>9 DEF CallNext
  <1>2. ASSUME NEW c \in Calls, Timeout(c) PROVE IInv'
    <2>1. UNCHANGED <<pc, key, wrap, mu, victims, after, entry, result, wkey, evicted>>
      BY <1>2 DEF Timeout, lockVars, lruVars, valueVars
    <2> QED BY <2>1, QuietStep DEF IInv, LockInv
  <1>3. ASSUME NEW c \in Calls, NEW p \in Calls, Nest(p, c) PROVE IInv'
    <2>1. PICK k \in Keys : Start(c, k, "get", p)
      BY <1>3, <1>b DEF Nest, DataOK
    <2> QED BY <2>1, StartStep
  <1>4. ASSUME NEW c \in Callers, NEW k \in Keys, Begin(c, k) PROVE IInv'
    BY <1>4, StartStep DEF Begin, Calls
  <1>5. ASSUME NEW c \in Callers, NEW k \in Keys, Lookup(c, k) PROVE IInv'
    BY <1>5, StartStep DEF Lookup, Calls
  <1>6. ASSUME NEW s \in Sweepers, BeginSweep(s) \/ ScanKey(s) \/ EndScan(s) PROVE IInv'
    <2>1. /\ UNCHANGED <<key, wrap, mu, victims, after, entry, result, wkey, evicted>>
          /\ pc[s] \in {"idle", "scan"}
          /\ pc' \in {pc, [pc EXCEPT ![s] = "scan"], [pc EXCEPT ![s] = "sweep"]}
      BY <1>6 DEF BeginSweep, ScanKey, EndScan, Step, At, Goto, callVars, lockVars, lruVars,
                  valueVars
    <2>2. /\ \A c \in Calls : pc'[c] = pc[c]
          /\ \A a \in Sweepers \cup {Ticker} : pc'[a] \in {"idle", "scan", "sweep", "evict"}
          /\ \A a \in Actors : pc'[a] = "evict" <=> pc[a] = "evict"
      BY <2>1, <1>b, CacheAssumption DEF IInv, LockInv, DataOK, Actors
    <2> QED BY <2>1, <2>2, QuietStep
  <1>7. ASSUME NEW s \in Sweepers, Sweep(s) PROVE IInv'
    <2>1. /\ Delete(s, hits[s], "idle") /\ pc[s] = "sweep" /\ hits[s] \in SUBSET Keys
          /\ UNCHANGED <<key, wrap, result, wkey, stale, evicted>>
      BY <1>7, <1>b DEF Sweep, At, callVars, valueVars, DataOK
    <2> QED BY <2>1, DeleteStep DEF Actors
  <1>8. ASSUME NEW n \in Sizes, Resize(n) PROVE IInv'
    <2>1. /\ Delete(Ticker, Excess(newer, n), "idle") /\ pc[Ticker] = "idle"
          /\ Excess(newer, n) \in SUBSET Keys
          /\ UNCHANGED <<key, wrap, result, wkey, stale, evicted>>
      BY <1>8 DEF Resize, At, callVars, valueVars, Excess
    <2> QED BY <2>1, DeleteStep DEF Actors
  <1>9. ASSUME NEW w \in Wrappers, MarkStale(w) PROVE IInv'
    <2>1. UNCHANGED <<pc, key, wrap, mu, victims, after, entry, result, wkey, evicted>>
      BY <1>9 DEF MarkStale, callVars, lockVars, lruVars
    <2> QED BY <2>1, QuietStep DEF IInv, LockInv
  <1>10. ASSUME NEW a \in Actors, Evict(a) PROVE IInv'
    BY <1>10, EvictStep
  <1>11. CASE UNCHANGED vars
    <2>1. UNCHANGED <<pc, key, wrap, mu, victims, after, entry, result, wkey, evicted>>
      BY <1>11 DEF vars
    <2> QED BY <2>1, QuietStep DEF IInv, LockInv
  <1> QED
    BY <1>1, <1>2, <1>3, <1>4, <1>5, <1>6, <1>7, <1>8, <1>9, <1>10, <1>11 DEF Next, SweepNext

\* The inductive invariant holds in every state of the partition.
LEMMA Invariance == Spec => []IInv
  <1>1. Init => IInv
    BY Initially
  <1> QED BY <1>1, Inductive, PTL DEF Spec

(***************************************************************************)
(* The theorems.                                                           *)
(***************************************************************************)

\* The type invariant holds for any calls, keys, sizes and sweepers.
THEOREM TypeCorrect == Spec => []TypeOK
  <1>1. Init => FinalOK
    BY Initially
  <1>2. Spec => []FinalOK
    BY <1>1, FlagsStep, PTL DEF Spec
  <1>3. IInv /\ FinalOK => TypeOK
    BY DEF IInv, TypeOK, FinalOK
  <1> QED BY <1>2, <1>3, Invariance, PTL

\* Whoever waits for a wrapper waits for one call that still completes it.
THEOREM WaitersHaveCreator == Spec => []PendingIsCreated
  <1>1. IInv => PendingIsCreated
    BY DEF IInv, PendingInv, CreateInv, PendingIsCreated
  <1> QED BY <1>1, Invariance, PTL

\* A key is never created twice at a time, because a creation whose entry is
\* being evicted keeps the cache locked.
THEOREM CreatedOnce == Spec => []OneCreation
  <1>1. IInv => OneCreation
    <2> SUFFICES ASSUME IInv, NEW c \in Calls, NEW d \in Calls, Creating(c), Creating(d),
                        key[c] = key[d]
                 PROVE  wrap[c] = wrap[d]
      BY DEF OneCreation, IInv, CreateInv
    <2>1. /\ result[wrap[c]] = "pending" /\ result[wrap[d]] = "pending"
          /\ wrap[c] # None /\ wrap[d] # None
      BY DEF IInv, CreateInv, CallInv, Holding, Creating, At
    <2>2. wrap[c] \in Wrappers /\ wrap[d] \in Wrappers /\ wkey[wrap[c]] = wkey[wrap[d]]
      BY <2>1 DEF IInv, DataOK, CallInv
    <2> QED BY <2>1, <2>2, CacheAssumption DEF IInv, PendingInv, VictimInv
  <1> QED BY <1>1, Invariance, PTL

\* A failed value is in the cache only while the call that failed is on its
\* way to delete it.
THEOREM FailuresGo == Spec => []FailuresUndone
  <1>1. IInv => FailuresUndone
    BY DEF IInv
  <1> QED BY <1>1, Invariance, PTL

\* No value leaves the cache without its OnEvict.
THEOREM NothingLost == Spec => []RemovalsNoticed
  <1>1. IInv => RemovalsNoticed
    BY DEF IInv
  <1> QED BY <1>1, Invariance, PTL

(***************************************************************************)
(* The size.                                                               *)
(***************************************************************************)

\* Which of the keys of K was used last: a strict total order.
Ordered(n, K) ==
  /\ n \subseteq K \X K
  /\ \A i \in K : <<i, i>> \notin n
  /\ \A i, j, k \in K : <<i, j>> \in n /\ <<j, k>> \in n => <<i, k>> \in n
  /\ \A i, j \in K : i # j => <<i, j>> \in n \/ <<j, i>> \in n

Before(n, k) == {j \in Keys : <<j, k>> \in n}

SizeInv == Ordered(newer, Cached) /\ SizeBound

\* Keys that are ordered have different numbers of keys before them, so there are
\* no more than m with fewer than m.
LEMMA FewBefore ==
  ASSUME NEW n, NEW K \in SUBSET Keys, Ordered(n, K), NEW m \in Nat \ {0}
  PROVE  Cardinality(K \ Excess(n, m)) <= m
<1> DEFINE R == K \ Excess(n, m)
           f == [k \in R |-> Cardinality(Before(n, k))]
<1>1. \A k \in Keys : IsFiniteSet(Before(n, k)) /\ Cardinality(Before(n, k)) \in Nat
  BY CacheAssumption, FS_Subset, FS_CardinalityType DEF Before
<1>2. f \in [R -> 0..(m - 1)]
  <2>1. \A k \in R : ~(Cardinality(Before(n, k)) >= m)
    BY DEF Excess, Before
  <2>2. \A k \in R : Cardinality(Before(n, k)) \in 0..(m - 1)
    BY <1>1, <2>1
  <2> QED BY <2>2
<1>3. ASSUME NEW i \in R, NEW j \in R, <<i, j>> \in n PROVE f[i] # f[j]
  <2>1. /\ Before(n, i) \subseteq Before(n, j) /\ i \in Before(n, j) /\ i \notin Before(n, i)
    BY <1>3 DEF Before, Ordered
  <2>2. Cardinality(Before(n, i)) # Cardinality(Before(n, j))
    BY <1>1, <2>1, FS_Subset
  <2> QED BY <2>2
<1>4. \A i, j \in R : i # j => f[i] # f[j]
  BY <1>3 DEF Ordered
<1>5. IsFiniteSet(R) /\ IsFiniteSet(0..(m - 1)) /\ Cardinality(0..(m - 1)) = m
  BY CacheAssumption, FS_Subset, FS_Interval
<1>6. Cardinality(R) \in Nat
  BY <1>5, FS_CardinalityType
<1> HIDE DEF R, f
<1>7. ~(Cardinality(R) > m)
  BY <1>2, <1>4, <1>5, FS_PigeonHole
<1> QED BY <1>6, <1>7 DEF R

\* The order of the keys that are left.
LEMMA OrderLeft ==
  ASSUME NEW n, NEW K \in SUBSET Keys, Ordered(n, K), NEW D
  PROVE  Ordered(Without(D, n), K \ D)
<1>1. \A i, j \in K : <<i, j>> \in Without(D, n) <=> <<i, j>> \in n /\ i \notin D /\ j \notin D
  BY DEF Without
<1>2. Without(D, n) \subseteq (K \ D) \X (K \ D)
  BY DEF Without, Ordered
<1> QED BY <1>1, <1>2 DEF Ordered

\* A key that is used goes to the front, whether it was there or not.
LEMMA OrderTouched ==
  ASSUME NEW k \in Keys, Ordered(newer, Cached)
  PROVE  Ordered(Touched(k, newer), Cached \cup {k})
<1> DEFINE t == Touched(k, newer)
<1>1. newer \subseteq Cached \X Cached
  BY DEF Ordered
<1>2. \A i, j : <<i, j>> \in t
                <=> ((<<i, j>> \in newer /\ i # k /\ j # k) \/ (i = k /\ j \in Cached \ {k}))
  <2>1. \A i, j : <<i, j>> \in {p \in newer : k \notin {p[1], p[2]}}
                  <=> <<i, j>> \in newer /\ i # k /\ j # k
    OBVIOUS
  <2>2. \A i, j : <<i, j>> \in {k} \X (Cached \ {k}) <=> i = k /\ j \in Cached \ {k}
    OBVIOUS
  <2> QED BY <2>1, <2>2, Zenon DEF Touched
<1>3. t \subseteq (Cached \cup {k}) \X (Cached \cup {k})
  BY <1>1 DEF Touched
<1> HIDE DEF t
<1>4. Ordered(t, Cached \cup {k})
  BY <1>1, <1>2, <1>3 DEF Ordered
<1> QED BY <1>4 DEF t

\* Fewer keys are not more.
LEMMA FewerCached ==
  ASSUME NEW K \in SUBSET Keys, NEW D \in SUBSET K, NEW m \in Nat, Cardinality(K) <= m
  PROVE  Cardinality(D) <= m
<1>1. IsFiniteSet(K) /\ IsFiniteSet(D)
  BY CacheAssumption, FS_Subset
<1>2. Cardinality(D) \in Nat /\ Cardinality(K) \in Nat /\ Cardinality(D) <= Cardinality(K)
  BY <1>1, FS_Subset, FS_CardinalityType
<1> QED BY <1>2

\* Keys are removed.
LEMMA DeleteSize ==
  ASSUME SizeInv, size \in Nat, NEW a, NEW K, NEW l, Delete(a, K, l), UNCHANGED size
  PROVE  SizeInv'
<1>1. Cached' = Cached \ K /\ newer' = Without(K, newer)
  BY CacheAssumption DEF Delete, Cached
<1>2. Ordered(newer', Cached')
  BY <1>1, OrderLeft DEF SizeInv, Cached
<1>3. Cardinality(Cached') <= size'
  BY <1>1, FewerCached DEF SizeInv, SizeBound, Cached
<1> QED BY <1>2, <1>3 DEF SizeInv, SizeBound

\* A new key goes in, and those that are one too many go out.
LEMMA MissSize ==
  ASSUME SizeInv, DataOK, CallInv, NEW c \in Calls, Miss(c)
  PROVE  SizeInv'
<1> DEFINE k == key[c]
           K == Cached \cup {k}
           t == Touched(k, newer)
           out == Excess(t, size) \ {k}
<1>1. PICK w \in Wrappers :
        /\ entry' = [j \in Keys |-> IF j = k THEN w ELSE IF j \in out THEN None ELSE entry[j]]
        /\ newer' = Without(out, t) /\ size' = size
  BY DEF Miss
<1>2. k \in Keys /\ size \in Nat \ {0} /\ None \notin Wrappers
  BY CacheAssumption DEF Miss, At, DataOK, CallInv
<1>3. Ordered(t, K) /\ K \in SUBSET Keys
  BY <1>2, OrderTouched DEF SizeInv, Cached
<1>4. Cached' = K \ out
  BY <1>1, <1>2 DEF Cached
<1>5. Before(t, k) = {}
  <2>1. \A j : <<j, k>> \notin t
    BY DEF Touched
  <2> QED BY <2>1 DEF Before
<1>6. k \notin Excess(t, size)
  <2>1. Cardinality(Before(t, k)) = 0
    BY <1>5, FS_EmptySet
  <2> HIDE DEF t
  <2>2. ~(Cardinality(Before(t, k)) >= size)
    BY <1>2, <2>1
  <2> HIDE DEF k
  <2> QED BY <2>2 DEF Excess, Before
<1>7. Cached' = K \ Excess(t, size)
  BY <1>4, <1>6
<1> HIDE DEF t, out, K
<1>8. Cardinality(Cached') <= size'
  BY <1>1, <1>2, <1>3, <1>7, FewBefore
<1>9. Ordered(newer', Cached')
  BY <1>1, <1>3, <1>4, OrderLeft
<1> QED BY <1>8, <1>9 DEF SizeInv, SizeBound

LEMMA SizeStep == SizeInv /\ IInv /\ [Next]_vars => SizeInv'
<1> SUFFICES ASSUME SizeInv, IInv, [Next]_vars PROVE SizeInv'
  OBVIOUS
<1>a. size \in Nat /\ Sizes \subseteq Nat \ {0} /\ DataOK /\ CallInv
  BY CacheAssumption DEF IInv, DataOK
<1>b. ASSUME UNCHANGED <<entry, newer, size>> PROVE SizeInv'
  BY <1>b DEF SizeInv, SizeBound, Cached
<1>1. ASSUME NEW c \in Calls, CallNext(c) PROVE SizeInv'
  <2>1. CASE Hit(c)
    <3>1. key[c] \in Keys /\ key[c] \in Cached
      BY <2>1, <1>a DEF Hit, CallInv, DataOK, Cached
    <3>2. newer' = Touched(key[c], newer) /\ Cached' = Cached /\ size' = size
      BY <2>1 DEF Hit, Cached
    <3>3. Cached \cup {key[c]} = Cached
      BY <3>1
    <3>4. Ordered(newer', Cached')
      BY <3>1, <3>2, <3>3, OrderTouched DEF SizeInv
    <3> QED BY <3>2, <3>4 DEF SizeInv, SizeBound
  <2>2. CASE Miss(c)
    BY <2>2, <1>a, MissSize
  <2>3. CASE Undo(c) \/ Purge(c)
    BY <2>3, <1>a, DeleteSize DEF Undo, Purge
  <2>4. CASE NotFound(c) \/ Ready(c) \/ Return(c) \/ Discard(c)
    BY <2>4, <1>b DEF NotFound, Ready, Return, Discard, Answered, lruVars
  <2>5. CASE \E r \in {"ok", "err", "panic"} : Create(c, r)
    BY <2>5, <1>b DEF Create, lruVars
  <2> QED BY <1>1, <2>1, <2>2, <2>3, <2>4, <2>5 DEF CallNext
<1>2. ASSUME NEW c \in Calls, Timeout(c) \/ \E p \in Calls : Nest(p, c) PROVE SizeInv'
  BY <1>2, <1>b DEF Timeout, Nest, Start, lruVars
<1>3. ASSUME NEW c \in Callers, NEW k \in Keys, Begin(c, k) \/ Lookup(c, k) PROVE SizeInv'
  BY <1>3, <1>b DEF Begin, Lookup, Start, lruVars
<1>4. ASSUME NEW s \in Sweepers, BeginSweep(s) \/ ScanKey(s) \/ EndScan(s) PROVE SizeInv'
  BY <1>4, <1>b DEF BeginSweep, ScanKey, EndScan, lruVars
<1>5. ASSUME NEW s \in Sweepers, Sweep(s) PROVE SizeInv'
  BY <1>5, <1>a, DeleteSize DEF Sweep
<1>6. ASSUME NEW n \in Sizes, Resize(n) PROVE SizeInv'
  <2>1. /\ Cached' = Cached \ Excess(newer, n) /\ newer' = Without(Excess(newer, n), newer)
        /\ size' = n
    BY <1>6, CacheAssumption DEF Resize, Delete, Cached
  <2>2. Cached \in SUBSET Keys /\ n \in Nat \ {0}
    BY <1>a DEF Cached
  <2>3. Ordered(newer', Cached')
    BY <2>1, <2>2, OrderLeft DEF SizeInv
  <2>4. Cardinality(Cached') <= size'
    BY <2>1, <2>2, FewBefore DEF SizeInv
  <2> QED BY <2>3, <2>4 DEF SizeInv, SizeBound
<1>7. ASSUME NEW w \in Wrappers, MarkStale(w) PROVE SizeInv'
  BY <1>7, <1>b DEF MarkStale, lruVars
<1>8. ASSUME NEW a \in Actors, Evict(a) PROVE SizeInv'
  BY <1>8, <1>b DEF Evict, lruVars
<1>9. CASE UNCHANGED vars
  BY <1>9, <1>b DEF vars
<1> QED
  BY <1>1, <1>2, <1>3, <1>4, <1>5, <1>6, <1>7, <1>8, <1>9 DEF Next, SweepNext

\* The partition holds no more than its size, whatever is pending or evicted and
\* however often it is resized.
THEOREM SizeKept == Spec => []SizeBound
<1>1. Init => SizeInv
  <2> SUFFICES ASSUME Init PROVE SizeInv
    OBVIOUS
  <2>1. Cached = {} /\ newer = {} /\ size \in Nat
    BY CacheAssumption DEF Init, Cached
  <2> QED BY <2>1, FS_EmptySet DEF SizeInv, SizeBound, Ordered
<1>2. SizeInv => SizeBound
  BY DEF SizeInv
<1> QED BY <1>1, <1>2, SizeStep, Invariance, PTL DEF Spec

(***************************************************************************)
(* The refinement.                                                         *)
(***************************************************************************)

\* Forgetting garbage recycles the names nobody but call c holds.
LEMMA CollectRecycles ==
  ASSUME IInv, NEW st, NEW ev, Collect(st, ev), NEW c, UNCHANGED entry,
         \A d \in Calls \ {c} : wrap'[d] = wrap[d],
         \A w \in Wrappers : Unused(w)' => result[w] # "pending"
  PROVE  \E W \in SUBSET Wrappers : (\A w \in W : F!Unheld(c, w)) /\ F!Recycled(W)
  <1> DEFINE W == {w \in Wrappers : Unused(w)'}
  <1>1. \A w \in W : F!Unheld(c, w)
    BY DEF F!Unheld, Unused
  <1>2. F!Recycled(W)
    BY DEF F!Recycled, Collect
  <1> QED BY <1>1, <1>2

\* Every step of the partition is one of Flight, or none.
LEMMA StepRefines == IInv /\ IInv' /\ [Next]_vars => [F!Next]_F!flightVars
  <1> SUFFICES ASSUME IInv, IInv', [Next]_vars PROVE F!Next \/ UNCHANGED F!flightVars
    OBVIOUS
  <1>a. /\ \A c \in Calls : wrap[c] # None => wrap[c] \in Wrappers
        /\ \A c \in Calls : pc[c] # "idle" => key[c] \in Keys
        /\ \A c \in Calls : pc[c] = "idle" => key[c] = None /\ wrap[c] = None
    BY DEF IInv, CallInv, Holding, DataOK, Calls, Actors
  <1>b. \A w \in Wrappers : Unused(w) => result[w] = "none" /\ wkey[w] = None
    BY DEF IInv, UnusedInv
  <1>c. ASSUME NEW c \in Calls, NEW k \in Keys, NEW l, NEW who, Start(c, k, l, who)
        PROVE  F!Next
    <2>1. F!Ask(c, k)
      BY <1>a, <1>c DEF Start, Step, At, F!Ask, lruVars, valueVars
    <2> QED BY <2>1 DEF F!Next
  <1>d. ASSUME NEW a, NEW K \in SUBSET Keys, NEW l, Delete(a, K, l),
               UNCHANGED <<key, wrap, result, wkey>>
        PROVE  F!Next
    <2>1. F!Forget(K)
      BY <1>d DEF Delete, F!Forget
    <2> QED BY <2>1 DEF F!Next
  <1>1. ASSUME NEW c \in Calls, CallNext(c) PROVE F!Next \/ UNCHANGED F!flightVars
    <2>1. CASE Hit(c)
      <3>1. F!Join(c)
        BY <2>1, <1>a, CacheAssumption
           DEF Hit, F!Join, valueVars, IInv, CallInv, Holding
      <3> QED BY <3>1 DEF F!Next
    <2>2. CASE NotFound(c)
      <3>1. pc[c] = "find" /\ wrap[c] = None /\ key[c] # None
        BY <2>2, <1>a, CacheAssumption DEF NotFound, At, IInv, CallInv, Holding
      <3>2. wrap' = wrap /\ entry' = entry /\ victims' = victims
        BY <2>2, <3>1 DEF NotFound, Answered, lruVars, lockVars, IInv, DataOK
      <3>3. \A w \in Wrappers : Unused(w)' <=> Unused(w)
        BY <3>2 DEF Unused
      <3>4. result' = result /\ wkey' = wkey
        BY <2>2, <3>3, <1>b DEF NotFound, Answered, Collect, IInv, DataOK
      <3>5. F!Withdraw(c)
        BY <2>2, <3>1, <3>2, <3>4 DEF NotFound, Answered, F!Withdraw
      <3> QED BY <3>5 DEF F!Next
    <2>3. CASE Miss(c)
      <3> DEFINE out == Excess(Touched(key[c], newer), size) \ {key[c]}
      <3>1. PICK w \in Wrappers :
              /\ Fresh(w)
              /\ wrap' = [wrap EXCEPT ![c] = w]
              /\ result' = [result EXCEPT ![w] = "pending"]
              /\ wkey' = [wkey EXCEPT ![w] = key[c]]
              /\ entry' = [k \in Keys |-> IF k = key[c] THEN w
                                          ELSE IF k \in out THEN None ELSE entry[k]]
        BY <2>3 DEF Miss
      <3>2. out \in SUBSET Keys
        BY DEF Excess
      <3> HIDE DEF out
      <3>3. /\ pc[c] = "get" /\ mu = None /\ entry[key[c]] = None /\ UNCHANGED key
            /\ wrap[c] = None /\ key[c] # None
        BY <2>3, <1>a, CacheAssumption DEF Miss, At, Unlocked, IInv, CallInv, Holding
      <3>4. victims = {} /\ result[w] = "none"
        BY <3>1, <3>3, <1>b DEF Fresh, IInv, LockInv
      <3>5. \A v \in Wrappers : result[v] = "pending" => wkey[v] # key[c]
        BY <3>3, <3>4, CacheAssumption DEF IInv, PendingInv
      <3>6. F!Launch(c, w, out)
        BY <3>1, <3>3, <3>4, <3>5 DEF F!Launch
      <3> QED BY <3>2, <3>6 DEF F!Next
    <2>4. CASE Undo(c) \/ Purge(c)
      <3>1. key[c] \in Keys /\ UNCHANGED <<key, wrap, result, wkey>>
        BY <2>4, <1>a DEF Undo, Purge, At, callVars, valueVars
      <3> QED BY <2>4, <3>1, <1>d DEF Undo, Purge
    <2>5. CASE Ready(c)
      BY <2>5 DEF Ready, callVars, lruVars, valueVars, F!flightVars
    <2>6. CASE Return(c)
      <3>1. /\ pc[c] = "check" /\ wrap[c] # None /\ wkey[wrap[c]] = key[c]
            /\ result[wrap[c]] \in F!Outcomes
        BY <2>6, CacheAssumption DEF Return, At, IInv, CallInv, Holding, Landed, Outcomes,
                                     F!Outcomes
      <3>2. /\ wrap' = [wrap EXCEPT ![c] = None] /\ key' = [key EXCEPT ![c] = None]
            /\ UNCHANGED <<entry, victims>> /\ Collect(stale, evicted)
        BY <2>6 DEF Return, Answered, lruVars, lockVars
      <3>3. \A w \in Wrappers : Unused(w)' => result[w] # "pending"
        BY <3>1, <3>2, <1>b DEF Unused, F!Outcomes, IInv, DataOK
      <3>4. PICK W \in SUBSET Wrappers : (\A w \in W : F!Unheld(c, w)) /\ F!Recycled(W)
        BY <3>2, <3>3, CollectRecycles DEF IInv, DataOK
      <3>5. F!Return(c, W)
        BY <3>1, <3>2, <3>4 DEF F!Return
      <3> QED BY <3>5 DEF F!Next
    <2>7. CASE Discard(c)
      <3>1. wrap[c] # None /\ result[wrap[c]] = "ok"
        BY <2>7, CacheAssumption DEF Discard, Step, At, GotStale, IInv, CallInv, Holding
      <3>2. /\ wrap' = [wrap EXCEPT ![c] = None]
            /\ UNCHANGED <<key, entry, victims>> /\ Collect(stale, evicted)
        BY <2>7 DEF Discard, lruVars, lockVars
      <3>3. \A w \in Wrappers : Unused(w)' => result[w] # "pending"
        BY <3>1, <3>2, <1>b DEF Unused, IInv, DataOK
      <3>4. PICK W \in SUBSET Wrappers : (\A w \in W : F!Unheld(c, w)) /\ F!Recycled(W)
        BY <3>2, <3>3, CollectRecycles DEF IInv, DataOK
      <3>5. F!Retry(c, W)
        BY <3>1, <3>2, <3>4 DEF F!Retry
      <3> QED BY <3>5 DEF F!Next
    <2>8. ASSUME NEW r \in {"ok", "err", "panic"}, Create(c, r) PROVE F!Next
      <3>1. wrap[c] \in Wrappers /\ result[wrap[c]] = "pending"
        BY <2>8, <1>a DEF Create, At, IInv, CallInv, Holding, CreateInv, Creating
      <3>2. F!Land(wrap[c], r)
        BY <2>8, <3>1 DEF Create, F!Land, lruVars
      <3> QED BY <3>1, <3>2 DEF F!Next, F!Outcomes
    <2> QED BY <1>1, <2>1, <2>2, <2>3, <2>4, <2>5, <2>6, <2>7, <2>8 DEF CallNext
  <1>2. ASSUME NEW c \in Calls, NEW p \in Calls, Nest(p, c) PROVE F!Next
    <2>1. PICK k \in Keys : Start(c, k, "get", p)
      BY <1>2 DEF Nest, IInv, DataOK
    <2> QED BY <2>1, <1>c
  <1>3. ASSUME NEW c \in Callers, NEW k \in Keys, Begin(c, k) \/ Lookup(c, k) PROVE F!Next
    BY <1>3, <1>c DEF Begin, Lookup, Calls
  <1>4. ASSUME NEW c \in Calls, Timeout(c) PROVE UNCHANGED F!flightVars
    BY <1>4 DEF Timeout, lruVars, valueVars, F!flightVars
  <1>5. ASSUME NEW s \in Sweepers, BeginSweep(s) \/ ScanKey(s) \/ EndScan(s)
        PROVE  UNCHANGED F!flightVars
    BY <1>5 DEF BeginSweep, ScanKey, EndScan, callVars, lruVars, valueVars, F!flightVars
  <1>6. ASSUME NEW s \in Sweepers, Sweep(s) PROVE F!Next
    <2>1. hits[s] \in SUBSET Keys /\ UNCHANGED <<key, wrap, result, wkey>>
      BY <1>6 DEF Sweep, callVars, valueVars, IInv, DataOK
    <2> QED BY <1>6, <2>1, <1>d DEF Sweep
  <1>7. ASSUME NEW n \in Sizes, Resize(n) PROVE F!Next
    <2>1. Excess(newer, n) \in SUBSET Keys /\ UNCHANGED <<key, wrap, result, wkey>>
      BY <1>7 DEF Resize, callVars, valueVars, Excess
    <2> QED BY <1>7, <2>1, <1>d DEF Resize
  <1>8. ASSUME NEW w \in Wrappers, MarkStale(w) PROVE UNCHANGED F!flightVars
    BY <1>8 DEF MarkStale, callVars, lruVars, F!flightVars
  <1>9. ASSUME NEW a \in Actors, Evict(a) PROVE F!Next
    <2>1. PICK w \in victims :
            LET found == IF result[w] = "ok" THEN {w} ELSE {}
            IN  /\ result[w] # "pending"
                /\ victims' = victims \ {w}
                /\ IF victims = {w} THEN mu' = None /\ after' = "idle" /\ Goto(a, after)
                                    ELSE UNCHANGED <<mu, after, pc>>
                /\ Collect(IF Watching THEN stale \cup found ELSE stale, evicted \cup found)
      BY <1>9, Zenon DEF Evict
    <2>2. UNCHANGED <<key, wrap, entry>>
      BY <1>9 DEF Evict, callVars, lruVars
    <2>3. \A v \in Wrappers : Unused(v)' => result[v] # "pending"
      BY <2>1, <2>2, <1>b DEF Unused
    <2>4. PICK W \in SUBSET Wrappers : (\A v \in W : F!Unheld(None, v)) /\ F!Recycled(W)
      BY <2>1, <2>2, <2>3, CollectRecycles
    <2>5. F!Recycle(W)
      BY <2>2, <2>4 DEF F!Recycle
    <2> QED BY <2>5 DEF F!Next
  <1>10. CASE UNCHANGED vars
    BY <1>10 DEF vars, F!flightVars
  <1> QED
    BY <1>1, <1>2, <1>3, <1>4, <1>5, <1>6, <1>7, <1>8, <1>9, <1>10 DEF Next, SweepNext

\* The partition implements Flight: single creation and answers from it, for any
\* number of calls, keys, sweepers, sizes and nested creations.
THEOREM Implementation == Spec => ImplementsFlight
  <1>1. Init => F!Init
    BY DEF Init, F!Init
  <1> QED BY <1>1, StepRefines, Invariance, PTL DEF Spec, ImplementsFlight, F!Spec
=============================================================================
