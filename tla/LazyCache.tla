----------------------------- MODULE LazyCache -----------------------------
(* One partition of the dynamic cache (cache/dynacache/dynacache.go) on the  *)
(* concurrent LRU cache it wraps (vendor/github.com/bep/lazycache).  An      *)
(* entry is inserted before its value exists: a wrapper that the inserting   *)
(* call completes with the cache unlocked, and that everyone else waits for. *)
(* The eviction callback waits for it too, with the cache locked.            *)
EXTENDS Integers, FiniteSets

CONSTANTS
  Callers,      \* calls of the partition's GetOrCreate and Get
  Inner,        \* calls made from inside a create function
  Sweepers,     \* goroutines that clear the partition
  Ticker,       \* the goroutine that resizes it
  Keys,
  Needs,        \* the keys the creation of each key asks for
  MaxWrappers,  \* bound: wrappers in use at a time
  Sizes,        \* sizes the partition may be given
  TimesOut,     \* calls that go through GetOrCreateWitTimeout
  Watching,     \* is this a server?  Then eviction marks values stale.
  Top,          \* who waits for a call of Callers
  None

Calls == Callers \cup Inner
Actors == Calls \cup Sweepers \cup {Ticker}
Wrappers == 1..MaxWrappers

ASSUME CacheAssumption ==
  /\ Callers \cap Inner = {} /\ Calls \cap Sweepers = {} /\ Ticker \notin Calls \cup Sweepers
  /\ None \notin Actors \cup Keys \cup Wrappers \cup {Top} /\ Top \notin Actors
  /\ Needs \in [Keys -> SUBSET Keys] /\ IsFiniteSet(Keys)
  /\ MaxWrappers \in Nat /\ Sizes \subseteq Nat \ {0} /\ Sizes # {}
  /\ TimesOut \subseteq Calls /\ Watching \in BOOLEAN

VARIABLES
  pc, key,     \* where each goroutine is, the key a call is for
  wrap,        \* the wrapper a call waits for or completes
  final,       \* will this call return what it gets without looking at it?
  need,        \* keys a creation has still to ask for
  waits,       \* who waits for this call's answer; None when it has timed out
  mu,          \* holder of the cache's write lock while it runs OnEvict
  victims, after,    \* wrappers it still has to evict, and what it does then
  readers,     \* sweepers that hold the read lock
  scan, hits,  \* keys a sweeper has still to look at, and to delete
  entry,       \* the cache: the wrapper of each key
  newer,       \* pairs of keys: the first used more recently than the second
  size,
  result, wkey,      \* what each wrapper holds, and its key
  stale, evicted     \* values marked stale, values OnEvict was called for

callVars == <<key, wrap, final, need, waits>>
lockVars == <<mu, victims, after>>
sweepVars == <<readers, scan, hits>>
lruVars == <<entry, newer>>
valueVars == <<result, wkey, stale, evicted>>
vars == <<pc, key, wrap, final, need, waits, mu, victims, after, readers, scan, hits,
          entry, newer, size, result, wkey, stale, evicted>>

Init ==
  /\ pc = [a \in Actors |-> "idle"]
  /\ key = [c \in Calls |-> None] /\ wrap = [c \in Calls |-> None]
  /\ final = [c \in Calls |-> FALSE] /\ need = [c \in Calls |-> {}]
  /\ waits = [c \in Calls |-> None]
  /\ mu = None /\ victims = {} /\ after = "idle"
  /\ readers = {} /\ scan = [s \in Sweepers |-> {}] /\ hits = [s \in Sweepers |-> {}]
  /\ entry = [k \in Keys |-> None] /\ newer = {}
  /\ size \in Sizes
  /\ result = [w \in Wrappers |-> "none"] /\ wkey = [w \in Wrappers |-> None]
  /\ stale = {} /\ evicted = {}

At(a, l) == pc[a] = l
Goto(a, l) == pc' = [pc EXCEPT ![a] = l]
Step(a, from, to) == At(a, from) /\ Goto(a, to)

(***************************************************************************)
(* The LRU list.                                                           *)
(***************************************************************************)

Cached == {k \in Keys : entry[k] # None}

\* Moving k to the front; what is left when K is removed.
Touched(k, n) == {p \in n : k \notin {p[1], p[2]}} \cup ({k} \X (Cached \ {k}))
Without(K, n) == {p \in n : p[1] \notin K /\ p[2] \notin K}

\* The keys beyond the first m; fault: one more is kept.
ExcessButOne(n, m) == {k \in Keys : Cardinality({j \in Keys : <<j, k>> \in n}) > m}
Excess(n, m) == {k \in Keys : Cardinality({j \in Keys : <<j, k>> \in n}) >= m}

Unlocked == mu = None /\ readers = {}

\* Faults: removing a key that is not there, no callback, and callbacks that
\* run after the unlock.
RemoveMissing(a, K, l) ==
  IF K = {} THEN Goto(a, l) /\ UNCHANGED lockVars
  ELSE /\ Goto(a, "evict")
       /\ mu' = a /\ after' = l
       /\ victims' = {entry[k] : k \in K}
RemoveSilently(a, K, l) == Goto(a, l) /\ UNCHANGED lockVars
RemoveUnlocked(a, K, l) ==
  /\ Goto(a, l)
  /\ victims' = victims \cup {entry[k] : k \in K \cap Cached}
  /\ UNCHANGED <<mu, after>>

\* The goroutine removes the keys of K and calls OnEvict for each, then goes
\* on at l.  It keeps the lock until the last callback has returned.
RemoveThen(a, K, l) ==
  IF K \cap Cached = {} THEN Goto(a, l) /\ UNCHANGED lockVars
  ELSE /\ Goto(a, "evict")
       /\ mu' = a /\ after' = l
       /\ victims' = {entry[k] : k \in K \cap Cached}

Delete(a, K, l) ==
  /\ Unlocked
  /\ RemoveThen(a, K, l)
  /\ entry' = [k \in Keys |-> IF k \in K THEN None ELSE entry[k]]
  /\ newer' = Without(K, newer)

\* A wrapper nothing refers to is garbage, and its name the next new one.
Unused(w) == /\ \A k \in Keys : entry[k] # w
             /\ \A c \in Calls : wrap[c] # w
             /\ w \notin victims
Fresh(w) == Unused(w) /\ \A v \in Wrappers : Unused(v) => w <= v

\* The values that are left: a step that drops a reference says so last.
Collect(st, ev) ==
  /\ result' = [w \in Wrappers |-> IF Unused(w)' THEN "none" ELSE result[w]]
  /\ wkey' = [w \in Wrappers |-> IF Unused(w)' THEN None ELSE wkey[w]]
  /\ stale' = {w \in st : ~Unused(w)'}
  /\ evicted' = {w \in ev : ~Unused(w)'}

\* The callback waits until the value is there; a failed one is not reported.
Evict(a) ==
  /\ At(a, "evict")
  /\ UNCHANGED <<callVars, sweepVars, lruVars, size>>
  /\ \E w \in victims :
       LET found == IF result[w] = "ok" THEN {w} ELSE {}
       IN  /\ result[w] # "pending"
           /\ victims' = victims \ {w}
           /\ IF victims = {w} THEN mu' = None /\ after' = "idle" /\ Goto(a, after)
                               ELSE UNCHANGED <<mu, after, pc>>
           /\ Collect(IF Watching THEN stale \cup found ELSE stale, evicted \cup found)

(***************************************************************************)
(* GetOrCreate.                                                            *)
(***************************************************************************)

Start(c, k, l, who) ==
  /\ Step(c, "idle", l)
  /\ key' = [key EXCEPT ![c] = k]
  /\ waits' = [waits EXCEPT ![c] = who]
  /\ UNCHANGED <<wrap, lockVars, sweepVars, lruVars, size, valueVars>>

Begin(c, k) ==
  /\ c \in Callers
  /\ Start(c, k, "get", Top)
  /\ UNCHANGED <<final, need>>

\* Partition.Get returns whatever is there.
Lookup(c, k) ==
  /\ c \in Callers \ TimesOut
  /\ Start(c, k, "find", Top)
  /\ final' = [final EXCEPT ![c] = TRUE]
  /\ UNCHANGED need

Hit(c) ==
  /\ pc[c] \in {"get", "find"}
  /\ Unlocked
  /\ entry[key[c]] # None
  /\ wrap' = [wrap EXCEPT ![c] = entry[key[c]]]
  /\ newer' = Touched(key[c], newer)
  /\ Goto(c, "wait")
  /\ UNCHANGED <<key, final, need, waits, lockVars, sweepVars, entry, size, valueVars>>

Answered(c) ==
  /\ Goto(c, "idle")
  /\ key' = [key EXCEPT ![c] = None] /\ wrap' = [wrap EXCEPT ![c] = None]
  /\ final' = [final EXCEPT ![c] = FALSE] /\ waits' = [waits EXCEPT ![c] = None]
  /\ UNCHANGED <<need, lockVars, sweepVars, lruVars, size>>
  /\ Collect(stale, evicted)

NotFound(c) ==
  /\ At(c, "find")
  /\ Unlocked
  /\ entry[key[c]] = None
  /\ Answered(c)

\* Fault: Get and Add are not one critical section.
MissUnchecked(c) ==
  /\ At(c, "get")
  /\ Unlocked
  /\ \E w \in Wrappers :
       /\ Fresh(w)
       /\ wrap' = [wrap EXCEPT ![c] = w]
       /\ result' = [result EXCEPT ![w] = "pending"]
       /\ wkey' = [wkey EXCEPT ![w] = key[c]]
       /\ entry' = [entry EXCEPT ![key[c]] = w]
  /\ newer' = Touched(key[c], newer)
  /\ need' = [need EXCEPT ![c] = Needs[key[c]]]
  /\ Goto(c, "create")
  /\ UNCHANGED <<key, final, waits, lockVars, sweepVars, size, stale, evicted>>

\* The entry goes in before its value is there, and the oldest may go out.
Miss(c) ==
  /\ At(c, "get")
  /\ Unlocked
  /\ entry[key[c]] = None
  /\ \E w \in Wrappers :
       LET out == Excess(Touched(key[c], newer), size) \ {key[c]}
       IN  /\ Fresh(w)
           /\ wrap' = [wrap EXCEPT ![c] = w]
           /\ result' = [result EXCEPT ![w] = "pending"]
           /\ wkey' = [wkey EXCEPT ![w] = key[c]]
           /\ entry' = [k \in Keys |-> IF k = key[c] THEN w
                                       ELSE IF k \in out THEN None ELSE entry[k]]
           /\ newer' = Without(out, Touched(key[c], newer))
           /\ RemoveThen(c, out, "create")
  /\ need' = [need EXCEPT ![c] = Needs[key[c]]]
  /\ UNCHANGED <<key, final, waits, sweepVars, size, stale, evicted>>

\* The create function asks the same partition for another key.
Asking(p) == \E c \in Calls : waits[c] = p
Nest(p, c) ==
  /\ At(p, "create") /\ ~Asking(p)
  /\ c \in Inner
  /\ \E k \in need[p] :
       /\ need' = [need EXCEPT ![p] = @ \ {k}]
       /\ Start(c, k, "get", p)
  /\ UNCHANGED final

\* Faults: a panic does not close(ready); a failure does not delete the entry.
CreatePanics(c, r) ==
  /\ At(c, "create") /\ ~Asking(c)
  /\ result' = IF r = "panic" THEN result ELSE [result EXCEPT ![wrap[c]] = r]
  /\ need' = [need EXCEPT ![c] = {}]
  /\ wrap' = IF r = "panic" THEN [wrap EXCEPT ![c] = None] ELSE wrap
  /\ key' = IF r = "panic" THEN [key EXCEPT ![c] = None] ELSE key
  /\ Goto(c, IF r = "ok" THEN "check" ELSE IF r = "err" THEN "undo" ELSE "idle")
  /\ UNCHANGED <<final, waits, lockVars, sweepVars, lruVars, size, wkey, stale, evicted>>
CreateKeepsError(c, r) ==
  /\ At(c, "create") /\ ~Asking(c)
  /\ result' = [result EXCEPT ![wrap[c]] = r]
  /\ need' = [need EXCEPT ![c] = {}]
  /\ Goto(c, "check")
  /\ UNCHANGED <<key, wrap, final, waits, lockVars, sweepVars, lruVars, size, wkey, stale,
                 evicted>>

\* close(ready) publishes the value or the error; after an error or a panic
\* the entry is deleted, in a step of its own.
Create(c, r) ==
  /\ At(c, "create") /\ ~Asking(c)
  /\ r = "ok" => need[c] = {}
  /\ result' = [result EXCEPT ![wrap[c]] = r]
  /\ need' = [need EXCEPT ![c] = {}]
  /\ Goto(c, IF r = "ok" THEN "check" ELSE "undo")
  /\ UNCHANGED <<key, wrap, final, waits, lockVars, sweepVars, lruVars, size, wkey, stale,
                 evicted>>

\* By key: whatever is there by then goes.
Undo(c) ==
  /\ At(c, "undo")
  /\ Delete(c, {key[c]}, "check")
  /\ UNCHANGED <<callVars, sweepVars, size, valueVars>>

Ready(c) ==
  /\ Step(c, "wait", "check")
  /\ result[wrap[c]] # "pending"
  /\ UNCHANGED <<callVars, lockVars, sweepVars, lruVars, size, valueVars>>

\* Partition.GetOrCreate looks at what it got once: a stale value is deleted
\* and asked for again, and the second answer is returned as it is.
GotStale(c) == /\ result[wrap[c]] = "ok" /\ wrap[c] \in stale
               /\ ~final[c] /\ waits[c] # None

Return(c) ==
  /\ At(c, "check")
  /\ ~GotStale(c)
  /\ Answered(c)

Discard(c) ==
  /\ Step(c, "check", "purge")
  /\ GotStale(c)
  /\ wrap' = [wrap EXCEPT ![c] = None]
  /\ final' = [final EXCEPT ![c] = TRUE]
  /\ UNCHANGED <<key, need, waits, lockVars, sweepVars, lruVars, size>>
  /\ Collect(stale, evicted)

Purge(c) ==
  /\ At(c, "purge")
  /\ Delete(c, {key[c]}, "get")
  /\ UNCHANGED <<callVars, sweepVars, size, valueVars>>

\* Fault: a call from inside a create function has no timer.
TimeoutOutermost(c) ==
  /\ c \in TimesOut /\ waits[c] = Top
  /\ pc[c] \in {"get", "wait", "create", "undo"}
  /\ waits' = [waits EXCEPT ![c] = None]
  /\ UNCHANGED <<pc, key, wrap, final, need, lockVars, sweepVars, lruVars, size, valueVars>>

\* GetOrCreateWitTimeout gives up on a call that runs on in its own goroutine.
Timeout(c) ==
  /\ c \in TimesOut /\ waits[c] # None
  /\ pc[c] \in {"get", "wait", "create", "undo"} \/ (At(c, "evict") /\ after # "get")
  /\ waits' = [waits EXCEPT ![c] = None]
  /\ UNCHANGED <<pc, key, wrap, final, need, lockVars, sweepVars, lruVars, size, valueVars>>

(***************************************************************************)
(* Clearing and resizing.                                                  *)
(***************************************************************************)

\* DeleteFunc takes the keys under the read lock ...
BeginSweep(s) ==
  /\ Step(s, "idle", "scan")
  /\ mu = None
  /\ readers' = readers \cup {s}
  /\ scan' = [scan EXCEPT ![s] = Cached]
  /\ hits' = [hits EXCEPT ![s] = {}]
  /\ UNCHANGED <<callVars, lockVars, lruVars, size, valueVars>>

\* ... and waits for each value before it asks whether it matches.
ScanKey(s) ==
  /\ At(s, "scan")
  /\ \E k \in scan[s] :
       /\ result[entry[k]] # "pending"
       /\ scan' = [scan EXCEPT ![s] = @ \ {k}]
       /\ \/ result[entry[k]] = "ok" /\ hits' = [hits EXCEPT ![s] = @ \cup {k}]
          \/ UNCHANGED hits
  /\ UNCHANGED <<pc, callVars, lockVars, readers, lruVars, size, valueVars>>

EndScan(s) ==
  /\ Step(s, "scan", "sweep")
  /\ scan[s] = {}
  /\ readers' = readers \ {s}
  /\ UNCHANGED <<callVars, lockVars, scan, hits, lruVars, size, valueVars>>

\* It deletes them by key, under the write lock.
Sweep(s) ==
  /\ At(s, "sweep")
  /\ Delete(s, hits[s], "idle")
  /\ hits' = [hits EXCEPT ![s] = {}]
  /\ UNCHANGED <<callVars, readers, scan, size, valueVars>>

\* adjustMaxSize.
Resize(n) ==
  /\ At(Ticker, "idle")
  /\ n # size /\ size' = n
  /\ Delete(Ticker, Excess(newer, n), "idle")
  /\ UNCHANGED <<callVars, sweepVars, valueVars>>

\* Somebody who has the value finds that what it was made from has changed.
MarkStale(w) ==
  /\ Watching
  /\ result[w] = "ok" /\ w \notin stale /\ ~Unused(w)
  /\ stale' = stale \cup {w}
  /\ UNCHANGED <<pc, callVars, lockVars, sweepVars, lruVars, size, result, wkey, evicted>>

(***************************************************************************)

CallNext(c) ==
  \/ Hit(c) \/ NotFound(c) \/ Miss(c) \/ Undo(c) \/ Ready(c) \/ Return(c) \/ Discard(c)
  \/ Purge(c)
  \/ \E r \in {"ok", "err", "panic"} : Create(c, r)
SweepNext(s) == ScanKey(s) \/ EndScan(s) \/ Sweep(s)

Next ==
  \/ \E c \in Calls : CallNext(c) \/ Timeout(c) \/ \E p \in Calls : Nest(p, c)
  \/ \E c \in Callers, k \in Keys : Begin(c, k) \/ Lookup(c, k)
  \/ \E s \in Sweepers : BeginSweep(s) \/ SweepNext(s)
  \/ \E n \in Sizes : Resize(n)
  \/ \E w \in Wrappers : MarkStale(w)
  \/ \E a \in Actors : Evict(a)

Spec == Init /\ [][Next]_vars

\* Goroutines keep running, a create function that asks for nothing returns,
\* a timer fires, and a lock that is free again and again is granted: Go's
\* RWMutex queues its writers.  Calls, sweeps and resizes may stop coming.
TakesLock(c) == Hit(c) \/ NotFound(c) \/ Miss(c) \/ Undo(c) \/ Purge(c)
Fairness ==
  /\ \A c \in Calls : /\ WF_vars(CallNext(c)) /\ SF_vars(TakesLock(c)) /\ WF_vars(Timeout(c))
                       /\ WF_vars(\E d \in Calls : Nest(c, d))
  /\ \A s \in Sweepers : WF_vars(SweepNext(s)) /\ SF_vars(Sweep(s))
  /\ \A a \in Actors : WF_vars(Evict(a))
FairSpec == Spec /\ Fairness

(***************************************************************************)
(* Properties.                                                             *)
(***************************************************************************)

Labels == {"idle", "get", "find", "wait", "create", "undo", "check", "purge", "evict",
           "scan", "sweep"}
Results == {"none", "pending", "ok", "err", "panic"}

DataOK ==
  /\ pc \in [Actors -> Labels]
  /\ key \in [Calls -> Keys \cup {None}] /\ wrap \in [Calls -> Wrappers \cup {None}]
  /\ need \in [Calls -> SUBSET Keys] /\ waits \in [Calls -> Calls \cup {Top, None}]
  /\ mu \in Actors \cup {None} /\ victims \subseteq Wrappers /\ after \in Labels
  /\ readers \subseteq Sweepers
  /\ scan \in [Sweepers -> SUBSET Keys] /\ hits \in [Sweepers -> SUBSET Keys]
  /\ entry \in [Keys -> Wrappers \cup {None}] /\ newer \subseteq Keys \X Keys
  /\ size \in Sizes
  /\ result \in [Wrappers -> Results] /\ wkey \in [Wrappers -> Keys \cup {None}]
  /\ stale \subseteq Wrappers /\ evicted \subseteq Wrappers

\* The type invariant: every variable of the partition keeps its type.
TypeOK == DataOK /\ final \in [Calls -> BOOLEAN]

Creating(c) == At(c, "create") \/ (At(c, "evict") /\ after = "create")

\* Whoever waits for a wrapper waits for exactly one call that is still going
\* to complete it: no wrapper is left pending by an eviction, a deletion, a
\* timeout or a failure, and none is completed twice.
PendingIsCreated ==
  /\ \A w \in Wrappers : result[w] = "pending" => \E c \in Calls : Creating(c) /\ wrap[c] = w
  /\ \A c, d \in Calls : Creating(c) /\ Creating(d) /\ wrap[c] = wrap[d] => c = d

\* GetOrCreate: create "is called once and then not called again for a given
\* key unless the cache entry is evicted".  It is not even called again while
\* it still runs for an entry that is evicted already, because OnEvict keeps
\* the cache locked until it has ended.
OneCreation ==
  \A c, d \in Calls : Creating(c) /\ Creating(d) /\ key[c] = key[d] => c = d

\* A failed value stays in the cache only until the call that failed has
\* deleted it, so a later call tries again.  The comment on GetOrCreate says
\* something else: see SameError.
FailuresUndone ==
  \A k \in Keys : entry[k] # None /\ result[entry[k]] \in {"err", "panic"}
                  => \E c \in Calls : At(c, "undo") /\ key[c] = k

\* GetOrCreate, by its comment: "any error returned by create will be returned
\* by GetOrCreate and repeated calls with the same key will receive the same
\* error".  So after a failure, with nothing evicted or cleared, no call
\* creates the key again.  Only the calls that have found the entry before it
\* is deleted get that error: this does not hold, and FailuresUndone does.
SameError ==
  \A k \in Keys :
    []((\E c \in Calls : At(c, "undo") /\ key[c] = k /\ result[wrap[c]] = "err")
       => []~(\E c \in Calls : Creating(c) /\ key[c] = k))

\* No value leaves the cache unnoticed: one that is gone has been handed to
\* OnEvict, which tells the next rebuild, or is about to be.  One that is in
\* the cache has not.
RemovalsNoticed ==
  \A w \in Wrappers : result[w] = "ok" =>
    IF entry[wkey[w]] = w THEN w \notin evicted \cup victims ELSE w \in evicted \cup victims

\* The partition never holds more than its size, whatever is pending.
SizeBound == Cardinality(Cached) <= size

\* Every call ends: nobody waits for a wrapper or the lock for ever, and a
\* goroutine whose caller has stopped waiting for it is not left behind.  This
\* needs creations that ask for no other key, or timeouts.
CallsEnd == \A c \in Calls : ~At(c, "idle") ~> At(c, "idle")

(***************************************************************************)
(* What all of this promises to the callers.                               *)
(***************************************************************************)

F == INSTANCE Flight WITH want <- key, flight <- wrap, subject <- wkey, current <- entry

\* The locking, the evictions and the retries implement the promise of Flight:
\* every answer comes from the one creation, for the key asked for, that the
\* call has started or joined.
ImplementsFlight == F!Spec
=============================================================================
