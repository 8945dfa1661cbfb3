-------------------------- MODULE LazyCachePartsMC --------------------------
(* Two ways to use a partition, checked one after the other in any order:   *)
(* two calls share it while a sweeper clears it, and creations ask for      *)
(* their own key.  Either begins when the other has ended and left nothing. *)
EXTENDS LazyCacheMC

CONSTANTS kc, kd, c1, c2, c3

Left(actors, keys) ==
  (\A a \in actors : pc[a] = "idle") /\ (\A k \in keys : entry[k] = None)

MayShare == Left({c3} \cup Inner, {ka, kb})

\* Who asks for what: c2 needs no second key to meet c1 at one and apart.
May(c, k) ==
  \/ c = c1 /\ k \in {kc, kd} /\ MayShare
  \/ c = c2 /\ k = kd /\ MayShare
  \/ c = c3 /\ k \in {ka, kb} /\ Left({c1, c2} \cup Sweepers, {kc, kd})

\* For those that share, a panic leaves what an error leaves.
Outcomes(c) == IF c \in {c1, c2} THEN {"ok", "err"} ELSE {"ok", "err", "panic"}

PartsNext ==
  \/ \E c \in Calls :
       \/ Hit(c) \/ NotFound(c) \/ Miss(c) \/ Undo(c) \/ Ready(c) \/ Return(c)
       \/ Discard(c) \/ Purge(c) \/ Timeout(c)
       \/ \E p \in Calls : Nest(p, c)
       \/ \E r \in Outcomes(c) : Create(c, r)
  \/ \E c \in Callers, k \in Keys : May(c, k) /\ Begin(c, k)
  \/ \E c \in Callers \ {c2}, k \in Keys : May(c, k) /\ Lookup(c, k)
  \/ \E s \in Sweepers : (MayShare /\ BeginSweep(s)) \/ SweepNext(s)
  \/ \E w \in Wrappers : MarkStale(w)
  \/ \E a \in Actors : Evict(a)

\* The steps of Next that are not in PartsNext begin a call or a sweep, which
\* Fairness does not ask for, or end a creation in a way it may choose.
PartsSpec == Init /\ [][PartsNext]_vars /\ Fairness
=============================================================================
