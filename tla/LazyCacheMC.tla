---------------------------- MODULE LazyCacheMC ----------------------------
(* Model checking of LazyCache: what creating each key needs.               *)
EXTENDS LazyCache, TLC

CONSTANTS ka, kb

NoNeeds == [k \in Keys |-> {}]
\* The value of ka is made from that of kb.
Chain == [k \in Keys |-> IF k = ka THEN {kb} ELSE {}]
\* A page whose content contains its own and another page's.
Itself == [k \in Keys |-> IF k = ka THEN {ka, kb} ELSE {}]

Symmetry == Permutations(Callers)
=============================================================================
