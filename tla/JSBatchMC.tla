----------------------------- MODULE JSBatchMC -----------------------------
(* Small instances of JSBatch: pages a and b, and the layout l of page a.   *)
EXTENDS JSBatch, TLC

CONSTANTS a, b, l, ga, gb, gl, sa, sa2, ra, sb, sl, ia, o1, o2

MCGroupOf == (sa :> ga) @@ (sa2 :> ga) @@ (ra :> ga) @@ (sb :> gb) @@ (sl :> gl)
MCScriptOf == (ia :> sa)

MCAlong == (a :> {l}) @@ (b :> {}) @@ (l :> {})

Sets(m) == [i \in Items |-> IF i \in DOMAIN m THEN m[i] ELSE None]

Nothing == [i \in Items |-> None]

\* A group for each setter.
OwnGroups ==
  (a :> {Nothing, Sets((sa :> o1) @@ (ia :> o1) @@ (ra :> o1)), Sets((sa :> o2) @@ (ia :> Empty)),
         Sets(sa2 :> o1)})
  @@ (b :> {Nothing, Sets(sb :> o1)})
  @@ (l :> {Nothing, Sets(sl :> o1)})

OwnFirst ==
  (a :> Sets((sa :> o1) @@ (ia :> o1) @@ (ra :> o1))) @@ (b :> Nothing) @@ (l :> Sets(sl :> o1))
=============================================================================
