------------------------------ MODULE FinderMC ------------------------------
(* A small instance of Finder.  Managers ma and mc are pages', mb is a      *)
(* resource's; va and vc are the pages, vb the resource, t a changed file.  *)
(* ff is what a template's use of the resource's link adds: the find-first  *)
(* provider of vb, a manager by itself that holds what mb holds.            *)
EXTENDS Finder, TLC

CONSTANTS ma, mb, mc, mw, t, va, vb, vc, ff, s1, s2

MCMatch == [x \in Changes |-> {x}]

MCCarries == (t :> None) @@ (va :> ma) @@ (vb :> mb) @@ (vc :> mc) @@ (ff :> mw)

MCFirst == [v \in Ids |-> IF v = ff THEN [id |-> vb, manager |-> mb] ELSE None]

MCGraphs ==
  {(ma :> x) @@ (mb :> y) @@ (mc :> z) @@ (mw :> y) :
     x \in {{vc}, {vb, vc}, {ff, vc}, {ff, vb}}, y \in SUBSET {t, vc},
     z \in {{}, {t}, {vb}, {ff}, {t, vb}}}

Symmetry == Permutations(Searchers)
=============================================================================
