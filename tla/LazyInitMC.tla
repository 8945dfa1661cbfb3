----------------------------- MODULE LazyInitMC -----------------------------
(* A site's menus and the data files, whose function is a child's.          *)
EXTENDS LazyInit, TLC

CONSTANTS menus, data, files, t1, t2

MCChild == (data :> files) @@ [i \in Inits |-> None]
=============================================================================
