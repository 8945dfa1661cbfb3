---------------------------- MODULE FileCacheMC ----------------------------
(* A cache of images, one of rendered math or remote data, and one of       *)
(* transformed resources, with three users each.                            *)
EXTENDS FileCache, TLC

CONSTANTS u1, u2, u3, fi, fm, fc

For(how, f) == [how |-> how, file |-> f]

MCTasks ==
  {(u1 :> For(how, fi)) @@ (u2 :> For(how, fi)) @@ (u3 :> For(how, fc)) :
     how \in {"readOrCreate", "getOrCreate"}}
  \cup {(u1 :> For("writePair", fm)) @@ (u2 :> For("writePair", fm)) @@ (u3 :> For("readPair", fm))}
=============================================================================
