---------------------------- MODULE AssemblerMC ----------------------------
(* Small instances of Assembler: a home page, a section S with page p, and  *)
(* a section T below S with page q.                                         *)
EXTENDS Assembler, TLC

CONSTANTS h, S, T, p, q, tag, x, all, v1, v2

MCParent == (S :> h) @@ (T :> S) @@ (p :> S) @@ (q :> T)

MCTakes == [mm \in Matchers |-> Kinds]

MCSite == [mm \in Matchers |-> None]

Cascading(v) == [Blank EXCEPT !.cascade = [mm \in Matchers |-> [pp \in Params |-> v]]]
Tagged == [Blank EXCEPT !.tags = Terms]

(* S changes what it cascades; p can be a draft and can fail to render.     *)
MCSources ==
  (h :> {None})
  @@ (S :> {Cascading(v1), Cascading(v2), None, [Blank EXCEPT !.bad = "parse"]})
  @@ (T :> {Blank, None})
  @@ (p :> {Tagged, [Blank EXCEPT !.date = 1],
            [Tagged EXCEPT !.draft = TRUE, !.date = 3], [Tagged EXCEPT !.bad = "render"]})
  @@ (q :> {[Tagged EXCEPT !.date = 2], Blank, None})

MCFirstFile == (h :> None) @@ (S :> Cascading(v1)) @@ (T :> Blank) @@ (p :> Tagged) @@ (q :> Blank)

(* T has a cascade of its own, for a parameter or for none.                 *)
NestedSources ==
  (h :> {None}) @@ (S :> {Cascading(v1), Cascading(v2)}) @@ (T :> {Cascading(None)})
  @@ (p :> {Blank}) @@ (q :> {Blank, Tagged})

NestedFirst == (h :> None) @@ (S :> Cascading(v1)) @@ (T :> Cascading(None)) @@ (p :> Blank) @@ (q :> Blank)
=============================================================================
