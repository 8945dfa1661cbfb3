----------------------------- MODULE DeferredMC -----------------------------
(* Small instances of Deferred: page x as HTML and as AMP, and page y.  The *)
(* layout is of both pages' HTML.                                           *)
EXTENDS Deferred, TLC

CONSTANTS xhtml, yhtml, xamp, k1, k2, k3, fx, fy, layout, css

PageStage == (xhtml :> 1) @@ (yhtml :> 1) @@ (xamp :> 2)

\* The two pages share a key; the AMP block is in the page's content.
PageBlock == (xhtml :> k1) @@ (yhtml :> k1) @@ (xamp :> k3)
PageWhere == (k1 :> "template") @@ (k2 :> "template") @@ (k3 :> "content")
PageReads == (xhtml :> {fx, layout}) @@ (yhtml :> {layout}) @@ (xamp :> {fx})
PageText == (k1 :> {}) @@ (k2 :> {}) @@ (k3 :> {fx})
PageAsset == [k \in Blocks |-> css]

\* Both formats of page x use one cached partial, and so does page y.
PartialBlock == (xhtml :> k3) @@ (yhtml :> k2) @@ (xamp :> k3)
PartialWhere == (k1 :> "template") @@ (k2 :> "template") @@ (k3 :> "partial")
=============================================================================
