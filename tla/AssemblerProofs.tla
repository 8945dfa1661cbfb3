--------------------------- MODULE AssemblerProofs ---------------------------
(* Theorems about Assembler, for any tree of keys, files, cascades and      *)
(* number of edits.                                                         *)
EXTENDS Assembler, FiniteSetTheorems, WellFoundedInduction, TLAPS

\* A function g on keys K, with each key's way home, that has the value B gives
\* for a key from the value of the key above it; S are the values.
PartWay(up, S, B, H, K, g) ==
  /\ K \subseteq Keys /\ g \in [K -> S]
  /\ \A k \in K : k # Home => up[k] \in K
  /\ \A k \in K : g[k] = B[k][IF k = Home THEN H ELSE g[up[k]]]

UpTheTree(up) == LeadsHome(up) /\ \A k \in Keys \ {Home} : up[k] \in Keys

Stays(B, S) == \A k \in Keys : \A s \in S : B[k][s] \in S

Follows(up, B, H, g) == \A k \in Keys : g[k] = B[k][IF k = Home THEN H ELSE g[up[k]]]

\* From home down, a value for every key: what a recursion on the tree defines.
LEMMA DownTheTree ==
  ASSUME NEW up, UpTheTree(up), NEW S, NEW H \in S, NEW B, Stays(B, S)
  PROVE  \E g \in [Keys -> S] : Follows(up, B, H, g)
<1> USE DEF UpTheTree, Stays
<1> DEFINE Rest == {R \in SUBSET Keys : \E g : PartWay(up, S, B, H, Keys \ R, g)}
<1>1. Keys \in Rest
  <2>1. PartWay(up, S, B, H, {}, [k \in {} |-> H])
    BY DEF PartWay
  <2>2. Keys \ Keys = {} /\ Keys \in SUBSET Keys
    OBVIOUS
  <2> QED BY <2>1, <2>2
<1>2. PICK R \in Rest : \A Q \in Rest : ~(<<Q, R>> \in StrictSubsetOrdering(Keys))
  <2>1. Rest \subseteq FiniteSubsetsOf(Keys)
    BY AssemblerAssumption, FS_Subset DEF FiniteSubsetsOf
  <2>2. IsWellFoundedOn(StrictSubsetOrdering(Keys), FiniteSubsetsOf(Keys))
    BY FS_StrictSubsetOrderingWellFounded
  <2> HIDE DEF Rest
  <2> QED BY <1>1, <2>1, <2>2, WFMin
<1>3. PICK g : PartWay(up, S, B, H, Keys \ R, g)
  OBVIOUS
<1>4. R = {}
  <2> SUFFICES ASSUME R # {} PROVE FALSE
    OBVIOUS
  <2>1. R \in SUBSET Keys
    OBVIOUS
  <2>2. PICK k \in R : k = Home \/ up[k] \notin R
    BY <2>1 DEF LeadsHome
  <2> DEFINE K == Keys \ R
             v == B[k][IF k = Home THEN H ELSE g[up[k]]]
             h == [j \in K \cup {k} |-> IF j = k THEN v ELSE g[j]]
  <2>3. k \in Keys /\ k \notin K /\ (k # Home => up[k] \in K)
    BY <2>1, <2>2
  <2>4. v \in S
    BY <1>3, <2>3 DEF PartWay
  <2>5. PartWay(up, S, B, H, K \cup {k}, h)
    <3>1. K \cup {k} \subseteq Keys /\ (\A j \in K \cup {k} : j # Home => up[j] \in K \cup {k})
      BY <1>3, <2>3 DEF PartWay
    <3>2. h \in [K \cup {k} -> S]
      BY <1>3, <2>4 DEF PartWay
    <3>3. ASSUME NEW j \in K \cup {k}
          PROVE  h[j] = B[j][IF j = Home THEN H ELSE h[up[j]]]
      <4>1. j # Home => up[j] \in K /\ h[up[j]] = g[up[j]]
        BY <1>3, <2>3 DEF PartWay
      <4>2. CASE j = k
        BY <4>1, <4>2
      <4>3. CASE j # k
        BY <4>1, <4>3, <1>3 DEF PartWay
      <4> QED BY <4>2, <4>3
    <3> QED BY <3>1, <3>2, <3>3 DEF PartWay
  <2>6. R \ {k} \in SUBSET Keys /\ Keys \ (R \ {k}) = K \cup {k}
    BY <2>1, <2>3
  <2>7. R \ {k} \in Rest
    <3> HIDE DEF h
    <3> QED BY <2>5, <2>6
  <2>8. <<R \ {k}, R>> \in StrictSubsetOrdering(Keys)
    BY <2>1, <2>2 DEF StrictSubsetOrdering
  <2> QED BY <1>2, <2>7, <2>8
<1>5. Keys \ R = Keys
  BY <1>4
<1> QED BY <1>3, <1>5 DEF PartWay, Follows

\* The branches a key is in: its parent's, and its parent.
LEMMA AncestorsOf ==
  /\ Ancestors \in [Keys -> SUBSET Branches]
  /\ \A k \in Keys : Ancestors[k] = IF k = Home THEN {} ELSE {Parent[k]} \cup Ancestors[Parent[k]]
<1> DEFINE S == SUBSET Branches
           B == [k \in Keys |-> [s \in S |-> IF k = Home THEN {} ELSE {Parent[k]} \cup s]]
<1>1. Stays(B, S)
  BY AssemblerAssumption DEF Stays
<1>2. \A k \in Keys \ {Home} : Parent[k] \in Keys
  BY AssemblerAssumption DEF Keys
<1>3. {} \in S
  OBVIOUS
<1>4. LeadsHome(Parent)
  BY AssemblerAssumption
<1>5. PICK g \in [Keys -> S] : Follows(Parent, B, {}, g)
  <2> HIDE DEF S, B
  <2>1. UpTheTree(Parent)
    BY <1>2, <1>4 DEF UpTheTree
  <2> QED BY <1>1, <1>3, <2>1, DownTheTree
<1>6. \A k \in Keys : g[k] = IF k = Home THEN {} ELSE {Parent[k]} \cup g[Parent[k]]
  <2> TAKE k \in Keys
  <2>1. (IF k = Home THEN {} ELSE g[Parent[k]]) \in S
    BY <1>2
  <2> QED BY <1>5, <2>1 DEF Follows
<1>7. g = [k \in Keys |-> IF k = Home THEN {} ELSE {Parent[k]} \cup g[Parent[k]]]
  BY <1>6
<1>8. Ancestors = [k \in Keys |-> IF k = Home THEN {} ELSE {Parent[k]} \cup Ancestors[Parent[k]]]
  BY <1>7 DEF Ancestors
<1>9. \A k \in Keys : Ancestors[k] = IF k = Home THEN {} ELSE {Parent[k]} \cup Ancestors[Parent[k]]
  BY <1>8
<1>10. \A k \in Keys : Ancestors[k] \in SUBSET Branches
  <2> SUFFICES ASSUME \E k \in Keys : Ancestors[k] \notin SUBSET Branches PROVE FALSE
    OBVIOUS
  <2>1. PICK k \in {j \in Keys : Ancestors[j] \notin SUBSET Branches} :
          k = Home \/ Parent[k] \notin {j \in Keys : Ancestors[j] \notin SUBSET Branches}
    BY <1>4 DEF LeadsHome
  <2>2. CASE k = Home
    BY <1>9, <2>1, <2>2
  <2>3. CASE k # Home
    <3>1. Parent[k] \in Branches /\ Ancestors[Parent[k]] \subseteq Branches
      BY <1>2, <2>1, <2>3, AssemblerAssumption DEF Keys
    <3> QED BY <1>9, <2>1, <2>3, <3>1
  <2> QED BY <2>2, <2>3
<1> QED BY <1>8, <1>9, <1>10

\* What is above what is above a key is above it.
LEMMA AncestorsOfAncestors ==
  \A k \in Keys : \A j \in Ancestors[k] : Ancestors[j] \subseteq Ancestors[k]
<1> DEFINE Bad == {k \in Keys : ~(\A j \in Ancestors[k] : Ancestors[j] \subseteq Ancestors[k])}
<1> SUFFICES ASSUME Bad # {} PROVE FALSE
  OBVIOUS
<1>1. PICK k \in Bad : k = Home \/ Parent[k] \notin Bad
  BY AssemblerAssumption DEF LeadsHome
<1>2. Ancestors[k] = IF k = Home THEN {} ELSE {Parent[k]} \cup Ancestors[Parent[k]]
  BY AncestorsOf
<1>3. k # Home /\ Parent[k] \in Keys
  BY <1>2, AssemblerAssumption DEF Keys
<1> QED BY <1>1, <1>2, <1>3

\* Newest is the largest of a finite set of dates.
LEMMA NewestOf ==
  ASSUME NEW D \in SUBSET Nat, IsFiniteSet(D)
  PROVE  /\ Newest(D) \in Nat
         /\ D # {} => Newest(D) \in D /\ \A e \in D : e <= Newest(D)
<1>1. ASSUME D # {} PROVE \E d \in D : \A e \in D : e <= d
  <2> SUFFICES ASSUME \A d \in D : \E e \in D : ~(e <= d) PROVE FALSE
    OBVIOUS
  <2> DEFINE Later(d) == {e \in D : ~(e <= d)}
             L == {Later(d) : d \in D}
  <2>0. \A d \in D : Later(d) \in FiniteSubsetsOf(D)
    <3> TAKE d \in D
    <3>1. Later(d) \in SUBSET D
      OBVIOUS
    <3>2. IsFiniteSet(Later(d))
      BY <3>1, FS_Subset
    <3> QED BY <3>1, <3>2 DEF FiniteSubsetsOf
  <2>1. L \subseteq FiniteSubsetsOf(D) /\ L # {}
    <3> HIDE DEF Later
    <3> QED BY <1>1, <2>0
  <2>2. PICK l \in L : \A m \in L : ~(<<m, l>> \in StrictSubsetOrdering(D))
    <3> HIDE DEF L
    <3> QED BY <2>1, FS_StrictSubsetOrderingWellFounded, WFMin
  <2>3. PICK d \in D : l = Later(d)
    BY <2>2
  <2>4. PICK e \in D : ~(e <= d)
    OBVIOUS
  <2>5. Later(e) \subseteq Later(d) /\ e \in Later(d) /\ e \notin Later(e)
    <3>1. \A i \in D : i \in Nat
      OBVIOUS
    <3>2. ASSUME NEW i \in D, ~(i <= e) PROVE ~(i <= d)
      <4>1. i \in Nat /\ e \in Nat /\ d \in Nat
        BY <3>1
      <4> QED BY <4>1, <3>2, <2>4
    <3>3. e <= e
      BY <3>1
    <3> QED BY <2>4, <3>2, <3>3
  <2>6. <<Later(e), Later(d)>> \in StrictSubsetOrdering(D) /\ Later(e) \in L
    BY <2>5 DEF StrictSubsetOrdering
  <2> QED BY <2>2, <2>3, <2>6
<1> QED BY <1>1 DEF Newest

\* The values of a table at finitely many keys are finitely many.
LEMMA FewValues ==
  ASSUME NEW K, IsFiniteSet(K), NEW f
  PROVE  IsFiniteSet({f[k] : k \in K})
<1> DEFINE h == [k \in K |-> f[k]]
<1>1. h \in Surjection(K, {f[k] : k \in K})
  BY DEF Surjection
<1> QED BY <1>1, FS_Surjection

\* What the walk hands on.
Visits == [node : Nodes \cup {None}, changed : BOOLEAN, down : Compiled,
           maps : [Keys -> Cascades \cup {None}]]

TreeOK == node \in [Keys -> Nodes \cup {None}]

\* What is used of the assumption again and again.
LEMMA Basics ==
  /\ Home \in Keys /\ Branches \subseteq Keys /\ Pages \subseteq Keys /\ Home \notin Pages
  /\ \A k \in Keys \ {Home} : Parent[k] \in Keys /\ Prefix[k] \in Keys
  /\ UpTheTree(Parent) /\ UpTheTree(Prefix)
  /\ SiteCascade \in Cascades
BY AssemblerAssumption DEF Keys, UpTheTree

LEMMA BlankFile == Blank \in FileContents /\ NoParams \in ParamMaps
BY DEF Blank, FileContents, NoParams, ParamMaps

LEMMA FreshNode ==
  ASSUME NEW k \in Keys, NEW f \in FileContents
  PROVE  /\ Fresh(k, f) \in Nodes /\ Fresh(k, f) # None
         /\ Fresh(k, f).file = f /\ Fresh(k, f).old = FALSE /\ Fresh(k, f).inner = f.cascade
         /\ Fresh(k, f).compiled = None /\ Fresh(k, f).date = f.date /\ Fresh(k, f).off = FALSE
         /\ Fresh(k, f).params = f.own
         /\ Fresh(k, f).kind = KindOf(k)
<1>1. /\ f.cascade \in Cascades \cup {None} /\ f.own \in ParamMaps /\ f.date \in Nat
  BY DEF FileContents
<1>2. KindOf(k) \in Kinds
  BY DEF KindOf, Kinds
<1>3. Fresh(k, f) \in Nodes
  BY <1>1, <1>2 DEF Fresh, Nodes
<1> QED BY <1>3, AssemblerAssumption DEF Fresh

LEMMA ApplyType ==
  ASSUME NEW own \in ParamMaps, NEW maps, NEW kind
  PROVE  Apply(own, maps, kind) \in ParamMaps
BY DEF Apply, ParamMaps

LEMMA OverType ==
  ASSUME NEW own \in ParamMaps, NEW above \in ParamMaps
  PROVE  Over(own, above) \in ParamMaps
BY DEF Over, ParamMaps

\* The parts of setMetaPost: the page's own maps, and the compiled cascade.
Merged(n, above) == IF n.inner = None THEN None
                    ELSE [m \in Matchers |->
                            IF n.inner[m] = None \/ above[m] = None THEN n.inner[m]
                            ELSE Over(n.inner[m], above[m].map)]

Compile(k, n, above) == IF n.inner = None THEN above
                        ELSE [m \in Matchers |-> IF Merged(n, above)[m] = None THEN above[m]
                                                 ELSE Entry(k, Merged(n, above)[m])]

CascadeMoves(k, n, above, before) == n.old /\ before # Maps(Compile(k, n, above))

LEMMA CompileType ==
  ASSUME NEW k \in Keys, NEW n \in Nodes, NEW above \in Compiled
  PROVE  /\ Merged(n, above) \in Cascades \cup {None}
         /\ Merged(n, above) = None <=> n.inner = None
         /\ Compile(k, n, above) \in Compiled /\ Compile(k, n, above) # None
<1>1. n.inner \in Cascades \cup {None}
  BY DEF Nodes
<1>2. \A m \in Matchers : above[m] \in CascadeEntries \cup {None}
  BY DEF Compiled
<1>3. \A m \in Matchers : above[m] # None => above[m].map \in ParamMaps
  BY <1>2 DEF CascadeEntries
<1>4. n.inner # None => Merged(n, above) \in Cascades
  <2> SUFFICES ASSUME n.inner # None, NEW m \in Matchers
               PROVE  (IF n.inner[m] = None \/ above[m] = None THEN n.inner[m]
                       ELSE Over(n.inner[m], above[m].map)) \in ParamMaps \cup {None}
    BY DEF Merged, Cascades
  <2>1. n.inner[m] \in ParamMaps \cup {None}
    BY <1>1 DEF Cascades
  <2> QED BY <2>1, <1>3, OverType
<1>5. Compile(k, n, above) \in Compiled
  <2>1. CASE n.inner = None
    BY <2>1 DEF Compile
  <2>2. CASE n.inner # None
    <3>1. \A m \in Matchers : Merged(n, above)[m] \in ParamMaps \cup {None}
      BY <1>4, <2>2 DEF Cascades
    <3>2. \A m \in Matchers : Merged(n, above)[m] # None =>
             Entry(k, Merged(n, above)[m]) \in CascadeEntries
      BY <3>1 DEF Entry, CascadeEntries
    <3> QED BY <2>2, <3>2, <1>2 DEF Compile, Compiled
  <2> QED BY <2>1, <2>2
<1> QED BY <1>4, <1>5, AssemblerAssumption DEF Merged

\* What setMetaPost makes of a page, case by case.
LEMMA SetMetaPostIs ==
  ASSUME NEW k \in Keys, NEW n \in Nodes, NEW above \in Compiled, NEW before
  PROVE  LET r == SetMetaPost(k, n, above, before)
             c == Compile(k, n, above)
             ch == CascadeMoves(k, n, above, before)
         IN  /\ r.node \in Nodes /\ r.node # None /\ r.changed = ch /\ r.changed \in BOOLEAN
             /\ r.node.file = n.file /\ r.node.old = TRUE
             /\ r.node.inner = Merged(n, above) /\ r.node.date = n.file.date
             /\ r.node.off = (IF n.old /\ ~ch THEN n.off ELSE FALSE)
             /\ r.node.kind = (IF ch THEN "" ELSE n.kind)
             /\ r.node.compiled = (IF ch THEN None ELSE c)
             /\ n.old /\ ~ch => r.node.params = n.params
             /\ ~(n.old /\ ~ch) => r.node.params = Apply(n.file.own, Maps(c), r.node.kind)
<1> DEFINE c == Compile(k, n, above)
           ch == CascadeMoves(k, n, above, before)
           r == SetMetaPost(k, n, above, before)
           kind == IF n.old THEN "" ELSE n.kind
           kept == [n EXCEPT !.inner = Merged(n, above), !.compiled = c, !.date = n.file.date]
           new == [n EXCEPT !.inner = Merged(n, above), !.old = TRUE, !.kind = kind,
                            !.compiled = IF n.old THEN None ELSE c,
                            !.params = Apply(OwnParams(n), Maps(c), kind),
                            !.date = n.file.date, !.off = FALSE]
<1>1. r = [node |-> IF n.old /\ ~ch THEN kept ELSE new, changed |-> ch]
  BY DEF SetMetaPost, Compile, Merged, CascadeMoves
<1>2. /\ n.file \in FileContents /\ n.file.own \in ParamMaps /\ n.file.date \in Nat
      /\ n.old \in BOOLEAN /\ n.kind \in Kinds
  BY DEF Nodes, FileContents
<1>3. Apply(OwnParams(n), Maps(c), kind) \in ParamMaps
  BY <1>2, ApplyType DEF OwnParams
<1>4. Merged(n, above) \in Cascades \cup {None} /\ c \in Compiled
  BY CompileType
<1>5. n = [file |-> n.file, kind |-> n.kind, old |-> n.old, inner |-> n.inner,
           compiled |-> n.compiled, params |-> n.params, date |-> n.date, off |-> n.off]
  BY DEF Nodes
<1> HIDE DEF c, ch, r
<1>6. kept \in Nodes
  BY <1>2, <1>4 DEF Nodes
<1>7. kind \in Kinds
  BY <1>2 DEF Kinds
<1>8. new \in Nodes
  <2> HIDE DEF kind
  <2> QED BY <1>2, <1>3, <1>4, <1>7 DEF Nodes
<1>9. ch \in BOOLEAN /\ (ch => n.old)
  BY DEF ch, CascadeMoves
<1>10. CASE n.old /\ ~ch
  <2>1. r.node = kept /\ r.changed = ch
    BY <1>1, <1>10
  <2>2. /\ kept.file = n.file /\ kept.old = n.old /\ kept.inner = Merged(n, above)
        /\ kept.date = n.file.date /\ kept.off = n.off /\ kept.kind = n.kind
        /\ kept.compiled = c /\ kept.params = n.params
    BY <1>5
  <2> HIDE DEF kept, new, kind
  <2>3. kept # None
    BY <1>6, AssemblerAssumption
  <2> QED BY <1>2, <1>6, <1>9, <1>10, <2>1, <2>2, <2>3 DEF c, ch, r
<1>11. CASE ~(n.old /\ ~ch)
  <2>1. r.node = new /\ r.changed = ch
    BY <1>1, <1>11
  <2>2. /\ new.file = n.file /\ new.old = TRUE /\ new.inner = Merged(n, above)
        /\ new.date = n.file.date /\ new.off = FALSE /\ new.kind = kind
        /\ new.compiled = (IF n.old THEN None ELSE c)
        /\ new.params = Apply(OwnParams(n), Maps(c), kind)
    BY <1>5
  <2>3. kind = (IF ch THEN "" ELSE n.kind)
    BY <1>9, <1>11
  <2>4. n.old = ch
    BY <1>2, <1>9, <1>11
  <2> HIDE DEF kept, new, kind
  <2>5. new # None
    BY <1>8, AssemblerAssumption
  <2> QED BY <1>8, <1>9, <1>11, <2>1, <2>2, <2>3, <2>4, <2>5 DEF c, ch, r, OwnParams
<1> QED BY <1>10, <1>11

LEMMA PresentNode ==
  ASSUME TreeOK, NEW k \in Keys
  PROVE  /\ Present(k) \in Nodes \cup {None}
         /\ Missing(k) => node[k] = None /\ k \in Branches
         /\ Missing(k) => Present(k) # None /\ Present(k) = Fresh(k, Blank)
         /\ ~Missing(k) => Present(k) = node[k]
<1>1. Missing(k) => node[k] = None /\ k \in Branches
  BY AssemblerAssumption DEF Missing
<1>2. Fresh(k, Blank) \in Nodes /\ Fresh(k, Blank) # None
  BY BlankFile, FreshNode
<1>3. node[k] \in Nodes \cup {None}
  BY DEF TreeOK
<1> QED BY <1>1, <1>2, <1>3 DEF Present

\* One page of the walk.
LEMMA VisitIs ==
  ASSUME TreeOK, NEW k \in Keys, NEW above,
         above.down \in Compiled, above.maps \in [Keys -> Cascades \cup {None}]
  PROVE  LET n == Present(k)
             r == SetMetaPost(k, n, above.down, HeldNow(n, above.maps))
             v == Visit(k, above)
         IN  /\ v \in Visits
             /\ n = None => /\ v.node = None /\ v.changed = FALSE
                            /\ v.down = above.down /\ v.maps = above.maps
             /\ n # None => /\ n \in Nodes /\ v.node = r.node /\ v.changed = r.changed
                            /\ v.down = (IF r.node.kind = "page" \/ r.node.compiled = None
                                         THEN above.down ELSE r.node.compiled)
                            /\ v.maps = [above.maps EXCEPT ![k] = r.node.inner]
<1> DEFINE n == Present(k)
           r == SetMetaPost(k, n, above.down, HeldNow(n, above.maps))
           d == IF r.node.kind = "page" \/ r.node.compiled = None THEN above.down
                ELSE r.node.compiled
           mp == [above.maps EXCEPT ![k] = r.node.inner]
<1>1. above.down \in Compiled /\ above.maps \in [Keys -> Cascades \cup {None}]
  OBVIOUS
<1>2. n \in Nodes \cup {None}
  BY PresentNode
<1>3. CASE n = None
  <2>1. Visit(k, above) = [node |-> None, changed |-> FALSE, down |-> above.down,
                           maps |-> above.maps]
    BY <1>3 DEF Visit
  <2> QED BY <1>1, <1>3, <2>1 DEF Visits
<1>4. CASE n # None
  <2>1. Visit(k, above) = [node |-> r.node, changed |-> r.changed, down |-> d, maps |-> mp]
    BY <1>4 DEF Visit
  <2>2. n \in Nodes
    BY <1>2, <1>4
  <2>3. r.node \in Nodes /\ r.changed \in BOOLEAN
    <3> HIDE DEF n
    <3> QED BY <1>1, <2>2, SetMetaPostIs
  <2>4. d \in Compiled /\ mp \in [Keys -> Cascades \cup {None}]
    <3> HIDE DEF r
    <3>1. r.node.inner \in Cascades \cup {None} /\ r.node.compiled \in Compiled \cup {None}
      BY <2>3 DEF Nodes
    <3> QED BY <1>1, <3>1
  <2> HIDE DEF r, d, mp, n
  <2>5. Visit(k, above) \in Visits
    BY <2>1, <2>3, <2>4 DEF Visits
  <2> QED BY <1>4, <2>1, <2>2, <2>5 DEF r, d, mp, n
<1> QED BY <1>3, <1>4


LEMMA TopType ==
  ASSUME TreeOK
  PROVE  Top.down = SiteEntries /\ Top.down \in Compiled /\ Top.maps \in [Keys -> Cascades \cup {None}]
<1>1. SiteEntries \in Compiled
  <2>1. \A m \in Matchers : SiteCascade[m] \in ParamMaps \cup {None}
    BY AssemblerAssumption DEF Cascades
  <2>2. \A m \in Matchers : SiteCascade[m] # None => Entry(None, SiteCascade[m]) \in CascadeEntries
    BY <2>1 DEF Entry, CascadeEntries
  <2> QED BY <2>2 DEF SiteEntries, Compiled
<1>2. \A k \in Keys : node[k] # None => node[k].inner \in Cascades \cup {None}
  BY DEF TreeOK, Nodes
<1> QED BY <1>1, <1>2 DEF Top

\* The walk is what its recursion says, and its values have their types.
LEMMA WalkIs ==
  ASSUME TreeOK
  PROVE  /\ Walk \in [Keys -> Visits]
         /\ \A k \in Keys : Walk[k] = Visit(k, IF k = Home THEN Top ELSE Walk[Prefix[k]])
<1> DEFINE S == Visits \cup {Top}
           B == [k \in Keys |-> [above \in S |-> Visit(k, above)]]
<1>1. \A above \in S : above.down \in Compiled /\ above.maps \in [Keys -> Cascades \cup {None}]
  BY TopType DEF Visits
<1>2. \A k \in Keys : \A above \in S : Visit(k, above) \in Visits
  <2> TAKE k \in Keys
  <2> TAKE above \in S
  <2>1. above.down \in Compiled /\ above.maps \in [Keys -> Cascades \cup {None}]
    BY <1>1
  <2> HIDE DEF S
  <2> QED BY <2>1, VisitIs
<1>3. Stays(B, S)
  BY <1>2 DEF Stays
<1>4. PICK g \in [Keys -> S] : Follows(Prefix, B, Top, g)
  <2>1. Top \in S
    OBVIOUS
  <2> HIDE DEF S, B
  <2> QED BY <1>3, <2>1, Basics, DownTheTree
<1>5. \A k \in Keys : (IF k = Home THEN Top ELSE g[Prefix[k]]) \in S
  <2> TAKE k \in Keys
  <2>1. k # Home => Prefix[k] \in Keys
    BY Basics
  <2> QED BY <2>1
<1>6. \A k \in Keys : g[k] = Visit(k, IF k = Home THEN Top ELSE g[Prefix[k]])
  <2> TAKE k \in Keys
  <2>1. g[k] = B[k][IF k = Home THEN Top ELSE g[Prefix[k]]]
    <3> HIDE DEF B
    <3> QED BY <1>4 DEF Follows
  <2>2. \A above \in S : B[k][above] = Visit(k, above)
    <3> HIDE DEF S
    <3> QED OBVIOUS
  <2> HIDE DEF B, S
  <2> QED BY <1>5, <2>1, <2>2
<1>7. g = [k \in Keys |-> Visit(k, IF k = Home THEN Top ELSE g[Prefix[k]])]
  <2> HIDE DEF S
  <2> QED BY <1>6
<1>8. Walk = [k \in Keys |-> Visit(k, IF k = Home THEN Top ELSE Walk[Prefix[k]])]
  BY <1>7 DEF Walk
<1>9. ASSUME NEW k \in Keys PROVE Walk[k] = Visit(k, IF k = Home THEN Top ELSE Walk[Prefix[k]])
  BY <1>8
<1>10. \A k \in Keys : Walk[k] \in Visits
  <2> DEFINE Bad == {k \in Keys : Walk[k] \notin Visits}
  <2> SUFFICES ASSUME Bad # {} PROVE FALSE
    OBVIOUS
  <2>1. PICK k \in Bad : k = Home \/ Prefix[k] \notin Bad
    BY Basics DEF UpTheTree, LeadsHome
  <2>2. (IF k = Home THEN Top ELSE Walk[Prefix[k]]) \in S
    BY <2>1, Basics
  <2>3. Walk[k] \in Visits
    <3> HIDE DEF S
    <3> QED BY <1>2, <1>9, <2>2
  <2> QED BY <2>1, <2>3
<1> QED BY <1>8, <1>9, <1>10

\* A date from below, for every page that is there.
LEMMA DateUpType ==
  ASSUME TreeOK, NEW k \in Keys, Walk[k].node # None
  PROVE  DateUp(k) \in Nat
<1> DEFINE D == {Walk[j].node.date : j \in {i \in Under(k) : Walk[i].node # None}}
<1>1. \A j \in Keys : Walk[j].node \in Nodes \cup {None}
  BY WalkIs DEF Visits
<1>2. \A j \in Keys : Walk[j].node # None => Walk[j].node.date \in Nat
  BY <1>1 DEF Nodes
<1>3. Under(k) \subseteq Keys
  BY DEF Under
<1>4. D \in SUBSET Nat /\ IsFiniteSet(D)
  <2> DEFINE K == {i \in Under(k) : Walk[i].node # None}
             f == [j \in Keys |-> Walk[j].node.date]
  <2>1. K \in SUBSET Keys
    BY <1>3
  <2>2. IsFiniteSet(K)
    <3> HIDE DEF K
    <3> QED BY <2>1, FS_Subset, AssemblerAssumption
  <2>3. IsFiniteSet({f[j] : j \in K})
    <3> HIDE DEF K, f
    <3> QED BY <2>2, FewValues
  <2>4. D = {f[j] : j \in K}
    BY <2>1
  <2>5. D \in SUBSET Nat
    BY <1>2, <1>3
  <2> QED BY <2>3, <2>4, <2>5
<1>5. Newest(D) \in Nat
  <2> HIDE DEF D
  <2> QED BY <1>4, NewestOf
<1> QED BY <1>2, <1>5 DEF DateUp

\* A cascade that is left by those it came from keeps its maps.
LEMMA DetachedIs ==
  ASSUME NEW n \in Nodes, NEW gone
  PROVE  /\ Detached(n, gone) \in Nodes /\ Detached(n, gone) # None
         /\ Detached(n, gone).file = n.file /\ Detached(n, gone).kind = n.kind
         /\ Detached(n, gone).old = n.old /\ Detached(n, gone).inner = n.inner
         /\ Detached(n, gone).params = n.params /\ Detached(n, gone).date = n.date
         /\ Detached(n, gone).off = n.off
         /\ n.compiled = None <=> Detached(n, gone).compiled = None
         /\ n.compiled # None => \A m \in Matchers :
              Detached(n, gone).compiled[m] =
                IF n.compiled[m] # None /\ n.compiled[m].of \in gone
                THEN [n.compiled[m] EXCEPT !.of = None] ELSE n.compiled[m]
<1>1. n # None
  BY AssemblerAssumption
<1>2. CASE n.compiled = None
  BY <1>1, <1>2 DEF Detached
<1>3. CASE n.compiled # None
  <2> DEFINE c == [m \in Matchers |->
                     IF n.compiled[m] # None /\ n.compiled[m].of \in gone
                     THEN [n.compiled[m] EXCEPT !.of = None] ELSE n.compiled[m]]
  <2>1. Detached(n, gone) = [n EXCEPT !.compiled = c]
    BY <1>1, <1>3 DEF Detached, Nodes
  <2>2. c \in Compiled
    <3> SUFFICES ASSUME NEW m \in Matchers
                 PROVE  (IF n.compiled[m] # None /\ n.compiled[m].of \in gone
                         THEN [n.compiled[m] EXCEPT !.of = None] ELSE n.compiled[m])
                           \in CascadeEntries \cup {None}
      BY DEF Compiled
    <3>1. n.compiled[m] \in CascadeEntries \cup {None}
      BY <1>3 DEF Nodes, Compiled
    <3> QED BY <3>1 DEF CascadeEntries
  <2>3. c # None
    BY <2>2, AssemblerAssumption
  <2>4. n = [file |-> n.file, kind |-> n.kind, old |-> n.old, inner |-> n.inner,
             compiled |-> n.compiled, params |-> n.params, date |-> n.date, off |-> n.off]
    BY DEF Nodes
  <2>5. \A m \in Matchers : c[m] = IF n.compiled[m] # None /\ n.compiled[m].of \in gone
                                   THEN [n.compiled[m] EXCEPT !.of = None] ELSE n.compiled[m]
    OBVIOUS
  <2> HIDE DEF c
  <2>6. [n EXCEPT !.compiled = c] \in Nodes
    BY <2>2 DEF Nodes
  <2>7. Detached(n, gone) # None
    BY <2>1, <2>6, AssemblerAssumption
  <2>8. Detached(n, gone).compiled = c
    BY <2>1, <2>4
  <2> QED BY <1>3, <2>1, <2>3, <2>4, <2>5, <2>6, <2>7, <2>8
<1> QED BY <1>2, <1>3

\* Loading: each key gets a new node, loses its own, or keeps it.
LEMMA ReplaceType ==
  ASSUME AssemblerTypeOK, NEW E, NEW L, Replace(E, L)
  PROVE  /\ read' \in [Keys -> FileContents \cup {None}]
         /\ node' \in [Keys -> Nodes \cup {None}]
<1> DEFINE gone == Removed(E)
           made == {k \in L : source[k] # None}
<1>1. /\ read' = [k \in Keys |-> IF k \in made THEN source[k]
                                 ELSE IF k \in gone THEN None ELSE read[k]]
      /\ node' = [k \in Keys |-> IF k \in made THEN Fresh(k, source[k])
                                 ELSE IF k \in gone THEN None
                                 ELSE Detached(node[k], made \cup gone)]
  BY DEF Replace
<1>2. \A k \in Keys : source[k] \in FileContents \cup {None} /\ read[k] \in FileContents \cup {None}
  BY DEF AssemblerTypeOK
<1>3. \A k \in Keys : k \in made => Fresh(k, source[k]) \in Nodes
  BY <1>2, FreshNode
<1>4. \A k \in Keys : Detached(node[k], made \cup gone) \in Nodes \cup {None}
  <2> TAKE k \in Keys
  <2>1. node[k] \in Nodes \cup {None}
    BY DEF AssemblerTypeOK
  <2>2. CASE node[k] = None
    BY <2>2 DEF Detached
  <2>3. CASE node[k] # None
    BY <2>1, <2>3, DetachedIs
  <2> QED BY <2>2, <2>3
<1> HIDE DEF gone, made
<1> QED BY <1>1, <1>2, <1>3, <1>4 DEF made

LEMMA LoadableKeys == \A E : \A L \in Loadable(E) : L \in SUBSET Keys
BY DEF Loadable

LEMMA EventsKeys == AssemblerTypeOK => Events \subseteq Keys
BY DEF Events, AssemblerTypeOK

\* What the aggregates give each page: the walk's, with a date from below.
LEMMA AggregatesNode ==
  ASSUME AssemblerTypeOK, ApplyAggregates, NEW k \in Keys
  PROVE  /\ Walk[k].node \in Nodes \cup {None}
         /\ node'[k] \in Nodes \cup {None}
         /\ node'[k] = None <=> Walk[k].node = None
         /\ node'[k] # None =>
              /\ node'[k].file = Walk[k].node.file /\ node'[k].kind = Walk[k].node.kind
              /\ node'[k].old = Walk[k].node.old /\ node'[k].inner = Walk[k].node.inner
              /\ node'[k].compiled = Walk[k].node.compiled
              /\ node'[k].params = Walk[k].node.params
              /\ node'[k].date = DateUp(k) /\ node'[k].off = Walk[k].node.off
<1>1. TreeOK
  BY DEF AssemblerTypeOK, TreeOK
<1>2. Walk[k].node \in Nodes \cup {None}
  BY <1>1, WalkIs DEF Visits
<1>3. node'[k] = IF Walk[k].node = None THEN None
                 ELSE [Walk[k].node EXCEPT !.date = DateUp(k)]
  BY DEF ApplyAggregates
<1>4. CASE Walk[k].node = None
  BY <1>2, <1>3, <1>4
<1>5. CASE Walk[k].node # None
  <2> DEFINE n == Walk[k].node
             d == DateUp(k)
  <2>1. d \in Nat
    BY <1>1, <1>5, DateUpType
  <2>2. n \in Nodes /\ node'[k] = [n EXCEPT !.date = d]
    BY <1>2, <1>3, <1>5
  <2> HIDE DEF n, d
  <2>3. n = [file |-> n.file, kind |-> n.kind, old |-> n.old, inner |-> n.inner,
             compiled |-> n.compiled, params |-> n.params, date |-> n.date, off |-> n.off]
    BY <2>2 DEF Nodes
  <2>4. node'[k] \in Nodes
    BY <2>1, <2>2 DEF Nodes
  <2>5. node'[k] # None
    BY <2>4, AssemblerAssumption
  <2>6. /\ node'[k].file = n.file /\ node'[k].kind = n.kind
        /\ node'[k].old = n.old /\ node'[k].inner = n.inner
        /\ node'[k].compiled = n.compiled /\ node'[k].params = n.params
        /\ node'[k].date = d /\ node'[k].off = n.off
    BY <2>2, <2>3
  <2> QED BY <1>2, <1>5, <2>4, <2>5, <2>6 DEF n, d
<1> QED BY <1>4, <1>5

\* What assembling leaves of a page.
LEMMA AssembleNode ==
  ASSUME AssemblerTypeOK, Assemble, NEW k \in Keys
  PROVE  LET gone == {j \in Keys : Dropped(j)} IN
         /\ node'[k] \in Nodes \cup {None}
         /\ node'[k] = None <=> node[k] = None \/ Dropped(k)
         /\ node'[k] # None =>
              /\ node'[k].file = node[k].file /\ node'[k].kind = node[k].kind
              /\ node'[k].old = node[k].old /\ node'[k].inner = node[k].inner
              /\ node'[k].compiled = Detached(node[k], gone).compiled
              /\ node'[k].params = node[k].params /\ node'[k].date = node[k].date
              /\ node'[k].off = (node[k].off \/ node[k].file.draft)
<1> DEFINE gone == {j \in Keys : Dropped(j)}
           n == Detached(node[k], gone)
<1>1. node'[k] = IF Dropped(k) THEN None ELSE Disable(n)
  BY DEF Assemble
<1>2. node[k] \in Nodes \cup {None}
  BY DEF AssemblerTypeOK
<1>3. CASE node[k] = None
  <2>1. n = None
    BY <1>3 DEF Detached
  <2>2. Disable(n) = None
    BY <2>1 DEF Disable
  <2> QED BY <1>1, <1>3, <2>2
<1>4. CASE node[k] # None
  <2>1. /\ n \in Nodes /\ n # None /\ n.file = node[k].file /\ n.kind = node[k].kind
        /\ n.old = node[k].old /\ n.inner = node[k].inner
        /\ n.params = node[k].params /\ n.date = node[k].date /\ n.off = node[k].off
    <3> HIDE DEF gone
    <3> QED BY <1>2, <1>4, DetachedIs
  <2> HIDE DEF n
  <2>2. n = [file |-> n.file, kind |-> n.kind, old |-> n.old, inner |-> n.inner,
             compiled |-> n.compiled, params |-> n.params, date |-> n.date, off |-> n.off]
    BY <2>1 DEF Nodes
  <2>3. Disable(n) = IF n.file.draft THEN [n EXCEPT !.off = TRUE] ELSE n
    BY <2>1 DEF Disable
  <2>4. Disable(n) \in Nodes
    BY <2>1, <2>3 DEF Nodes
  <2>5. Disable(n) # None
    BY <2>4, AssemblerAssumption
  <2>6. n.off \in BOOLEAN /\ n.file.draft \in BOOLEAN
    BY <2>1 DEF Nodes, FileContents
  <2>7. /\ Disable(n).file = n.file /\ Disable(n).kind = n.kind
        /\ Disable(n).old = n.old /\ Disable(n).inner = n.inner
        /\ Disable(n).compiled = n.compiled /\ Disable(n).params = n.params
        /\ Disable(n).date = n.date /\ Disable(n).off = (n.off \/ n.file.draft)
    BY <2>2, <2>3, <2>6
  <2> QED BY <1>1, <1>4, <2>1, <2>4, <2>5, <2>7 DEF n
<1> QED BY <1>3, <1>4

LEMMA AssemblerTypeStep == AssemblerTypeOK /\ [AssemblerNext]_assemblerVars => AssemblerTypeOK'
<1> SUFFICES ASSUME AssemblerTypeOK, [AssemblerNext]_assemblerVars PROVE AssemblerTypeOK'
  OBVIOUS
<1>a. Events \subseteq Keys
  BY EventsKeys
<1>1. ASSUME NEW k \in Keys, EditFile(k) PROVE AssemblerTypeOK'
  <2>1. PICK f \in Sources[k] : source' = [source EXCEPT ![k] = f]
    BY <1>1 DEF EditFile
  <2>2. f \in FileContents \cup {None}
    BY AssemblerAssumption
  <2>3. source' \in [Keys -> FileContents \cup {None}]
    BY <2>1, <2>2 DEF AssemblerTypeOK
  <2>4. edits' \in 0..MaxEdits
    BY <1>1, AssemblerAssumption DEF EditFile, AssemblerTypeOK
  <2> QED BY <1>1, <2>3, <2>4 DEF EditFile, AssemblerTypeOK
<1>2. ASSUME ReadAll PROVE AssemblerTypeOK'
  <2>1. Replace({}, Keys)
    BY <1>2 DEF ReadAll
  <2>2. read' \in [Keys -> FileContents \cup {None}] /\ node' \in [Keys -> Nodes \cup {None}]
    BY <2>1, ReplaceType
  <2> QED BY <1>2, <2>2 DEF ReadAll, AssemblerTypeOK
<1>3. ASSUME Load PROVE AssemblerTypeOK'
  <2>1. PICK L \in Loadable(Events) : Replace(Events, L) /\ due' = due \cup L \cup Events
    BY <1>3 DEF Load
  <2>2. read' \in [Keys -> FileContents \cup {None}] /\ node' \in [Keys -> Nodes \cup {None}]
    BY <2>1, ReplaceType
  <2>3. L \in SUBSET Keys
    BY LoadableKeys
  <2> QED BY <1>a, <1>3, <2>1, <2>2, <2>3 DEF Load, ClearEntries, AssemblerTypeOK
<1>4. ASSUME LoadFails PROVE AssemblerTypeOK'
  <2>1. PICK L \in Loadable(Events) :
          /\ \E k \in {j \in L : ~Parses(j)} : retry' = {k}
          /\ \E M \in SUBSET L : Replace(Events, M) /\ due' = due \cup M \cup Events
    BY <1>4 DEF LoadFails
  <2>2. PICK M \in SUBSET L : Replace(Events, M) /\ due' = due \cup M \cup Events
    BY <2>1
  <2>3. read' \in [Keys -> FileContents \cup {None}] /\ node' \in [Keys -> Nodes \cup {None}]
    BY <2>2, ReplaceType
  <2>4. L \in SUBSET Keys
    BY LoadableKeys
  <2>5. retry' \subseteq Keys /\ due' \subseteq Keys
    BY <1>a, <2>1, <2>2, <2>4 DEF AssemblerTypeOK
  <2> QED BY <1>4, <2>3, <2>5 DEF LoadFails, ClearEntries, AssemblerTypeOK
<1>5. ASSUME LoadTemplate PROVE AssemblerTypeOK'
  BY <1>5 DEF LoadTemplate, AssemblerTypeOK
<1>6. ASSUME ApplyAggregates PROVE AssemblerTypeOK'
  <2>1. \A k \in Keys : node'[k] \in Nodes \cup {None}
    BY <1>6, AggregatesNode
  <2>2. node' = [k \in Keys |-> node'[k]]
    BY <1>6 DEF ApplyAggregates
  <2>3. node' \in [Keys -> Nodes \cup {None}]
    BY <2>1, <2>2
  <2>4. due' \subseteq Keys
    BY <1>6 DEF ApplyAggregates, AssemblerTypeOK
  <2> QED BY <1>6, <2>3, <2>4 DEF ApplyAggregates, AssemblerTypeOK
<1>7. ASSUME Assemble PROVE AssemblerTypeOK'
  <2>1. \A k \in Keys : node'[k] \in Nodes \cup {None}
    BY <1>7, AssembleNode
  <2>2. node' = [k \in Keys |-> node'[k]]
    BY <1>7 DEF Assemble
  <2>3. node' \in [Keys -> Nodes \cup {None}]
    BY <2>1, <2>2
  <2>4. entries' \subseteq Terms \X Keys
    BY <1>7 DEF Assemble, AssemblerTypeOK
  <2>5. terms' \in [Terms -> Nat \cup {None}]
    <3> SUFFICES ASSUME NEW t \in Terms
                 PROVE  Newest({node'[e[2]].date : e \in {x \in entries' : x[1] = t /\ node'[x[2]] # None}}) \in Nat
      BY <1>7 DEF Assemble
    <3> DEFINE C == {x \in entries' : x[1] = t /\ node'[x[2]] # None}
               K == {x[2] : x \in C}
               f == [j \in Keys |-> node'[j].date]
               D == {node'[e[2]].date : e \in C}
    <3>1. K \in SUBSET Keys /\ \A x \in C : x[2] \in Keys
      BY <2>4
    <3>2. IsFiniteSet(K)
      <4> HIDE DEF K
      <4> QED BY <3>1, FS_Subset, AssemblerAssumption
    <3>3. IsFiniteSet({f[j] : j \in K})
      <4> HIDE DEF K, f
      <4> QED BY <3>2, FewValues
    <3>4. D = {f[j] : j \in K}
      BY <3>1
    <3>5. D \in SUBSET Nat
      BY <2>1, <3>1 DEF Nodes
    <3> HIDE DEF D
    <3>6. Newest(D) \in Nat
      BY <3>3, <3>4, <3>5, NewestOf
    <3> QED BY <3>6 DEF D
  <2> QED BY <1>7, <2>3, <2>4, <2>5 DEF Assemble, AssemblerTypeOK
<1>8. ASSUME Render PROVE AssemblerTypeOK'
  <2>1. \A k \in Keys : node[k] # None => View(node[k]) \in Views
    BY DEF AssemblerTypeOK, View, Views, Nodes
  <2>2. Rendering \subseteq Keys /\ Failing \subseteq Keys /\ \A k \in Rendering : node[k] # None
    BY DEF Rendering, Failing, AssemblerTypeOK
  <2>3. shown' \in [Keys -> Views \cup {None}]
    BY <1>8, <2>1, <2>2 DEF Render, AssemblerTypeOK
  <2>4. outcome' \in {"ok", "failed"} /\ retry' \subseteq Keys /\ due' \subseteq Keys
    BY <1>8, <2>2 DEF Render, AssemblerTypeOK
  <2> QED BY <1>8, <2>3, <2>4 DEF Render, AssemblerTypeOK
<1>9. ASSUME UNCHANGED assemblerVars PROVE AssemblerTypeOK'
  BY <1>9 DEF assemblerVars, AssemblerTypeOK
<1> QED BY <1>1, <1>2, <1>3, <1>4, <1>5, <1>6, <1>7, <1>8, <1>9 DEF AssemblerNext

LEMMA AssemblerTypeInit == AssemblerInit => AssemblerTypeOK
<1> SUFFICES ASSUME AssemblerInit PROVE AssemblerTypeOK
  OBVIOUS
<1>1. FirstFile \in [Keys -> FileContents \cup {None}]
  BY AssemblerAssumption
<1>2. 0 \in 0..MaxEdits
  BY AssemblerAssumption
<1> QED BY <1>1, <1>2 DEF AssemblerInit, AssemblerTypeOK

\* Every variable of the page tree keeps its type, for any tree, any files and
\* any number of edits.
THEOREM AssemblerTypes == AssemblerSpec => []AssemblerTypeOK
BY AssemblerTypeInit, AssemblerTypeStep, PTL DEF AssemblerSpec

-----------------------------------------------------------------------------
(* Terms, dates, and what is published.                                     *)

\* The terms as they should be.
TermsListed == {e \in Terms \X Keys : e[1] \in FileOf(e[2]).tags /\ ~FileOf(e[2]).draft}

\* A page that is not in the tree has no file or a draft, and one that is there
\* has what was read of it; a section may stand in for one that was a draft.
FilesInv ==
  \A k \in Keys :
    /\ node[k] = None => read[k] = None \/ read[k].draft
    /\ node[k] # None => /\ \/ node[k].file = FileOf(k)
                            \/ node[k].file = Blank /\ FileOf(k).draft
                         /\ node[k].off => node[k].file.draft
                         /\ node[k].kind \in {KindOf(k), ""}
                         /\ node[k].kind = "page" => node[k].date = node[k].file.date

\* A build that failed knows its file, so the next one loads again; the terms
\* are listed from nothing.
EntriesInv ==
  /\ outcome = "failed" => retry # {}
  /\ phase \in {"loaded", "aggregated"} \/ (outcome = "none" /\ phase = "idle") => entries = {}
  /\ phase = "assembled" \/ AtRest => entries = TermsListed

\* Once the walk has been there, all pages have been seen by it, and branches
\* have the dates from below.
WalkedInv ==
  phase \in {"aggregated", "assembled"} \/ AtRest =>
    /\ \A k \in Keys : node[k] # None => node[k].old
    /\ \A k \in Branches :
         node[k] # None /\ FileOf(k).date = 0 /\ (\A j \in Under(k) : ~FileOf(j).draft) =>
           node[k].date = Newest({FileOf(j).date : j \in Under(k)})

Shown(k) ==
  node[k] # None /\ ~node[k].off /\ node[k].file.bad = "no" =>
    /\ shown[k] # None /\ shown[k].params = node[k].params
    /\ node[k].kind # "" => shown[k].date = node[k].date

\* What is not published as it is, is due.
DueInv ==
  /\ \A k \in Keys \ due : Shown(k)
  /\ \A k \in Keys : node[k] # None /\ ~node[k].old => k \in due
  /\ AtRest => \A k \in due : node[k] = None \/ node[k].off

\* What was read is what is in the files without an event.
ArriveInv ==
  /\ outcome = "none" /\ phase = "idle" => \A k \in Keys : read[k] = None
  /\ ~stumbled /\ OneFilePerDirectory /\ (outcome # "none" \/ phase # "idle") => EditsArrive

TreeInv == AssemblerTypeOK /\ FilesInv /\ EntriesInv /\ WalkedInv /\ DueInv /\ ArriveInv

\* The fields of a page that loading and assembling leave alone.
SameNode(n, o) ==
  /\ n.file = o.file /\ n.kind = o.kind /\ n.old = o.old /\ n.inner = o.inner
  /\ n.params = o.params /\ n.date = o.date

Made(L) == {k \in L : source[k] # None}

\* What loading does to one key.
LEMMA ReplaceIs ==
  ASSUME AssemblerTypeOK, NEW E, NEW L, Replace(E, L), NEW k \in Keys
  PROVE  LET gone == Removed(E) IN
         /\ k \in Made(L) =>
              /\ read'[k] = source[k] /\ source[k] \in FileContents
              /\ node'[k] = Fresh(k, source[k]) /\ node'[k] # None
         /\ k \notin Made(L) /\ k \in gone => read'[k] = None /\ node'[k] = None
         /\ k \notin Made(L) /\ k \notin gone =>
              /\ read'[k] = read[k]
              /\ node'[k] = None <=> node[k] = None
              /\ node[k] # None => /\ SameNode(node'[k], node[k]) /\ node'[k].off = node[k].off
                                   /\ node'[k] = Detached(node[k], Made(L) \cup gone)
<1> DEFINE gone == Removed(E)
<1>1. /\ read'[k] = IF k \in Made(L) THEN source[k] ELSE IF k \in gone THEN None ELSE read[k]
      /\ node'[k] = IF k \in Made(L) THEN Fresh(k, source[k])
                    ELSE IF k \in gone THEN None
                    ELSE Detached(node[k], Made(L) \cup gone)
  BY DEF Replace, Made
<1> HIDE DEF gone
<1>2. CASE k \in Made(L)
  <2>1. source[k] \in FileContents
    BY <1>2 DEF Made, AssemblerTypeOK
  <2>2. Fresh(k, source[k]) # None
    BY <2>1, FreshNode
  <2> QED BY <1>1, <1>2, <2>1, <2>2 DEF gone
<1>3. CASE k \notin Made(L) /\ k \in gone
  BY <1>1, <1>3 DEF gone
<1>4. CASE k \notin Made(L) /\ k \notin gone
  <2>1. node'[k] = Detached(node[k], Made(L) \cup gone) /\ read'[k] = read[k]
    BY <1>1, <1>4
  <2>2. CASE node[k] = None
    <3>1. node'[k] = None
      BY <2>1, <2>2 DEF Detached
    <3> QED BY <1>4, <2>1, <2>2, <3>1 DEF gone
  <2>3. CASE node[k] # None
    <3>1. node[k] \in Nodes
      BY <2>3 DEF AssemblerTypeOK
    <3>2. node'[k] # None /\ SameNode(node'[k], node[k]) /\ node'[k].off = node[k].off
      BY <2>1, <3>1, DetachedIs DEF SameNode
    <3> QED BY <1>4, <2>1, <2>3, <3>2 DEF gone
  <2> QED BY <2>2, <2>3
<1> QED BY <1>2, <1>3, <1>4

\* What a walk makes of one page.
LEMMA WalkNode ==
  ASSUME AssemblerTypeOK, NEW k \in Keys
  PROVE  LET n == Present(k)
             w == Walk[k].node
         IN  /\ w = None <=> n = None
             /\ w # None => /\ n \in Nodes /\ w \in Nodes /\ w.file = n.file /\ w.old = TRUE
                            /\ w.date = n.file.date
                            /\ Walk[k].changed => n.old
                            /\ w.kind = IF Walk[k].changed THEN "" ELSE n.kind
                            /\ w.off = IF n.old /\ ~Walk[k].changed THEN n.off ELSE FALSE
                            /\ n.old /\ ~Walk[k].changed => w.params = n.params
<1> DEFINE above == IF k = Home THEN Top ELSE Walk[Prefix[k]]
           n == Present(k)
           before == HeldNow(n, above.maps)
           r == SetMetaPost(k, n, above.down, before)
           ch == CascadeMoves(k, n, above.down, before)
<1>1. TreeOK
  BY DEF AssemblerTypeOK, TreeOK
<1>2. above.down \in Compiled /\ above.maps \in [Keys -> Cascades \cup {None}]
  BY <1>1, TopType, WalkIs, Basics DEF Visits
<1>3. Walk[k] = Visit(k, above) /\ Walk[k].node \in Nodes \cup {None}
  BY <1>1, WalkIs DEF Visits
<1> HIDE DEF above
<1>4. CASE n = None
  <2>1. Visit(k, above).node = None
    BY <1>1, <1>2, <1>4, VisitIs
  <2> QED BY <1>3, <1>4, <2>1
<1>5. CASE n # None
  <2>1. n \in Nodes /\ Walk[k].node = r.node /\ Walk[k].changed = r.changed
    BY <1>1, <1>2, <1>3, <1>5, VisitIs
  <2> HIDE DEF n, before
  <2>0. /\ r.node # None /\ r.changed = ch /\ r.changed \in BOOLEAN /\ r.node.file = n.file
        /\ r.node.old = TRUE /\ r.node.date = n.file.date
        /\ r.node.off = (IF n.old /\ ~ch THEN n.off ELSE FALSE)
        /\ r.node.kind = (IF ch THEN "" ELSE n.kind)
        /\ n.old /\ ~ch => r.node.params = n.params
    BY <1>2, <2>1, SetMetaPostIs
  <2>2. /\ r.node # None /\ r.node.file = n.file /\ r.node.old = TRUE
        /\ r.node.date = n.file.date
        /\ r.changed = ch
        /\ r.node.kind = IF r.changed THEN "" ELSE n.kind
        /\ r.node.off = IF n.old /\ ~r.changed THEN n.off ELSE FALSE
        /\ n.old /\ ~r.changed => r.node.params = n.params
    <3> HIDE DEF r
    <3> QED BY <2>0
  <2>3. r.changed => n.old
    BY <2>2 DEF CascadeMoves
  <2> HIDE DEF r
  <2>4. Walk[k].node \in Nodes
    BY <1>3, <2>1, <2>2
  <2> QED BY <1>5, <2>1, <2>2, <2>3, <2>4 DEF n
<1> QED BY <1>4, <1>5

LEMMA BlankIs == Blank.date = 0 /\ Blank.tags = {} /\ Blank.draft = FALSE /\ Blank.cascade = None
BY DEF Blank

LEMMA ReplaceFiles ==
  ASSUME AssemblerTypeOK, FilesInv, NEW E, NEW L, Replace(E, L)
  PROVE  FilesInv'
<1> SUFFICES ASSUME NEW k \in Keys
             PROVE  /\ node'[k] = None => read'[k] = None \/ read'[k].draft
                    /\ node'[k] # None => /\ \/ node'[k].file = FileOf(k)'
                                             \/ node'[k].file = Blank /\ FileOf(k)'.draft
                                          /\ node'[k].off => node'[k].file.draft
                                          /\ node'[k].kind \in {KindOf(k), ""}
                                          /\ node'[k].kind = "page" => node'[k].date = node'[k].file.date
  BY DEF FilesInv, KindOf
<1>1. CASE k \in Made(L)
  <2>1. read'[k] = source[k] /\ source[k] \in FileContents /\ node'[k] = Fresh(k, source[k])
    BY <1>1, ReplaceIs
  <2>2. FileOf(k)' = source[k]
    BY <2>1, AssemblerAssumption DEF FileOf
  <2>3. /\ node'[k] # None /\ node'[k].file = source[k] /\ node'[k].off = FALSE
        /\ node'[k].kind = KindOf(k) /\ node'[k].date = source[k].date
    <3> DEFINE fresh == Fresh(k, source[k])
    <3>1. /\ fresh # None /\ fresh.file = source[k] /\ fresh.off = FALSE
          /\ fresh.kind = KindOf(k) /\ fresh.date = source[k].date
      BY <2>1, FreshNode
    <3>2. node'[k] = fresh
      BY <2>1
    <3> HIDE DEF fresh
    <3> QED BY <3>1, <3>2
  <2> QED BY <2>2, <2>3
<1>2. CASE k \notin Made(L) /\ k \in Removed(E)
  BY <1>2, ReplaceIs
<1>3. CASE k \notin Made(L) /\ k \notin Removed(E)
  <2>1. read'[k] = read[k] /\ (node'[k] = None <=> node[k] = None)
    BY <1>3, ReplaceIs
  <2>2. node[k] # None => SameNode(node'[k], node[k]) /\ node'[k].off = node[k].off
    BY <1>3, ReplaceIs
  <2>3. FileOf(k)' = FileOf(k)
    BY <2>1 DEF FileOf
  <2> QED BY <2>1, <2>2, <2>3 DEF FilesInv, SameNode
<1> QED BY <1>1, <1>2, <1>3

LEMMA FilesStep == AssemblerTypeOK /\ FilesInv /\ [AssemblerNext]_assemblerVars => FilesInv'
<1> SUFFICES ASSUME AssemblerTypeOK, FilesInv, [AssemblerNext]_assemblerVars PROVE FilesInv'
  OBVIOUS
<1>1. ASSUME UNCHANGED <<read, node>> PROVE FilesInv'
  BY <1>1 DEF FilesInv, FileOf, KindOf
<1>2. ASSUME \E k \in Keys : EditFile(k) PROVE FilesInv'
  BY <1>1, <1>2 DEF EditFile
<1>3. ASSUME ReadAll \/ Load \/ LoadFails PROVE FilesInv'
  BY <1>3, ReplaceFiles DEF ReadAll, Load, LoadFails
<1>4. ASSUME LoadTemplate \/ Render \/ UNCHANGED assemblerVars PROVE FilesInv'
  BY <1>1, <1>4 DEF LoadTemplate, Render, assemblerVars
<1>5. ASSUME ApplyAggregates PROVE FilesInv'
  <2> SUFFICES ASSUME NEW k \in Keys
               PROVE  /\ node'[k] = None => read[k] = None \/ read[k].draft
                      /\ node'[k] # None => /\ \/ node'[k].file = FileOf(k)
                                               \/ node'[k].file = Blank /\ FileOf(k).draft
                                            /\ node'[k].off => node'[k].file.draft
                                            /\ node'[k].kind \in {KindOf(k), ""}
                                            /\ node'[k].kind = "page" => node'[k].date = node'[k].file.date
    BY <1>5 DEF ApplyAggregates, FilesInv, FileOf, KindOf
  <2> DEFINE n == Present(k)
             w == Walk[k].node
  <2>0. TreeOK
    BY DEF AssemblerTypeOK, TreeOK
  <2>1. CASE n = None
    <3>1. node[k] = None
      BY <2>0, <2>1, PresentNode
    <3>2. node'[k] = None
      BY <1>5, <2>1, WalkNode, AggregatesNode
    <3> QED BY <3>1, <3>2 DEF FilesInv
  <2>2. CASE n # None
    <3>1. /\ n.file = FileOf(k) \/ (n.file = Blank /\ FileOf(k).draft)
          /\ n.off => n.file.draft
          /\ n.kind \in {KindOf(k), ""}
      <4>1. CASE Missing(k)
        <5>1. n = Fresh(k, Blank) /\ node[k] = None
          BY <2>0, <4>1, PresentNode
        <5> DEFINE blank == Fresh(k, Blank)
        <5>0. blank.file = Blank /\ blank.off = FALSE /\ blank.kind = KindOf(k)
          BY FreshNode, BlankFile
        <5> HIDE DEF blank
        <5>2. n.file = Blank /\ n.off = FALSE /\ n.kind = KindOf(k)
          <6> HIDE DEF n
          <6> QED BY <5>0, <5>1 DEF blank
        <5>3. read[k] = None \/ read[k].draft
          BY <5>1 DEF FilesInv
        <5> QED BY <5>2, <5>3 DEF FileOf
      <4>2. CASE ~Missing(k)
        <5>1. n = node[k]
          BY <4>2 DEF Present
        <5> QED BY <2>2, <5>1 DEF FilesInv
      <4> QED BY <4>1, <4>2
    <3> HIDE DEF n, w
    <3>2. /\ w # None /\ w.file = n.file /\ w.date = n.file.date
          /\ w.kind = IF Walk[k].changed THEN "" ELSE n.kind
          /\ w.off = IF n.old /\ ~Walk[k].changed THEN n.off ELSE FALSE
      BY <2>2, WalkNode DEF n, w
    <3>3. /\ node'[k] # None /\ node'[k].file = w.file /\ node'[k].kind = w.kind
          /\ node'[k].date = DateUp(k) /\ node'[k].off = w.off
      BY <1>5, <3>2, AggregatesNode DEF w
    <3>4. w.kind = "page" => DateUp(k) = w.date
      BY DEF DateUp, w
    <3> QED BY <3>1, <3>2, <3>3, <3>4
  <2> QED BY <2>1, <2>2
<1>6. ASSUME Assemble PROVE FilesInv'
  <2> SUFFICES ASSUME NEW k \in Keys
               PROVE  /\ node'[k] = None => read[k] = None \/ read[k].draft
                      /\ node'[k] # None => /\ \/ node'[k].file = FileOf(k)
                                               \/ node'[k].file = Blank /\ FileOf(k).draft
                                            /\ node'[k].off => node'[k].file.draft
                                            /\ node'[k].kind \in {KindOf(k), ""}
                                            /\ node'[k].kind = "page" => node'[k].date = node'[k].file.date
    BY <1>6 DEF Assemble, FilesInv, FileOf, KindOf
  <2>1. CASE node'[k] = None
    <3>1. node[k] = None \/ Dropped(k)
      BY <1>6, <2>1, AssembleNode
    <3>2. ASSUME Dropped(k) PROVE FileOf(k).draft
      <4>1. node[k] # None /\ node[k].file.draft
        BY <3>2 DEF Dropped
      <4> QED BY <4>1, BlankIs DEF FilesInv
    <3>3. FileOf(k).draft => read[k] # None /\ read[k].draft
      BY BlankIs DEF FileOf
    <3> QED BY <2>1, <3>1, <3>2, <3>3 DEF FilesInv
  <2>2. CASE node'[k] # None
    <3>1. /\ node[k] # None
          /\ node'[k].file = node[k].file /\ node'[k].kind = node[k].kind
          /\ node'[k].date = node[k].date /\ node'[k].off = (node[k].off \/ node[k].file.draft)
      BY <1>6, <2>2, AssembleNode
    <3> QED BY <2>2, <3>1 DEF FilesInv
  <2> QED BY <2>1, <2>2
<1> QED BY <1>2, <1>3, <1>4, <1>5, <1>6 DEF AssemblerNext

LEMMA EntriesStep ==
  AssemblerTypeOK /\ FilesInv /\ EntriesInv /\ [AssemblerNext]_assemblerVars => EntriesInv'
<1> SUFFICES ASSUME AssemblerTypeOK, FilesInv, EntriesInv, [AssemblerNext]_assemblerVars
             PROVE  EntriesInv'
  OBVIOUS
<1>a. ASSUME UNCHANGED read PROVE TermsListed' = TermsListed
  BY <1>a DEF TermsListed, FileOf
<1>1. ASSUME (\E k \in Keys : EditFile(k)) \/ UNCHANGED assemblerVars PROVE EntriesInv'
  <2>1. UNCHANGED <<outcome, retry, phase, entries, read>>
    BY <1>1 DEF EditFile, assemblerVars
  <2> QED BY <1>a, <2>1 DEF EntriesInv, AtRest
<1>2. ASSUME ReadAll PROVE EntriesInv'
  BY <1>2 DEF ReadAll, EntriesInv, AtRest
<1>3. ASSUME Load PROVE EntriesInv'
  BY <1>3 DEF Load, ClearEntries, EntriesInv, AtRest
<1>4. ASSUME LoadFails PROVE EntriesInv'
  BY <1>4 DEF LoadFails, ClearEntries, EntriesInv, AtRest
<1>5. ASSUME LoadTemplate PROVE EntriesInv'
  <2>1. retry = {}
    BY <1>5 DEF LoadTemplate, Events
  <2>2. AtRest
    BY <1>5, <2>1 DEF LoadTemplate, EntriesInv, AtRest, AssemblerTypeOK
  <2> QED BY <1>a, <1>5, <2>2 DEF LoadTemplate, EntriesInv, AtRest
<1>6. ASSUME ApplyAggregates PROVE EntriesInv'
  BY <1>6 DEF ApplyAggregates, EntriesInv, AtRest
<1>7. ASSUME Assemble PROVE EntriesInv'
  <2>1. entries' = {e \in Terms \X Keys : /\ node'[e[2]] # None /\ ~node'[e[2]].off
                                          /\ e[1] \in node'[e[2]].file.tags}
    BY <1>7 DEF Assemble, EntriesInv
  <2>2. ASSUME NEW k \in Keys, NEW t \in Terms
        PROVE  (node'[k] # None /\ ~node'[k].off /\ t \in node'[k].file.tags)
                 <=> (t \in FileOf(k).tags /\ ~FileOf(k).draft)
    <3>1. CASE node'[k] = None
      <4>1. node[k] = None \/ (node[k] # None /\ node[k].file.draft)
        BY <1>7, <3>1, AssembleNode DEF Dropped
      <4>2. FileOf(k) = Blank \/ FileOf(k).draft
        BY <4>1, BlankIs DEF FilesInv, FileOf
      <4> QED BY <3>1, <4>2, BlankIs
    <3>2. CASE node'[k] # None
      <4>1. /\ node[k] # None /\ node'[k].file = node[k].file
            /\ node'[k].off = (node[k].off \/ node[k].file.draft)
        BY <1>7, <3>2, AssembleNode
      <4>2. /\ node[k].file = FileOf(k) \/ (node[k].file = Blank /\ FileOf(k).draft)
            /\ node[k].off => node[k].file.draft
        BY <4>1 DEF FilesInv
      <4>3. node[k].off \in BOOLEAN /\ node[k].file.draft \in BOOLEAN
        BY <4>1 DEF AssemblerTypeOK, Nodes, FileContents
      <4>4. node'[k].off <=> node[k].file.draft
        BY <4>1, <4>2, <4>3
      <4>5. CASE node[k].file = FileOf(k)
        BY <3>2, <4>1, <4>4, <4>5
      <4>6. CASE node[k].file = Blank /\ FileOf(k).draft
        BY <3>2, <4>1, <4>4, <4>6, BlankIs
      <4> QED BY <4>2, <4>5, <4>6
    <3> QED BY <3>1, <3>2
  <2>3. entries' = TermsListed
    BY <2>1, <2>2 DEF TermsListed
  <2> QED BY <1>a, <1>7, <2>3 DEF Assemble, EntriesInv, AtRest
<1>8. ASSUME Render PROVE EntriesInv'
  <2>1. outcome' = "failed" => retry' # {}
    BY <1>8 DEF Render
  <2>2. phase = "assembled" /\ phase' = "idle" /\ outcome' # "none" /\ UNCHANGED <<entries, read>>
    BY <1>8 DEF Render
  <2> QED BY <1>a, <2>1, <2>2 DEF EntriesInv, AtRest
<1> QED BY <1>1, <1>2, <1>3, <1>4, <1>5, <1>6, <1>7, <1>8 DEF AssemblerNext

\* A zero more or less does not change the newest of a set of dates.
LEMMA NewestZero ==
  ASSUME NEW A \in SUBSET Nat, NEW B \in SUBSET Nat, IsFiniteSet(A), IsFiniteSet(B),
         A \cup {0} = B \cup {0}
  PROVE  Newest(A) = Newest(B)
<1>1. /\ Newest(A) \in Nat /\ Newest(B) \in Nat
      /\ A # {} => Newest(A) \in A /\ \A e \in A : e <= Newest(A)
      /\ B # {} => Newest(B) \in B /\ \A e \in B : e <= Newest(B)
  BY NewestOf
<1>2. (A = {} => Newest(A) = 0) /\ (B = {} => Newest(B) = 0)
  BY DEF Newest
<1>3. (\A a \in A : a <= Newest(B)) /\ (\A b \in B : b <= Newest(A))
  <2>1. \A a \in A : a \in B \/ a = 0
    OBVIOUS
  <2>2. \A b \in B : b \in A \/ b = 0
    OBVIOUS
  <2> QED BY <1>1, <2>1, <2>2
<1>4. Newest(A) <= Newest(B) /\ Newest(B) <= Newest(A)
  BY <1>1, <1>2, <1>3
<1> QED BY <1>1, <1>4

LEMMA WalkedStep ==
  AssemblerTypeOK /\ FilesInv /\ EntriesInv /\ WalkedInv /\ [AssemblerNext]_assemblerVars => WalkedInv'
<1> SUFFICES ASSUME AssemblerTypeOK, FilesInv, EntriesInv, WalkedInv, [AssemblerNext]_assemblerVars
             PROVE  WalkedInv'
  OBVIOUS
<1>a. ASSUME UNCHANGED <<read, node>>,
             phase' \in {"aggregated", "assembled"} \/ AtRest' =>
               phase \in {"aggregated", "assembled"} \/ AtRest
      PROVE  WalkedInv'
  BY <1>a DEF WalkedInv, FileOf
<1>1. ASSUME (\E k \in Keys : EditFile(k)) \/ UNCHANGED assemblerVars PROVE WalkedInv'
  <2>1. UNCHANGED <<outcome, phase, node, read>>
    BY <1>1 DEF EditFile, assemblerVars
  <2> QED BY <1>a, <2>1 DEF AtRest
<1>2. ASSUME ReadAll \/ Load \/ LoadFails PROVE WalkedInv'
  BY <1>2 DEF ReadAll, Load, LoadFails, WalkedInv, AtRest
<1>3. ASSUME LoadTemplate PROVE WalkedInv'
  <2>1. AtRest
    BY <1>3 DEF LoadTemplate, Events, EntriesInv, AtRest, AssemblerTypeOK
  <2> QED BY <1>a, <1>3, <2>1 DEF LoadTemplate
<1>4. ASSUME Render PROVE WalkedInv'
  BY <1>a, <1>4 DEF Render
<1>5. ASSUME ApplyAggregates PROVE WalkedInv'
  <2>1. ASSUME NEW k \in Keys, node'[k] # None PROVE node'[k].old
    BY <1>5, <2>1, AggregatesNode, WalkNode
  <2>2. ASSUME NEW k \in Branches, node'[k] # None, FileOf(k).date = 0,
               \A j \in Under(k) : ~FileOf(j).draft
        PROVE  node'[k].date = Newest({FileOf(j).date : j \in Under(k)})
    <3>1. k \in Keys /\ KindOf(k) # "page"
      BY Basics DEF KindOf
    <3>2. node'[k].date = DateUp(k) /\ Walk[k].node # None
      BY <1>5, <2>2, <3>1, AggregatesNode
    <3>3. Under(k) \subseteq Keys
      BY DEF Under
    <3>4. ASSUME NEW j \in Keys
          PROVE  /\ Walk[j].node = None => read[j] = None \/ read[j].draft
                 /\ Walk[j].node # None =>
                      /\ Walk[j].node.date = FileOf(j).date \/ (Walk[j].node.date = 0 /\ FileOf(j).draft)
                      /\ Walk[j].node.date \in Nat
                      /\ Walk[j].node.kind \in {KindOf(j), ""}
      <4>0. TreeOK
        BY DEF AssemblerTypeOK, TreeOK
      <4>1. CASE Walk[j].node = None
        <5>1. Present(j) = None
          BY <4>1, WalkNode
        <5>2. node[j] = None
          BY <4>0, <5>1, PresentNode
        <5> QED BY <4>1, <5>2 DEF FilesInv
      <4>2. CASE Walk[j].node # None
        <5>1. /\ Present(j) # None /\ Present(j) \in Nodes
              /\ Walk[j].node.date = Present(j).file.date
              /\ Walk[j].node.kind \in {Present(j).kind, ""}
          BY <4>2, WalkNode, AssemblerAssumption
        <5>2. CASE Missing(j)
          <6> DEFINE blank == Fresh(j, Blank)
          <6>1. Present(j) = blank /\ node[j] = None
            BY <4>0, <5>2, PresentNode
          <6>2. blank.file = Blank /\ blank.kind = KindOf(j)
            BY FreshNode, BlankFile
          <6> HIDE DEF blank
          <6>3. FileOf(j) = Blank \/ FileOf(j).draft
            BY <6>1 DEF FilesInv, FileOf
          <6>4. Walk[j].node.date = 0 /\ Walk[j].node.kind \in {KindOf(j), ""}
            BY <5>1, <6>1, <6>2, BlankIs
          <6>5. FileOf(j).date = 0 \/ FileOf(j).draft
            BY <6>3, BlankIs
          <6>6. Walk[j].node.date \in Nat
            <7> DEFINE d == Walk[j].node.date
            <7>1. d = 0
              BY <6>4
            <7> HIDE DEF d
            <7>2. d \in Nat
              BY <7>1
            <7> QED BY <7>2 DEF d
          <6>7. Walk[j].node.date = FileOf(j).date \/ (Walk[j].node.date = 0 /\ FileOf(j).draft)
            BY <6>4, <6>5
          <6> QED BY <4>2, <6>4, <6>6, <6>7
        <5>3. CASE ~Missing(j)
          <6>1. Present(j) = node[j]
            BY <5>3 DEF Present
          <6>2. /\ node[j].file = FileOf(j) \/ (node[j].file = Blank /\ FileOf(j).draft)
                /\ node[j].kind \in {KindOf(j), ""}
            BY <5>1, <6>1 DEF FilesInv
          <6>3. node[j].file.date \in Nat
            BY <5>1, <6>1 DEF Nodes, FileContents
          <6> QED BY <4>2, <5>1, <6>1, <6>2, <6>3, BlankIs
        <5> QED BY <5>2, <5>3
      <4> QED BY <4>1, <4>2
    <3>5. Walk[k].node.date = 0 /\ Walk[k].node.kind # "page"
      BY <2>2, <3>1, <3>2, <3>4
    <3> DEFINE A == {Walk[j].node.date : j \in {i \in Under(k) : Walk[i].node # None}}
               B == {FileOf(j).date : j \in Under(k)}
    <3>6. DateUp(k) = Newest(A)
      BY <3>5 DEF DateUp
    <3>7. A \subseteq B
      BY <2>2, <3>3, <3>4
    <3>8. B \subseteq A \cup {0}
      <4> SUFFICES ASSUME NEW j \in Under(k) PROVE FileOf(j).date \in A \cup {0}
        OBVIOUS
      <4>1. CASE Walk[j].node = None
        BY <2>2, <3>3, <3>4, <4>1, BlankIs DEF FileOf
      <4>2. CASE Walk[j].node # None
        BY <2>2, <3>3, <3>4, <4>2
      <4> QED BY <4>1, <4>2
    <3>9. B \subseteq Nat
      <4>1. \A j \in Keys : FileOf(j) \in FileContents
        BY BlankFile DEF FileOf, AssemblerTypeOK
      <4> QED BY <3>3, <4>1 DEF FileContents
    <3>10. IsFiniteSet(B)
      <4> DEFINE f == [j \in Keys |-> FileOf(j).date]
                 K == Under(k)
      <4>1. IsFiniteSet(K)
        BY <3>3, FS_Subset, AssemblerAssumption
      <4>2. IsFiniteSet({f[j] : j \in K})
        <5> HIDE DEF K, f
        <5> QED BY <4>1, FewValues
      <4>3. B = {f[j] : j \in K}
        BY <3>3
      <4> QED BY <4>2, <4>3
    <3> HIDE DEF A, B
    <3>11. IsFiniteSet(A)
      BY <3>7, <3>10, FS_Subset
    <3>12. Newest(A) = Newest(B)
      <4>1. A \cup {0} = B \cup {0} /\ A \in SUBSET Nat /\ B \in SUBSET Nat
        BY <3>7, <3>8, <3>9
      <4> QED BY <3>10, <3>11, <4>1, NewestZero
    <3> QED BY <3>2, <3>6, <3>12 DEF B
  <2>3. UNCHANGED read
    BY <1>5 DEF ApplyAggregates
  <2> QED BY <2>1, <2>2, <2>3 DEF WalkedInv, FileOf
<1>6. ASSUME Assemble PROVE WalkedInv'
  <2>1. phase = "aggregated" /\ UNCHANGED read
    BY <1>6 DEF Assemble
  <2>2. \A k \in Keys : node'[k] # None =>
          node[k] # None /\ node'[k].old = node[k].old /\ node'[k].date = node[k].date
    BY <1>6, AssembleNode
  <2>3. \A k \in Keys : node'[k] # None => node'[k].old
    BY <2>1, <2>2 DEF WalkedInv
  <2>4. \A k \in Branches : k \in Keys
    BY Basics
  <2>5. ASSUME NEW k \in Branches, node'[k] # None, FileOf(k).date = 0,
               \A j \in Under(k) : ~FileOf(j).draft
        PROVE  node'[k].date = Newest({FileOf(j).date : j \in Under(k)})
    BY <2>1, <2>2, <2>4, <2>5 DEF WalkedInv
  <2> QED BY <2>1, <2>3, <2>5 DEF WalkedInv, FileOf
<1> QED BY <1>1, <1>2, <1>3, <1>4, <1>5, <1>6 DEF AssemblerNext

LEMMA ReplaceDue ==
  ASSUME AssemblerTypeOK, DueInv, NEW E, NEW L, Replace(E, L), UNCHANGED shown,
         due \subseteq due', L \subseteq due', ~AtRest'
  PROVE  DueInv'
<1>1. ASSUME NEW k \in Keys, k \notin due' PROVE Shown(k)'
  <2>1. k \notin Made(L) /\ k \notin due
    BY <1>1 DEF Made
  <2>2. CASE k \in Removed(E)
    BY <2>1, <2>2, ReplaceIs DEF Shown
  <2>3. CASE k \notin Removed(E)
    <3>1. /\ node'[k] = None <=> node[k] = None
          /\ node[k] # None => SameNode(node'[k], node[k]) /\ node'[k].off = node[k].off
      BY <2>1, <2>3, ReplaceIs
    <3>2. Shown(k)
      BY <2>1 DEF DueInv
    <3> QED BY <3>1, <3>2 DEF Shown, SameNode
  <2> QED BY <2>2, <2>3
<1>2. ASSUME NEW k \in Keys, node'[k] # None, ~node'[k].old PROVE k \in due'
  <2>1. CASE k \in Made(L)
    BY <2>1 DEF Made
  <2>2. CASE k \notin Made(L)
    <3>1. node[k] # None /\ SameNode(node'[k], node[k])
      BY <1>2, <2>2, ReplaceIs
    <3> QED BY <1>2, <3>1 DEF DueInv, SameNode
  <2> QED BY <2>1, <2>2
<1> QED BY <1>1, <1>2 DEF DueInv

LEMMA DueStep ==
  AssemblerTypeOK /\ FilesInv /\ EntriesInv /\ WalkedInv /\ DueInv /\ [AssemblerNext]_assemblerVars
    => DueInv'
<1> SUFFICES ASSUME AssemblerTypeOK, FilesInv, EntriesInv, WalkedInv, DueInv,
                    [AssemblerNext]_assemblerVars
             PROVE  DueInv'
  OBVIOUS
<1>1. ASSUME (\E k \in Keys : EditFile(k)) \/ UNCHANGED assemblerVars PROVE DueInv'
  <2>1. UNCHANGED <<outcome, phase, node, due, shown>>
    BY <1>1 DEF EditFile, assemblerVars
  <2> QED BY <2>1 DEF DueInv, Shown, AtRest
<1>2. ASSUME ReadAll PROVE DueInv'
  <2>1. Replace({}, Keys) /\ due' = Keys /\ UNCHANGED shown /\ ~AtRest'
    BY <1>2 DEF ReadAll, AtRest
  <2>2. due \subseteq due'
    BY <2>1 DEF AssemblerTypeOK
  <2> QED BY <2>1, <2>2, ReplaceDue
<1>3. ASSUME Load PROVE DueInv'
  <2>1. PICK L \in Loadable(Events) : Replace(Events, L) /\ due' = due \cup L \cup Events
    BY <1>3 DEF Load
  <2>2. UNCHANGED shown /\ ~AtRest'
    BY <1>3 DEF Load, AtRest
  <2> QED BY <2>1, <2>2, ReplaceDue
<1>4. ASSUME LoadFails PROVE DueInv'
  <2>1. PICK M : Replace(Events, M) /\ due' = due \cup M \cup Events
    BY <1>4 DEF LoadFails
  <2>2. UNCHANGED shown /\ ~AtRest'
    BY <1>4 DEF LoadFails, AtRest
  <2> QED BY <2>1, <2>2, ReplaceDue
<1>5. ASSUME LoadTemplate PROVE DueInv'
  <2>1. AtRest
    BY <1>5 DEF LoadTemplate, Events, EntriesInv, AtRest, AssemblerTypeOK
  <2>2. due' = {k \in Keys : node[k] # None} /\ UNCHANGED <<node, shown>> /\ ~AtRest'
    BY <1>5 DEF LoadTemplate, AtRest
  <2>3. \A k \in Keys : node[k] # None => node[k].old
    BY <2>1 DEF WalkedInv
  <2> QED BY <2>2, <2>3 DEF DueInv, Shown
<1>6. ASSUME ApplyAggregates PROVE DueInv'
  <2>1. ASSUME NEW k \in Keys, k \notin due' PROVE Shown(k)'
    <3> SUFFICES ASSUME node'[k] # None, ~node'[k].off, node'[k].file.bad = "no"
                 PROVE  /\ shown[k] # None /\ shown[k].params = node'[k].params
                        /\ node'[k].kind # "" => shown[k].date = node'[k].date
      BY <1>6 DEF Shown, ApplyAggregates
    <3> DEFINE w == Walk[k].node
    <3>1. /\ w # None /\ node'[k].file = w.file /\ node'[k].kind = w.kind
          /\ node'[k].params = w.params /\ node'[k].date = DateUp(k) /\ node'[k].off = w.off
      BY <1>6, AggregatesNode
    <3>2. k \notin due /\ ~Walk[k].changed /\ ~DateMoved(k) /\ ~Missing(k)
      BY <1>6, <2>1, <3>1 DEF ApplyAggregates
    <3>3. Present(k) = node[k]
      BY <3>2 DEF Present
    <3>4. node[k] # None /\ w.file = node[k].file /\ w.date = node[k].file.date /\ w.kind = node[k].kind
      BY <3>1, <3>2, <3>3, WalkNode
    <3>5. node[k].old
      BY <3>2, <3>4 DEF DueInv
    <3>6. w.off = node[k].off /\ w.params = node[k].params
      BY <3>1, <3>2, <3>3, <3>5, WalkNode
    <3>7. /\ shown[k] # None /\ shown[k].params = node[k].params
          /\ node[k].kind # "" => shown[k].date = node[k].date
      BY <3>1, <3>2, <3>4, <3>6 DEF DueInv, Shown
    <3>8. node[k].kind # "" => node'[k].date = node[k].date
      <4>1. CASE node[k].kind = "page"
        <5>1. DateUp(k) = w.date
          BY <3>4, <4>1 DEF DateUp
        <5> QED BY <3>1, <3>4, <4>1, <5>1 DEF FilesInv
      <4>2. CASE node[k].kind \in {"home", "section"}
        BY <3>1, <3>2, <3>4, <3>5, <4>2 DEF DateMoved
      <4>3. node[k].kind \in Kinds
        BY <3>4 DEF AssemblerTypeOK, Nodes
      <4> QED BY <4>1, <4>2, <4>3 DEF Kinds
    <3> QED BY <3>1, <3>4, <3>6, <3>7, <3>8
  <2>2. \A k \in Keys : node'[k] # None => node'[k].old
    BY <1>6, AggregatesNode, WalkNode
  <2>3. ~AtRest'
    BY <1>6 DEF ApplyAggregates, AtRest
  <2> QED BY <2>1, <2>2, <2>3 DEF DueInv
<1>7. ASSUME Assemble PROVE DueInv'
  <2>1. UNCHANGED <<due, shown>> /\ ~AtRest'
    BY <1>7 DEF Assemble, AtRest
  <2>2. \A k \in Keys : node'[k] # None => 
          /\ node[k] # None /\ SameNode(node'[k], node[k])
          /\ ~node'[k].off => ~node[k].off
    BY <1>7, AssembleNode DEF SameNode
  <2>3. ASSUME NEW k \in Keys, k \notin due PROVE Shown(k)'
    <3>1. Shown(k)
      BY <2>3 DEF DueInv
    <3> QED BY <2>1, <2>2, <3>1 DEF Shown, SameNode
  <2>4. \A k \in Keys : node'[k] # None /\ ~node'[k].old => k \in due
    BY <2>2 DEF DueInv, SameNode
  <2> QED BY <2>1, <2>3, <2>4 DEF DueInv
<1>8. ASSUME Render PROVE DueInv'
  <2>1. /\ shown' = [k \in Keys |-> IF k \in Rendering \ Failing THEN View(node[k]) ELSE shown[k]]
        /\ due' = due \ Rendering /\ UNCHANGED node /\ phase = "assembled"
    BY <1>8 DEF Render
  <2>2. ASSUME NEW k \in Keys, k \notin due' PROVE Shown(k)'
    <3>1. CASE k \notin due
      <4>1. shown'[k] = shown[k] /\ Shown(k)
        BY <2>1, <3>1 DEF Rendering, DueInv
      <4> QED BY <2>1, <4>1 DEF Shown
    <3>2. CASE k \in Failing
      BY <2>1, <3>2 DEF Failing, Shown
    <3>3. CASE k \in Rendering \ Failing
      <4>1. shown'[k] = View(node[k]) /\ node[k] # None
        BY <2>1, <3>3 DEF Rendering
      <4>2. shown'[k] # None
        <5>1. shown'[k] \in Views
          BY <4>1 DEF View, Views, AssemblerTypeOK, Nodes
        <5> QED BY <5>1, AssemblerAssumption
      <4>3. shown'[k].params = node[k].params /\ shown'[k].date = node[k].date
        BY <4>1 DEF View
      <4> QED BY <2>1, <4>2, <4>3 DEF Shown
    <3> QED BY <2>1, <2>2, <3>1, <3>2, <3>3
  <2>3. \A k \in Keys : node[k] # None => node[k].old
    BY <2>1 DEF WalkedInv
  <2>4. \A k \in due' : node'[k] = None \/ node'[k].off
    BY <2>1 DEF Rendering
  <2> QED BY <2>1, <2>2, <2>3, <2>4 DEF DueInv
<1> QED BY <1>1, <1>2, <1>3, <1>4, <1>5, <1>6, <1>7, <1>8 DEF AssemblerNext

LEMMA ArriveStep ==
  AssemblerTypeOK /\ ArriveInv /\ [AssemblerNext]_assemblerVars => ArriveInv'
<1> SUFFICES ASSUME AssemblerTypeOK, ArriveInv, [AssemblerNext]_assemblerVars PROVE ArriveInv'
  OBVIOUS
<1>0. OneFilePerDirectory' <=> OneFilePerDirectory
  BY DEF OneFilePerDirectory
<1>1. ASSUME NEW k \in Keys, EditFile(k) PROVE ArriveInv'
  <2>1. /\ UNCHANGED <<stumbled, outcome, phase, read>> /\ outcome # "none"
        /\ batch' = batch \cup {k} /\ \A j \in Keys \ {k} : source'[j] = source[j]
    BY <1>1 DEF EditFile, AssemblerTypeOK
  <2> QED BY <1>0, <2>1 DEF ArriveInv, EditsArrive
<1>2. ASSUME ReadAll PROVE ArriveInv'
  <2>1. Replace({}, Keys) /\ UNCHANGED source /\ phase' = "loaded" /\ outcome' = "none"
        /\ phase = "idle" /\ outcome = "none"
    BY <1>2 DEF ReadAll
  <2>2. ASSUME NEW k \in Keys PROVE read'[k] = source[k]
    <3>1. k \notin Made(Keys) => source[k] = None /\ read[k] = None
      BY <2>1 DEF Made, ArriveInv
    <3>2. Replace({}, Keys)
      BY <2>1
    <3>3. /\ k \in Made(Keys) => read'[k] = source[k]
          /\ k \notin Made(Keys) => read'[k] \in {None, read[k]}
      BY <3>2 DEF Replace, Made
    <3> QED BY <3>1, <3>3
  <2> QED BY <2>1, <2>2 DEF ArriveInv, EditsArrive
<1>3. ASSUME Load PROVE ArriveInv'
  <2>0. /\ UNCHANGED <<source, stumbled, outcome>> /\ outcome # "none" /\ batch' = {}
        /\ phase' = "loaded"
    BY <1>3 DEF Load
  <2>1. PICK L \in Loadable(Events) : Replace(Events, L)
    BY <1>3 DEF Load
  <2> SUFFICES ASSUME ~stumbled, OneFilePerDirectory, NEW k \in Keys PROVE read'[k] = source[k]
    BY <1>0, <2>0 DEF ArriveInv, EditsArrive
  <2>2. k \in Made(L) => read'[k] = source[k]
    BY <2>1, ReplaceIs
  <2>3. ASSUME k \notin Made(L), k \in Removed(Events) PROVE read'[k] = source[k]
    <3>1. read'[k] = None
      BY <2>1, <2>3, ReplaceIs
    <3>2. source[k] = None \/ k \in LoadedUnder(Events)
      BY <2>3 DEF Removed
    <3>3. LoadedUnder(Events) \subseteq L
      BY DEF Loadable
    <3> QED BY <2>3, <3>1, <3>2, <3>3 DEF Made
  <2>4. ASSUME k \notin Made(L), k \notin Removed(Events) PROVE read'[k] = source[k]
    <3>1. read'[k] = read[k]
      BY <2>1, <2>4, ReplaceIs
    <3>2. CASE k \notin batch
      BY <2>0, <3>1, <3>2 DEF ArriveInv, EditsArrive
    <3>3. CASE k \in batch
      <4>1. k \in Events /\ source[k] # None
        BY <2>4, <3>3 DEF Events, Removed
      <4>2. k \in L
        <5> DEFINE d == IF k \in Branches THEN k ELSE Parent[k]
        <5>1. d \in Branches /\ k \in FilesIn(d) /\ (d # k => k \in Pages /\ d = Parent[k])
          BY AssemblerAssumption DEF Keys, FilesIn
        <5> HIDE DEF d
        <5>2. d \in Directories(Events)
          BY <4>1, <5>1 DEF Directories
        <5>3. Loads(Events, L)
          BY DEF Loadable
        <5>4. \/ FilesIn(d) \subseteq L
              \/ /\ d \notin Events
                 /\ Cardinality(L \cap FilesIn(d)) = 1 /\ L \cap FilesIn(d) \subseteq Events
          BY <5>2, <5>3 DEF Loads
        <5>5. CASE FilesIn(d) \subseteq L
          BY <5>1, <5>5
        <5>6. CASE /\ d \notin Events
                   /\ Cardinality(L \cap FilesIn(d)) = 1 /\ L \cap FilesIn(d) \subseteq Events
          <6>1. L \cap FilesIn(d) # {}
            BY <5>6, FS_EmptySet
          <6>2. PICK x \in L \cap FilesIn(d) : TRUE
            BY <6>1
          <6>3. x \in Pages /\ Parent[x] = d
            BY <5>6, <6>2 DEF FilesIn
          <6>4. k \in Pages /\ Parent[k] = d
            BY <4>1, <5>1, <5>6
          <6> QED BY <6>2, <6>3, <6>4 DEF OneFilePerDirectory
        <5> QED BY <5>4, <5>5, <5>6
      <4> QED BY <2>4, <4>1, <4>2 DEF Made
    <3> QED BY <3>2, <3>3
  <2> QED BY <2>2, <2>3, <2>4
<1>4. ASSUME LoadFails PROVE ArriveInv'
  BY <1>4 DEF LoadFails, ArriveInv
<1>5. ASSUME LoadTemplate \/ ApplyAggregates \/ Assemble \/ Render \/ UNCHANGED assemblerVars
      PROVE  ArriveInv'
  <2>1. UNCHANGED <<source, batch, stumbled, read>>
    BY <1>5 DEF LoadTemplate, ApplyAggregates, Assemble, Render, assemblerVars
  <2>2. CASE outcome = "none" /\ phase = "idle"
    <3>1. UNCHANGED <<outcome, phase>>
      BY <1>5, <2>2 DEF LoadTemplate, ApplyAggregates, Assemble, Render, assemblerVars
    <3> QED BY <1>0, <2>1, <3>1 DEF ArriveInv, EditsArrive
  <2>3. CASE ~(outcome = "none" /\ phase = "idle")
    <3>1. ~(outcome' = "none" /\ phase' = "idle")
      BY <1>5, <2>3 DEF LoadTemplate, ApplyAggregates, Assemble, Render, assemblerVars
    <3> QED BY <1>0, <2>1, <2>3, <3>1 DEF ArriveInv, EditsArrive
  <2> QED BY <2>2, <2>3
<1> QED BY <1>1, <1>2, <1>3, <1>4, <1>5 DEF AssemblerNext

LEMMA TreeInit == AssemblerInit => TreeInv
<1> SUFFICES ASSUME AssemblerInit PROVE TreeInv
  OBVIOUS
<1>1. AssemblerTypeOK
  BY AssemblerTypeInit
<1>2. \A k \in Keys : node[k] = None /\ read[k] = None
  BY DEF AssemblerInit
<1>3. outcome = "none" /\ phase = "idle" /\ entries = {}
  BY DEF AssemblerInit
<1>4. FilesInv
  BY <1>2 DEF FilesInv
<1>5. EntriesInv /\ WalkedInv
  BY <1>3 DEF EntriesInv, WalkedInv, AtRest
<1>6. DueInv
  BY <1>2, <1>3 DEF DueInv, Shown, AtRest
<1>7. ArriveInv
  BY <1>2, <1>3 DEF ArriveInv
<1> QED BY <1>1, <1>4, <1>5, <1>6, <1>7 DEF TreeInv

LEMMA TreeStep == TreeInv /\ [AssemblerNext]_assemblerVars => TreeInv'
BY AssemblerTypeStep, FilesStep, EntriesStep, WalkedStep, DueStep, ArriveStep DEF TreeInv

LEMMA TreeAlways == AssemblerSpec => []TreeInv
BY TreeInit, TreeStep, PTL DEF AssemblerSpec

\* After a successful build the taxonomies list what the files say, for any tree
\* and any edits: no removed or redrafted page, and none under a term it no
\* longer has, also when the build before ended halfway.
THEOREM EntriesAreCurrent == AssemblerSpec => []EntriesCurrent
<1>1. TreeInv => EntriesCurrent
  BY DEF TreeInv, EntriesInv, EntriesCurrent, TermsListed
<1> QED BY <1>1, TreeAlways, PTL

\* After a successful build what is published of a page is what the tree says of
\* it: the walk, the hooks and the loads have named every page that changed.
THEOREM PublishedIsCurrent == AssemblerSpec => []PublishedCurrent
<1>1. TreeInv => PublishedCurrent
  <2> SUFFICES ASSUME TreeInv, AtRest, NEW k \in Keys PROVE Shown(k)
    BY DEF PublishedCurrent, Shown
  <2> QED BY DEF TreeInv, DueInv, Shown
<1> QED BY <1>1, TreeAlways, PTL

\* After a successful build a branch without a date has the newest date of the
\* files below it, whatever it had from below before.
THEOREM DatesComeFromBelow == AssemblerSpec => []DatesFromBelow
<1>1. TreeInv => DatesFromBelow
  BY DEF TreeInv, WalkedInv, DatesFromBelow
<1> QED BY <1>1, TreeAlways, PTL

\* Without a parse error in the session and with one plain file per directory,
\* a successful build has read every saved file without an event to come.
THEOREM EditsArriveInTime == AssemblerSpec => []EditsArriveUnlessCrowded
<1>1. TreeInv => EditsArriveUnlessCrowded
  BY DEF TreeInv, ArriveInv, EditsArriveUnlessCrowded, AtRest
<1> QED BY <1>1, TreeAlways, PTL

-----------------------------------------------------------------------------
(* Cascades.  A page's own maps and its compiled cascade are left from the  *)
(* build before: they hold what the walk would put there, or nothing, and   *)
(* a page that compiled nothing is one that has to be looked at again.      *)

\* The files, and what was read of them: one of the file's contents, that parses.
ReadInv ==
  \A k \in Keys :
    /\ source[k] \in Sources[k]
    /\ read[k] # None => read[k] \in Sources[k] /\ read[k].bad # "parse"

\* The cascade of the file that was read.
CascadeOf(k) == FileOf(k).cascade

\* A file's own cascade with what the site's adds to it: what a page with a cascade
\* keeps of its own, and what it passes down.
WithSite(c) == [m \in Matchers |-> IF c[m] = None \/ SiteCascade[m] = None THEN c[m]
                                   ELSE Over(c[m], SiteCascade[m])]

Full(c) == [m \in Matchers |-> IF c[m] = None THEN SiteCascade[m]
                               ELSE IF SiteCascade[m] = None THEN c[m]
                               ELSE Over(c[m], SiteCascade[m])]

\* What a page with a cascade compiles.
OwnEntries(k, inner) == [m \in Matchers |-> IF inner[m] = None THEN SiteEntries[m]
                                            ELSE Entry(k, inner[m])]

\* What those of a set of keys hand down, of whom at most one has a cascade.
HandedBy(K, down) ==
  /\ \A c \in K : CascadeOf(c) # None => down = OwnEntries(c, WithSite(CascadeOf(c)))
  /\ (\A c \in K : CascadeOf(c) = None) => down = SiteEntries

\* The page's parameters are its own and those of the maps.
HasApplied(n, maps) == n.params = Apply(n.file.own, maps, "")

\* The same as HandedBy, of what a page has applied.
AppliesFrom(K, n) ==
  /\ \A c \in K : CascadeOf(c) # None => HasApplied(n, Full(CascadeOf(c)))
  /\ (\A c \in K : CascadeOf(c) = None) => HasApplied(n, SiteCascade)

NoMaps == [m \in Matchers |-> None]

\* Above the page somebody passes a cascade down.
Covered(k) == ~Empty(SiteCascade) \/ \E j \in Ancestors[k] : CascadeOf(j) # None

\* Whose maps a compiled cascade refers to: those are still there, and hold what
\* it has of them.
RefersTo(c) ==
  \A m \in Matchers :
    c[m] # None /\ c[m].of # None =>
      /\ node[c[m].of] # None /\ node[c[m].of].old /\ node[c[m].of].inner # None
      /\ node[c[m].of].inner[m] = c[m].map

\* What a page has of a cascade of its own.
OwnCascade(k, n) ==
  /\ n.inner # None <=> n.file.cascade # None
  /\ n.old /\ n.inner # None =>
       n.inner = WithSite(n.file.cascade) /\ n.compiled = OwnEntries(k, n.inner)
  /\ ~n.old => n.inner = n.file.cascade /\ n.compiled = None

\* A branch with a cascade is there and has its kind, and nothing stands in for
\* a page.
Cascader(k) ==
  /\ k \in Branches /\ CascadeOf(k) # None =>
       node[k] # None /\ node[k].file = FileOf(k) /\ node[k].kind = KindOf(k)
  /\ k \in Pages /\ node[k] # None => node[k].file = FileOf(k)

\* What a page applied: the cascade it has, or when it has none, its own
\* parameters, unless somebody above cascades.
Applied(k, n) ==
  n.old =>
    /\ n.compiled # None => HasApplied(n, Maps(n.compiled))
    /\ n.compiled = None => HasApplied(n, NoMaps) \/ Covered(k)

CascadeInv ==
  \A k \in Keys :
    /\ Cascader(k)
    /\ node[k] # None => /\ node[k].compiled # None => RefersTo(node[k].compiled)
                         /\ OwnCascade(k, node[k]) /\ Applied(k, node[k])

\* Once the walk has been there a page has applied what is above it.
AppliedInv ==
  phase \in {"aggregated", "assembled"} \/ AtRest =>
    \A k \in Keys : node[k] # None => AppliesFrom({k} \cup Ancestors[k], node[k])

PlainTreeInv == ReadInv /\ (PlainCascades => CascadeInv /\ AppliedInv)

LEMMA FileOfType ==
  ASSUME AssemblerTypeOK, NEW k \in Keys
  PROVE  FileOf(k) \in FileContents /\ CascadeOf(k) \in Cascades \cup {None}
<1>1. FileOf(k) \in FileContents
  BY BlankFile DEF FileOf, AssemblerTypeOK
<1> QED BY <1>1 DEF CascadeOf, FileContents

\* Who has a cascade may have one, so those above it have none.
LEMMA OneCascades ==
  ASSUME ReadInv, PlainCascades, NEW k \in Keys, CascadeOf(k) # None
  PROVE  MayCascade(k) /\ \A j \in Ancestors[k] : CascadeOf(j) = None
<1>1. \A j \in Keys : CascadeOf(j) # None => MayCascade(j)
  <2> TAKE j \in Keys
  <2> SUFFICES ASSUME CascadeOf(j) # None PROVE MayCascade(j)
    OBVIOUS
  <2>1. read[j] # None /\ CascadeOf(j) = read[j].cascade
    BY BlankIs DEF CascadeOf, FileOf
  <2>2. read[j] \in Sources[j]
    BY <2>1 DEF ReadInv
  <2> QED BY <2>1, <2>2 DEF MayCascade
<1>2. MayCascade(k) /\ \A j \in Ancestors[k] : ~MayCascade(j)
  BY <1>1 DEF PlainCascades
<1>3. Ancestors[k] \subseteq Keys
  BY AncestorsOf, Basics
<1> QED BY <1>1, <1>2, <1>3

\* What the kinds of the matchers do not tell apart.
LEMMA KindIgnored ==
  ASSUME PlainCascades, NEW own, NEW maps, NEW kind \in Kinds
  PROVE  Apply(own, maps, kind) = Apply(own, maps, "")
<1>1. \A m \in Matchers : kind \in Takes[m] /\ "" \in Takes[m]
  BY DEF PlainCascades, Kinds
<1> QED BY <1>1 DEF Apply

\* What is added once is there.
LEMMA OverTwice ==
  ASSUME NEW own \in ParamMaps, NEW above \in ParamMaps
  PROVE  Over(Over(own, above), above) = Over(own, above)
BY DEF Over, ParamMaps

LEMMA SiteMaps ==
  /\ SiteEntries \in Compiled /\ SiteEntries # None /\ Maps(SiteEntries) = SiteCascade
  /\ \A m \in Matchers :
       /\ SiteCascade[m] \in ParamMaps \cup {None}
       /\ SiteEntries[m] = None <=> SiteCascade[m] = None
       /\ SiteEntries[m] # None => SiteEntries[m].of = None /\ SiteEntries[m].map = SiteCascade[m]
<1>1. \A m \in Matchers : SiteCascade[m] \in ParamMaps \cup {None}
  BY Basics DEF Cascades
<1>2. \A m \in Matchers : SiteCascade[m] # None =>
        /\ Entry(None, SiteCascade[m]) \in CascadeEntries
        /\ Entry(None, SiteCascade[m]).of = None /\ Entry(None, SiteCascade[m]).map = SiteCascade[m]
  BY <1>1 DEF Entry, CascadeEntries
<1>3. \A m \in Matchers :
        /\ SiteEntries[m] \in CascadeEntries \cup {None}
        /\ SiteEntries[m] = None <=> SiteCascade[m] = None
        /\ SiteEntries[m] # None => SiteEntries[m].of = None /\ SiteEntries[m].map = SiteCascade[m]
  <2> TAKE m \in Matchers
  <2>1. SiteEntries[m] = IF SiteCascade[m] = None THEN None ELSE Entry(None, SiteCascade[m])
    BY DEF SiteEntries
  <2> QED BY <2>1, <1>2, AssemblerAssumption
<1>4. SiteEntries \in Compiled
  BY <1>3 DEF SiteEntries, Compiled
<1>5. SiteEntries # None
  BY <1>4, AssemblerAssumption
<1>6. Maps(SiteEntries) = [m \in Matchers |-> SiteCascade[m]]
  BY <1>3, <1>5 DEF Maps
<1>7. SiteCascade = [m \in Matchers |-> SiteCascade[m]]
  BY Basics DEF Cascades
<1> QED BY <1>1, <1>3, <1>4, <1>5, <1>6, <1>7

\* A page's own maps once it has taken what the site has.
LEMMA WithSiteIs ==
  ASSUME NEW k \in Keys, NEW c \in Cascades
  PROVE  /\ WithSite(c) \in Cascades /\ WithSite(c) # None /\ c # None
         /\ WithSite(WithSite(c)) = WithSite(c)
         /\ \A m \in Matchers : WithSite(c)[m] = None <=> c[m] = None
         /\ OwnEntries(k, WithSite(c)) \in Compiled /\ OwnEntries(k, WithSite(c)) # None
         /\ Maps(OwnEntries(k, WithSite(c))) = Full(c)
         /\ \A m \in Matchers :
              LET e == OwnEntries(k, WithSite(c))[m] IN
              /\ e # None => e.of \in {k, None} /\ e.map \in ParamMaps
              /\ e # None /\ e.of = k => WithSite(c)[m] = e.map /\ c[m] # None
<1>1. \A m \in Matchers : c[m] \in ParamMaps \cup {None}
  BY DEF Cascades
<1>2. \A m \in Matchers : SiteCascade[m] \in ParamMaps \cup {None}
  BY SiteMaps
<1>3. \A m \in Matchers : WithSite(c)[m] = IF c[m] = None \/ SiteCascade[m] = None THEN c[m]
                                            ELSE Over(c[m], SiteCascade[m])
  BY DEF WithSite
<1>4. \A m \in Matchers : c[m] # None /\ SiteCascade[m] # None =>
        /\ Over(c[m], SiteCascade[m]) \in ParamMaps /\ Over(c[m], SiteCascade[m]) # None
        /\ Over(Over(c[m], SiteCascade[m]), SiteCascade[m]) = Over(c[m], SiteCascade[m])
  <2> TAKE m \in Matchers
  <2> SUFFICES ASSUME c[m] # None, SiteCascade[m] # None
               PROVE  /\ Over(c[m], SiteCascade[m]) \in ParamMaps /\ Over(c[m], SiteCascade[m]) # None
                      /\ Over(Over(c[m], SiteCascade[m]), SiteCascade[m]) = Over(c[m], SiteCascade[m])
    OBVIOUS
  <2>1. c[m] \in ParamMaps /\ SiteCascade[m] \in ParamMaps
    BY <1>1, <1>2
  <2>2. Over(c[m], SiteCascade[m]) \in ParamMaps
    BY <2>1, OverType
  <2>3. Over(Over(c[m], SiteCascade[m]), SiteCascade[m]) = Over(c[m], SiteCascade[m])
    BY <2>1, OverTwice
  <2> QED BY <2>2, <2>3, AssemblerAssumption
<1>5. \A m \in Matchers : /\ WithSite(c)[m] \in ParamMaps \cup {None}
                          /\ WithSite(c)[m] = None <=> c[m] = None
  BY <1>1, <1>3, <1>4
<1>6. WithSite(c) \in Cascades
  BY <1>5 DEF WithSite, Cascades
<1>7. WithSite(WithSite(c)) = WithSite(c)
  <2>1. \A m \in Matchers : (IF WithSite(c)[m] = None \/ SiteCascade[m] = None THEN WithSite(c)[m]
                             ELSE Over(WithSite(c)[m], SiteCascade[m])) = WithSite(c)[m]
    BY <1>3, <1>4
  <2>2. WithSite(WithSite(c)) = [m \in Matchers |-> WithSite(c)[m]]
    <3> DEFINE w == WithSite(c)
    <3>1. WithSite(w) = [m \in Matchers |-> IF w[m] = None \/ SiteCascade[m] = None THEN w[m]
                             ELSE Over(w[m], SiteCascade[m])]
      BY DEF WithSite
    <3> HIDE DEF w
    <3>2. \A m \in Matchers : (IF w[m] = None \/ SiteCascade[m] = None THEN w[m]
                             ELSE Over(w[m], SiteCascade[m])) = w[m]
      BY <2>1 DEF w
    <3> QED BY <3>1, <3>2 DEF w
  <2> QED BY <2>2, <1>6 DEF Cascades
<1> DEFINE w == WithSite(c)
           o == OwnEntries(k, w)
<1>8. \A m \in Matchers : o[m] = IF w[m] = None THEN SiteEntries[m] ELSE Entry(k, w[m])
  BY DEF OwnEntries
<1>9. w \in Cascades /\ \A m \in Matchers : w[m] \in ParamMaps \cup {None}
  BY <1>5, <1>6
<1>10. o = [m \in Matchers |-> o[m]]
  BY DEF OwnEntries
<1>b. \A m \in Matchers : w[m] = None <=> c[m] = None
  BY <1>5
<1>c. \A m \in Matchers : w[m] = IF c[m] = None \/ SiteCascade[m] = None THEN c[m]
                                  ELSE Over(c[m], SiteCascade[m])
  BY <1>3
<1> HIDE DEF w, o
<1>11. \A m \in Matchers : w[m] # None =>
         /\ Entry(k, w[m]) \in CascadeEntries
         /\ Entry(k, w[m]).of = k /\ Entry(k, w[m]).map = w[m]
  BY <1>9 DEF Entry, CascadeEntries
<1>a. k # None
  BY AssemblerAssumption
<1>12. ASSUME NEW m \in Matchers
       PROVE  /\ o[m] \in CascadeEntries \cup {None}
              /\ o[m] # None => o[m].of \in {k, None} /\ o[m].map \in ParamMaps
              /\ o[m] # None /\ o[m].of = k => w[m] = o[m].map /\ w[m] # None
              /\ (IF o[m] = None THEN None ELSE o[m].map) = Full(c)[m]
  <2>1. Full(c)[m] = IF c[m] = None THEN SiteCascade[m]
                     ELSE IF SiteCascade[m] = None THEN c[m] ELSE Over(c[m], SiteCascade[m])
    BY DEF Full
  <2>2. CASE w[m] = None
    <3>1. o[m] = SiteEntries[m] /\ Full(c)[m] = SiteCascade[m]
      BY <1>8, <1>b, <2>1, <2>2
    <3>2. SiteEntries[m] \in CascadeEntries \cup {None}
      BY SiteMaps DEF Compiled
    <3> QED BY <1>a, <1>2, <3>1, <3>2, SiteMaps
  <2>3. CASE w[m] # None
    <3>1. o[m] = Entry(k, w[m]) /\ Full(c)[m] = w[m]
      BY <1>8, <1>b, <1>c, <2>1, <2>3
    <3>2. Entry(k, w[m]) # None
      BY <1>11, <2>3, AssemblerAssumption
    <3> QED BY <1>9, <1>11, <2>3, <3>1, <3>2
  <2> QED BY <2>2, <2>3
<1>13. o \in Compiled
  BY <1>10, <1>12 DEF Compiled
<1>14. o # None
  BY <1>13, AssemblerAssumption
<1>15. Maps(o) = Full(c)
  <2>1. Maps(o) = [m \in Matchers |-> IF o[m] = None THEN None ELSE o[m].map]
    BY <1>14 DEF Maps
  <2>2. Full(c) = [m \in Matchers |-> Full(c)[m]]
    BY DEF Full
  <2> QED BY <1>12, <2>1, <2>2
<1>16. w # None /\ c # None
  BY <1>9, AssemblerAssumption
<1> QED BY <1>7, <1>9, <1>b, <1>12, <1>13, <1>14, <1>15, <1>16 DEF w, o

\* The maps of the pages from earlier builds are those the tree has.
MapsKept(maps) ==
  \A j \in Keys : node[j] # None /\ node[j].old /\ node[j].inner # None => maps[j] = node[j].inner

CascadeTypes(above) ==
  above.down \in Compiled /\ above.maps \in [Keys -> Cascades \cup {None}]

\* The page the walk sees has the cascade that was read.
LEMMA PresentCascade ==
  ASSUME AssemblerTypeOK, FilesInv, CascadeInv, NEW k \in Keys
  PROVE  LET n == Present(k) IN
         /\ n = None /\ k \in Branches => CascadeOf(k) = None
         /\ n # None => /\ n \in Nodes /\ n.file.cascade = CascadeOf(k) /\ n.file.own \in ParamMaps
                        /\ OwnCascade(k, n) /\ Applied(k, n)
                        /\ n.compiled # None => RefersTo(n.compiled)
                        /\ CascadeOf(k) # None => n = node[k]
<1> DEFINE n == Present(k)
<1>1. TreeOK
  BY DEF AssemblerTypeOK, TreeOK
<1>2. CASE Missing(k)
  <2>1. node[k] = None /\ k \in Branches /\ n # None /\ n = Fresh(k, Blank)
    BY <1>1, <1>2, PresentNode
  <2>2. CascadeOf(k) = None
    BY <2>1 DEF CascadeInv, Cascader
  <2>3. /\ Fresh(k, Blank) \in Nodes /\ Fresh(k, Blank).file = Blank /\ Fresh(k, Blank).old = FALSE
        /\ Fresh(k, Blank).inner = Blank.cascade /\ Fresh(k, Blank).compiled = None
    BY BlankFile, FreshNode
  <2> HIDE DEF n
  <2>4. n \in Nodes /\ n.file = Blank /\ n.old = FALSE /\ n.inner = None /\ n.compiled = None
    BY <2>1, <2>3, BlankIs
  <2>5. n.file.cascade = None /\ n.file.own \in ParamMaps
    BY <2>4, BlankIs, BlankFile DEF FileContents
  <2> QED BY <2>1, <2>2, <2>4, <2>5 DEF OwnCascade, Applied, n
<1>3. CASE ~Missing(k)
  <2>1. n = node[k] /\ n \in Nodes \cup {None}
    BY <1>1, <1>3, PresentNode
  <2> HIDE DEF n
  <2>2. CASE n = None
    <3>1. k \in Branches => CascadeOf(k) = None
      BY <2>1, <2>2 DEF CascadeInv, Cascader
    <3> QED BY <2>2, <3>1 DEF n
  <2>3. CASE n # None
    <3>1. n \in Nodes /\ n.file.own \in ParamMaps
      BY <2>1, <2>3 DEF Nodes, FileContents
    <3>2. OwnCascade(k, n) /\ Applied(k, n) /\ (n.compiled # None => RefersTo(n.compiled))
      BY <2>1, <2>3 DEF CascadeInv
    <3>3. n.file.cascade = CascadeOf(k)
      <4>1. n.file = FileOf(k) \/ n.file = Blank
        BY <2>1, <2>3 DEF FilesInv
      <4>2. CASE n.file = FileOf(k)
        BY <4>2 DEF CascadeOf
      <4>3. CASE n.file # FileOf(k)
        <5>1. k \notin Pages /\ k \in Branches /\ n.file = Blank
          BY <2>1, <2>3, <4>1, <4>3 DEF CascadeInv, Cascader, Keys
        <5>2. CascadeOf(k) = None
          BY <2>1, <4>3, <5>1 DEF CascadeInv, Cascader
        <5> QED BY <5>1, <5>2, BlankIs
      <4> QED BY <4>2, <4>3
    <3> QED BY <2>1, <2>3, <3>1, <3>2, <3>3 DEF n
  <2> QED BY <2>2, <2>3
<1> QED BY <1>2, <1>3

\* A compiled cascade still holds what it held, when the walk comes by.
LEMMA HeldIs ==
  ASSUME AssemblerTypeOK, NEW n \in Nodes, NEW maps, MapsKept(maps),
         n.compiled # None => RefersTo(n.compiled)
  PROVE  HeldNow(n, maps) = IF n.compiled = None THEN NoMaps ELSE Maps(n.compiled)
<1>1. CASE n.compiled = None
  BY <1>1 DEF HeldNow, NoMaps
<1>2. CASE n.compiled # None
  <2> DEFINE c == n.compiled
  <2>1. c \in Compiled
    BY <1>2 DEF Nodes
  <2>2. ASSUME NEW m \in Matchers
        PROVE  (IF c[m] = None THEN None ELSE IF c[m].of = None THEN c[m].map ELSE maps[c[m].of][m])
                 = IF c[m] = None THEN None ELSE c[m].map
    <3> SUFFICES ASSUME c[m] # None, c[m].of # None PROVE maps[c[m].of][m] = c[m].map
      OBVIOUS
    <3>1. c[m].of \in Keys
      BY <2>1 DEF Compiled, CascadeEntries
    <3>2. /\ node[c[m].of] # None /\ node[c[m].of].old /\ node[c[m].of].inner # None
          /\ node[c[m].of].inner[m] = c[m].map
      BY <1>2 DEF RefersTo
    <3>3. maps[c[m].of] = node[c[m].of].inner
      BY <3>1, <3>2 DEF MapsKept
    <3> QED BY <3>2, <3>3
  <2>3. HeldNow(n, maps) = [m \in Matchers |-> IF c[m] = None THEN None
                             ELSE IF c[m].of = None THEN c[m].map ELSE maps[c[m].of][m]]
    BY <1>2 DEF HeldNow
  <2>4. Maps(c) = [m \in Matchers |-> IF c[m] = None THEN None ELSE c[m].map]
    BY <1>2 DEF Maps
  <2> HIDE DEF c
  <2> QED BY <2>2, <2>3, <2>4, <1>2 DEF c
<1> QED BY <1>1, <1>2

\* The same by whether the cascade is what it was.
LEMMA SetMetaPostCalm ==
  ASSUME NEW k \in Keys, NEW n \in Nodes, NEW above \in Compiled, NEW before,
         ~CascadeMoves(k, n, above, before)
  PROVE  LET r == SetMetaPost(k, n, above, before)
             c == Compile(k, n, above)
         IN  /\ r.node # None /\ r.node.file = n.file /\ r.node.kind = n.kind
             /\ r.node.inner = Merged(n, above) /\ r.node.compiled = c
             /\ n.old => r.node.params = n.params
             /\ ~n.old => r.node.params = Apply(n.file.own, Maps(c), n.kind)
<1> DEFINE c == Compile(k, n, above)
           kept == [n EXCEPT !.inner = Merged(n, above), !.compiled = c, !.date = n.file.date]
           made == [n EXCEPT !.inner = Merged(n, above), !.old = TRUE, !.kind = n.kind,
                             !.compiled = c, !.params = Apply(n.file.own, Maps(c), n.kind),
                             !.date = n.file.date, !.off = FALSE]
           new == SetMetaPost(k, n, above, before).node
<1>a. new # None
  BY SetMetaPostIs
<1>1. n.old => before = Maps(c)
  BY DEF CascadeMoves
<1>2. new = IF n.old THEN kept ELSE made
  <2>1. CASE n.old
    BY <1>1, <2>1 DEF SetMetaPost, Compile, Merged
  <2>2. CASE ~n.old
    BY <2>2 DEF SetMetaPost, Compile, Merged, OwnParams
  <2> QED BY <2>1, <2>2
<1>3. n = [file |-> n.file, kind |-> n.kind, old |-> n.old, inner |-> n.inner,
           compiled |-> n.compiled, params |-> n.params, date |-> n.date, off |-> n.off]
  BY DEF Nodes
<1> HIDE DEF c, new
<1>4. /\ kept.file = n.file /\ kept.kind = n.kind /\ kept.inner = Merged(n, above)
      /\ kept.compiled = c /\ kept.params = n.params
  BY <1>3
<1>5. /\ made.file = n.file /\ made.kind = n.kind /\ made.inner = Merged(n, above)
      /\ made.compiled = c /\ made.params = Apply(n.file.own, Maps(c), n.kind)
  BY <1>3
<1> HIDE DEF kept, made
<1>6. /\ new.file = n.file /\ new.kind = n.kind /\ new.inner = Merged(n, above)
      /\ new.compiled = c
      /\ n.old => new.params = n.params
      /\ ~n.old => new.params = Apply(n.file.own, Maps(c), n.kind)
  BY <1>2, <1>4, <1>5
<1> QED BY <1>a, <1>6 DEF new, c

LEMMA SetMetaPostMoves ==
  ASSUME NEW k \in Keys, NEW n \in Nodes, NEW above \in Compiled, NEW before,
         n.old = TRUE, before # Maps(Compile(k, n, above))
  PROVE  LET r == SetMetaPost(k, n, above, before)
         IN  /\ r.node # None /\ r.node.file = n.file /\ r.node.kind = ""
             /\ r.node.inner = Merged(n, above) /\ r.node.compiled = None
             /\ r.node.params = Apply(n.file.own, Maps(Compile(k, n, above)), r.node.kind)
<1> DEFINE c == Compile(k, n, above)
           made == [n EXCEPT !.inner = Merged(n, above), !.old = TRUE, !.kind = "",
                             !.compiled = None, !.params = Apply(n.file.own, Maps(c), ""),
                             !.date = n.file.date, !.off = FALSE]
           new == SetMetaPost(k, n, above, before).node
<1>2. new = made
  BY DEF SetMetaPost, Compile, Merged, OwnParams
<1>3. n = [file |-> n.file, kind |-> n.kind, old |-> n.old, inner |-> n.inner,
           compiled |-> n.compiled, params |-> n.params, date |-> n.date, off |-> n.off]
  BY DEF Nodes
<1> HIDE DEF c, new
<1>4. /\ made.file = n.file /\ made.kind = "" /\ made.inner = Merged(n, above)
      /\ made.compiled = None /\ made.params = Apply(n.file.own, Maps(c), "")
  BY <1>3
<1>a. made # None
  <2> DEFINE p == Apply(n.file.own, Maps(c), "")
  <2>1. p \in ParamMaps
    BY ApplyType DEF Nodes, FileContents
  <2>2. Merged(n, above) \in Cascades \cup {None}
    BY CompileType
  <2>3. n.file \in FileContents /\ n.file.date \in Nat /\ "" \in Kinds
    BY DEF Nodes, FileContents, Kinds
  <2> HIDE DEF p
  <2>4. made \in Nodes
    BY <2>1, <2>2, <2>3 DEF Nodes, p
  <2> HIDE DEF made
  <2> QED BY <2>4, AssemblerAssumption
<1> HIDE DEF made
<1>5. /\ new # None /\ new.file = n.file /\ new.kind = "" /\ new.inner = Merged(n, above)
      /\ new.compiled = None /\ new.params = Apply(n.file.own, Maps(c), "")
  BY <1>2, <1>4, <1>a
<1> QED BY <1>5 DEF new, c

\* A page with a cascade keeps it, and nothing comes from above but the site's.
LEMMA VisitOwn ==
  ASSUME AssemblerTypeOK, FilesInv, ReadInv, PlainCascades, CascadeInv, NEW k \in Keys, NEW above,
         CascadeTypes(above), MapsKept(above.maps), HandedBy(Ancestors[k], above.down),
         CascadeOf(k) # None, node[k] # None
  PROVE  LET v == Visit(k, above)
             c == CascadeOf(k)
         IN  /\ v.node # None /\ v.node.file = node[k].file /\ v.node.kind = node[k].kind
             /\ v.node.inner = WithSite(c) /\ v.node.compiled = OwnEntries(k, WithSite(c))
             /\ HasApplied(v.node, Full(c))
             /\ v.down = IF node[k].kind = "page" THEN above.down ELSE OwnEntries(k, WithSite(c))
             /\ v.maps = [above.maps EXCEPT ![k] = WithSite(c)]
             /\ node[k].old => node[k].inner = WithSite(c)
<1> DEFINE n == node[k]
           c == CascadeOf(k)
           w == WithSite(c)
           before == HeldNow(n, above.maps)
           r == SetMetaPost(k, n, above.down, before)
           v == Visit(k, above)
<1>1. TreeOK
  BY DEF AssemblerTypeOK, TreeOK
<1>2. Present(k) = n /\ n \in Nodes /\ n.file.cascade = c /\ OwnCascade(k, n) /\ Applied(k, n)
      /\ (n.compiled # None => RefersTo(n.compiled)) /\ n # None
  <2>1. Present(k) = n
    BY DEF Present, Missing
  <2> QED BY <2>1, PresentCascade
<1>3. c \in Cascades
  BY FileOfType
<1>4. above.down = SiteEntries
  BY OneCascades DEF HandedBy
<1>5. /\ w \in Cascades /\ w # None /\ c # None /\ WithSite(w) = w
      /\ OwnEntries(k, w) \in Compiled /\ OwnEntries(k, w) # None
      /\ Maps(OwnEntries(k, w)) = Full(c)
  BY <1>3, WithSiteIs
<1>6. /\ v.node = r.node
      /\ v.down = (IF r.node.kind = "page" \/ r.node.compiled = None THEN above.down
                   ELSE r.node.compiled)
      /\ v.maps = [above.maps EXCEPT ![k] = r.node.inner]
  <2> DEFINE rp == SetMetaPost(k, Present(k), above.down, HeldNow(Present(k), above.maps))
  <2>1. Present(k) # None
    BY <1>2
  <2>2. /\ v.node = rp.node
        /\ v.down = (IF rp.node.kind = "page" \/ rp.node.compiled = None THEN above.down
                     ELSE rp.node.compiled)
        /\ v.maps = [above.maps EXCEPT ![k] = rp.node.inner]
    <3> HIDE DEF n, r, c, w
    <3> QED BY <1>1, <2>1, VisitIs DEF CascadeTypes
  <2>3. rp = r
    BY <1>2
  <2> HIDE DEF rp, r, v
  <2> QED BY <2>2, <2>3
<1> HIDE DEF n, c, before
<1>7. n.inner = IF n.old THEN w ELSE c
  <2> HIDE DEF w
  <2> QED BY <1>2, <1>5 DEF OwnCascade, w
<1>8. Merged(n, above.down) = w
  <2>1. n.inner # None
    BY <1>5, <1>7
  <2>2. Merged(n, SiteEntries) =
          [m \in Matchers |-> IF n.inner[m] = None \/ SiteEntries[m] = None THEN n.inner[m]
                              ELSE Over(n.inner[m], SiteEntries[m].map)]
    BY <2>1 DEF Merged
  <2>3. \A m \in Matchers : /\ SiteEntries[m] = None <=> SiteCascade[m] = None
                            /\ SiteEntries[m] # None => SiteEntries[m].map = SiteCascade[m]
    BY SiteMaps
  <2>4. Merged(n, SiteEntries) = WithSite(n.inner)
    BY <2>2, <2>3 DEF WithSite
  <2> QED BY <1>4, <1>5, <1>7, <2>4
<1>9. Compile(k, n, above.down) = OwnEntries(k, w)
  <2>1. n.inner # None
    BY <1>5, <1>7
  <2> HIDE DEF w
  <2> QED BY <1>4, <1>8, <2>1 DEF Compile, OwnEntries
<1>10. ~CascadeMoves(k, n, above.down, before)
  <2> SUFFICES ASSUME n.old PROVE before = Maps(OwnEntries(k, w))
    BY <1>9 DEF CascadeMoves
  <2>1. n.inner # None /\ n.compiled = OwnEntries(k, w)
    BY <1>2, <1>5, <1>7 DEF OwnCascade
  <2>2. before = Maps(n.compiled)
    BY <1>2, <1>5, <2>1, HeldIs DEF before
  <2> QED BY <2>1, <2>2
<1>11. /\ r.node # None /\ r.node.file = n.file /\ r.node.kind = n.kind /\ r.node.inner = w
       /\ r.node.compiled = OwnEntries(k, w)
       /\ n.old => r.node.params = n.params
       /\ ~n.old => r.node.params = Apply(n.file.own, Maps(OwnEntries(k, w)), n.kind)
  <2>1. above.down \in Compiled
    BY DEF CascadeTypes
  <2> DEFINE o == OwnEntries(k, w)
  <2> HIDE DEF w, o
  <2>2. Compile(k, n, above.down) = o
    BY <1>9 DEF o
  <2>3. /\ r.node # None /\ r.node.file = n.file /\ r.node.kind = n.kind
        /\ r.node.inner = Merged(n, above.down) /\ r.node.compiled = Compile(k, n, above.down)
        /\ n.old => r.node.params = n.params
        /\ ~n.old => r.node.params = Apply(n.file.own, Maps(Compile(k, n, above.down)), n.kind)
    BY <1>2, <1>10, <2>1, SetMetaPostCalm
  <2> HIDE DEF r
  <2> QED BY <1>8, <2>2, <2>3 DEF o
<1> HIDE DEF r, v
<1>12. r.node.params = Apply(n.file.own, Full(c), "")
  <2>1. CASE n.old
    <3>1. n.compiled = OwnEntries(k, w)
      BY <1>2, <1>5, <1>7, <2>1 DEF OwnCascade
    <3> QED BY <1>2, <1>5, <1>11, <2>1, <3>1 DEF Applied, HasApplied
  <2>2. CASE ~n.old
    <3>1. n.kind \in Kinds
      BY <1>2 DEF Nodes
    <3> QED BY <1>5, <1>11, <2>2, <3>1, KindIgnored
  <2> QED BY <2>1, <2>2
<1>13. HasApplied(v.node, Full(c))
  BY <1>6, <1>11, <1>12 DEF HasApplied
<1> QED BY <1>5, <1>6, <1>7, <1>11, <1>13 DEF n, c, v

\* A file that was read of a branch with a cascade passes something down, when
\* nothing but a page's own cascade does.
LEMMA Passes ==
  ASSUME ReadInv, PlainCascades, NEW k \in Branches, CascadeOf(k) # None, Empty(SiteCascade)
  PROVE  ~Empty(CascadeOf(k))
<1>1. k \in Keys /\ MayCascade(k)
  BY Basics, OneCascades
<1>2. ~StopsCascading(k)
  BY <1>1 DEF PlainCascades
<1>3. read[k] # None /\ CascadeOf(k) = read[k].cascade
  BY BlankIs DEF CascadeOf, FileOf
<1>4. read[k] \in Sources[k] /\ read[k].bad # "parse"
  BY <1>1, <1>3 DEF ReadInv
<1> QED BY <1>2, <1>3, <1>4 DEF StopsCascading

\* What is handed down holds something exactly when somebody above cascades.
LEMMA CoveredIs ==
  ASSUME AssemblerTypeOK, ReadInv, PlainCascades, NEW k \in Keys, NEW down,
         HandedBy(Ancestors[k], down)
  PROVE  Covered(k) <=> Maps(down) # NoMaps
<1>1. CASE \A c \in Ancestors[k] : CascadeOf(c) = None
  <2>1. Maps(down) = SiteCascade
    BY <1>1, SiteMaps DEF HandedBy
  <2>2. SiteCascade = [m \in Matchers |-> SiteCascade[m]]
    BY Basics DEF Cascades
  <2>3. Empty(SiteCascade) <=> SiteCascade = NoMaps
    BY <2>2 DEF Empty, NoMaps
  <2> QED BY <1>1, <2>1, <2>3 DEF Covered
<1>2. CASE \E c \in Ancestors[k] : CascadeOf(c) # None
  <2>1. PICK c \in Ancestors[k] : CascadeOf(c) # None
    BY <1>2
  <2>2. c \in Branches /\ c \in Keys
    BY AncestorsOf, Basics
  <2>3. CascadeOf(c) \in Cascades
    BY <2>1, <2>2, FileOfType
  <2>4. Maps(down) = Full(CascadeOf(c))
    BY <2>1, <2>2, <2>3, WithSiteIs DEF HandedBy
  <2>5. \E m \in Matchers : Full(CascadeOf(c))[m] # None
    <3> DEFINE o == CascadeOf(c)
    <3>1. \A m \in Matchers : Full(o)[m] = IF o[m] = None THEN SiteCascade[m]
                     ELSE IF SiteCascade[m] = None THEN o[m] ELSE Over(o[m], SiteCascade[m])
      BY DEF Full
    <3>2. \A m \in Matchers : o[m] \in ParamMaps \cup {None} /\ SiteCascade[m] \in ParamMaps \cup {None}
      BY <2>3, Basics DEF Cascades
    <3>3. \E m \in Matchers : o[m] # None \/ SiteCascade[m] # None
      <4>1. Empty(SiteCascade) => ~Empty(o)
        BY <2>1, <2>2, Passes
      <4> QED BY <4>1 DEF Empty
    <3> HIDE DEF o
    <3>4. PICK m \in Matchers : o[m] # None \/ SiteCascade[m] # None
      BY <3>3
    <3>5. o[m] # None /\ SiteCascade[m] # None => Over(o[m], SiteCascade[m]) \in ParamMaps
      BY <3>2, OverType
    <3>6. Full(o)[m] # None
      BY <3>1, <3>4, <3>5, AssemblerAssumption
    <3> QED BY <3>6 DEF o
  <2>6. Full(CascadeOf(c)) # NoMaps
    BY <2>5 DEF NoMaps
  <2> QED BY <2>1, <2>4, <2>6 DEF Covered
<1> QED BY <1>1, <1>2

\* A page without a cascade takes what comes from above and hands it on.
LEMMA VisitPlain ==
  ASSUME AssemblerTypeOK, FilesInv, ReadInv, PlainCascades, CascadeInv, NEW k \in Keys, NEW above,
         CascadeTypes(above), MapsKept(above.maps), HandedBy(Ancestors[k], above.down),
         CascadeOf(k) = None, Present(k) # None
  PROVE  LET v == Visit(k, above)
             n == Present(k)
         IN  /\ v.node # None /\ v.node.file = n.file
             /\ v.node.inner = None /\ v.node.compiled \in {None, above.down}
             /\ HasApplied(v.node, Maps(above.down))
             /\ v.node.compiled = None => Maps(above.down) = NoMaps \/ Covered(k)
             /\ v.down = above.down
             /\ v.maps = [above.maps EXCEPT ![k] = None]
<1> DEFINE n == Present(k)
           d == above.down
           before == HeldNow(n, above.maps)
           r == SetMetaPost(k, n, d, before)
           v == Visit(k, above)
<1>1. TreeOK
  BY DEF AssemblerTypeOK, TreeOK
<1>2. /\ n \in Nodes /\ n.file.cascade = None /\ OwnCascade(k, n) /\ Applied(k, n)
      /\ n.compiled # None => RefersTo(n.compiled)
  BY PresentCascade
<1>3. d \in Compiled /\ d # None
  BY AssemblerAssumption DEF CascadeTypes
<1>4. /\ v.node = r.node
      /\ v.down = (IF r.node.kind = "page" \/ r.node.compiled = None THEN d ELSE r.node.compiled)
      /\ v.maps = [above.maps EXCEPT ![k] = r.node.inner]
  BY <1>1, VisitIs DEF CascadeTypes
<1> HIDE DEF n, d, r, v, before
<1>5. n.inner = None
  BY <1>2 DEF OwnCascade
<1>6. Merged(n, d) = None /\ Compile(k, n, d) = d
  BY <1>5 DEF Merged, Compile
<1>7. Maps(d) = NoMaps \/ Covered(k)
  BY CoveredIs DEF d
<1>8. CASE n.old /\ before # Maps(d)
  <2>1. /\ r.node # None /\ r.node.file = n.file /\ r.node.inner = None /\ r.node.compiled = None
        /\ r.node.params = Apply(n.file.own, Maps(d), "")
    <3>1. before # Maps(Compile(k, n, d))
      BY <1>6, <1>8
    <3>2. /\ r.node # None /\ r.node.file = n.file /\ r.node.inner = Merged(n, d)
          /\ r.node.compiled = None
          /\ r.node.params = Apply(n.file.own, Maps(Compile(k, n, d)), "")
      <4>1. n \in Nodes /\ d \in Compiled
        BY <1>2, <1>3
      <4>2. n.old = TRUE
        BY <1>2, <1>8 DEF Nodes
      <4>3. /\ r.node # None /\ r.node.file = n.file /\ r.node.kind = ""
            /\ r.node.inner = Merged(n, d) /\ r.node.compiled = None
            /\ r.node.params = Apply(n.file.own, Maps(Compile(k, n, d)), r.node.kind)
        BY <4>1, <4>2, <3>1, SetMetaPostMoves DEF r
      <4> QED BY <4>3
    <3> QED BY <1>6, <3>2
  <2>2. HasApplied(v.node, Maps(d))
    BY <1>4, <2>1 DEF HasApplied
  <2> QED BY <1>4, <1>7, <2>1, <2>2 DEF n, d, v
<1>9. CASE n.old => before = Maps(d)
  <2>0. ~CascadeMoves(k, n, d, before)
    BY <1>6, <1>9 DEF CascadeMoves
  <2>1. /\ r.node # None /\ r.node.file = n.file /\ r.node.inner = None /\ r.node.compiled = d
        /\ n.old => r.node.params = n.params
        /\ ~n.old => r.node.params = Apply(n.file.own, Maps(d), n.kind)
    BY <1>2, <1>3, <1>6, <2>0, SetMetaPostCalm DEF r
  <2>2. r.node.params = Apply(n.file.own, Maps(d), "")
    <3>1. CASE n.old
      <4>1. before = Maps(d)
        BY <1>9, <3>1
      <4>2. before = IF n.compiled = None THEN NoMaps ELSE Maps(n.compiled)
        BY <1>2, HeldIs DEF before
      <4>3. n.params = Apply(n.file.own, Maps(d), "")
        <5>1. CASE n.compiled = None
          <6>1. ~Covered(k)
            BY <4>1, <4>2, <5>1, CoveredIs DEF d
          <6> QED BY <1>2, <3>1, <4>1, <4>2, <5>1, <6>1 DEF Applied, HasApplied
        <5>2. CASE n.compiled # None
          BY <1>2, <3>1, <4>1, <4>2, <5>2 DEF Applied, HasApplied
        <5> QED BY <5>1, <5>2
      <4> QED BY <2>1, <3>1, <4>3
    <3>2. CASE ~n.old
      <4>1. n.kind \in Kinds
        BY <1>2 DEF Nodes
      <4> QED BY <2>1, <3>2, <4>1, KindIgnored
    <3> QED BY <3>1, <3>2
  <2>3. HasApplied(v.node, Maps(d))
    BY <1>4, <2>1, <2>2 DEF HasApplied
  <2> QED BY <1>3, <1>4, <1>7, <2>1, <2>3 DEF n, d, v
<1> QED BY <1>8, <1>9

Above(k) == IF k = Home THEN Top ELSE Walk[Prefix[k]]

WalkHas(k) ==
  /\ CascadeTypes(Above(k)) /\ MapsKept(Above(k).maps)
  /\ HandedBy(Ancestors[k], Above(k).down) /\ Walk[k] = Visit(k, Above(k))

\* When the walk comes to a page it hands down what those above it pass on, and
\* knows the maps of all that refer to maps.
LEMMA WalkHands ==
  ASSUME AssemblerTypeOK, FilesInv, ReadInv, PlainCascades, CascadeInv, NEW key \in Keys
  PROVE  WalkHas(key)
<1> DEFINE Bad == {k \in Keys : ~WalkHas(k)}
<1> SUFFICES ASSUME Bad # {} PROVE FALSE
  OBVIOUS
<1>1. PICK k \in Bad : k = Home \/ Prefix[k] \notin Bad
  BY Basics DEF UpTheTree, LeadsHome
<1>2. TreeOK
  BY DEF AssemblerTypeOK, TreeOK
<1>3. Walk[k] = Visit(k, Above(k)) /\ CascadeTypes(Above(k))
  BY <1>1, <1>2, TopType, WalkIs, Basics DEF Visits, Above, CascadeTypes
<1>4. Ancestors[k] = IF k = Home THEN {} ELSE {Parent[k]} \cup Ancestors[Parent[k]]
  BY <1>1, AncestorsOf
<1>5. CASE k = Home
  <2>1. Above(k) = Top /\ Ancestors[k] = {}
    BY <1>4, <1>5 DEF Above
  <2>2. MapsKept(Top.maps)
    BY DEF Top, MapsKept
  <2>3. HandedBy({}, Top.down)
    BY <1>2, TopType DEF HandedBy
  <2> QED BY <1>1, <1>3, <2>1, <2>2, <2>3 DEF WalkHas
<1>6. CASE k # Home
  <2> DEFINE p == Prefix[k]
             a == Above(p)
             v == Visit(p, a)
  <2>1. p = Parent[k] /\ p \in Branches /\ p \in Keys /\ p # None
    <3>1. Prefix = Parent
      BY DEF PlainCascades
    <3> QED BY <1>1, <1>6, <3>1, AssemblerAssumption, Basics
  <2>2. WalkHas(p)
    BY <1>1, <1>6, <2>1
  <2> HIDE DEF p
  <2>3. Above(k) = v /\ Ancestors[k] = {p} \cup Ancestors[p]
    BY <1>4, <1>6, <2>1, <2>2 DEF Above, WalkHas, p
  <2>4. CascadeTypes(a) /\ MapsKept(a.maps) /\ HandedBy(Ancestors[p], a.down)
    BY <2>2 DEF WalkHas
  <2> HIDE DEF a, v
  <2>5. a.maps \in [Keys -> Cascades \cup {None}]
    BY <2>4 DEF CascadeTypes
  <2>6. MapsKept(v.maps) /\ HandedBy({p} \cup Ancestors[p], v.down)
    <3>1. CASE CascadeOf(p) = None
      <4>1. v.down = a.down /\ (v.maps = a.maps \/ v.maps = [a.maps EXCEPT ![p] = None])
        <5>1. CASE Present(p) = None
          <6>1. v.down = a.down
            BY <1>2, <2>1, <2>4, <5>1, VisitIs DEF CascadeTypes, v
          <6>2. v.maps = a.maps
            BY <1>2, <2>1, <2>4, <5>1, VisitIs DEF CascadeTypes, v
          <6> QED BY <6>1, <6>2
        <5>2. CASE Present(p) # None
          BY <2>1, <2>4, <3>1, <5>2, VisitPlain DEF v
        <5> QED BY <5>1, <5>2
      <4>3. node[p] # None => node[p].inner = None
        <5> SUFFICES ASSUME node[p] # None PROVE node[p].inner = None
          OBVIOUS
        <5>1. Present(p) = node[p]
          BY DEF Present, Missing
        <5> QED BY <2>1, <3>1, <5>1, PresentCascade DEF OwnCascade
      <4>4. \A j \in Keys : j # p => v.maps[j] = a.maps[j]
        BY <2>5, <4>1
      <4>5. MapsKept(v.maps)
        BY <2>4, <4>3, <4>4 DEF MapsKept
      <4> QED BY <2>4, <3>1, <4>1, <4>5 DEF HandedBy
    <3>2. CASE CascadeOf(p) # None
      <4>1. node[p] # None /\ node[p].kind = KindOf(p)
        BY <2>1, <3>2 DEF CascadeInv, Cascader
      <4>2. node[p].kind # "page"
        BY <2>1, <4>1 DEF KindOf
      <4>3. /\ v.down = OwnEntries(p, WithSite(CascadeOf(p)))
            /\ v.maps = [a.maps EXCEPT ![p] = WithSite(CascadeOf(p))]
            /\ node[p].old => node[p].inner = WithSite(CascadeOf(p))
        BY <2>1, <2>4, <3>2, <4>1, <4>2, VisitOwn DEF v
      <4>4. \A j \in Keys : v.maps[j] = IF j = p THEN WithSite(CascadeOf(p)) ELSE a.maps[j]
        BY <2>5, <4>3
      <4>5. MapsKept(v.maps)
        BY <2>4, <4>3, <4>4 DEF MapsKept
      <4>6. \A c \in Ancestors[p] : CascadeOf(c) = None
        BY <2>1, <3>2, OneCascades
      <4> QED BY <3>2, <4>3, <4>5, <4>6 DEF HandedBy
    <3> QED BY <3>1, <3>2
  <2> QED BY <1>1, <1>3, <2>3, <2>6 DEF WalkHas
<1> QED BY <1>5, <1>6

\* A compiled cascade that is its page's own one, or the site's, refers to that
\* page only.
LEMMA RefersToOwn ==
  ASSUME AssemblerTypeOK, NEW j \in Keys, NEW c \in Cascades,
         node[j] # None, node[j].old, node[j].inner = WithSite(c)
  PROVE  RefersTo(OwnEntries(j, WithSite(c)))
<1> DEFINE o == OwnEntries(j, WithSite(c))
<1>1. \A m \in Matchers :
        /\ o[m] # None => o[m].of \in {j, None}
        /\ o[m] # None /\ o[m].of = j => WithSite(c)[m] = o[m].map
  BY WithSiteIs
<1>2. WithSite(c) # None
  BY WithSiteIs
<1> HIDE DEF o
<1>3. RefersTo(o)
  BY <1>1, <1>2 DEF RefersTo
<1> QED BY <1>3 DEF o

LEMMA RefersToSite == RefersTo(SiteEntries)
BY SiteMaps DEF RefersTo

\* What the aggregates make of a page, with a cascade and without.
LEMMA AggregatesOwn ==
  ASSUME AssemblerTypeOK, FilesInv, ReadInv, PlainCascades, CascadeInv, ApplyAggregates,
         NEW k \in Keys, CascadeOf(k) # None, node[k] # None
  PROVE  LET c == CascadeOf(k) IN
         /\ node'[k] # None /\ node'[k].old = TRUE
         /\ node'[k].file = node[k].file /\ node'[k].kind = node[k].kind
         /\ node'[k].inner = WithSite(c) /\ node'[k].compiled = OwnEntries(k, WithSite(c))
         /\ HasApplied(node'[k], Full(c))
<1> DEFINE w == Walk[k].node
           c == CascadeOf(k)
<1>1. WalkHas(k)
  BY WalkHands
<1>2. /\ w # None /\ w.file = node[k].file /\ w.kind = node[k].kind
      /\ w.inner = WithSite(c) /\ w.compiled = OwnEntries(k, WithSite(c))
      /\ HasApplied(w, Full(c))
  <2> DEFINE a == Above(k)
             v == Visit(k, a)
  <2>1. CascadeTypes(a) /\ MapsKept(a.maps) /\ HandedBy(Ancestors[k], a.down) /\ w = v.node
    BY <1>1 DEF WalkHas
  <2> HIDE DEF a
  <2>2. /\ v.node # None /\ v.node.file = node[k].file /\ v.node.kind = node[k].kind
        /\ v.node.inner = WithSite(c) /\ v.node.compiled = OwnEntries(k, WithSite(c))
        /\ HasApplied(v.node, Full(c))
    BY <2>1, VisitOwn
  <2> HIDE DEF v, w
  <2> QED BY <2>1, <2>2
<1>3. w.old = TRUE
  BY <1>2, WalkNode
<1> HIDE DEF w, c
<1>4. /\ node'[k] # None /\ node'[k].file = w.file /\ node'[k].kind = w.kind
      /\ node'[k].old = w.old /\ node'[k].inner = w.inner
      /\ node'[k].compiled = w.compiled /\ node'[k].params = w.params
  BY <1>2, AggregatesNode DEF w
<1>5. HasApplied(node'[k], Full(c))
  BY <1>2, <1>4 DEF HasApplied
<1> QED BY <1>2, <1>3, <1>4, <1>5 DEF c

LEMMA AggregatesPlain ==
  ASSUME AssemblerTypeOK, FilesInv, ReadInv, PlainCascades, CascadeInv, ApplyAggregates,
         NEW k \in Keys, CascadeOf(k) = None, node'[k] # None
  PROVE  /\ Present(k) # None /\ node'[k].old = TRUE
         /\ node'[k].file = Present(k).file /\ node'[k].inner = None
         /\ node'[k].compiled \in {None, Above(k).down}
         /\ HasApplied(node'[k], Maps(Above(k).down))
         /\ node'[k].compiled = None => Maps(Above(k).down) = NoMaps \/ Covered(k)
<1> DEFINE w == Walk[k].node
           d == Above(k).down
<1>1. WalkHas(k)
  BY WalkHands
<1>2. w # None /\ Present(k) # None
  <2>1. w # None
    BY AggregatesNode
  <2> QED BY <2>1, WalkNode
<1>3. /\ w.file = Present(k).file /\ w.inner = None /\ w.compiled \in {None, d}
      /\ HasApplied(w, Maps(d))
      /\ w.compiled = None => Maps(d) = NoMaps \/ Covered(k)
  <2> DEFINE a == Above(k)
             v == Visit(k, a)
  <2>1. CascadeTypes(a) /\ MapsKept(a.maps) /\ HandedBy(Ancestors[k], a.down) /\ w = v.node
    BY <1>1 DEF WalkHas
  <2> HIDE DEF a
  <2>2. /\ v.node.file = Present(k).file /\ v.node.inner = None /\ v.node.compiled \in {None, a.down}
        /\ HasApplied(v.node, Maps(a.down))
        /\ v.node.compiled = None => Maps(a.down) = NoMaps \/ Covered(k)
    BY <1>2, <2>1, VisitPlain
  <2> HIDE DEF v, w
  <2> QED BY <2>1, <2>2 DEF a
<1>4. w.old = TRUE
  BY <1>2, WalkNode
<1> HIDE DEF w, d
<1>5. /\ node'[k].file = w.file /\ node'[k].old = w.old /\ node'[k].inner = w.inner
      /\ node'[k].compiled = w.compiled /\ node'[k].params = w.params
  BY <1>2, AggregatesNode DEF w
<1>6. HasApplied(node'[k], Maps(d))
  BY <1>3, <1>5 DEF HasApplied
<1> QED BY <1>2, <1>3, <1>4, <1>5, <1>6 DEF d

LEMMA AggregatesCascade ==
  ASSUME AssemblerTypeOK, AssemblerTypeOK', FilesInv, ReadInv, PlainCascades, CascadeInv, ApplyAggregates
  PROVE  CascadeInv' /\ AppliedInv'
<1>1. UNCHANGED read
  BY DEF ApplyAggregates
<1>2. \A k \in Keys : FileOf(k)' = FileOf(k) /\ CascadeOf(k)' = CascadeOf(k)
  BY <1>1 DEF FileOf, CascadeOf
<1>3. \A k \in Keys : Ancestors[k] \subseteq Branches /\ Ancestors[k] \subseteq Keys
  BY AncestorsOf, Basics
<1>4. \A k \in Keys : Covered(k)' <=> Covered(k)
  BY <1>2, <1>3 DEF Covered
<1>5. ASSUME NEW k \in Keys PROVE Cascader(k)'
  <2>1. CASE k \in Branches /\ CascadeOf(k) # None
    <3>1. node[k] # None /\ node[k].file = FileOf(k) /\ node[k].kind = KindOf(k) /\ k \notin Pages
      BY <2>1, AssemblerAssumption DEF CascadeInv, Cascader
    <3>2. node'[k] # None /\ node'[k].file = node[k].file /\ node'[k].kind = node[k].kind
      BY <2>1, <3>1, AggregatesOwn
    <3> QED BY <1>2, <3>1, <3>2 DEF Cascader, KindOf
  <2>2. CASE k \in Pages /\ node'[k] # None
    <3>0. k \notin Branches
      BY <2>2, AssemblerAssumption
    <3>1. ~Missing(k)
      BY <3>0, AssemblerAssumption DEF Missing
    <3>2. Present(k) = node[k]
      BY <3>1 DEF Present
    <3>3. Walk[k].node # None /\ node'[k].file = Walk[k].node.file
      BY <2>2, AggregatesNode
    <3>4. node[k] # None /\ node'[k].file = node[k].file
      BY <3>2, <3>3, WalkNode
    <3>5. node[k].file = FileOf(k)
      BY <2>2, <3>4 DEF CascadeInv, Cascader
    <3> QED BY <1>2, <3>0, <3>4, <3>5 DEF Cascader
  <2>3. CASE ~(k \in Branches /\ CascadeOf(k) # None) /\ ~(k \in Pages /\ node'[k] # None)
    BY <1>2, <2>3 DEF Cascader
  <2> QED BY <2>1, <2>2, <2>3
<1>6. ASSUME NEW j \in Keys, CascadeOf(j) # None, node[j] # None
      PROVE  RefersTo(OwnEntries(j, WithSite(CascadeOf(j))))'
  <2> DEFINE c == CascadeOf(j)
  <2>1. c \in Cascades
    BY <1>6, FileOfType
  <2>2. node'[j] # None /\ node'[j].old /\ node'[j].inner = WithSite(c)
    BY <1>6, AggregatesOwn
  <2>3. c' = c
    BY <1>2
  <2> DEFINE o == OwnEntries(j, WithSite(c))
  <2>4. \A m \in Matchers :
          /\ o[m] # None => o[m].of \in {j, None}
          /\ o[m] # None /\ o[m].of = j => WithSite(c)[m] = o[m].map
    BY <2>1, WithSiteIs
  <2>5. WithSite(c) # None
    BY <2>1, WithSiteIs
  <2>6. o' = o
    BY <2>3 DEF OwnEntries, WithSite, SiteEntries
  <2> HIDE DEF o, c
  <2>7. RefersTo(o)'
    BY <2>2, <2>4, <2>5, <2>6 DEF RefersTo
  <2> QED BY <2>7 DEF o, c
<1>7. ASSUME NEW k \in Keys, node'[k] # None, CascadeOf(k) # None
      PROVE  /\ RefersTo(node[k].compiled)' /\ OwnCascade(k, node'[k]) /\ Applied(k, node[k])'
             /\ AppliesFrom({k} \cup Ancestors[k], node[k])'
  <2> DEFINE c == CascadeOf(k)
             o == OwnEntries(k, WithSite(c))
  <2>1. node[k] # None
    <3>1. Walk[k].node # None
      BY <1>7, AggregatesNode
    <3>2. Present(k) # None
      BY <3>1, WalkNode
    <3> QED BY <1>7, <3>2, PresentCascade
  <2>2. /\ node'[k].old = TRUE /\ node'[k].file = node[k].file
        /\ node'[k].inner = WithSite(c) /\ node'[k].compiled = o /\ HasApplied(node'[k], Full(c))
    BY <1>7, <2>1, AggregatesOwn
  <2>3. c \in Cascades /\ c' = c
    BY <1>2, <1>7, FileOfType
  <2>4. WithSite(c) # None /\ c # None /\ Maps(o) = Full(c) /\ o # None
    BY <2>3, WithSiteIs
  <2>5. node'[k].file.cascade = c
    <3>1. Present(k) = node[k]
      BY <2>1 DEF Present, Missing
    <3> QED BY <2>1, <2>2, <3>1, PresentCascade
  <2>6. RefersTo(node[k].compiled)'
    <3>1. RefersTo(o)'
      BY <1>6, <1>7, <2>1
    <3>2. o' = o
      BY <2>3 DEF OwnEntries, WithSite, SiteEntries
    <3> HIDE DEF o
    <3> QED BY <2>2, <3>1, <3>2 DEF RefersTo
  <2>7. \A a \in Ancestors[k] : CascadeOf(a) = None
    BY <1>7, OneCascades
  <2> HIDE DEF c, o
  <2>8. OwnCascade(k, node'[k])
    BY <2>2, <2>4, <2>5 DEF OwnCascade, o
  <2>9. Applied(k, node[k])'
    BY <2>2, <2>4 DEF Applied, HasApplied
  <2>10. AppliesFrom({k} \cup Ancestors[k], node[k])'
    <3>1. HasApplied(node[k], Full(c))' /\ Full(c)' = Full(c)
      BY <2>2, <2>3 DEF HasApplied, Full
    <3>2. \A a \in {k} \cup Ancestors[k] : CascadeOf(a)' # None => a = k
      BY <1>2, <1>3, <2>7
    <3> QED BY <1>2, <1>7, <2>3, <3>1, <3>2 DEF AppliesFrom, c
  <2> QED BY <2>6, <2>8, <2>9, <2>10
<1>8. ASSUME NEW k \in Keys, node'[k] # None, CascadeOf(k) = None
      PROVE  /\ node'[k].compiled # None => RefersTo(node[k].compiled)'
             /\ OwnCascade(k, node'[k]) /\ Applied(k, node[k])'
             /\ AppliesFrom({k} \cup Ancestors[k], node[k])'
  <2> DEFINE d == Above(k).down
             n == Present(k)
  <2>1. /\ n # None /\ node'[k].old = TRUE /\ node'[k].file = n.file /\ node'[k].inner = None
        /\ node'[k].compiled \in {None, d} /\ HasApplied(node'[k], Maps(d))
        /\ node'[k].compiled = None => Maps(d) = NoMaps \/ Covered(k)
    BY <1>8, AggregatesPlain
  <2>2. n.file.cascade = None
    BY <1>8, <2>1, PresentCascade
  <2>3. HandedBy(Ancestors[k], d)
    BY WalkHands DEF WalkHas
  <2> HIDE DEF d, n
  <2>4. OwnCascade(k, node'[k])
    BY <2>1, <2>2 DEF OwnCascade
  <2>5. Applied(k, node[k])'
    BY <1>4, <2>1 DEF Applied, HasApplied
  <2>6. CASE \A c \in Ancestors[k] : CascadeOf(c) = None
    <3>1. d = SiteEntries /\ Maps(d) = SiteCascade
      BY <2>3, <2>6, SiteMaps DEF HandedBy
    <3>2. RefersTo(SiteEntries)'
      BY RefersToSite, SiteMaps DEF RefersTo
    <3>3. node'[k].compiled # None => RefersTo(node[k].compiled)'
      BY <2>1, <3>1, <3>2
    <3>4. AppliesFrom({k} \cup Ancestors[k], node[k])'
      BY <1>2, <1>3, <1>8, <2>1, <2>6, <3>1 DEF AppliesFrom, HasApplied
    <3> QED BY <2>4, <2>5, <3>3, <3>4
  <2>7. CASE \E c \in Ancestors[k] : CascadeOf(c) # None
    <3>1. PICK c \in Ancestors[k] : CascadeOf(c) # None
      BY <2>7
    <3>2. c \in Branches /\ c \in Keys
      BY <1>3
    <3>3. node[c] # None
      BY <3>1, <3>2 DEF CascadeInv, Cascader
    <3> DEFINE o == OwnEntries(c, WithSite(CascadeOf(c)))
    <3>4. d = o
      BY <2>3, <3>1 DEF HandedBy
    <3>5. RefersTo(o)' /\ o' = o
      BY <1>2, <1>6, <3>1, <3>2, <3>3 DEF OwnEntries, WithSite, SiteEntries
    <3>6. \A a \in Ancestors[k] : CascadeOf(a) # None => d = OwnEntries(a, WithSite(CascadeOf(a)))
      BY <2>3 DEF HandedBy
    <3>7. \A a \in Ancestors[k] : CascadeOf(a) # None => Maps(d) = Full(CascadeOf(a))
      <4> TAKE a \in Ancestors[k]
      <4> SUFFICES ASSUME CascadeOf(a) # None PROVE Maps(d) = Full(CascadeOf(a))
        OBVIOUS
      <4>1. a \in Keys /\ CascadeOf(a) \in Cascades
        BY <1>3, FileOfType
      <4> QED BY <3>6, <4>1, WithSiteIs
    <3> HIDE DEF o
    <3>8. node'[k].compiled # None => RefersTo(node[k].compiled)'
      BY <2>1, <3>4, <3>5 DEF RefersTo
    <3>9. AppliesFrom({k} \cup Ancestors[k], node[k])'
      <4>1. \A a \in {k} \cup Ancestors[k] : CascadeOf(a)' = CascadeOf(a)
        BY <1>2, <1>3
      <4>2. \A a \in {k} \cup Ancestors[k] : CascadeOf(a) # None => HasApplied(node'[k], Full(CascadeOf(a)))
        BY <1>8, <2>1, <3>7
      <4>3. \A a \in {k} \cup Ancestors[k] : CascadeOf(a)' # None => HasApplied(node[k], Full(CascadeOf(a)))'
        BY <4>1, <4>2 DEF HasApplied, Full
      <4>4. ~(\A a \in {k} \cup Ancestors[k] : CascadeOf(a)' = None)
        BY <3>1, <4>1
      <4> QED BY <4>3, <4>4 DEF AppliesFrom
    <3> QED BY <2>4, <2>5, <3>8, <3>9
  <2> QED BY <2>6, <2>7
<1>9. CascadeInv'
  BY <1>5, <1>7, <1>8 DEF CascadeInv, OwnCascade
<1>10. AppliedInv'
  BY <1>7, <1>8 DEF AppliedInv
<1> QED BY <1>9, <1>10

\* What is detached keeps its maps, and refers to what is left.
LEMMA DetachedEntries ==
  ASSUME NEW n \in Nodes, NEW gone, n.compiled # None
  PROVE  LET c == Detached(n, gone).compiled IN
         /\ c \in Compiled /\ c # None /\ Maps(c) = Maps(n.compiled)
         /\ \A m \in Matchers : c[m] # None /\ c[m].of # None =>
              /\ n.compiled[m] # None /\ c[m].of = n.compiled[m].of /\ c[m].of \notin gone
              /\ c[m].map = n.compiled[m].map
         /\ (\A m \in Matchers : n.compiled[m] # None => n.compiled[m].of \notin gone) => c = n.compiled
<1> DEFINE c == Detached(n, gone).compiled
           o == n.compiled
<1>1. /\ c \in Compiled \cup {None} /\ c # None
      /\ \A m \in Matchers : c[m] = IF o[m] # None /\ o[m].of \in gone
                                     THEN [o[m] EXCEPT !.of = None] ELSE o[m]
  <2>1. Detached(n, gone) \in Nodes
    BY DetachedIs
  <2>2. c # None
    BY DetachedIs
  <2>3. \A m \in Matchers : c[m] = IF o[m] # None /\ o[m].of \in gone
                                   THEN [o[m] EXCEPT !.of = None] ELSE o[m]
    BY DetachedIs
  <2> QED BY <2>1, <2>2, <2>3 DEF Nodes
<1>2. o \in Compiled
  BY DEF Nodes
<1> HIDE DEF c, o
<1>3. ASSUME NEW m \in Matchers
      PROVE  /\ o[m] = None => c[m] = None
             /\ o[m] # None => c[m] # None /\ c[m].map = o[m].map
             /\ o[m] # None /\ o[m].of \in gone => c[m].of = None
             /\ o[m] # None /\ o[m].of \notin gone => c[m] = o[m]
  <2>1. CASE o[m] # None /\ o[m].of \in gone
    <3>1. o[m] \in CascadeEntries
      BY <1>2, <2>1 DEF Compiled
    <3>2. [o[m] EXCEPT !.of = None] \in CascadeEntries
      BY <3>1 DEF CascadeEntries
    <3>3. [o[m] EXCEPT !.of = None].of = None /\ [o[m] EXCEPT !.of = None].map = o[m].map
      BY <3>1 DEF CascadeEntries
    <3>4. c[m] = [o[m] EXCEPT !.of = None]
      BY <1>1, <2>1
    <3> QED BY <2>1, <3>2, <3>3, <3>4, AssemblerAssumption
  <2>2. CASE ~(o[m] # None /\ o[m].of \in gone)
    BY <1>1, <2>2
  <2> QED BY <2>1, <2>2
<1>4. o # None
  BY DEF o
<1>5. Maps(c) = Maps(o)
  BY <1>1, <1>3, <1>4 DEF Maps
<1>6. ASSUME \A m \in Matchers : o[m] # None => o[m].of \notin gone PROVE c = o
  <2>1. \A m \in Matchers : c[m] = o[m]
    BY <1>3, <1>6
  <2> QED BY <1>1, <1>2, <2>1 DEF Compiled
<1>7. \A m \in Matchers : c[m] # None /\ c[m].of # None =>
        /\ o[m] # None /\ c[m].of = o[m].of /\ c[m].of \notin gone
        /\ c[m].map = o[m].map
  BY <1>3
<1> QED BY <1>1, <1>5, <1>6, <1>7 DEF c, o

\* A page that stays while others go.
LEMMA PageStays ==
  ASSUME AssemblerTypeOK, CascadeInv, NEW gone \in SUBSET Keys, NEW k \in Keys \ gone,
         node[k] # None, SameNode(node'[k], node[k]),
         node'[k].compiled = Detached(node[k], gone).compiled,
         \A j \in Keys \ gone : node[j] # None => node'[j] # None /\ SameNode(node'[j], node[j])
  PROVE  /\ node'[k].compiled # None => RefersTo(node[k].compiled)'
         /\ OwnCascade(k, node'[k])
         /\ node'[k].old => /\ node'[k].compiled # None => HasApplied(node'[k], Maps(node'[k].compiled))
                            /\ node'[k].compiled = None => HasApplied(node'[k], NoMaps) \/ Covered(k)
<1> DEFINE n == node[k]
           p == node'[k]
<1>1. n \in Nodes /\ OwnCascade(k, n) /\ Applied(k, n) /\ (n.compiled # None => RefersTo(n.compiled))
  BY DEF AssemblerTypeOK, CascadeInv
<1>2. /\ p.file = n.file /\ p.old = n.old /\ p.inner = n.inner /\ p.params = n.params
      /\ p.compiled = Detached(n, gone).compiled
  BY DEF SameNode
<1>a. \A maps : HasApplied(n, maps) => HasApplied(p, maps)
  BY <1>2 DEF HasApplied
<1>3. CASE n.compiled = None
  <2>1. p.compiled = None
    <3> HIDE DEF n, p
    <3> QED BY <1>1, <1>2, <1>3, DetachedIs
  <2> HIDE DEF n, p
  <2>2. OwnCascade(k, p)
    BY <1>1, <1>2, <1>3, <2>1 DEF OwnCascade
  <2>3. p.old => HasApplied(p, NoMaps) \/ Covered(k)
    BY <1>1, <1>2, <1>3, <1>a DEF Applied
  <2> QED BY <2>1, <2>2, <2>3 DEF p
<1>4. CASE n.compiled # None
  <2> HIDE DEF n, p
  <2>1. /\ p.compiled \in Compiled /\ p.compiled # None /\ Maps(p.compiled) = Maps(n.compiled)
        /\ \A m \in Matchers : p.compiled[m] # None /\ p.compiled[m].of # None =>
              /\ n.compiled[m] # None /\ p.compiled[m].of = n.compiled[m].of
              /\ p.compiled[m].of \notin gone /\ p.compiled[m].map = n.compiled[m].map
        /\ (\A m \in Matchers : n.compiled[m] # None => n.compiled[m].of \notin gone)
             => p.compiled = n.compiled
    BY <1>1, <1>2, <1>4, DetachedEntries
  <2>2. RefersTo(node[k].compiled)'
    <3> SUFFICES ASSUME NEW m \in Matchers, p.compiled[m] # None, p.compiled[m].of # None
                 PROVE  /\ node'[p.compiled[m].of] # None /\ node'[p.compiled[m].of].old
                        /\ node'[p.compiled[m].of].inner # None
                        /\ node'[p.compiled[m].of].inner[m] = p.compiled[m].map
      BY DEF RefersTo, p
    <3> DEFINE j == p.compiled[m].of
    <3>1. j \in Keys
      BY <2>1 DEF Compiled, CascadeEntries
    <3>2. n.compiled[m] # None /\ j = n.compiled[m].of /\ j \notin gone /\ p.compiled[m].map = n.compiled[m].map
      BY <2>1
    <3>3. RefersTo(n.compiled)
      BY <1>1, <1>4
    <3> HIDE DEF j
    <3>4. n.compiled[m].of # None
      BY <3>2 DEF j
    <3>5. /\ node[j] # None /\ node[j].old /\ node[j].inner # None
          /\ node[j].inner[m] = n.compiled[m].map
      BY <3>2, <3>3, <3>4 DEF RefersTo
    <3>6. node'[j] # None /\ SameNode(node'[j], node[j])
      BY <3>1, <3>2, <3>5
    <3>7. /\ node'[j] # None /\ node'[j].old /\ node'[j].inner # None
          /\ node'[j].inner[m] = p.compiled[m].map
      BY <3>2, <3>5, <3>6 DEF SameNode
    <3> QED BY <3>7 DEF j
  <2>3. OwnCascade(k, p)
    <3>1. n.old
      BY <1>1, <1>4 DEF OwnCascade
    <3>2. n.inner # None => p.compiled = n.compiled
      <4> SUFFICES ASSUME n.inner # None
                   PROVE  \A m \in Matchers : n.compiled[m] # None => n.compiled[m].of \notin gone
        BY <2>1
      <4>1. n.file.cascade \in Cascades
        <5>1. n.file.cascade # None
          BY <1>1 DEF OwnCascade
        <5> QED BY <1>1, <5>1 DEF Nodes, FileContents
      <4>2. n.compiled = OwnEntries(k, WithSite(n.file.cascade))
        BY <1>1, <3>1 DEF OwnCascade
      <4>3. \A m \in Matchers : n.compiled[m] # None => n.compiled[m].of \in {k, None}
        BY <4>1, <4>2, WithSiteIs
      <4> QED BY <4>3, AssemblerAssumption
    <3> QED BY <1>1, <1>2, <3>1, <3>2 DEF OwnCascade
  <2>4. p.old => HasApplied(p, Maps(p.compiled))
    BY <1>1, <1>2, <1>4, <1>a, <2>1 DEF Applied
  <2> QED BY <2>1, <2>2, <2>3, <2>4 DEF p
<1> QED BY <1>3, <1>4

\* Loading files that parse.
LEMMA ReplaceCascade ==
  ASSUME AssemblerTypeOK, ReadInv, PlainCascades, CascadeInv, NEW E \in SUBSET Keys,
         NEW L \in SUBSET Keys, \A k \in L : Parses(k), Replace(E, L)
  PROVE  CascadeInv'
<1> DEFINE gone == Made(L) \cup Removed(E)
<1>1. gone \in SUBSET Keys
  BY DEF Made, Removed, LoadedUnder, Under
<1>2. ASSUME NEW j \in Keys, j \notin gone
      PROVE  /\ read'[j] = read[j] /\ FileOf(j)' = FileOf(j) /\ CascadeOf(j)' = CascadeOf(j)
             /\ node[j] = None => node'[j] = None
             /\ node[j] # None => node'[j] # None /\ SameNode(node'[j], node[j])
  <2>1. /\ read'[j] = read[j]
        /\ node[j] = None => node'[j] = None
        /\ node[j] # None => node'[j] # None /\ SameNode(node'[j], node[j])
    BY <1>2, ReplaceIs
  <2> HIDE DEF gone
  <2>2. FileOf(j)' = FileOf(j)
    BY <2>1 DEF FileOf
  <2> QED BY <2>1, <2>2 DEF CascadeOf
<1>4. ASSUME NEW j \in Made(L)
      PROVE  /\ source[j] \in FileContents /\ source[j] \in Sources[j] /\ source[j].bad # "parse"
             /\ FileOf(j)' = source[j] /\ CascadeOf(j)' = source[j].cascade
             /\ node'[j] = Fresh(j, source[j]) /\ node'[j] # None
  <2>1. j \in Keys /\ source[j] # None /\ Parses(j)
    BY DEF Made
  <2>2. read'[j] = source[j] /\ source[j] \in FileContents /\ node'[j] = Fresh(j, source[j]) /\ node'[j] # None
    BY <2>1, ReplaceIs
  <2>3. FileOf(j)' = source[j]
    BY <2>1, <2>2 DEF FileOf
  <2>4. source[j] \in Sources[j] /\ source[j].bad # "parse"
    BY <2>1 DEF ReadInv, Parses
  <2> QED BY <2>2, <2>3, <2>4 DEF CascadeOf
<1>5. ASSUME NEW j \in gone \ Made(L)
      PROVE  node'[j] = None /\ CascadeOf(j)' = None
  <2>1. read'[j] = None /\ node'[j] = None
    BY <1>1, <1>5, ReplaceIs
  <2> QED BY <2>1, BlankIs DEF CascadeOf, FileOf
<1> HIDE DEF gone
<1>6. ASSUME NEW k \in Keys PROVE Cascader(k)'
  <2>1. CASE k \in Made(L)
    <3> DEFINE n == Fresh(k, source[k])
    <3>1. node'[k] = n /\ node'[k] # None /\ FileOf(k)' = source[k]
      BY <1>4, <2>1
    <3>2. n.file = source[k] /\ n.kind = KindOf(k)
      BY <1>4, <2>1, FreshNode
    <3> HIDE DEF n
    <3> QED BY <3>1, <3>2 DEF Cascader, KindOf
  <2>2. CASE k \in gone \ Made(L)
    BY <1>5, <2>2 DEF Cascader
  <2>3. CASE k \notin gone
    <3>1. Cascader(k)
      BY DEF CascadeInv
    <3> QED BY <1>2, <2>3, <3>1 DEF Cascader, SameNode, KindOf
  <2>4. k \in Made(L) => k \in gone
    BY DEF gone
  <2> QED BY <2>1, <2>2, <2>3, <2>4
<1>7. ASSUME NEW k \in Keys \ gone, Covered(k) PROVE Covered(k)'
  <2>1. CASE ~Empty(SiteCascade)
    BY <2>1 DEF Covered, Empty
  <2>2. CASE Empty(SiteCascade)
    <3>1. PICK j \in Ancestors[k] : CascadeOf(j) # None
      BY <1>7, <2>2 DEF Covered
    <3>2. j \in Branches /\ j \in Keys
      BY <3>1, AncestorsOf, Basics
    <3>3. CascadeOf(j)' # None
      <4>1. CASE j \in Made(L)
        <5>1. MayCascade(j)
          BY <3>1, <3>2, OneCascades
        <5>2. ~StopsCascading(j)
          BY <2>2, <3>2, <5>1 DEF PlainCascades
        <5>3. source[j] # None /\ source[j] \in Sources[j] /\ source[j].bad # "parse"
          BY <1>4, <4>1 DEF Made
        <5>4. source[j].cascade # None
          BY <5>2, <5>3 DEF StopsCascading
        <5> QED BY <1>4, <4>1, <5>4
      <4>2. CASE j \in gone \ Made(L)
        <5>1. j \in Removed(E)
          BY <4>2 DEF gone
        <5>2. \E d \in E \cap Branches : source[d] = None /\ (d = j \/ d \in Ancestors[j])
          BY <3>2, <5>1 DEF Removed, LoadedUnder, Under
        <5>3. PICK d \in E \cap Branches : source[d] = None /\ (d = j \/ d \in Ancestors[j])
          BY <5>2
        <5>4. d \in Ancestors[k]
          BY <3>1, <5>3, AncestorsOfAncestors
        <5>5. k \in Under(d)
          BY <5>4 DEF Under
        <5>6. k \in LoadedUnder(E)
          BY <5>3, <5>5 DEF LoadedUnder
        <5> QED BY <5>6 DEF gone, Removed
      <4>3. CASE j \notin gone
        BY <1>2, <3>1, <3>2, <4>3
      <4> QED BY <4>1, <4>2, <4>3
    <3> QED BY <3>1, <3>3 DEF Covered
  <2> QED BY <2>1, <2>2
<1>8. ASSUME NEW k \in Keys, node'[k] # None
      PROVE  /\ node'[k].compiled # None => RefersTo(node[k].compiled)'
             /\ OwnCascade(k, node'[k]) /\ Applied(k, node[k])'
  <2>1. CASE k \in Made(L)
    <3> DEFINE n == Fresh(k, source[k])
    <3>1. node'[k] = n
      BY <1>4, <2>1
    <3>2. /\ n.file = source[k] /\ n.old = FALSE /\ n.inner = source[k].cascade
          /\ n.compiled = None
      BY <1>4, <2>1, FreshNode
    <3> HIDE DEF n
    <3> QED BY <3>1, <3>2 DEF OwnCascade, Applied
  <2>2. CASE k \notin Made(L)
    <3>1. k \notin gone /\ node[k] # None
      <4>1. k \notin gone
        BY <1>5, <1>8, <2>2
      <4> QED BY <1>2, <1>8, <4>1
    <3>2. SameNode(node'[k], node[k]) /\ node'[k] = Detached(node[k], gone)
      BY <3>1, ReplaceIs DEF gone
    <3>3. /\ node'[k].compiled # None => RefersTo(node[k].compiled)'
          /\ OwnCascade(k, node'[k])
          /\ node'[k].old => /\ node'[k].compiled # None => HasApplied(node'[k], Maps(node'[k].compiled))
                             /\ node'[k].compiled = None => HasApplied(node'[k], NoMaps) \/ Covered(k)
      <4>1. \A j \in Keys \ gone : node[j] # None => node'[j] # None /\ SameNode(node'[j], node[j])
        BY <1>2
      <4>2. k \in Keys \ gone /\ node'[k].compiled = Detached(node[k], gone).compiled
        BY <3>1, <3>2
      <4> QED BY <1>1, <3>1, <3>2, <4>1, <4>2, PageStays
    <3>4. Applied(k, node[k])'
      BY <1>7, <3>1, <3>3 DEF Applied, HasApplied, Maps, NoMaps
    <3> QED BY <3>3, <3>4
  <2> QED BY <2>1, <2>2
<1> QED BY <1>6, <1>8 DEF CascadeInv, OwnCascade

\* Dropping drafts.
LEMMA AssembleCascade ==
  ASSUME AssemblerTypeOK, CascadeInv, AppliedInv, Assemble
  PROVE  CascadeInv' /\ AppliedInv'
<1> DEFINE gone == {j \in Keys : Dropped(j)}
<1>1. UNCHANGED read /\ phase = "aggregated"
  BY DEF Assemble
<1>2. \A k \in Keys : FileOf(k)' = FileOf(k) /\ CascadeOf(k)' = CascadeOf(k)
  BY <1>1 DEF FileOf, CascadeOf
<1>3. \A k \in Keys : Ancestors[k] \subseteq Branches /\ Ancestors[k] \subseteq Keys
  BY AncestorsOf, Basics
<1>4. \A k \in Keys : Covered(k)' <=> Covered(k)
  BY <1>2, <1>3 DEF Covered
<1>5. ASSUME NEW k \in Keys
      PROVE  /\ node'[k] = None <=> node[k] = None \/ k \in gone
             /\ node'[k] # None => /\ SameNode(node'[k], node[k])
                                   /\ node'[k].compiled = Detached(node[k], gone).compiled
  BY AssembleNode DEF SameNode
<1> HIDE DEF gone
<1>6. gone \in SUBSET Keys
  BY DEF gone
<1>7. ASSUME NEW k \in Keys PROVE Cascader(k)'
  <2>1. CASE k \in Branches /\ CascadeOf(k) # None
    <3>1. node[k] # None /\ node[k].file = FileOf(k) /\ node[k].kind = KindOf(k) /\ k \notin Pages
      BY <2>1, AssemblerAssumption DEF CascadeInv, Cascader
    <3>2. k \notin gone
      BY <2>1, <3>1 DEF gone, Dropped, KindOf
    <3> QED BY <1>2, <1>5, <3>1, <3>2 DEF Cascader, SameNode, KindOf
  <2>2. CASE k \in Pages /\ node'[k] # None
    <3>1. node[k] # None /\ node[k].file = FileOf(k) /\ k \notin Branches
      BY <1>5, <2>2, AssemblerAssumption DEF CascadeInv, Cascader
    <3> QED BY <1>2, <1>5, <2>2, <3>1 DEF Cascader, SameNode
  <2>3. CASE ~(k \in Branches /\ CascadeOf(k) # None) /\ ~(k \in Pages /\ node'[k] # None)
    BY <1>2, <2>3 DEF Cascader
  <2> QED BY <2>1, <2>2, <2>3
<1>8. ASSUME NEW k \in Keys, node'[k] # None
      PROVE  /\ node'[k].compiled # None => RefersTo(node[k].compiled)'
             /\ OwnCascade(k, node'[k]) /\ Applied(k, node[k])'
             /\ AppliesFrom({k} \cup Ancestors[k], node[k])'
  <2>1. k \notin gone /\ node[k] # None /\ SameNode(node'[k], node[k])
        /\ node'[k].compiled = Detached(node[k], gone).compiled
    BY <1>5, <1>8
  <2>2. \A j \in Keys \ gone : node[j] # None => node'[j] # None /\ SameNode(node'[j], node[j])
    BY <1>5
  <2>3. /\ node'[k].compiled # None => RefersTo(node[k].compiled)'
        /\ OwnCascade(k, node'[k])
        /\ node'[k].old => /\ node'[k].compiled # None => HasApplied(node'[k], Maps(node'[k].compiled))
                           /\ node'[k].compiled = None => HasApplied(node'[k], NoMaps) \/ Covered(k)
    BY <1>6, <2>1, <2>2, PageStays
  <2>4. Applied(k, node[k])'
    BY <1>4, <2>3 DEF Applied, HasApplied, Maps, NoMaps
  <2>5. AppliesFrom({k} \cup Ancestors[k], node[k])'
    <3> DEFINE K == {k} \cup Ancestors[k]
    <3>1. AppliesFrom(K, node[k])
      BY <1>1, <2>1 DEF AppliedInv
    <3>2. \A c \in K : CascadeOf(c)' = CascadeOf(c)
      BY <1>2, <1>3
    <3>3. \A maps : HasApplied(node[k], maps) => HasApplied(node'[k], maps)
      BY <2>1 DEF HasApplied, SameNode
    <3> HIDE DEF K
    <3>4. AppliesFrom(K, node'[k])
      BY <3>1, <3>3 DEF AppliesFrom
    <3>5. AppliesFrom(K, node[k])' <=> AppliesFrom(K, node'[k])
      <4>1. K' = K
        BY DEF K
      <4> QED BY <3>2, <4>1 DEF AppliesFrom, HasApplied, Full
    <3> QED BY <3>4, <3>5 DEF K
  <2> QED BY <2>3, <2>4, <2>5
<1> QED BY <1>7, <1>8 DEF CascadeInv, OwnCascade, AppliedInv

LEMMA LoadableParses ==
  ASSUME AssemblerTypeOK
  PROVE  /\ Load => \E L \in SUBSET Keys : (\A k \in L : Parses(k)) /\ Replace(Events, L)
         /\ LoadFails => \E L \in SUBSET Keys : (\A k \in L : Parses(k)) /\ Replace(Events, L)
         /\ ReadAll => (\A k \in Keys : Parses(k)) /\ Replace({}, Keys)
<1>1. ASSUME Load
      PROVE  \E L \in SUBSET Keys : (\A k \in L : Parses(k)) /\ Replace(Events, L)
  <2>1. PICK L \in Loadable(Events) : (\A k \in L : Parses(k)) /\ Replace(Events, L)
    BY <1>1 DEF Load
  <2>2. L \in SUBSET Keys
    BY LoadableKeys
  <2> QED BY <2>1, <2>2
<1>2. ASSUME LoadFails
      PROVE  \E L \in SUBSET Keys : (\A k \in L : Parses(k)) /\ Replace(Events, L)
  <2>1. PICK L \in Loadable(Events) :
          \E M \in SUBSET (L \ {k \in L : ~Parses(k)}) : Replace(Events, M)
    BY <1>2 DEF LoadFails
  <2>2. PICK M \in SUBSET (L \ {k \in L : ~Parses(k)}) : Replace(Events, M)
    BY <2>1
  <2>3. L \in SUBSET Keys
    BY LoadableKeys
  <2>4. M \in SUBSET Keys /\ \A k \in M : Parses(k)
    BY <2>2, <2>3
  <2> QED BY <2>2, <2>4
<1>3. ReadAll => (\A k \in Keys : Parses(k)) /\ Replace({}, Keys)
  BY DEF ReadAll
<1> QED BY <1>1, <1>2, <1>3

LEMMA ReadStep == AssemblerTypeOK /\ ReadInv /\ [AssemblerNext]_assemblerVars => ReadInv'
<1> SUFFICES ASSUME AssemblerTypeOK, ReadInv, [AssemblerNext]_assemblerVars PROVE ReadInv'
  OBVIOUS
<1>1. ASSUME NEW k \in Keys, EditFile(k) PROVE ReadInv'
  <2>1. PICK f \in Sources[k] : source' = [source EXCEPT ![k] = f]
    BY <1>1 DEF EditFile
  <2>2. \A j \in Keys : source'[j] = IF j = k THEN f ELSE source[j]
    BY <2>1 DEF AssemblerTypeOK
  <2> QED BY <1>1, <2>2 DEF EditFile, ReadInv
<1>2. ASSUME ReadAll \/ Load \/ LoadFails PROVE ReadInv'
  <2>1. PICK E, L \in SUBSET Keys : (\A k \in L : Parses(k)) /\ Replace(E, L)
    <3>1. CASE ReadAll
      <4>1. (\A k \in Keys : Parses(k)) /\ Replace({}, Keys)
        BY <3>1, LoadableParses
      <4> QED BY <4>1
    <3>2. CASE Load \/ LoadFails
      <4>1. \E L \in SUBSET Keys : (\A k \in L : Parses(k)) /\ Replace(Events, L)
        BY <3>2, LoadableParses
      <4>2. Events \in SUBSET Keys
        BY EventsKeys
      <4> QED BY <4>1, <4>2
    <3> QED BY <1>2, <3>1, <3>2
  <2>2. UNCHANGED source
    BY <1>2 DEF ReadAll, Load, LoadFails
  <2>3. ASSUME NEW k \in Keys
        PROVE  read'[k] # None => read'[k] \in Sources[k] /\ read'[k].bad # "parse"
    <3>1. CASE k \in Made(L)
      <4>1. read'[k] = source[k] /\ source[k] # None /\ Parses(k)
        <5>1. source[k] # None /\ Parses(k)
          BY <2>1, <3>1 DEF Made
        <5>2. read'[k] = source[k]
          BY <2>1, <3>1, ReplaceIs
        <5> QED BY <5>1, <5>2
      <4> QED BY <4>1 DEF ReadInv, Parses
    <3>2. CASE k \notin Made(L)
      <4>1. read'[k] = None \/ read'[k] = read[k]
        BY <2>1, <3>2, ReplaceIs
      <4> QED BY <4>1 DEF ReadInv
    <3> QED BY <3>1, <3>2
  <2> QED BY <2>2, <2>3 DEF ReadInv
<1>3. ASSUME LoadTemplate \/ ApplyAggregates \/ Assemble \/ Render \/ UNCHANGED assemblerVars
      PROVE  ReadInv'
  <2>1. UNCHANGED <<source, read>>
    BY <1>3 DEF LoadTemplate, ApplyAggregates, Assemble, Render, assemblerVars
  <2> QED BY <2>1 DEF ReadInv
<1> QED BY <1>1, <1>2, <1>3 DEF AssemblerNext

LEMMA CascadeStep ==
  ASSUME AssemblerTypeOK, AssemblerTypeOK', FilesInv, EntriesInv, ReadInv, PlainCascades,
         CascadeInv, AppliedInv, [AssemblerNext]_assemblerVars
  PROVE  CascadeInv' /\ AppliedInv'
<1>0. \A k \in Keys : Ancestors[k] \subseteq Keys
  BY AncestorsOf, Basics
<1>1. ASSUME UNCHANGED <<read, node>>,
             phase' \in {"aggregated", "assembled"} \/ AtRest' =>
               phase \in {"aggregated", "assembled"} \/ AtRest
      PROVE  CascadeInv' /\ AppliedInv'
  <2>1. \A k \in Keys : FileOf(k)' = FileOf(k) /\ CascadeOf(k)' = CascadeOf(k)
    BY <1>1 DEF FileOf, CascadeOf
  <2>2. ASSUME NEW k \in Keys PROVE Covered(k)' <=> Covered(k)
    BY <1>0, <2>1 DEF Covered
  <2>3. ASSUME NEW k \in Keys, node[k] # None
        PROVE  /\ node[k].compiled # None => RefersTo(node[k].compiled)'
               /\ OwnCascade(k, node[k])' /\ Applied(k, node[k])'
    <3>1. /\ node[k].compiled # None => RefersTo(node[k].compiled)
          /\ OwnCascade(k, node[k]) /\ Applied(k, node[k])
      BY <2>3 DEF CascadeInv
    <3>2. node[k].compiled # None => RefersTo(node[k].compiled)'
      BY <1>1, <3>1 DEF RefersTo
    <3>3. OwnCascade(k, node[k])'
      BY <1>1, <3>1 DEF OwnCascade, WithSite, OwnEntries, SiteEntries
    <3>4. Applied(k, node[k])'
      BY <1>1, <2>2, <3>1 DEF Applied, HasApplied, Maps, NoMaps
    <3> QED BY <3>2, <3>3, <3>4
  <2>4. ASSUME NEW k \in Keys PROVE Cascader(k)'
    <3>1. Cascader(k)
      BY DEF CascadeInv
    <3> QED BY <1>1, <2>1, <3>1 DEF Cascader, KindOf
  <2>5. CascadeInv'
    BY <1>1, <2>3, <2>4 DEF CascadeInv
  <2>6. AppliedInv'
    <3> SUFFICES ASSUME phase' \in {"aggregated", "assembled"} \/ AtRest', NEW k \in Keys,
                        node'[k] # None
                 PROVE  AppliesFrom({k} \cup Ancestors[k], node[k])'
      BY DEF AppliedInv
    <3>1. AppliesFrom({k} \cup Ancestors[k], node[k])
      BY <1>1 DEF AppliedInv
    <3>2. \A c \in {k} \cup Ancestors[k] : CascadeOf(c)' = CascadeOf(c)
      BY <1>0, <2>1
    <3> QED BY <1>1, <3>1, <3>2 DEF AppliesFrom, HasApplied, Full
  <2> QED BY <2>5, <2>6
<1>2. ASSUME \E k \in Keys : EditFile(k) PROVE CascadeInv' /\ AppliedInv'
  <2>1. UNCHANGED <<read, node, phase, outcome>>
    BY <1>2 DEF EditFile
  <2> QED BY <1>1, <2>1 DEF AtRest
<1>3. ASSUME ReadAll \/ Load \/ LoadFails PROVE CascadeInv' /\ AppliedInv'
  <2>1. \E E \in SUBSET Keys : \E L \in SUBSET Keys : (\A k \in L : Parses(k)) /\ Replace(E, L)
    BY <1>3, LoadableParses, EventsKeys
  <2>2. CascadeInv'
    BY <2>1, ReplaceCascade
  <2>3. ~(phase' \in {"aggregated", "assembled"} \/ AtRest')
    BY <1>3 DEF ReadAll, Load, LoadFails, AtRest
  <2> QED BY <2>2, <2>3 DEF AppliedInv
<1>4. ASSUME LoadTemplate PROVE CascadeInv' /\ AppliedInv'
  <2>1. AtRest
    BY <1>4 DEF LoadTemplate, Events, EntriesInv, AssemblerTypeOK, AtRest
  <2>2. UNCHANGED <<read, node>>
    BY <1>4 DEF LoadTemplate
  <2> QED BY <1>1, <2>1, <2>2
<1>5. ASSUME ApplyAggregates PROVE CascadeInv' /\ AppliedInv'
  BY <1>5, AggregatesCascade
<1>6. ASSUME Assemble PROVE CascadeInv' /\ AppliedInv'
  BY <1>6, AssembleCascade
<1>7. ASSUME Render PROVE CascadeInv' /\ AppliedInv'
  <2>1. UNCHANGED <<read, node>> /\ phase = "assembled"
    BY <1>7 DEF Render
  <2> QED BY <1>1, <2>1
<1>8. ASSUME UNCHANGED assemblerVars PROVE CascadeInv' /\ AppliedInv'
  <2>1. UNCHANGED <<read, node, phase, outcome>>
    BY <1>8 DEF assemblerVars
  <2> QED BY <1>1, <2>1 DEF AtRest
<1> QED BY <1>2, <1>3, <1>4, <1>5, <1>6, <1>7, <1>8 DEF AssemblerNext

\* What a full build passes down, and to whom.
LEMMA PassedIs ==
  ASSUME AssemblerTypeOK, ReadInv, PlainCascades, NEW key \in Keys
  PROVE  /\ \A c \in {key} \cup Ancestors[key] : CascadeOf(c) # None => Passed[key] = Full(CascadeOf(c))
         /\ (\A c \in {key} \cup Ancestors[key] : CascadeOf(c) = None) => Passed[key] = SiteCascade
<1> DEFINE Add(o, above) == [m \in Matchers |-> IF o[m] = None THEN above[m]
                                                ELSE IF above[m] = None THEN o[m]
                                                ELSE Over(o[m], above[m])]
           One(k, above) == IF CascadeOf(k) = None THEN above ELSE Add(CascadeOf(k), above)
           B == [k \in Keys |-> [above \in Cascades |-> One(k, above)]]
<1>1. Stays(B, Cascades)
  <2> SUFFICES ASSUME NEW k \in Keys, NEW above \in Cascades PROVE One(k, above) \in Cascades
    BY DEF Stays
  <2>1. CASE CascadeOf(k) = None
    BY <2>1
  <2>2. CASE CascadeOf(k) # None
    <3> DEFINE o == CascadeOf(k)
    <3>1. \A m \in Matchers : o[m] \in ParamMaps \cup {None} /\ above[m] \in ParamMaps \cup {None}
      BY <2>2, FileOfType DEF Cascades
    <3> HIDE DEF o
    <3>2. Add(o, above) \in Cascades
      BY <3>1, OverType DEF Cascades
    <3> QED BY <2>2, <3>2 DEF o
  <2> QED BY <2>1, <2>2
<1>2. PICK g \in [Keys -> Cascades] : Follows(Parent, B, SiteCascade, g)
  <2> HIDE DEF B
  <2> QED BY <1>1, Basics, DownTheTree
<1>3. \A k \in Keys : g[k] = One(k, IF k = Home THEN SiteCascade ELSE g[Parent[k]])
  <2> TAKE k \in Keys
  <2>1. (IF k = Home THEN SiteCascade ELSE g[Parent[k]]) \in Cascades
    BY Basics
  <2>2. g[k] = B[k][IF k = Home THEN SiteCascade ELSE g[Parent[k]]]
    <3> HIDE DEF B
    <3> QED BY <1>2 DEF Follows
  <2>3. \A above \in Cascades : B[k][above] = One(k, above)
    <3> HIDE DEF One
    <3> QED OBVIOUS
  <2> HIDE DEF B, One
  <2> QED BY <2>1, <2>2, <2>3
<1> HIDE DEF B
<1>4. Passed = [k \in Keys |-> One(k, IF k = Home THEN SiteCascade ELSE Passed[Parent[k]])]
  <2> DEFINE F(f) == [k \in Keys |-> LET above == IF k = Home THEN SiteCascade ELSE f[Parent[k]]
                                         own == FileOf(k).cascade
                                     IN  IF own = None THEN above
                                         ELSE [m \in Matchers |-> IF own[m] = None THEN above[m]
                                                 ELSE IF above[m] = None THEN own[m]
                                                 ELSE Over(own[m], above[m])]]
             G(f) == [k \in Keys |-> One(k, IF k = Home THEN SiteCascade ELSE f[Parent[k]])]
  <2>1. \A f : F(f) = G(f)
    BY DEF CascadeOf
  <2>2. Passed = CHOOSE f : f = F(f)
    BY DEF Passed
  <2>3. g = G(g)
    <3> HIDE DEF One
    <3> QED BY <1>3
  <2> HIDE DEF F, G
  <2>4. g = F(g)
    BY <2>1, <2>3
  <2>5. Passed = F(Passed)
    BY <2>2, <2>4
  <2>6. Passed = G(Passed)
    BY <2>1, <2>5
  <2> QED BY <2>6 DEF G
<1>5. \A k \in Keys : Passed[k] = One(k, IF k = Home THEN SiteCascade ELSE Passed[Parent[k]])
  <2> HIDE DEF One
  <2> QED BY <1>4
<1> DEFINE Is(k) ==
             /\ \A c \in {k} \cup Ancestors[k] : CascadeOf(c) # None => Passed[k] = Full(CascadeOf(c))
             /\ (\A c \in {k} \cup Ancestors[k] : CascadeOf(c) = None) => Passed[k] = SiteCascade
           Bad == {k \in Keys : ~Is(k)}
<1> SUFFICES ASSUME Bad # {} PROVE FALSE
  OBVIOUS
<1>6. PICK k \in Bad : k = Home \/ Parent[k] \notin Bad
  BY Basics DEF UpTheTree, LeadsHome
<1>7. Ancestors[k] = IF k = Home THEN {} ELSE {Parent[k]} \cup Ancestors[Parent[k]]
  BY <1>6, AncestorsOf
<1> DEFINE above == IF k = Home THEN SiteCascade ELSE Passed[Parent[k]]
<1>8. /\ \A c \in Ancestors[k] : CascadeOf(c) # None => above = Full(CascadeOf(c))
      /\ (\A c \in Ancestors[k] : CascadeOf(c) = None) => above = SiteCascade
  <2>1. CASE k = Home
    BY <1>7, <2>1
  <2>2. CASE k # Home
    <3>1. Parent[k] \in Keys /\ Parent[k] \notin Bad
      BY <1>6, <2>2, Basics
    <3>2. Is(Parent[k])
      <4> HIDE DEF Is
      <4> QED BY <3>1
    <3> QED BY <1>7, <2>2, <3>2
  <2> QED BY <2>1, <2>2
<1>9. Passed[k] = One(k, above)
  <2> HIDE DEF One
  <2> QED BY <1>5, <1>6
<1> HIDE DEF above
<1>10. CASE CascadeOf(k) = None
  <2>1. Passed[k] = above
    BY <1>9, <1>10
  <2>2. Is(k)
    BY <1>8, <1>10, <2>1
  <2> HIDE DEF Is
  <2> QED BY <1>6, <2>2
<1>11. CASE CascadeOf(k) # None
  <2>1. \A c \in Ancestors[k] : CascadeOf(c) = None
    BY <1>6, <1>11, OneCascades
  <2>2. above = SiteCascade
    BY <1>8, <2>1
  <2>3. Passed[k] = Add(CascadeOf(k), SiteCascade)
    <3> HIDE DEF Add
    <3> QED BY <1>9, <1>11, <2>2
  <2>4. Passed[k] = Full(CascadeOf(k))
    BY <2>3 DEF Full
  <2>5. Is(k)
    BY <1>11, <2>1, <2>4
  <2> HIDE DEF Is
  <2> QED BY <1>6, <2>5
<1> QED BY <1>10, <1>11

LEMMA PlainTreeInit == AssemblerInit => PlainTreeInv
<1> SUFFICES ASSUME AssemblerInit PROVE PlainTreeInv
  OBVIOUS
<1>1. \A k \in Keys : node[k] = None /\ read[k] = None /\ source[k] \in Sources[k]
  BY AssemblerAssumption DEF AssemblerInit
<1>2. \A k \in Keys : CascadeOf(k) = None
  BY <1>1, BlankIs DEF CascadeOf, FileOf
<1> QED BY <1>1, <1>2 DEF PlainTreeInv, ReadInv, CascadeInv, AppliedInv, Cascader

LEMMA PlainTreeStep == TreeInv /\ TreeInv' /\ PlainTreeInv /\ [AssemblerNext]_assemblerVars => PlainTreeInv'
<1> SUFFICES ASSUME TreeInv, TreeInv', PlainTreeInv, [AssemblerNext]_assemblerVars PROVE PlainTreeInv'
  OBVIOUS
<1>1. ReadInv'
  BY ReadStep DEF TreeInv, PlainTreeInv
<1>2. PlainCascades => CascadeInv' /\ AppliedInv'
  BY CascadeStep DEF TreeInv, PlainTreeInv
<1>3. PlainCascades' => PlainCascades
  BY DEF PlainCascades, MayCascade, StopsCascading, Empty
<1> QED BY <1>1, <1>2, <1>3 DEF PlainTreeInv

\* After a successful build every page has the cascaded parameters it would have
\* after a restart, for any tree and any files within the named restrictions: the
\* walk has undone what an earlier build passed down, also into maps it shares.
THEOREM CascadesComeFromAbove == AssemblerSpec => []PlainCascadeFromAbove
<1>1. TreeInv /\ PlainTreeInv => PlainCascadeFromAbove
  <2> SUFFICES ASSUME TreeInv, PlainTreeInv, PlainCascades, AtRest, NEW k \in Keys,
                      node[k] # None, ~FileOf(k).draft
               PROVE  node[k].params = Apply(FileOf(k).own, Passed[k], KindOf(k))
    BY DEF PlainCascadeFromAbove, CascadeFromAbove
  <2>1. AssemblerTypeOK /\ FilesInv /\ ReadInv /\ AppliedInv
    BY DEF TreeInv, PlainTreeInv
  <2>2. node[k].file = FileOf(k)
    BY <2>1 DEF FilesInv
  <2>3. AppliesFrom({k} \cup Ancestors[k], node[k])
    BY <2>1 DEF AppliedInv
  <2>4. HasApplied(node[k], Passed[k])
    <3>1. CASE \A c \in {k} \cup Ancestors[k] : CascadeOf(c) = None
      BY <2>1, <2>3, <3>1, PassedIs DEF AppliesFrom
    <3>2. CASE ~(\A c \in {k} \cup Ancestors[k] : CascadeOf(c) = None)
      BY <2>1, <2>3, <3>2, PassedIs DEF AppliesFrom
    <3> QED BY <3>1, <3>2
  <2>5. KindOf(k) \in Kinds
    BY DEF KindOf, Kinds
  <2> QED BY <2>2, <2>4, <2>5, KindIgnored DEF HasApplied
<1> QED BY <1>1, PlainTreeInit, PlainTreeStep, TreeAlways, PTL DEF AssemblerSpec
=============================================================================
