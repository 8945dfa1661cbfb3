----------------------------- MODULE Assembler -----------------------------
(***************************************************************************)
(* Rebuilds of the page tree (hugolib/hugo_sites_build.go, pages_capture,  *)
(* content_map_page, page__meta).  A rebuild loads the files the events    *)
(* name into the tree it has, and assembles that tree again: it adds       *)
(* missing sections, passes cascades down and dates up, drops drafts, and  *)
(* lists the terms.  What a page got from above and below in an earlier    *)
(* build is still there, so every step has to undo before it redoes, and   *)
(* has to notice which pages it changed, or they are not rendered again.   *)
(*                                                                         *)
(* One site, one output format.  A cascade is, per matcher, a map of       *)
(* parameters.  The maps are shared by reference, and a page's own ones    *)
(* are changed in place: an entry of a compiled cascade says whose map it  *)
(* is.                                                                     *)
(***************************************************************************)
EXTENDS Naturals, FiniteSets, Absent

CONSTANTS Branches, Pages,   \* home and sections; regular pages, each a file of its own
          Home,
          Parent,            \* the branch a branch or page is in
          Prefix,            \* the branch whose key is the longest proper prefix of the key's text
          Terms, Params, Values, Matchers,
          Takes,             \* Takes[m]: the kinds a matcher takes
          SiteCascade,       \* the site configuration's cascade
          Sources,           \* Sources[k]: what the file of k may hold; None for no file
          FirstFile,             \* FirstFile[k]: what it holds at first
          MaxEdits           \* bound: edits

Keys == Branches \cup Pages

NoParams == [p \in Params |-> None]
Kinds == {"home", "section", "page", ""}
ParamMaps == [Params -> Values \cup {None}]
Cascades == [Matchers -> ParamMaps \cup {None}]

(* A compiled cascade.                                                      *)
CascadeEntries == [of : Keys \cup {None}, map : ParamMaps]
Compiled == [Matchers -> CascadeEntries \cup {None}]

FileContents == [cascade : Cascades \cup {None}, own : ParamMaps,
                 date : Nat, tags : SUBSET Terms, draft : BOOLEAN,
                 bad : {"no", "parse", "render"}]

Blank == [cascade |-> None, own |-> NoParams, date |-> 0, tags |-> {},
          draft |-> FALSE, bad |-> "no"]

Nodes == [file : FileContents, kind : Kinds, old : BOOLEAN,
          inner : Cascades \cup {None},
          compiled : Compiled \cup {None},
          params : ParamMaps, date : Nat, off : BOOLEAN]

Views == [params : ParamMaps, date : Nat]

(* Keys get shorter: from every key up there is a way home.                 *)
LeadsHome(up) == \A K \in SUBSET Keys : K # {} => \E k \in K : k = Home \/ up[k] \notin K

ASSUME AssemblerAssumption ==
  /\ IsFiniteSet(Keys) /\ Home \in Branches /\ Branches \cap Pages = {}
  /\ Parent \in [Keys \ {Home} -> Branches] /\ Prefix \in [Keys \ {Home} -> Branches]
  /\ LeadsHome(Parent) /\ LeadsHome(Prefix)
  /\ Takes \in [Matchers -> SUBSET Kinds]
  /\ SiteCascade \in Cascades
  /\ DOMAIN Sources = Keys /\ \A k \in Keys : Sources[k] \subseteq FileContents \cup {None}
  /\ FirstFile \in [Keys -> FileContents \cup {None}] /\ \A k \in Keys : FirstFile[k] \in Sources[k]
  /\ MaxEdits \in Nat
  /\ None \notin Keys /\ None \notin ParamMaps /\ None \notin Cascades
  /\ None \notin CascadeEntries /\ None \notin Compiled
  /\ None \notin FileContents /\ None \notin Nodes /\ None \notin Views
  /\ None \notin Nat

VARIABLES source,    \* the files
          batch,     \* files with an event not handled yet
          retry,     \* the file of the last build's error
          phase,     \* idle, loaded, aggregated, assembled
          outcome,   \* of the last build: none, ok, failed
          stumbled,  \* a file did not parse, some time
          read,      \* what was last loaded of each file
          node,      \* treePages
          entries,   \* treeTaxonomyEntries
          terms,     \* the terms' nodes: their date, or None
          due,       \* pages whose output is not rendered, or reset
          shown,     \* what is published of a page
          edits

assemblerVars == <<source, batch, retry, phase, outcome, stumbled, read, node,
                   entries, terms, due, shown, edits>>

AssemblerTypeOK ==
  /\ source \in [Keys -> FileContents \cup {None}] /\ read \in [Keys -> FileContents \cup {None}]
  /\ batch \subseteq Keys /\ retry \subseteq Keys /\ due \subseteq Keys
  /\ phase \in {"idle", "loaded", "aggregated", "assembled"}
  /\ outcome \in {"none", "ok", "failed"} /\ stumbled \in BOOLEAN
  /\ node \in [Keys -> Nodes \cup {None}]
  /\ entries \subseteq Terms \X Keys /\ terms \in [Terms -> Nat \cup {None}]
  /\ shown \in [Keys -> Views \cup {None}]
  /\ edits \in 0..MaxEdits

AssemblerInit ==
  /\ source = FirstFile /\ batch = {} /\ retry = {} /\ phase = "idle" /\ outcome = "none"
  /\ stumbled = FALSE /\ read = [k \in Keys |-> None] /\ node = [k \in Keys |-> None]
  /\ entries = {} /\ terms = [t \in Terms |-> None] /\ due = {}
  /\ shown = [k \in Keys |-> None] /\ edits = 0

(* A file is saved, created or removed, also while a build is on its way.   *)
EditFile(k) ==
  /\ outcome # "none" /\ edits < MaxEdits
  /\ \E s \in Sources[k] \ {source[k]} : source' = [source EXCEPT ![k] = s]
  /\ batch' = batch \cup {k} /\ edits' = edits + 1
  /\ UNCHANGED <<retry, phase, outcome, stumbled, read, node, entries, terms, due, shown>>

-----------------------------------------------------------------------------
(* Loading.                                                                 *)

KindOf(k) == IF k = Home THEN "home" ELSE IF k \in Branches THEN "section" ELSE "page"

Fresh(k, f) == [file |-> f, kind |-> KindOf(k), old |-> FALSE, inner |-> f.cascade,
                compiled |-> None, params |-> f.own, date |-> f.date, off |-> FALSE]

Ancestors[k \in Keys] == IF k = Home THEN {} ELSE {Parent[k]} \cup Ancestors[Parent[k]]

Under(k) == {j \in Keys : k \in Ancestors[j]}

(* The directory of a branch is its own, that of a page its section's.      *)
FilesIn(d) == {d} \cup {p \in Pages : Parent[p] = d}

Directories(E) == {d \in Branches : FilesIn(d) \cap E # {}}

(* Mutant: a section's file is loaded alone.                                *)
LoadsAlone(E, L) ==
  \A d \in Directories(E) :
    LET gone == {k \in FilesIn(d) \cap E : source[k] = None}
    IN  IF d \in E THEN L \cap FilesIn(d) = {d}
        ELSE IF gone # {} THEN FilesIn(d) \subseteq L
        ELSE Cardinality(L \cap FilesIn(d)) = 1 /\ L \cap FilesIn(d) \subseteq E

(* pagesCollector: which files a set of events loads.  A section's file     *)
(* stands for the files of its directory, a removed file too, and a removed *)
(* section file for everything below.  Otherwise a directory is looked at   *)
(* once, for the first of the files with an event.                          *)
Loads(E, L) ==
  \A d \in Directories(E) :
    LET gone == {k \in FilesIn(d) \cap E : source[k] = None}
    IN  IF d \in E \/ gone # {} THEN FilesIn(d) \subseteq L
        ELSE Cardinality(L \cap FilesIn(d)) = 1 /\ L \cap FilesIn(d) \subseteq E

(* What is loaded although no event named its directory.                    *)
LoadedUnder(E) == UNION {Under(d) : d \in {b \in E \cap Branches : source[b] = None}}

Loadable(E) ==
  {L \in SUBSET Keys :
     /\ Loads(E, L)
     /\ LoadedUnder(E) \subseteq L
     /\ L \subseteq LoadedUnder(E) \cup UNION {FilesIn(d) : d \in Directories(E)}}

(* A page that is replaced takes its maps with it: those who refer to them  *)
(* keep the old ones.                                                       *)
Detached(n, gone) ==
  IF n = None \/ n.compiled = None THEN n
  ELSE [n EXCEPT !.compiled = [m \in Matchers |->
          IF @[m] # None /\ @[m].of \in gone THEN [@[m] EXCEPT !.of = None] ELSE @[m]]]

(* What handleChange takes out of the tree: what was removed, and what is   *)
(* below a section whose file was.                                          *)
Removed(E) == {k \in E : source[k] = None} \cup LoadedUnder(E)

(* The nodes of L are made from their files; the others keep theirs.        *)
Replace(E, L) ==
  LET gone == Removed(E)
      made == {k \in L : source[k] # None}
  IN  /\ read' = [k \in Keys |-> IF k \in made THEN source[k]
                                 ELSE IF k \in gone THEN None ELSE read[k]]
      /\ node' = [k \in Keys |-> IF k \in made THEN Fresh(k, source[k])
                                 ELSE IF k \in gone THEN None
                                 ELSE Detached(node[k], made \cup gone)]

Parses(k) == IF source[k] = None THEN TRUE ELSE source[k].bad # "parse"

ReadAll ==
  /\ outcome = "none" /\ phase = "idle" /\ \A k \in Keys : Parses(k)
  /\ Replace({}, Keys)
  /\ due' = Keys /\ batch' = {} /\ phase' = "loaded"
  /\ UNCHANGED <<source, retry, outcome, stumbled, entries, terms, shown, edits>>

(* Mutant: the file of the last error is not named again.                   *)
EventsOnce == batch

(* rebuildSites names the file of the last error again.                     *)
Events == batch \cup retry

(* handleChange: the entries of all taxonomies go.                          *)
ClearEntries == entries' = {}

Load ==
  /\ outcome # "none" /\ phase = "idle" /\ Events # {}
  /\ \E L \in Loadable(Events) :
       /\ \A k \in L : Parses(k)
       /\ Replace(Events, L) /\ ClearEntries
       /\ due' = due \cup L \cup Events
  /\ batch' = {} /\ phase' = "loaded"
  /\ UNCHANGED <<source, retry, outcome, stumbled, terms, shown, edits>>

(* A file does not parse: what the other workers have loaded stays, and the *)
(* build ends.                                                              *)
LoadFails ==
  /\ outcome # "none" /\ phase = "idle" /\ Events # {}
  /\ \E L \in Loadable(Events) :
       LET bad == {k \in L : ~Parses(k)}
       IN  /\ \E k \in bad : retry' = {k}
           /\ \E M \in SUBSET (L \ bad) : Replace(Events, M) /\ due' = due \cup M \cup Events
           /\ ClearEntries
  /\ batch' = {} /\ outcome' = "failed" /\ stumbled' = TRUE
  /\ UNCHANGED <<source, phase, terms, shown, edits>>

(* An event that is no content's: with nothing to retry there is nothing to *)
(* load or to assemble either.  A template's dependents are due.            *)
LoadTemplate ==
  /\ outcome # "none" /\ phase = "idle" /\ Events = {}
  /\ phase' = "assembled" /\ due' = {k \in Keys : node[k] # None}
  /\ UNCHANGED <<source, batch, retry, outcome, stumbled, read, node, entries, terms,
                 shown, edits>>

-----------------------------------------------------------------------------
(* Aggregates.                                                              *)

(* addMissingRootSections, and a home page.                                 *)
Missing(k) ==
  /\ node[k] = None
  /\ \/ k = Home
     \/ k \in Branches /\ Parent[k] = Home /\ \E j \in Under(k) : node[j] # None

Present(k) == IF Missing(k) THEN Fresh(k, Blank) ELSE node[k]

Over(own, above) == [p \in Params |-> IF own[p] # None THEN own[p] ELSE above[p]]

Entry(k, map) == [of |-> k, map |-> map]

Maps(c) == [m \in Matchers |-> IF c = None \/ c[m] = None THEN None ELSE c[m].map]

(* Own parameters first, then those of the matchers that take the kind.     *)
Apply(own, maps, kind) ==
  [p \in Params |->
     LET given == {v \in Values : \E m \in Matchers :
                     kind \in Takes[m] /\ maps[m] # None /\ maps[m][p] = v}
     IN  IF own[p] # None \/ given = {} THEN own[p] ELSE CHOOSE v \in given : TRUE]

(* Mutant: what the last build's cascade gave is taken for the page's own.  *)
OwnParamsKept(n) == n.params

(* setMetaPostPrepareRebuild starts again from the parameters of the file.  *)
OwnParams(n) == n.file.own

(* setMetaPost: a page and the cascade from above.  The page's own maps     *)
(* take what they lack; before is what its last compiled cascade holds now. *)
SetMetaPost(k, n, above, before) ==
  LET inner == IF n.inner = None THEN None
               ELSE [m \in Matchers |->
                       IF n.inner[m] = None \/ above[m] = None THEN n.inner[m]
                       ELSE Over(n.inner[m], above[m].map)]
      compiled == IF n.inner = None THEN above
                  ELSE [m \in Matchers |-> IF inner[m] = None THEN above[m]
                                           ELSE Entry(k, inner[m])]
      changed == n.old /\ before # Maps(compiled)
  IN  [node |-> IF n.old /\ ~changed
                THEN [n EXCEPT !.inner = inner, !.compiled = compiled, !.date = n.file.date]
                ELSE LET kind == IF n.old THEN "" ELSE n.kind
                     IN  [n EXCEPT !.inner = inner, !.old = TRUE, !.kind = kind,
                            !.compiled = IF n.old THEN None ELSE compiled,
                            !.params = Apply(OwnParams(n), Maps(compiled), kind),
                            !.date = n.file.date, !.off = FALSE],
       changed |-> changed]

(* What a compiled cascade from an earlier build holds by now: the walk has *)
(* been to those above, and may have changed their maps in place.           *)
HeldNow(n, maps) ==
  [m \in Matchers |->
     IF n.compiled = None \/ n.compiled[m] = None THEN None
     ELSE IF n.compiled[m].of = None THEN n.compiled[m].map
     ELSE maps[n.compiled[m].of][m]]

SiteEntries == [m \in Matchers |-> IF SiteCascade[m] = None THEN None
                                   ELSE Entry(None, SiteCascade[m])]

(* What the walk begins with: the site's cascade, and the pages' own maps.  *)
Top == [down |-> SiteEntries,
        maps |-> [k \in Keys |-> IF node[k] = None THEN None ELSE node[k].inner]]

(* At one page: what the branch above has passed down goes on from it.      *)
Visit(k, above) ==
  LET n == Present(k)
      r == SetMetaPost(k, n, above.down, HeldNow(n, above.maps))
  IN  IF n = None THEN [node |-> None, changed |-> FALSE, down |-> above.down, maps |-> above.maps]
      ELSE [node |-> r.node, changed |-> r.changed,
            down |-> IF r.node.kind = "page" \/ r.node.compiled = None THEN above.down
                     ELSE r.node.compiled,
            maps |-> [above.maps EXCEPT ![k] = r.node.inner]]

(* The walk: every page after the branches its key extends.                 *)
Walk[k \in Keys] == Visit(k, IF k = Home THEN Top ELSE Walk[Prefix[k]])

Newest(dates) == IF dates = {} THEN 0 ELSE CHOOSE d \in dates : \A e \in dates : e <= d

(* Mutant: what a page got from below in the last build is not undone.      *)
DateUpKept(k) ==
  LET n == Walk[k].node
  IN  IF n.date # 0 \/ n.kind = "page" THEN n.date
      ELSE Newest({Walk[j].node.date : j \in {i \in Under(k) : Walk[i].node # None}}
                  \cup {IF node[k] = None THEN 0 ELSE node[k].date})

(* The dates event: a branch without a date gets the newest from below.     *)
DateUp(k) ==
  LET n == Walk[k].node
  IN  IF n.date # 0 \/ n.kind = "page" THEN n.date
      ELSE Newest({Walk[j].node.date : j \in {i \in Under(k) : Walk[i].node # None}})

(* Mutant: the hook looks before the events are handled.                    *)
DateMovedEarly(k) ==
  /\ node[k] # None /\ node[k].old /\ node[k].kind \in {"home", "section"}
  /\ node[k].date # Walk[k].node.date

(* The post hooks: home and sections compare with the date they had.        *)
DateMoved(k) ==
  /\ node[k] # None /\ node[k].old /\ node[k].kind \in {"home", "section"}
  /\ node[k].date # DateUp(k)

ApplyAggregates ==
  /\ phase = "loaded"
  /\ node' = [k \in Keys |-> IF Walk[k].node = None THEN None
                             ELSE [Walk[k].node EXCEPT !.date = DateUp(k)]]
  /\ due' = due \cup {k \in Keys : Walk[k].node # None /\
                                    (Walk[k].changed \/ DateMoved(k) \/ Missing(k))}
  /\ phase' = "aggregated"
  /\ UNCHANGED <<source, batch, retry, outcome, stumbled, read, entries, terms, shown,
                 edits>>

-----------------------------------------------------------------------------
(* removeShouldNotBuild, assembleTermsAndTranslations and                   *)
(* applyAggregatesToTaxonomiesAndTerms.  Terms stay when nobody has them.   *)

Disable(n) == IF n # None /\ n.file.draft THEN [n EXCEPT !.off = TRUE] ELSE n

Dropped(k) == node[k] # None /\ node[k].file.draft /\ node[k].kind \notin {"home", "section"}

Assemble ==
  /\ phase = "aggregated"
  /\ node' = [k \in Keys |-> IF Dropped(k) THEN None ELSE Disable(Detached(node[k], {j \in Keys : Dropped(j)}))]
  /\ entries' = entries \cup
       {e \in Terms \X Keys : /\ node'[e[2]] # None /\ ~node'[e[2]].off
                              /\ e[1] \in node'[e[2]].file.tags}
  /\ terms' = [t \in Terms |->
       IF terms[t] = None /\ ~(\E e \in entries' : e[1] = t) THEN None
       ELSE Newest({node'[e[2]].date : e \in {x \in entries' : x[1] = t /\ node'[x[2]] # None}})]
  /\ phase' = "assembled"
  /\ UNCHANGED <<source, batch, retry, outcome, stumbled, read, due, shown, edits>>

-----------------------------------------------------------------------------
View(n) == [params |-> n.params, date |-> n.date]

Rendering == {k \in due : node[k] # None /\ ~node[k].off}

Failing == {k \in Rendering : node[k].file.bad = "render"}

(* Every page that is due is rendered; one that fails counts as rendered    *)
(* too, and one error stands for all of them.                               *)
Render ==
  /\ phase = "assembled"
  /\ shown' = [k \in Keys |-> IF k \in Rendering \ Failing THEN View(node[k]) ELSE shown[k]]
  /\ due' = due \ Rendering
  /\ IF Failing = {} THEN outcome' = "ok" /\ retry' = {}
     ELSE outcome' = "failed" /\ \E k \in Failing : retry' = {k}
  /\ phase' = "idle"
  /\ UNCHANGED <<source, batch, stumbled, read, node, entries, terms, edits>>

AssemblerNext ==
  \/ \E k \in Keys : EditFile(k)
  \/ ReadAll \/ Load \/ LoadFails \/ LoadTemplate
  \/ ApplyAggregates \/ Assemble \/ Render

AssemblerSpec == AssemblerInit /\ [][AssemblerNext]_assemblerVars
-----------------------------------------------------------------------------
(* What a full build of the files that were read would make of the tree.    *)

FileOf(k) == IF read[k] = None THEN Blank ELSE read[k]

Passed[k \in Keys] ==
  LET above == IF k = Home THEN SiteCascade ELSE Passed[Parent[k]]
      own == FileOf(k).cascade
  IN  IF own = None THEN above
      ELSE [m \in Matchers |-> IF own[m] = None THEN above[m]
                               ELSE IF above[m] = None THEN own[m]
                               ELSE Over(own[m], above[m])]

AtRest == phase = "idle" /\ outcome = "ok"

(* The taxonomies list the pages that carry a term, no removed or redrafted *)
(* page and none under a term it no longer has, also when the build before  *)
(* ended halfway.                                                           *)
EntriesCurrent ==
  AtRest => entries = {e \in Terms \X Keys : e[1] \in FileOf(e[2]).tags /\ ~FileOf(e[2]).draft}

(* A page has the cascaded parameters it would have after a restart: those  *)
(* of the sections it is in and of no other, as the files are now.  A draft *)
(* section whose cascade changed is dropped, as it has lost its kind, and a *)
(* blank one takes its place.                                               *)
CascadeFromAbove ==
  AtRest => \A k \in Keys : node[k] # None /\ ~FileOf(k).draft =>
              node[k].params = Apply(FileOf(k).own, Passed[k], KindOf(k))

(* That holds when no key is the beginning of a sibling's, no matcher looks *)
(* at kinds, no branch with a cascade is below another one, and none is     *)
(* left with nothing to pass down: a page whose cascade changed has no      *)
(* compiled one, and takes what it had of a cascade for current when        *)
(* nothing comes from above.                                                *)
Empty(c) == \A m \in Matchers : c[m] = None

MayCascade(k) == \E s \in Sources[k] : s # None /\ s.cascade # None

StopsCascading(k) ==
  \E s \in Sources[k] : s # None /\ s.bad # "parse" /\ (s.cascade = None \/ Empty(s.cascade))

PlainCascades ==
  /\ Prefix = Parent /\ \A m \in Matchers : Takes[m] = Kinds
  /\ \A k \in Keys : MayCascade(k) => \A j \in Ancestors[k] : ~MayCascade(j)
  /\ Empty(SiteCascade) => \A k \in Branches : MayCascade(k) => ~StopsCascading(k)

PlainCascadeFromAbove == PlainCascades => CascadeFromAbove

(* What a successful build leaves published is what the tree says now, for  *)
(* every page that can be rendered.  A page whose cascade changed has lost  *)
(* its kind; a date from below that moves is then not noticed.              *)
PublishedCurrent ==
  AtRest => \A k \in Keys :
    node[k] # None /\ ~node[k].off /\ node[k].file.bad = "no" =>
      /\ shown[k] # None /\ shown[k].params = node[k].params
      /\ node[k].kind # "" => shown[k].date = node[k].date

(* A branch without a date of its own has the newest of the pages below it  *)
(* that are there now.  A draft's date counts until the next build.         *)
DatesFromBelow ==
  AtRest => \A k \in Branches :
    node[k] # None /\ FileOf(k).date = 0 /\ (\A j \in Under(k) : ~FileOf(j).draft) =>
      node[k].date = Newest({FileOf(j).date : j \in Under(k)})

(* A saved file reaches the tree with the build that takes its event, in a  *)
(* session without parse errors and with one plain file per directory.      *)
OneFilePerDirectory == \A p, q \in Pages : Parent[p] = Parent[q] => p = q

EditsArrive == \A k \in Keys \ batch : read[k] = source[k]

EditsArriveUnlessCrowded ==
  AtRest /\ ~stumbled /\ OneFilePerDirectory => EditsArrive
=============================================================================
