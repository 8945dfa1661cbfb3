------------------------------ MODULE JSBatch ------------------------------
(***************************************************************************)
(* The JavaScript batcher (internal/js/esbuild/batch.go) over a server     *)
(* session.  Page contents and layouts, the setters, set options on the    *)
(* scripts and instances of the groups while they are rendered; a deferred *)
(* template then asks for the bundle.  The batcher lives as long as the    *)
(* server, a rebuild runs only the setters that have to be rendered again, *)
(* and the bundle of the last build is taken when nothing looks stale.     *)
(*                                                                         *)
(* One batch, whose own options do not change.  Not modelled: import       *)
(* contexts, and what ESBuild writes besides the groups' files.            *)
(***************************************************************************)
EXTENDS Naturals, FiniteSets, Absent

CONSTANTS Setters,
          Pages,      \* the setters whose change names their dependency managers
          Along,      \* Along[s]: setters rendered with s, a page's layout
          Builders,   \* the setters whose page has the deferred template
          Groups, Scripts, Instances,
          Runners,    \* scripts kept in a map of their own
          GroupOf,    \* the group of a script
          ScriptOf,   \* the script of an instance
          Options,    \* option maps with something in them
          Empty,      \* one with nothing in it
          Programs,   \* Programs[s]: what a setter may set; None for nothing
          First,
          MaxEdits    \* bound: edits

Items == Scripts \cup Instances

Maps == Options \cup {Empty}

Holders == [curr : Maps \cup {None}, before : Maps \cup {None}, sets : 0..2,
            reset : BOOLEAN, once : BOOLEAN]

Contents == [options : Maps \cup {None}, version : 0..MaxEdits]

(* A script without a resource is an error of its page (compileOptions).    *)
ASSUME JSBatchAssumption ==
  /\ Pages \subseteq Setters /\ Builders \subseteq Setters /\ Runners \subseteq Scripts
  /\ Along \in [Setters -> SUBSET Setters]
  /\ GroupOf \in [Scripts -> Groups] /\ ScriptOf \in [Instances -> Scripts]
  /\ Empty \notin Options /\ None \notin Maps /\ None \notin Holders
  /\ \A items \in SUBSET Items : None \notin [items -> Contents]
  /\ Scripts \cap Instances = {} /\ Groups \cap Items = {}
  /\ Programs \in [Setters -> SUBSET [Items -> Maps \cup {None}]]
  /\ First \in [Setters -> [Items -> Maps \cup {None}]]
  /\ \A s \in Setters : First[s] \in Programs[s]
  /\ \A s \in Setters : \A p \in Programs[s] : \A i \in Scripts : p[i] # Empty
  /\ MaxEdits \in Nat

VARIABLES program,   \* what the setters' files say
          version,   \* a script's resource: its version
          broken,    \* scripts that do not compile
          batch,     \* setters and scripts with an event not handled yet
          retry,     \* setter or script of the last build's error
          phase,     \* idle, render
          due,       \* setters to be rendered in this build
          built, touched,   \* groups and items, for the current buildCount
          groups,    \* b.scriptGroups
          opts,      \* the optsHolder of an item
          imported,  \* scripts in the groups' dependency managers
          used,      \* used[s]: groups and items in the page's managers
          staleVersion,
          prevBuild,
          asked,     \* the deferred template is to be executed
          lapse,     \* a build that ran setters has ended without a bundle, some time
          mixed,     \* a setter changed when the bundle was stale, or its page failed, some time
          edits

batchVars == <<program, version, broken, batch, retry, phase, due, built, touched, groups,
               opts, imported, used, staleVersion, prevBuild, asked, lapse, mixed, edits>>

IsPackage(p) ==
  /\ DOMAIN p \subseteq Items
  /\ \A i \in DOMAIN p : p[i] \in Contents

JSBatchTypeOK ==
  /\ program \in [Setters -> [Items -> Maps \cup {None}]] /\ version \in [Scripts -> 0..MaxEdits]
  /\ broken \subseteq Scripts /\ batch \subseteq Setters \cup Scripts /\ retry \subseteq Setters \cup Scripts
  /\ phase \in {"idle", "render"} /\ due \subseteq Setters
  /\ built \subseteq Groups \cup Items /\ touched \subseteq Groups \cup Items
  /\ groups \subseteq Groups /\ opts \in [Items -> Holders \cup {None}]
  /\ imported \subseteq Scripts /\ used \in [Setters -> SUBSET (Groups \cup Items)]
  /\ staleVersion \in BOOLEAN /\ lapse \in BOOLEAN /\ mixed \in BOOLEAN
  /\ prevBuild # None => IsPackage(prevBuild)
  /\ asked \in BOOLEAN
  /\ edits \in 0..MaxEdits

JSBatchInit ==
  /\ program = First /\ version = [s \in Scripts |-> 0] /\ broken = {} /\ batch = {} /\ retry = {}
  /\ phase = "render" /\ due = Setters
  /\ built = {} /\ touched = {} /\ groups = {} /\ opts = [i \in Items |-> None]
  /\ imported = {} /\ used = [s \in Setters |-> {}] /\ staleVersion = FALSE
  /\ prevBuild = None /\ asked = FALSE /\ lapse = FALSE /\ mixed = FALSE /\ edits = 0

-----------------------------------------------------------------------------
EditSetter(s) ==
  /\ phase = "idle" /\ edits < MaxEdits
  /\ \E p \in Programs[s] \ {program[s]} : program' = [program EXCEPT ![s] = p]
  /\ batch' = batch \cup {s} /\ edits' = edits + 1
  /\ UNCHANGED <<version, broken, retry, phase, due, built, touched, groups, opts, imported,
                 used, staleVersion, prevBuild, asked, lapse, mixed>>

EditScript(s) ==
  /\ phase = "idle" /\ edits < MaxEdits
  /\ version' = [version EXCEPT ![s] = @ + 1]
  /\ broken' \in {broken \ {s}, broken \cup {s}}
  /\ batch' = batch \cup {s} /\ edits' = edits + 1
  /\ UNCHANGED <<program, retry, phase, due, built, touched, groups, opts, imported, used,
                 staleVersion, prevBuild, asked, lapse, mixed>>

GroupIn(i) == IF i \in Scripts THEN GroupOf[i] ELSE GroupOf[ScriptOf[i]]

SetBy(s) == {i \in Items : program[s][i] # None}

Known == groups \cup {i \in Items : opts[i] # None}

UsedBy(s) == used[s] \cup UNION {used[a] : a \in Along[s]}

Changes == batch \cup retry

(* The change listener: the first change that a bundle depends on makes it  *)
(* stale, and ends the listener's loop over the changes, which come in the  *)
(* order of a map.  Those it has seen by then touch what their pages used.  *)
Heard(seen) ==
  /\ staleVersion' = (staleVersion \/ Changes \cap imported # {})
  /\ touched' = touched \cup ((UNION {UsedBy(s) : s \in seen \cap Pages}) \cap Known)

(* A setter depends on the scripts it sets, and on a group with all the     *)
(* scripts that were ever bundled for it.                                   *)
DependsOn(s) == UsedBy(s) \cup {c \in imported : GroupOf[c] \in UsedBy(s)}

(* The events reach the listener, and what depends on them is to be         *)
(* rendered again.                                                          *)
Start ==
  /\ phase = "idle" /\ Changes # {}
  /\ \E seen \in SUBSET Changes :
       /\ Changes \cap imported = {} => seen = Changes
       /\ seen \cap imported = {}
       /\ Heard(seen)
  /\ LET changed == {s \in Setters : s \in Changes \/ DependsOn(s) \cap Changes # {}}
     IN  due' = changed \cup UNION {Along[s] : s \in changed}
  /\ mixed' = (mixed \/ (Changes \cap Setters # {} /\ staleVersion'))
  /\ phase' = "render" /\ batch' = {} /\ retry' = {}
  /\ UNCHANGED <<program, version, broken, built, groups, opts, imported, used,
                 prevBuild, asked, lapse, edits>>

NewHolder == [curr |-> None, before |-> None, sets |-> 0, reset |-> FALSE, once |-> FALSE]

Holder(i) == IF opts[i] = None THEN NewHolder ELSE opts[i]

(* SetOptions, which only the first in a build gets to call.                *)
SetOptions(h, m) ==
  [h EXCEPT !.curr = m, !.before = h.curr, !.sets = IF @ = 2 THEN 2 ELSE @ + 1, !.once = TRUE]

(* A setter is rendered: Group, Script and Instance.                        *)
Run(s) ==
  /\ phase = "render" /\ s \in due
  /\ LET free == {i \in SetBy(s) : ~Holder(i).once}
         mine == {GroupIn(i) : i \in SetBy(s)}
     IN  /\ groups' = groups \cup mine
         /\ opts' = [i \in Items |-> IF i \in free THEN SetOptions(Holder(i), program[s][i])
                                     ELSE opts[i]]
         /\ built' = built \cup mine \cup free
         /\ used' = [used EXCEPT ![s] = mine \cup free]
  /\ due' = due \ {s} /\ asked' = (asked \/ s \in Builders)
  /\ UNCHANGED <<program, version, broken, batch, retry, phase, touched, imported,
                 staleVersion, prevBuild, lapse, mixed, edits>>

(* Its page fails before it sets anything.  The deferred templates of the   *)
(* pages that did not fail are executed all the same.  One page in a build: *)
(* of two that fail the error names one (module Assembler).                 *)
RunFails(s) ==
  /\ phase = "render" /\ s \in due /\ retry = {}
  /\ edits < MaxEdits /\ edits' = edits + 1
  /\ due' = due \ {s} /\ retry' = {s} /\ mixed' = TRUE
  /\ used' = [used EXCEPT ![s] = {}]
  /\ UNCHANGED <<program, version, broken, batch, phase, built, touched, groups, opts, imported,
                 staleVersion, prevBuild, asked, lapse>>

-----------------------------------------------------------------------------
(* The removals before a bundle is built again.  Of the groups:             *)
Untouched == {g \in groups : g \in built \/ g \notin touched}

Live == {i \in Items : opts[i] # None}

Tables(g) ==
  LET scripts == {s \in Scripts : GroupOf[s] = g}
  IN  {scripts \ Runners, scripts \cap Runners, {i \in Instances : ScriptOf[i] \in scripts}}

With(gone) == gone \cup {i \in Instances : ScriptOf[i] \in gone}

(* Of a group's items: those that were touched and not set, and what is in  *)
(* a map where something else was set.                                      *)
Kept(g) ==
  LET set == Live \ With({i \in Live : i \in touched /\ i \notin built})
      left == (UNION {T \in Tables(g) : g \in built /\ T \cap set \cap built # {}}) \ built
  IN  {i \in set : GroupIn(i) = g} \ With(left)

RemoveNotSet ==
  [groups |-> Untouched, items |-> UNION {Kept(g) : g \in Untouched}]

Differ(a, b) == (IF a = None THEN Empty ELSE a) # (IF b = None THEN Empty ELSE b)

(* Mutant: options set once are never stale.                                *)
IsStaleOptsOnce(h) == h.sets = 2 /\ Differ(h.curr, h.before)

(* Set once, and not since: as in the last build.                           *)
IsStaleOpts(h) == ~(h.sets = 1 /\ h.reset) /\ Differ(h.curr, h.before)

(* Mutant: what was removed does not count.                                 *)
IsStaleButRemoved(items) == staleVersion \/ \E i \in items : IsStaleOpts(opts[i])

IsStale(items) == staleVersion \/ items # Live \/ \E i \in items : IsStaleOpts(opts[i])

(* What is in the bundle: scripts, and instances with a script.             *)
PackageOf(items) ==
  [i \in {j \in items : j \in Instances => ScriptOf[j] \in items} |->
     [options |-> opts[i].curr, version |-> IF i \in Scripts THEN version[i] ELSE 0]]

(* The end of a build: the holders can be set again.                        *)
ResetAll(items) ==
  opts' = [i \in Items |-> IF i \in items THEN [opts[i] EXCEPT !.once = FALSE, !.reset = TRUE]
                            ELSE None]

(* batcher.build.  Nothing is looked at before there is a bundle, and       *)
(* nothing removed when a change has made it stale.                         *)
Build ==
  /\ phase = "render" /\ due = {} /\ asked
  /\ LET looks == prevBuild # None /\ ~staleVersion
         now == IF looks THEN RemoveNotSet ELSE [groups |-> groups, items |-> Live]
         stale == prevBuild = None \/ IsStale(now.items)
         fails == now.items \cap broken
     IN  /\ groups' = now.groups /\ ResetAll(now.items)
         /\ IF ~stale THEN UNCHANGED <<prevBuild, imported, retry, lapse>>
            ELSE /\ imported' = imported \cup (now.items \cap Scripts)
                 /\ IF fails = {} THEN /\ prevBuild' = PackageOf(now.items)
                                       /\ UNCHANGED <<retry, lapse>>
                    ELSE /\ lapse' = TRUE /\ \E s \in fails : retry' = {s}
                         /\ UNCHANGED prevBuild
  /\ staleVersion' = FALSE /\ built' = {} /\ touched' = {}
  /\ phase' = "idle" /\ asked' = FALSE
  /\ UNCHANGED <<program, version, broken, batch, due, used, mixed, edits>>

(* No deferred template asks for the bundle.                                *)
Unasked ==
  /\ phase = "render" /\ due = {} /\ ~asked
  /\ ResetAll(Live) /\ lapse' = (lapse \/ built \cup touched # {}) /\ phase' = "idle"
  /\ UNCHANGED <<program, version, broken, batch, retry, due, built, touched, groups, imported,
                 used, staleVersion, prevBuild, asked, mixed, edits>>

JSBatchNext ==
  \/ \E s \in Setters : EditSetter(s) \/ Run(s) \/ RunFails(s)
  \/ \E s \in Scripts : EditScript(s)
  \/ Start \/ Build \/ Unasked

JSBatchSpec == JSBatchInit /\ [][JSBatchNext]_batchVars
-----------------------------------------------------------------------------
BatchAtRest == phase = "idle" /\ batch = {} /\ retry = {}

Wanted == UNION {SetBy(s) : s \in Setters}

BundleHas(i, m) ==
  /\ i \in DOMAIN prevBuild /\ prevBuild[i].options = m
  /\ i \in Scripts => prevBuild[i].version = version[i]

(* The bundle the site is served with has what its pages and layouts set,   *)
(* with the options and the source they have now, although a rebuild runs   *)
(* only some of them.  That takes groups that one setter alone fills,       *)
(* builds that have all ended with a bundle, and options with something in  *)
(* them: a new instance with an empty map does not look stale.              *)
OneSetter ==
  \A s, t \in Setters : s # t =>
    \A p \in Programs[s], q \in Programs[t], i, j \in Items :
      p[i] # None /\ q[j] # None => GroupIn(i) # GroupIn(j)

BundleHasAll ==
  BatchAtRest => \A s \in Setters : \A i \in SetBy(s) :
    program[s][i] # Empty /\ (i \in Instances => ScriptOf[i] \in Wanted) =>
      BundleHas(i, program[s][i])

BundleHasAllUnlessLapsed == OneSetter /\ ~lapse => BundleHasAll

(* It has nothing else.  That takes pages, whose changes touch what they    *)
(* used before, that are rendered, and when no script has made it stale.    *)
OfPages == {i \in Items : \A s \in Setters \ Pages : \A p \in Programs[s] : p[i] = None}

BundleHasNoMore ==
  BatchAtRest /\ prevBuild # None => DOMAIN prevBuild \cap OfPages \subseteq Wanted

BundleHasNoMoreUnlessMixed == OneSetter /\ ~mixed /\ ~lapse => BundleHasNoMore

(* Reusing the last bundle or part of it gives what building it anew would: *)
(* all of what is set, and nothing else.                                    *)
BundleFits == BundleHasAllUnlessLapsed /\ BundleHasNoMoreUnlessMixed
=============================================================================
