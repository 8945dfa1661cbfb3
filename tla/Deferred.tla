------------------------------ MODULE Deferred ------------------------------
(***************************************************************************)
(* Builds of a server session (HugoSites.Build) and the deferred           *)
(* templates.  Sites and output formats are rendered one after the other,  *)
(* the pages of one concurrently.  A block of templates.Defer leaves a     *)
(* placeholder in the page that is written; when everything is rendered    *)
(* the blocks are executed and the written files changed in place.  What   *)
(* is to be executed is kept per rendering context, and the context's      *)
(* list of the build before goes only when the context is rendered again.  *)
(*                                                                         *)
(* One block per page output.  Not modelled: fast render mode and          *)
(* resources.PostProcess; files that change while a build runs are in      *)
(* module DevServer.                                                       *)
(***************************************************************************)
EXTENDS Naturals, FiniteSets, Absent

CONSTANTS Outputs,     \* page outputs
          Stages,      \* rendering contexts, 1..Stages in the order they are rendered
          StageOf,     \* the context of an output
          Blocks,      \* deferred blocks, by template and cache key
          BlockOf,     \* the block an output has
          Where,       \* Where[b]: template, or content or partial: rendered once and kept
          SiteFiles,   \* the site's files
          Reads,       \* the files an output is rendered from
          Text,        \* the files the content or partial with the block is rendered from
          Asset,       \* Asset[b]: the file a block reads when it is executed
          Raw,         \* a placeholder
          MaxChanges   \* bound: edits, and builds that go wrong by themselves

Versions == 0..MaxChanges

(* A file as it is written: the versions it is made from, with None for     *)
(* what could not be rendered, and the version of the asset its block shows.*)
Files == [text : UNION {[Reads[o] -> Versions \cup {None}] : o \in Outputs},
          block : Versions \cup {Raw}]

(* A deferred execution: for whom it was set up, and what came of it.       *)
Executions == [by : Outputs, done : Versions \cup {None}]

ASSUME DeferredAssumption ==
  /\ Stages \in Nat \ {0} /\ StageOf \in [Outputs -> 1..Stages]
  /\ BlockOf \in [Outputs -> Blocks]
  /\ Where \in [Blocks -> {"template", "content", "partial"}]
  /\ Reads \in [Outputs -> SUBSET SiteFiles] /\ Text \in [Blocks -> SUBSET SiteFiles]
  /\ Asset \in [Blocks -> SiteFiles]
  /\ MaxChanges \in Nat /\ Raw \notin Nat /\ None \notin Nat /\ None # Raw
  /\ None \notin Outputs /\ Outputs \cap Blocks = {} /\ IsFiniteSet(SiteFiles)
  /\ None \notin Files /\ None \notin Executions

VARIABLES version,   \* the version of a file
          faulty,    \* files that make what uses them fail
          news,      \* files with an event not handled yet
          again,     \* the file the last build's error names
          step,      \* idle, render, stats, deferred
          stage,     \* the context that is rendered
          unrendered,   \* outputs with renderState 0
          queue,     \* outputs of the stage that are still to be rendered
          errors,    \* files the errors sent in this build are about
          fatal,     \* files fatalErrorHandler has had an error about: done, if any
          kept,      \* blocks whose placeholder is in rendered content or a cached partial
          open,      \* BuildState.DeferredExecutions
          grouped,   \* DeferredExecutionsGroupedByRenderingContext
          todo,      \* what renderDeferred has still to look at
          public,    \* the files written: None, or [text, block]
          heard,     \* dependency managers that hold their block's asset
          result,    \* of the last build: none, ok, failed
          lapsed,    \* a build has ended with a placeholder in a file, some time
          panicked,  \* a placeholder has no execution
          edited

deferredVars == <<version, faulty, news, again, step, stage, unrendered, queue, errors,
                  fatal, kept, open, grouped, todo, public, heard, result, lapsed,
                  panicked, edited>>

sourceVars == <<version, faulty, news, edited>>

ContextLists == [files : SUBSET Outputs, runs : [Blocks -> Executions \cup {None}]]

DeferredTypeOK ==
  /\ version \in [SiteFiles -> Versions] /\ edited \in 0..MaxChanges
  /\ faulty \subseteq SiteFiles /\ news \subseteq SiteFiles /\ again \subseteq SiteFiles
  /\ step \in {"idle", "render", "stats", "deferred"} /\ stage \in 1..Stages
  /\ unrendered \subseteq Outputs /\ queue \subseteq Outputs
  /\ errors \subseteq SiteFiles /\ fatal \subseteq SiteFiles
  /\ kept \subseteq Blocks /\ heard \subseteq Outputs \cup Blocks
  /\ open \in ContextLists /\ grouped \in [1..Stages -> ContextLists]
  /\ todo \subseteq 1..Stages
  /\ public \in [Outputs -> Files \cup {None}]
  /\ result \in {"none", "ok", "failed"}
  /\ lapsed \in BOOLEAN /\ panicked \in BOOLEAN

NoRuns == [files |-> {}, runs |-> [b \in Blocks |-> None]]

DeferredInit ==
  /\ version = [s \in SiteFiles |-> 0] /\ faulty = {} /\ news = {} /\ again = {} /\ edited = 0
  /\ step = "render" /\ stage = 1 /\ unrendered = Outputs
  /\ queue = {o \in Outputs : StageOf[o] = 1}
  /\ errors = {} /\ fatal = {} /\ kept = {} /\ open = NoRuns
  /\ grouped = [n \in 1..Stages |-> NoRuns] /\ todo = {}
  /\ public = [o \in Outputs |-> None] /\ heard = {}
  /\ result = "none" /\ lapsed = FALSE /\ panicked = FALSE

EditSource(s) ==
  /\ step = "idle" /\ edited < MaxChanges
  /\ edited' = edited + 1
  /\ version' = [version EXCEPT ![s] = @ + 1]
  /\ faulty' \in {faulty \ {s}, faulty \cup {s}}
  /\ news' = news \cup {s}
  /\ UNCHANGED <<again, step, stage, unrendered, queue, errors, fatal, kept, open, grouped,
                 todo, public, heard, result, lapsed, panicked>>

Holder(o) == IF Where[BlockOf[o]] = "template" THEN o ELSE BlockOf[o]

(* resolveAndResetDependententPageOutputs, and the content caches of what   *)
(* it resets.  A block's asset is known to the output, content or partial   *)
(* it was executed for, and a page that is read again forgets it.           *)
DependsOn(o) ==
  Reads[o] \cup Text[BlockOf[o]]
  \cup (IF Holder(o) \in heard THEN {Asset[BlockOf[o]]} ELSE {})

Resets(b, changed) ==
  \/ Text[b] \cap changed # {}
  \/ b \in heard /\ Asset[b] \in changed

BuildStarts ==
  /\ step = "idle" /\ ~panicked /\ news \cup again # {}
  /\ LET changed == news \cup again
         reset == {o \in Outputs : DependsOn(o) \cap changed # {}}
     IN  /\ unrendered' = unrendered \cup reset
         /\ kept' = {b \in kept : Where[b] = "content" /\ ~Resets(b, changed)}
         /\ heard' \in {heard, heard \ reset}
         /\ queue' = {o \in unrendered' : StageOf[o] = 1}
  /\ news' = {} /\ again' = {}
  /\ step' = "render" /\ stage' = 1 /\ errors' = {} /\ fatal' = {}
  /\ UNCHANGED <<version, faulty, open, grouped, todo, public, result, lapsed, panicked,
                 edited>>

-----------------------------------------------------------------------------
(* One rendering context.                                                   *)

(* DoDefer: the first to come with a key in this context is kept.           *)
DoDefer(o) ==
  LET b == BlockOf[o]
  IN  IF b \in kept \/ open.runs[b] # None THEN open
      ELSE [open EXCEPT !.runs[b] = [by |-> o, done |-> None]]

Kept(b) == IF Where[b] = "template" THEN kept ELSE kept \cup {b}

Written(o) == [text |-> [s \in Reads[o] |-> version[s]], block |-> Raw]

(* The publishing file system looks for placeholders in what is written.    *)
RenderOutput(o) ==
  /\ o \in queue /\ (Reads[o] \cup Text[BlockOf[o]]) \cap faulty = {}
  /\ open' = [DoDefer(o) EXCEPT !.files = @ \cup {o}]
  /\ kept' = Kept(BlockOf[o])
  /\ public' = [public EXCEPT ![o] = Written(o)]
  /\ queue' = queue \ {o} /\ unrendered' = unrendered \ {o}
  /\ UNCHANGED <<sourceVars, again, step, stage, errors, fatal, grouped, todo, heard, result,
                 lapsed, panicked>>

(* renderAndWritePage counts a page as rendered before it fails.            *)
RenderOutputFails(o) ==
  /\ o \in queue
  /\ \E s \in (Reads[o] \cup Text[BlockOf[o]]) \cap faulty : errors' = errors \cup {s}
  /\ queue' = queue \ {o} /\ unrendered' = unrendered \ {o}
  /\ UNCHANGED <<sourceVars, again, step, stage, fatal, kept, open, grouped, todo, public,
                 heard, result, lapsed, panicked>>

(* FatalError: the content of the page fails where no error can be given    *)
(* back, so the page is written without it.  The walk hands out no more     *)
(* pages, in this context and in those that follow; some are in the         *)
(* workers' channel already.                                                *)
FatalError(o) ==
  /\ o \in queue /\ edited < MaxChanges
  /\ edited' = edited + 1
  /\ \E s \in Reads[o] : fatal' = fatal \cup {s}
  /\ open' = [DoDefer(o) EXCEPT !.files = @ \cup {o}]
  /\ kept' = Kept(BlockOf[o])
  /\ public' = [public EXCEPT ![o] = [text |-> [s \in Reads[o] |-> None], block |-> Raw]]
  /\ unrendered' = unrendered \ {o}
  /\ queue' \in SUBSET (queue \ {o})
  /\ UNCHANGED <<version, faulty, news, again, step, stage, errors, grouped, todo, heard,
                 result, lapsed, panicked>>

(* Mutant: a context keeps the first list it got.                           *)
StopStageRenderOnce ==
  /\ step = "render" /\ queue = {}
  /\ grouped' = IF grouped[stage] = NoRuns THEN [grouped EXCEPT ![stage] = open] ELSE grouped
  /\ open' = NoRuns
  /\ IF errors # {} \/ stage = Stages
     THEN step' = "stats" /\ UNCHANGED <<stage, queue>>
     ELSE /\ stage' = stage + 1
          /\ queue' = IF fatal # {} THEN {} ELSE {o \in unrendered : StageOf[o] = stage + 1}
          /\ UNCHANGED step
  /\ UNCHANGED <<sourceVars, again, unrendered, errors, fatal, kept, todo, public, heard,
                 result, lapsed, panicked>>

(* StopStageRender, also for the contexts a fatal error skips; a page that  *)
(* failed ends the rendering, with a fatal error or without, and leaves the *)
(* contexts that would have followed the lists they had.                    *)
StopStageRender ==
  /\ step = "render" /\ queue = {}
  /\ grouped' = [grouped EXCEPT ![stage] = open] /\ open' = NoRuns
  /\ IF errors # {} \/ stage = Stages
     THEN step' = "stats" /\ UNCHANGED <<stage, queue>>
     ELSE /\ stage' = stage + 1
          /\ queue' = IF fatal # {} THEN {} ELSE {o \in unrendered : StageOf[o] = stage + 1}
          /\ UNCHANGED step
  /\ UNCHANGED <<sourceVars, again, unrendered, errors, fatal, kept, todo, public, heard,
                 result, lapsed, panicked>>

-----------------------------------------------------------------------------
HasPlaceholder(o) == public[o] # None /\ public[o].block = Raw

(* The end of Build: of the errors sent one is returned, and a fatal one    *)
(* when none was sent.  A build that fails may leave placeholders in files  *)
(* that no list will name any more.                                         *)
BuildReturns(sent) ==
  LET found == sent \cup fatal
  IN  /\ step' = "idle"
      /\ result' = IF found = {} THEN "ok" ELSE "failed"
      /\ IF found = {} THEN again' = {}
         ELSE \E s \in IF sent # {} THEN sent ELSE fatal : again' = {s}
      /\ lapsed' = (lapsed \/ Cardinality(found) > 1
                           \/ (found # {} /\ \E o \in Outputs : HasPlaceholder(o)))

(* writeBuildStats; its error returns at once, and names no file of a page. *)
WriteBuildStats ==
  /\ step = "stats"
  /\ \/ /\ step' = "deferred" /\ todo' = 1..Stages
        /\ UNCHANGED <<edited, result, again, lapsed>>
     \/ /\ edited < MaxChanges /\ edited' = edited + 1
        /\ step' = "idle" /\ result' = "failed" /\ again' = {} /\ lapsed' = TRUE
        /\ UNCHANGED todo
  /\ UNCHANGED <<version, faulty, news, stage, unrendered, queue, errors, fatal, kept, open,
                 grouped, public, heard, panicked>>

Comes(n, o) ==
  /\ step = "deferred" /\ ~panicked /\ n \in todo
  /\ o \in grouped[n].files /\ HasPlaceholder(o)

(* executeDeferredTemplates, one file of a context: its block is executed   *)
(* unless another file with it has done so.  "deferred execution with id %q *)
(* not found" is a panic.                                                   *)
ExecuteDeferred(n, o) ==
  LET b == BlockOf[o]
      run == grouped[n].runs[b]
      value == IF run.done = None THEN version[Asset[b]] ELSE run.done
  IN  /\ Comes(n, o)
      /\ IF run = None THEN panicked' = TRUE /\ UNCHANGED <<grouped, public, heard>>
         ELSE /\ run.done # None \/ Asset[b] \notin faulty
              /\ grouped' = [grouped EXCEPT ![n].runs[b].done = value]
              /\ public' = [public EXCEPT ![o].block = value]
              /\ heard' = heard \cup {Holder(run.by)}
              /\ UNCHANGED panicked
      /\ UNCHANGED <<sourceVars, again, step, stage, unrendered, queue, errors, fatal, kept,
                     open, todo, result, lapsed>>

(* The block fails, and with it what is left of this context and of the     *)
(* others.  The error is about the file or about the template.              *)
ExecuteDeferredFails(n, o) ==
  LET b == BlockOf[o]
      run == grouped[n].runs[b]
  IN  /\ Comes(n, o)
      /\ run # None /\ run.done = None /\ Asset[b] \in faulty
      /\ heard' = heard \cup {Holder(run.by)}
      /\ \E s \in {Asset[b]} \cup Reads[o] : BuildReturns(errors \cup {s})
      /\ todo' = {}
      /\ UNCHANGED <<sourceVars, stage, unrendered, queue, errors, fatal, kept, open, grouped,
                     public, panicked>>

(* renderDeferred is through with a context.                                *)
ContextExecuted(n) ==
  /\ step = "deferred" /\ ~panicked /\ n \in todo
  /\ \A o \in grouped[n].files : ~HasPlaceholder(o)
  /\ todo' = todo \ {n}
  /\ UNCHANGED <<sourceVars, again, step, stage, unrendered, queue, errors, fatal, kept, open,
                 grouped, public, heard, result, lapsed, panicked>>

BuildEnds ==
  /\ step = "deferred" /\ ~panicked /\ todo = {}
  /\ BuildReturns(errors)
  /\ UNCHANGED <<sourceVars, stage, unrendered, queue, errors, fatal, kept, open, grouped, todo,
                 public, heard, panicked>>

DeferredNext ==
  \/ \E s \in SiteFiles : EditSource(s)
  \/ BuildStarts \/ StopStageRender \/ WriteBuildStats \/ BuildEnds
  \/ \E o \in Outputs : RenderOutput(o) \/ RenderOutputFails(o) \/ FatalError(o)
  \/ \E n \in 1..Stages :
       \/ ContextExecuted(n)
       \/ \E o \in Outputs : ExecuteDeferred(n, o) \/ ExecuteDeferredFails(n, o)

DeferredSpec == DeferredInit /\ [][DeferredNext]_deferredVars
-----------------------------------------------------------------------------
(* executeDeferredTemplates asserts that every placeholder it comes across  *)
(* has an execution in the list of the file's context.                      *)
ExecutionFound == ~panicked

(* When a build returns no error, every output has been rendered from the   *)
(* files as they are, and its block is executed and shows what its asset is *)
(* now.  An earlier build may have been stopped by a page; one that failed  *)
(* and left placeholders in files, or had two errors, leaves files that no  *)
(* list or error names.  With a shared key the asset is known to the first  *)
(* output only.                                                             *)
Alone(o) == \A q \in Outputs \ {o} : BlockOf[q] # BlockOf[o]

PublishedFromNow ==
  step = "idle" /\ result = "ok" /\ news = {} /\ ~lapsed =>
    \A o \in Outputs :
      /\ public[o] # None /\ ~HasPlaceholder(o)
      /\ public[o].text = Written(o).text
      /\ Alone(o) => public[o].block = version[Asset[BlockOf[o]]]

(* Rendered content or a partial that is kept is that of one output, which  *)
(* is rendered again only when the content is.                              *)
KeptForOne ==
  \A o \in Outputs :
    Where[BlockOf[o]] # "template" => Alone(o) /\ Reads[o] \subseteq Text[BlockOf[o]]

BlocksPublished == PublishedFromNow /\ (KeptForOne => ExecutionFound)
=============================================================================
