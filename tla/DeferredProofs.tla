--------------------------- MODULE DeferredProofs ---------------------------
(* Theorems about Deferred, for any outputs, contexts, blocks and files, and *)
(* any number of edits.                                                      *)
EXTENDS Deferred, FiniteSetTheorems, TLAPS

\* A version counts the edits of a file.
VersionsInv == \A s \in SiteFiles : version[s] <= edited

\* The files the errors of this build are about.
Blamed == errors \cup fatal

\* Edits come between builds; a build goes through the contexts in their order,
\* and one without an error renders all that is to be rendered.
OrderInv ==
  /\ step # "idle" => news = {} /\ again = {}
  /\ step = "idle" /\ result = "ok" => again = {} /\ unrendered = {}
  /\ queue \subseteq unrendered
  /\ \A o \in queue : StageOf[o] = stage
  /\ step # "render" => queue = {}
  /\ step = "render" /\ Blamed = {} =>
       \A o \in unrendered : o \in queue \/ StageOf[o] > stage
  /\ step \in {"stats", "deferred"} /\ Blamed = {} => unrendered = {}

\* An execution is for an output with its block.
ForBlock(list) ==
  \A b \in Blocks : list.runs[b] # None => BlockOf[list.runs[b].by] = b

\* An output is in the list of its context; the list of the context that is
\* rendered has executed nothing.
ListsInv ==
  /\ ForBlock(open)
  /\ \A b \in Blocks : open.runs[b] # None => open.runs[b].done = None
  /\ \A o \in open.files : step = "render" /\ StageOf[o] = stage
  /\ \A n \in 1..Stages : ForBlock(grouped[n]) /\ \A o \in grouped[n].files : StageOf[o] = n

\* A file with a placeholder was written in this build, and a list that is still
\* to be gone through names it; its execution has not been done for another file.
Listed(o) ==
  IF step = "render" /\ StageOf[o] = stage THEN o \in open.files
  ELSE /\ o \in grouped[StageOf[o]].files
       /\ Alone(o) => \/ grouped[StageOf[o]].runs[BlockOf[o]] = None
                      \/ grouped[StageOf[o]].runs[BlockOf[o]].done = None
       /\ step = "render" => StageOf[o] < stage
       /\ step = "deferred" => StageOf[o] \in todo

PlaceholdersInv ==
  ~lapsed => \A o \in Outputs : HasPlaceholder(o) => step # "idle" /\ Listed(o)

\* The files that make the next build render again what depends on them.
Pending == IF step = "idle" THEN news \cup again ELSE Blamed

\* What is in the file of an output that is not to be rendered again: what it is
\* rendered from, and an executed block is known to depend on its asset.
Current(o) ==
  /\ public[o] # None /\ public[o].text = [s \in Reads[o] |-> version[s]]
  /\ \/ HasPlaceholder(o)
     \/ Alone(o) => /\ Holder(o) \in heard
                    /\ \/ public[o].block = version[Asset[BlockOf[o]]]
                       \/ Asset[BlockOf[o]] \in Pending

CurrentInv ==
  ~lapsed => \A o \in Outputs \ unrendered :
    (Reads[o] \cup Text[BlockOf[o]]) \cap Pending # {} \/ Current(o)

\* What is kept belongs to one output, which is not to be rendered, so every
\* output that is rendered finds or adds an execution.
ExecutionsInv ==
  KeptForOne =>
    /\ ~panicked
    /\ \A o \in Outputs : Where[BlockOf[o]] # "template" /\ BlockOf[o] \in kept
                          => o \notin unrendered
    /\ \A o \in open.files : open.runs[BlockOf[o]] # None
    /\ \A n \in 1..Stages : \A o \in grouped[n].files : grouped[n].runs[BlockOf[o]] # None
    /\ \A b \in kept : Where[b] # "template"

DeferredInv ==
  /\ DeferredTypeOK /\ VersionsInv /\ OrderInv /\ ListsInv
  /\ PlaceholdersInv /\ CurrentInv /\ ExecutionsInv

\* The names apart.
LEMMA Apart ==
  /\ \A x \in Versions : x # Raw /\ x # None
  /\ None # Raw /\ \A f \in Files : f # None
  /\ \A e \in Executions : e # None
  /\ \A o \in Outputs : o # None /\ o \notin Blocks
  /\ Stages \in Nat /\ 1 \in 1..Stages
BY DeferredAssumption DEF Versions

\* The types of the tables.
LEMMA DeferredTables ==
  ASSUME NEW o \in Outputs
  PROVE  /\ BlockOf[o] \in Blocks /\ StageOf[o] \in 1..Stages
         /\ Reads[o] \subseteq SiteFiles /\ Text[BlockOf[o]] \subseteq SiteFiles
         /\ Asset[BlockOf[o]] \in SiteFiles
         /\ Where[BlockOf[o]] \in {"template", "content", "partial"}
BY DeferredAssumption

LEMMA InitStep == DeferredInit => DeferredInv
<1> SUFFICES ASSUME DeferredInit PROVE DeferredInv
  OBVIOUS
<1> USE DEF DeferredInit
<1>1. NoRuns \in ContextLists /\ NoRuns.files = {} /\ \A b \in Blocks : NoRuns.runs[b] = None
  BY DEF NoRuns, ContextLists
<1>2. DeferredTypeOK
  <2>1. open \in ContextLists /\ grouped \in [1..Stages -> ContextLists]
    BY <1>1
  <2>2. public \in [Outputs -> Files \cup {None}] /\ version \in [SiteFiles -> Versions]
    BY DeferredAssumption DEF Versions
  <2>3. 0 \in 0..MaxChanges
    BY DeferredAssumption
  <2> QED BY <2>1, <2>2, <2>3, Apart DEF DeferredTypeOK
<1>3. VersionsInv /\ OrderInv
  BY DeferredAssumption DEF VersionsInv, OrderInv, Blamed
<1>4. ListsInv
  BY <1>1 DEF ListsInv, ForBlock
<1>5. PlaceholdersInv /\ CurrentInv
  BY DEF PlaceholdersInv, CurrentInv, HasPlaceholder
<1>6. ExecutionsInv
  BY <1>1 DEF ExecutionsInv
<1> QED BY <1>2, <1>3, <1>4, <1>5, <1>6 DEF DeferredInv

\* A file is edited between two builds: what is rendered from it waits for its
\* event.
LEMMA EditStep == ASSUME DeferredInv, NEW s \in SiteFiles, EditSource(s) PROVE DeferredInv'
<1> USE DEF DeferredInv
<1>1. /\ step = "idle" /\ step' = "idle" /\ edited < MaxChanges /\ edited' = edited + 1
      /\ version' = [version EXCEPT ![s] = @ + 1]
      /\ (faulty' = faulty \ {s} \/ faulty' = faulty \cup {s})
      /\ news' = news \cup {s}
      /\ UNCHANGED <<again, stage, unrendered, queue, errors, fatal, kept, open, grouped,
                     todo, public, heard, result, lapsed, panicked>>
  BY DEF EditSource
<1>2. version \in [SiteFiles -> Versions] /\ edited \in 0..MaxChanges /\ MaxChanges \in Nat
  BY DeferredAssumption DEF DeferredTypeOK
<1>3. /\ version'[s] = version[s] + 1 /\ \A x \in SiteFiles : x # s => version'[x] = version[x]
      /\ version[s] \in Versions /\ version[s] <= edited
  BY <1>1, <1>2 DEF VersionsInv
<1>4. version'[s] \in Versions /\ edited' \in 0..MaxChanges
  BY <1>1, <1>2, <1>3 DEF Versions
<1>5. DeferredTypeOK'
  BY <1>1, <1>2, <1>4 DEF DeferredTypeOK
<1>6. VersionsInv'
  BY <1>1, <1>2, <1>3 DEF VersionsInv, Versions
<1>7. OrderInv'
  BY <1>1 DEF OrderInv
<1>8. ListsInv'
  BY <1>1 DEF ListsInv, ForBlock
<1>9. PlaceholdersInv'
  BY <1>1 DEF PlaceholdersInv, HasPlaceholder
<1>10. CurrentInv'
  <2> SUFFICES ASSUME ~lapsed, NEW o \in Outputs \ unrendered,
                      (Reads[o] \cup Text[BlockOf[o]]) \cap Pending' = {}
               PROVE  Current(o)'
    BY <1>1 DEF CurrentInv
  <2>1. Pending' = Pending \cup {s}
    BY <1>1 DEF Pending
  <2>2. Current(o)
    BY <2>1 DEF CurrentInv
  <2>3. s \notin Reads[o]
    BY <2>1
  <2>4. [x \in Reads[o] |-> version'[x]] = [x \in Reads[o] |-> version[x]]
    BY <1>3, <2>3, DeferredTables
  <2>5. ~HasPlaceholder(o) /\ ~HasPlaceholder(o)'
    BY <1>1 DEF PlaceholdersInv, HasPlaceholder
  <2>6. version'[Asset[BlockOf[o]]] = version[Asset[BlockOf[o]]] \/ Asset[BlockOf[o]] \in Pending'
    BY <1>3, <2>1, DeferredTables
  <2>7. Alone(o) => /\ Holder(o) \in heard'
                    /\ \/ public'[o].block = version'[Asset[BlockOf[o]]]
                       \/ Asset[BlockOf[o]] \in Pending'
    BY <1>1, <2>1, <2>2, <2>5, <2>6 DEF Current
  <2> QED BY <1>1, <2>2, <2>4, <2>7 DEF Current, Holder, Alone
<1>11. ExecutionsInv'
  BY <1>1 DEF ExecutionsInv
<1> QED BY <1>5, <1>6, <1>7, <1>8, <1>9, <1>10, <1>11

\* A build begins: what depends on a changed file is to be rendered again.
LEMMA BuildStartsStep == ASSUME DeferredInv, BuildStarts PROVE DeferredInv'
<1> USE DEF DeferredInv
<1> DEFINE changed == news \cup again
           reset == {o \in Outputs : DependsOn(o) \cap changed # {}}
<1>1. /\ step = "idle" /\ step' = "render" /\ stage' = 1 /\ errors' = {} /\ fatal' = {}
      /\ news' = {} /\ again' = {} /\ unrendered' = unrendered \cup reset
      /\ kept' = {b \in kept : Where[b] = "content" /\ ~Resets(b, changed)}
      /\ (heard' = heard \/ heard' = heard \ reset)
      /\ queue' = {o \in unrendered' : StageOf[o] = 1}
      /\ UNCHANGED <<version, faulty, open, grouped, todo, public, result, lapsed, panicked, edited>>
  BY DEF BuildStarts
<1>2. DeferredTypeOK'
  BY <1>1, Apart DEF DeferredTypeOK
<1>3. VersionsInv'
  BY <1>1 DEF VersionsInv
<1>4. OrderInv'
  <2>1. \A o \in unrendered' : o \in queue' \/ StageOf[o] > 1
    <3>1. unrendered' \subseteq Outputs
      BY <1>2 DEF DeferredTypeOK
    <3> QED BY <1>1, <3>1, DeferredTables, Apart
  <2> QED BY <1>1, <2>1 DEF OrderInv
<1>5. ListsInv'
  <2>1. open.files = {}
    BY <1>1 DEF ListsInv
  <2> QED BY <1>1, <2>1 DEF ListsInv, ForBlock
<1>6. ~lapsed => \A o \in Outputs : ~HasPlaceholder(o) /\ ~HasPlaceholder(o)'
  BY <1>1 DEF PlaceholdersInv, HasPlaceholder
<1>7. PlaceholdersInv'
  BY <1>1, <1>6 DEF PlaceholdersInv
<1>8. CurrentInv'
  <2> SUFFICES ASSUME ~lapsed, NEW o \in Outputs \ unrendered' PROVE Current(o)'
    BY <1>1 DEF CurrentInv
  <2>1. o \notin unrendered /\ o \notin reset /\ DependsOn(o) \cap changed = {}
    BY <1>1
  <2>2. Pending = changed
    BY <1>1 DEF Pending
  <2>3. Current(o)
    BY <2>1, <2>2 DEF CurrentInv, DependsOn
  <2>4. Alone(o) => Holder(o) \in heard' /\ public[o].block = version[Asset[BlockOf[o]]]
    <3> SUFFICES ASSUME Alone(o) PROVE Holder(o) \in heard' /\ public[o].block = version[Asset[BlockOf[o]]]
      OBVIOUS
    <3>1. Holder(o) \in heard /\ (public[o].block = version[Asset[BlockOf[o]]] \/ Asset[BlockOf[o]] \in changed)
      BY <1>6, <2>2, <2>3 DEF Current
    <3>2. Asset[BlockOf[o]] \notin changed
      BY <2>1, <3>1 DEF DependsOn
    <3>3. Holder(o) \notin reset
      BY <2>1, DeferredTables, Apart DEF Holder
    <3> QED BY <1>1, <3>1, <3>2, <3>3
  <2> QED BY <1>1, <2>3, <2>4 DEF Current, Holder, Alone
<1>9. ExecutionsInv'
  <2> SUFFICES ASSUME KeptForOne PROVE ExecutionsInv'
    BY DEF ExecutionsInv
  <2>1. ASSUME NEW o \in Outputs, Where[BlockOf[o]] # "template", BlockOf[o] \in kept'
        PROVE  o \notin unrendered'
    <3>1. BlockOf[o] \in kept /\ ~Resets(BlockOf[o], changed)
      BY <1>1, <2>1
    <3>2. Reads[o] \subseteq Text[BlockOf[o]] /\ Holder(o) = BlockOf[o]
      BY <2>1 DEF KeptForOne, Holder
    <3>3. DependsOn(o) \cap changed = {}
      BY <3>1, <3>2 DEF DependsOn, Resets
    <3> QED BY <1>1, <2>1, <3>1, <3>3 DEF ExecutionsInv
  <2> QED BY <1>1, <2>1 DEF ExecutionsInv
<1> QED BY <1>2, <1>3, <1>4, <1>5, <1>7, <1>8, <1>9

\* The list of the context with one more output.
LEMMA ListGrows ==
  ASSUME DeferredInv, NEW o \in Outputs
  PROVE  LET new == [DoDefer(o) EXCEPT !.files = @ \cup {o}]
             B == BlockOf[o]
         IN  /\ new \in ContextLists /\ new.files = open.files \cup {o}
             /\ \A b \in Blocks : b # B => new.runs[b] = open.runs[b]
             /\ IF B \in kept \/ open.runs[B] # None THEN new.runs[B] = open.runs[B]
                ELSE new.runs[B] = [by |-> o, done |-> None] /\ new.runs[B] # None
<1> DEFINE B == BlockOf[o]
           new == [DoDefer(o) EXCEPT !.files = @ \cup {o}]
<1>1. open \in ContextLists /\ B \in Blocks
  BY DeferredTables DEF DeferredInv, DeferredTypeOK
<1>2. [by |-> o, done |-> None] \in Executions /\ [by |-> o, done |-> None] # None
  BY Apart DEF Executions
<1>3. CASE B \in kept \/ open.runs[B] # None
  <2>1. DoDefer(o) = open
    BY <1>3 DEF DoDefer
  <2> QED BY <1>1, <1>3, <2>1 DEF ContextLists
<1>4. CASE ~(B \in kept \/ open.runs[B] # None)
  <2> DEFINE e == [by |-> o, done |-> None]
             runs == [open.runs EXCEPT ![B] = e]
  <2>1. DoDefer(o) = [open EXCEPT !.runs = runs]
    BY <1>1, <1>4 DEF DoDefer, ContextLists
  <2>2. e \in Executions /\ e # None
    BY <1>2
  <2> HIDE DEF e
  <2>3. runs \in [Blocks -> Executions \cup {None}] /\ runs[B] = e
        /\ \A b \in Blocks : b # B => runs[b] = open.runs[b]
    BY <1>1, <2>2 DEF ContextLists
  <2> HIDE DEF runs
  <2>4. new = [files |-> open.files \cup {o}, runs |-> runs]
    <3>1. DoDefer(o) = [files |-> open.files, runs |-> runs]
      BY <1>1, <2>1 DEF ContextLists
    <3> QED BY <3>1
  <2> HIDE DEF new
  <2>5. new \in ContextLists /\ new.files = open.files \cup {o} /\ new.runs = runs
    BY <1>1, <2>3, <2>4 DEF ContextLists
  <2> QED BY <1>4, <2>2, <2>3, <2>5 DEF e, new
<1> QED BY <1>3, <1>4

\* A page is written with a placeholder, from the files as they are or with an
\* error about one of them.
LEMMA PageWritten ==
  ASSUME DeferredInv, NEW o \in queue, o \in Outputs, NEW f \in Files, f.block = Raw,
         open' = [DoDefer(o) EXCEPT !.files = @ \cup {o}],
         kept' = Kept(BlockOf[o]), public' = [public EXCEPT ![o] = f],
         unrendered' = unrendered \ {o}, queue' \subseteq queue \ {o},
         UNCHANGED <<version, news, again, step, stage, grouped, todo, heard, lapsed, panicked>>,
         Blamed \subseteq Blamed',
         f.text = [s \in Reads[o] |-> version[s]] \/ Reads[o] \cap Blamed' # {}
  PROVE  ListsInv' /\ PlaceholdersInv' /\ CurrentInv' /\ ExecutionsInv'
<1> USE DEF DeferredInv
<1> DEFINE B == BlockOf[o]
<1>1. /\ step = "render" /\ StageOf[o] = stage /\ o \in unrendered /\ B \in Blocks
      /\ public \in [Outputs -> Files \cup {None}]
  BY DeferredTables DEF OrderInv, DeferredTypeOK
<1>2. /\ open'.files = open.files \cup {o}
      /\ \A b \in Blocks : b # B => open'.runs[b] = open.runs[b]
      /\ IF B \in kept \/ open.runs[B] # None THEN open'.runs[B] = open.runs[B]
         ELSE open'.runs[B] = [by |-> o, done |-> None] /\ open'.runs[B] # None
  BY ListGrows
<1>3. public'[o] = f /\ \A p \in Outputs : p # o => public'[p] = public[p]
  BY <1>1
<1>4. ListsInv'
  <2>1. ForBlock(open')
    BY <1>1, <1>2 DEF ListsInv, ForBlock
  <2>2. \A b \in Blocks : open'.runs[b] # None => open'.runs[b].done = None
    BY <1>1, <1>2 DEF ListsInv
  <2>3. \A p \in open'.files : step' = "render" /\ StageOf[p] = stage'
    BY <1>1, <1>2 DEF ListsInv
  <2>4. \A n \in 1..Stages : ForBlock(grouped'[n]) /\ \A p \in grouped'[n].files : StageOf[p] = n
    BY DEF ListsInv
  <2> QED BY <2>1, <2>2, <2>3, <2>4 DEF ListsInv, ForBlock
<1>5. PlaceholdersInv'
  <2> SUFFICES ASSUME ~lapsed, NEW p \in Outputs, HasPlaceholder(p)' PROVE Listed(p)'
    BY <1>1 DEF PlaceholdersInv
  <2>1. CASE p = o
    BY <1>1, <1>2, <2>1 DEF Listed
  <2>2. CASE p # o
    <3>1. HasPlaceholder(p)
      BY <1>3, <2>2 DEF HasPlaceholder
    <3>2. Listed(p)
      BY <3>1 DEF PlaceholdersInv
    <3> QED BY <1>2, <3>2 DEF Listed, Alone
  <2> QED BY <2>1, <2>2
<1>6. Pending = Blamed /\ Pending' = Blamed'
  BY <1>1 DEF Pending
<1>7. CurrentInv'
  <2> SUFFICES ASSUME ~lapsed, NEW p \in Outputs \ unrendered',
                      (Reads[p] \cup Text[BlockOf[p]]) \cap Blamed' = {}
               PROVE  Current(p)'
    BY <1>6 DEF CurrentInv
  <2>1. CASE p = o
    <3>1. HasPlaceholder(o)'
      BY <1>3, Apart DEF HasPlaceholder
    <3>2. f.text = [s \in Reads[o] |-> version[s]]
      BY <2>1
    <3>3. public'[o] # None /\ public'[o].text = [s \in Reads[o] |-> version'[s]]
      BY <1>3, <3>2, Apart
    <3> QED BY <2>1, <3>1, <3>3 DEF Current
  <2>2. CASE p # o
    <3>1. Current(p)
      BY <1>6, <2>2 DEF CurrentInv
    <3>2. HasPlaceholder(p)' <=> HasPlaceholder(p)
      BY <1>3, <2>2 DEF HasPlaceholder
    <3> QED BY <1>3, <1>6, <2>2, <3>1, <3>2 DEF Current, Alone, Holder
  <2> QED BY <2>1, <2>2
<1>8. ExecutionsInv'
  <2> SUFFICES ASSUME KeptForOne PROVE ExecutionsInv'
    BY DEF ExecutionsInv
  <2>1. B \notin kept
    BY <1>1 DEF ExecutionsInv
  <2>2. \A p \in open'.files : open'.runs[BlockOf[p]] # None
    <3> SUFFICES ASSUME NEW p \in open.files \cup {o} PROVE open'.runs[BlockOf[p]] # None
      BY <1>2
    <3>1. p \in Outputs
      BY DEF DeferredTypeOK, ContextLists
    <3>2. open'.runs[B] # None
      BY <1>2, <2>1
    <3> QED BY <1>2, <3>1, <3>2, DeferredTables DEF ExecutionsInv
  <2>3. ASSUME NEW p \in Outputs, Where[BlockOf[p]] # "template", BlockOf[p] \in kept'
        PROVE  p \notin unrendered'
    <3>1. CASE p = o
      BY <3>1
    <3>2. CASE p # o
      <4>1. BlockOf[p] # B
        BY <2>3, <3>2 DEF KeptForOne, Alone
      <4> QED BY <2>3, <4>1 DEF ExecutionsInv, Kept
    <3> QED BY <3>1, <3>2
  <2>4. \A b \in kept' : Where[b] # "template"
    BY DEF ExecutionsInv, Kept
  <2> QED BY <2>2, <2>3, <2>4 DEF ExecutionsInv
<1> QED BY <1>4, <1>5, <1>7, <1>8

\* What the three ways to render a page have to do with types.
LEMMA QueueTypes ==
  ASSUME DeferredInv, NEW o \in queue
  PROVE  /\ o \in Outputs /\ o \in unrendered /\ step = "render" /\ stage \in 1..Stages
         /\ Kept(BlockOf[o]) \subseteq Blocks
         /\ \A s \in Reads[o] \cup Text[BlockOf[o]] : /\ errors \cup {s} \subseteq SiteFiles
                                                   /\ fatal \cup {s} \subseteq SiteFiles
BY DeferredTables DEF DeferredInv, DeferredTypeOK, OrderInv, Kept

LEMMA RenderStep == ASSUME DeferredInv, NEW o \in Outputs, RenderOutput(o) PROVE DeferredInv'
<1>1. /\ o \in queue /\ open' = [DoDefer(o) EXCEPT !.files = @ \cup {o}]
      /\ kept' = Kept(BlockOf[o]) /\ public' = [public EXCEPT ![o] = Written(o)]
      /\ queue' = queue \ {o} /\ unrendered' = unrendered \ {o}
      /\ UNCHANGED <<version, faulty, news, edited, again, step, stage, errors, fatal, grouped,
                     todo, heard, result, lapsed, panicked>>
  BY DEF RenderOutput, sourceVars
<1>2. Written(o) \in Files /\ Written(o).block = Raw /\ Written(o).text = [s \in Reads[o] |-> version[s]]
  <2>1. [s \in Reads[o] |-> version[s]] \in [Reads[o] -> Versions \cup {None}]
    BY DeferredTables DEF DeferredInv, DeferredTypeOK
  <2> DEFINE t == [s \in Reads[o] |-> version[s]]
  <2>2. Written(o) = [text |-> t, block |-> Raw]
    BY DEF Written
  <2>3. t \in UNION {[Reads[p] -> Versions \cup {None}] : p \in Outputs}
    BY <2>1
  <2> HIDE DEF t
  <2> QED BY <2>2, <2>3 DEF t, Files
<1>3. DeferredTypeOK'
  <2>1. open' \in ContextLists
    BY <1>1, ListGrows
  <2>2. public' \in [Outputs -> Files \cup {None}]
    BY <1>1, <1>2 DEF DeferredInv, DeferredTypeOK
  <2> QED BY <1>1, <2>1, <2>2, QueueTypes DEF DeferredInv, DeferredTypeOK
<1>4. VersionsInv' /\ OrderInv'
  BY <1>1, QueueTypes DEF DeferredInv, VersionsInv, OrderInv, Blamed
<1>5. ListsInv' /\ PlaceholdersInv' /\ CurrentInv' /\ ExecutionsInv'
  BY <1>1, <1>2, PageWritten DEF Blamed
<1> QED BY <1>3, <1>4, <1>5 DEF DeferredInv

LEMMA FatalStep == ASSUME DeferredInv, NEW o \in Outputs, FatalError(o) PROVE DeferredInv'
<1> DEFINE f == [text |-> [s \in Reads[o] |-> None], block |-> Raw]
<1>1. PICK s \in Reads[o] :
      /\ o \in queue /\ open' = [DoDefer(o) EXCEPT !.files = @ \cup {o}]
      /\ edited < MaxChanges /\ edited' = edited + 1 /\ fatal' = fatal \cup {s}
      /\ kept' = Kept(BlockOf[o]) /\ public' = [public EXCEPT ![o] = f]
      /\ queue' \subseteq queue \ {o} /\ unrendered' = unrendered \ {o}
      /\ UNCHANGED <<version, faulty, news, again, step, stage, errors, grouped,
                     todo, heard, result, lapsed, panicked>>
  BY DEF FatalError
<1>2. f \in Files /\ f.block = Raw
  <2>1. [x \in Reads[o] |-> None] \in UNION {[Reads[p] -> Versions \cup {None}] : p \in Outputs}
    OBVIOUS
  <2> QED BY <2>1 DEF Files
<1> HIDE DEF f
<1>3. DeferredTypeOK'
  <2>1. open' \in ContextLists
    BY <1>1, ListGrows
  <2>2. public' \in [Outputs -> Files \cup {None}]
    BY <1>1, <1>2 DEF DeferredInv, DeferredTypeOK
  <2>3. edited' \in 0..MaxChanges
    <3>1. edited \in Nat /\ MaxChanges \in Nat
      BY DeferredAssumption DEF DeferredInv, DeferredTypeOK
    <3> QED BY <1>1, <3>1
  <2> QED BY <1>1, <2>1, <2>2, <2>3, QueueTypes DEF DeferredInv, DeferredTypeOK
<1>4. VersionsInv'
  <2>1. \A x \in SiteFiles : version[x] \in Nat /\ edited \in Nat
    BY DeferredAssumption DEF DeferredInv, DeferredTypeOK, Versions
  <2> QED BY <1>1, <2>1 DEF DeferredInv, VersionsInv
<1>5. OrderInv'
  BY <1>1, QueueTypes DEF DeferredInv, OrderInv, Blamed
<1>6. ListsInv' /\ PlaceholdersInv' /\ CurrentInv' /\ ExecutionsInv'
  <2>1. Blamed \subseteq Blamed' /\ Reads[o] \cap Blamed' # {}
    BY <1>1 DEF Blamed
  <2> QED BY <1>1, <1>2, <2>1, PageWritten
<1> QED BY <1>3, <1>4, <1>5, <1>6 DEF DeferredInv

\* A page that fails leaves its old file, and an error about what it uses.
LEMMA RenderFailsStep == ASSUME DeferredInv, NEW o \in Outputs, RenderOutputFails(o) PROVE DeferredInv'
<1> USE DEF DeferredInv
<1>1. PICK s \in (Reads[o] \cup Text[BlockOf[o]]) \cap faulty :
      /\ o \in queue /\ errors' = errors \cup {s}
      /\ queue' = queue \ {o} /\ unrendered' = unrendered \ {o}
      /\ UNCHANGED <<version, faulty, news, edited, again, step, stage, fatal, kept, open, grouped,
                     todo, public, heard, result, lapsed, panicked>>
  BY DEF RenderOutputFails, sourceVars
<1>2. DeferredTypeOK'
  BY <1>1, QueueTypes DEF DeferredTypeOK
<1>3. VersionsInv' /\ OrderInv'
  BY <1>1, QueueTypes DEF VersionsInv, OrderInv, Blamed
<1>4. ListsInv'
  BY <1>1 DEF ListsInv, ForBlock
<1>5. PlaceholdersInv'
  BY <1>1 DEF PlaceholdersInv, HasPlaceholder, Listed, Alone
<1>6. CurrentInv'
  <2> SUFFICES ASSUME ~lapsed, NEW p \in Outputs \ unrendered',
                      (Reads[p] \cup Text[BlockOf[p]]) \cap Blamed' = {}
               PROVE  Current(p)'
    BY <1>1, QueueTypes DEF CurrentInv, Pending, Blamed
  <2>1. p # o /\ Current(p)
    BY <1>1, QueueTypes DEF CurrentInv, Pending, Blamed
  <2> QED BY <1>1, <2>1, QueueTypes DEF Current, HasPlaceholder, Alone, Holder, Pending, Blamed
<1>7. ExecutionsInv'
  BY <1>1 DEF ExecutionsInv
<1> QED BY <1>2, <1>3, <1>4, <1>5, <1>6, <1>7

\* A context is rendered: its list takes the place of the one before.
LEMMA StopStageStep == ASSUME DeferredInv, StopStageRender PROVE DeferredInv'
<1> USE DEF DeferredInv
<1>1. /\ step = "render" /\ queue = {} /\ grouped' = [grouped EXCEPT ![stage] = open] /\ open' = NoRuns
      /\ UNCHANGED <<version, faulty, news, edited, again, unrendered, errors, fatal, kept, todo,
                     public, heard, result, lapsed, panicked>>
  BY DEF StopStageRender, sourceVars
<1>2. \/ /\ errors # {} \/ stage = Stages
         /\ step' = "stats" /\ stage' = stage /\ queue' = queue
      \/ /\ ~(errors # {} \/ stage = Stages)
         /\ step' = "render" /\ stage' = stage + 1
         /\ queue' = IF fatal # {} THEN {} ELSE {o \in unrendered : StageOf[o] = stage + 1}
  BY DEF StopStageRender
<1>3. stage \in 1..Stages /\ Stages \in Nat /\ unrendered \subseteq Outputs
  BY DeferredAssumption DEF DeferredTypeOK
<1>4. NoRuns \in ContextLists /\ NoRuns.files = {} /\ \A b \in Blocks : NoRuns.runs[b] = None
  BY DEF NoRuns, ContextLists
<1>5. /\ grouped'[stage] = open /\ \A n \in 1..Stages : n # stage => grouped'[n] = grouped[n]
      /\ grouped' \in [1..Stages -> ContextLists]
  BY <1>1, <1>3 DEF DeferredTypeOK
<1>6. DeferredTypeOK'
  <2>1. step' \in {"stats", "render"} /\ stage' \in 1..Stages /\ queue' \subseteq Outputs
    BY <1>1, <1>2, <1>3
  <2> QED BY <1>1, <1>4, <1>5, <2>1 DEF DeferredTypeOK
<1>7. VersionsInv'
  BY <1>1 DEF VersionsInv
<1>8. OrderInv'
  <2>1. \A o \in unrendered : StageOf[o] \in 1..Stages
    BY <1>3, DeferredTables
  <2>2. Blamed = {} => errors = {} /\ fatal = {} /\ \A o \in unrendered : StageOf[o] > stage
    BY <1>1 DEF OrderInv, Blamed
  <2>5. Blamed' = Blamed
    BY <1>1 DEF Blamed
  <2>3. CASE step' = "stats"
    <3>1. Blamed = {} => unrendered = {}
      BY <1>2, <1>3, <2>1, <2>2, <2>3
    <3> QED BY <1>1, <1>2, <2>3, <2>5, <3>1 DEF OrderInv
  <2>4. CASE step' = "render"
    <3>1. Blamed = {} => \A o \in unrendered : o \in queue' \/ StageOf[o] > stage'
      BY <1>2, <1>3, <2>1, <2>2, <2>4
    <3>2. queue' \subseteq unrendered /\ \A o \in queue' : StageOf[o] = stage'
      BY <1>2, <2>4
    <3> QED BY <1>1, <2>4, <2>5, <3>1, <3>2 DEF OrderInv
  <2> QED BY <1>2, <2>3, <2>4
<1>9. ListsInv'
  <2>1. \A n \in 1..Stages : ForBlock(grouped'[n]) /\ \A o \in grouped'[n].files : StageOf[o] = n
    BY <1>5 DEF ListsInv
  <2> QED BY <1>1, <1>4, <2>1 DEF ListsInv, ForBlock
<1>10. PlaceholdersInv'
  <2> SUFFICES ASSUME ~lapsed, NEW o \in Outputs, HasPlaceholder(o) PROVE Listed(o)'
    BY <1>1, <1>2 DEF PlaceholdersInv, HasPlaceholder
  <2>1. Listed(o) /\ StageOf[o] \in 1..Stages /\ BlockOf[o] \in Blocks
    BY DeferredTables DEF PlaceholdersInv
  <2>2. CASE StageOf[o] = stage
    <3>1. o \in grouped'[stage].files
      BY <1>1, <1>5, <2>1, <2>2 DEF Listed
    <3>2. grouped'[stage].runs[BlockOf[o]] = None \/ grouped'[stage].runs[BlockOf[o]].done = None
      BY <1>5, <2>1 DEF ListsInv
    <3> QED BY <1>2, <1>3, <2>2, <3>1, <3>2 DEF Listed
  <2>3. CASE StageOf[o] # stage
    <3>1. StageOf[o] < stage
      BY <1>1, <2>1, <2>3 DEF Listed
    <3> QED BY <1>1, <1>2, <1>3, <1>5, <2>1, <2>3, <3>1 DEF Listed, Alone
  <2> QED BY <2>2, <2>3
<1>11. CurrentInv'
  <2>1. Pending' = Pending
    BY <1>1, <1>2 DEF Pending, Blamed
  <2> QED BY <1>1, <2>1 DEF CurrentInv, Current, HasPlaceholder, Alone, Holder
<1>12. ExecutionsInv'
  <2> SUFFICES ASSUME KeptForOne PROVE ExecutionsInv'
    BY DEF ExecutionsInv
  <2>1. \A n \in 1..Stages : \A o \in grouped'[n].files : grouped'[n].runs[BlockOf[o]] # None
    BY <1>5 DEF ExecutionsInv
  <2> QED BY <1>1, <1>4, <2>1 DEF ExecutionsInv
<1> QED BY <1>6, <1>7, <1>8, <1>9, <1>10, <1>11, <1>12

\* The end of a build: a build that fails with one error hands it on.
LEMMA ReturnsFacts ==
  ASSUME DeferredInv, NEW sent, sent \subseteq SiteFiles, BuildReturns(sent)
  PROVE  LET found == sent \cup fatal
         IN  /\ step' = "idle" /\ result' \in {"ok", "failed"} /\ again' \subseteq SiteFiles
             /\ lapsed' \in BOOLEAN
             /\ result' = "ok" <=> found = {}
             /\ result' = "ok" => again' = {}
             /\ ~lapsed' => /\ ~lapsed /\ found \subseteq again'
                            /\ found = {} \/ \A o \in Outputs : ~HasPlaceholder(o)
<1> DEFINE found == sent \cup fatal
<1>0. fatal \subseteq SiteFiles /\ found \subseteq SiteFiles
  BY DEF DeferredInv, DeferredTypeOK
<1>1. /\ step' = "idle" /\ result' = IF found = {} THEN "ok" ELSE "failed"
      /\ (found = {} /\ again' = {}) \/ (found # {} /\ \E s \in found : again' = {s})
      /\ lapsed' = (lapsed \/ Cardinality(found) > 1
                            \/ (found # {} /\ \E o \in Outputs : HasPlaceholder(o)))
  BY DEF BuildReturns
<1> HIDE DEF found
<1>2. Cardinality(found) \in Nat /\ IsFiniteSet(found)
  BY <1>0, DeferredAssumption, FS_Subset, FS_CardinalityType
<1>3. ~(Cardinality(found) > 1) => found = {} \/ \E x : found = {x}
  <2>1. Cardinality(found) = 0 => found = {}
    BY <1>2, FS_EmptySet
  <2>2. Cardinality(found) = 1 => \E x : found = {x}
    BY <1>2, FS_Singleton
  <2> QED BY <1>2, <2>1, <2>2
<1>4. ~lapsed' => found \subseteq again'
  BY <1>1, <1>3
<1>5. lapsed \in BOOLEAN
  BY DEF DeferredInv, DeferredTypeOK
<1> QED BY <1>0, <1>1, <1>4, <1>5 DEF found

\* The build statistics are written, or end the build.
LEMMA StatsStep == ASSUME DeferredInv, WriteBuildStats PROVE DeferredInv'
<1> USE DEF DeferredInv
<1>1. /\ step = "stats"
      /\ UNCHANGED <<version, faulty, news, stage, unrendered, queue, errors, fatal, kept, open,
                     grouped, public, heard, panicked>>
      /\ \/ /\ step' = "deferred" /\ todo' = 1..Stages
            /\ UNCHANGED <<edited, result, again, lapsed>>
         \/ /\ edited < MaxChanges /\ edited' = edited + 1
            /\ step' = "idle" /\ result' = "failed" /\ again' = {} /\ lapsed' = TRUE
            /\ UNCHANGED todo
  BY DEF WriteBuildStats
<1>2. edited \in Nat /\ MaxChanges \in Nat /\ \A x \in SiteFiles : version[x] \in Nat
  BY DeferredAssumption DEF DeferredTypeOK, Versions
<1>3. edited' \in 0..MaxChanges /\ edited <= edited'
  BY <1>1, <1>2 DEF DeferredTypeOK
<1>4. DeferredTypeOK'
  <2>1. todo' \subseteq 1..Stages /\ step' \in {"deferred", "idle"}
    BY <1>1 DEF DeferredTypeOK
  <2>2. result' \in {"none", "ok", "failed"} /\ again' \subseteq SiteFiles /\ lapsed' \in BOOLEAN
    BY <1>1 DEF DeferredTypeOK
  <2> QED BY <1>1, <1>3, <2>1, <2>2 DEF DeferredTypeOK
<1>5. VersionsInv'
  BY <1>1, <1>2, <1>3 DEF VersionsInv
<1>6. OrderInv'
  BY <1>1 DEF OrderInv, Blamed
<1>7. ListsInv'
  BY <1>1 DEF ListsInv, ForBlock
<1>8. PlaceholdersInv'
  <2> SUFFICES ASSUME ~lapsed', NEW o \in Outputs, HasPlaceholder(o) PROVE step' # "idle" /\ Listed(o)'
    BY <1>1 DEF PlaceholdersInv, HasPlaceholder
  <2>1. Listed(o) /\ StageOf[o] \in 1..Stages
    BY <1>1, DeferredTables DEF PlaceholdersInv
  <2> QED BY <1>1, <2>1 DEF Listed, Alone
<1>9. CurrentInv'
  <2> SUFFICES ASSUME ~lapsed' PROVE CurrentInv'
    BY DEF CurrentInv
  <2>1. Pending' = Pending /\ ~lapsed
    BY <1>1 DEF Pending, Blamed
  <2> QED BY <1>1, <2>1 DEF CurrentInv, Current, HasPlaceholder, Alone, Holder
<1>10. ExecutionsInv'
  BY <1>1 DEF ExecutionsInv
<1> QED BY <1>4, <1>5, <1>6, <1>7, <1>8, <1>9, <1>10

\* renderDeferred is through with a context: no file in it has a placeholder.
LEMMA ContextStep == ASSUME DeferredInv, NEW n \in 1..Stages, ContextExecuted(n) PROVE DeferredInv'
<1> USE DEF DeferredInv
<1>1. /\ step = "deferred" /\ \A o \in grouped[n].files : ~HasPlaceholder(o)
      /\ todo' = todo \ {n}
      /\ UNCHANGED <<version, faulty, news, edited, again, step, stage, unrendered, queue, errors,
                     fatal, kept, open, grouped, public, heard, result, lapsed, panicked>>
  BY DEF ContextExecuted, sourceVars
<1>2. DeferredTypeOK' /\ VersionsInv' /\ OrderInv'
  BY <1>1 DEF DeferredTypeOK, VersionsInv, OrderInv, Blamed
<1>3. ListsInv' /\ ExecutionsInv'
  BY <1>1 DEF ListsInv, ForBlock, ExecutionsInv
<1>4. PlaceholdersInv'
  <2> SUFFICES ASSUME ~lapsed, NEW o \in Outputs, HasPlaceholder(o) PROVE Listed(o)'
    BY <1>1 DEF PlaceholdersInv, HasPlaceholder
  <2>1. Listed(o)
    BY DEF PlaceholdersInv
  <2>2. StageOf[o] # n
    BY <1>1, <2>1 DEF Listed
  <2> QED BY <1>1, <2>1, <2>2 DEF Listed, Alone
<1>5. CurrentInv'
  BY <1>1 DEF CurrentInv, Current, HasPlaceholder, Alone, Holder, Pending, Blamed
<1> QED BY <1>2, <1>3, <1>4, <1>5

\* The build ends: nothing has a placeholder any more.
LEMMA EndsStep == ASSUME DeferredInv, BuildEnds PROVE DeferredInv'
<1> USE DEF DeferredInv
<1>1. /\ step = "deferred" /\ todo = {} /\ BuildReturns(errors)
      /\ UNCHANGED <<version, faulty, news, edited, stage, unrendered, queue, errors, fatal, kept,
                     open, grouped, todo, public, heard, panicked>>
  BY DEF BuildEnds, sourceVars
<1>2. /\ step' = "idle" /\ result' \in {"ok", "failed"} /\ again' \subseteq SiteFiles
      /\ lapsed' \in BOOLEAN
      /\ result' = "ok" => Blamed = {} /\ again' = {}
      /\ ~lapsed' => ~lapsed /\ Blamed \subseteq again'
  BY <1>1, ReturnsFacts DEF DeferredTypeOK, Blamed
<1>3. DeferredTypeOK' /\ VersionsInv'
  BY <1>1, <1>2 DEF DeferredTypeOK, VersionsInv
<1>4. OrderInv'
  BY <1>1, <1>2 DEF OrderInv
<1>5. ListsInv' /\ ExecutionsInv'
  BY <1>1, <1>2 DEF ListsInv, ForBlock, ExecutionsInv
<1>6. PlaceholdersInv'
  <2>1. ~lapsed' => \A o \in Outputs : ~HasPlaceholder(o)
    BY <1>1, <1>2 DEF PlaceholdersInv, Listed
  <2> QED BY <1>1, <2>1 DEF PlaceholdersInv, HasPlaceholder
<1>7. CurrentInv'
  <2> SUFFICES ASSUME ~lapsed' PROVE CurrentInv'
    BY DEF CurrentInv
  <2>1. Pending \subseteq Pending' /\ ~lapsed
    BY <1>1, <1>2 DEF Pending
  <2> QED BY <1>1, <2>1 DEF CurrentInv, Current, HasPlaceholder, Alone, Holder
<1> QED BY <1>3, <1>4, <1>5, <1>6, <1>7

\* The execution a file's list has for its block.
LEMMA RunFacts ==
  ASSUME DeferredInv, NEW n \in 1..Stages, NEW o \in Outputs,
         o \in grouped[n].files, grouped[n].runs[BlockOf[o]] # None
  PROVE  LET run == grouped[n].runs[BlockOf[o]]
         IN  /\ run \in Executions /\ run.by \in Outputs /\ run.done \in Versions \cup {None}
             /\ BlockOf[run.by] = BlockOf[o] /\ StageOf[o] = n /\ (Alone(o) => run.by = o)
             /\ Holder(run.by) \in Outputs \cup Blocks
<1> DEFINE run == grouped[n].runs[BlockOf[o]]
<1>1. grouped[n] \in ContextLists /\ BlockOf[o] \in Blocks
  BY DeferredTables DEF DeferredInv, DeferredTypeOK
<1>2. run \in Executions
  BY <1>1 DEF ContextLists
<1>3. run.by \in Outputs /\ run.done \in Versions \cup {None}
  BY <1>2 DEF Executions
<1>4. BlockOf[run.by] = BlockOf[o] /\ StageOf[o] = n
  BY <1>1 DEF DeferredInv, ListsInv, ForBlock
<1>5. Alone(o) => run.by = o
  BY <1>3, <1>4 DEF Alone
<1>6. Holder(run.by) \in Outputs \cup Blocks
  BY <1>3, DeferredTables DEF Holder
<1> QED BY <1>2, <1>3, <1>4, <1>5, <1>6

\* A file gets what its block comes to: from now when the block is its own.
LEMMA ExecuteStep ==
  ASSUME DeferredInv, NEW n \in 1..Stages, NEW o \in Outputs, ExecuteDeferred(n, o)
  PROVE  DeferredInv'
<1> USE DEF DeferredInv
<1> DEFINE b == BlockOf[o]
           run == grouped[n].runs[b]
           value == IF run.done = None THEN version[Asset[b]] ELSE run.done
<1>1. /\ step = "deferred" /\ o \in grouped[n].files /\ HasPlaceholder(o)
      /\ UNCHANGED <<version, faulty, news, edited, again, step, stage, unrendered, queue, errors,
                     fatal, kept, open, todo, result, lapsed>>
  BY DEF ExecuteDeferred, Comes, sourceVars
<1>2. \/ run = None /\ panicked' = TRUE /\ UNCHANGED <<grouped, public, heard>>
      \/ /\ run # None
         /\ grouped' = [grouped EXCEPT ![n].runs[b].done = value]
         /\ public' = [public EXCEPT ![o].block = value]
         /\ heard' = heard \cup {Holder(run.by)} /\ panicked' = panicked
  BY DEF ExecuteDeferred
<1>3. b \in Blocks /\ Asset[b] \in SiteFiles /\ grouped[n] \in ContextLists /\ public[o] \in Files
  BY <1>1, DeferredTables DEF DeferredTypeOK, HasPlaceholder
<1>4. VersionsInv' /\ OrderInv'
  BY <1>1 DEF VersionsInv, OrderInv, Blamed
<1>5. Pending' = Pending
  BY <1>1 DEF Pending, Blamed
<1>6. CASE run = None
  <2>1. UNCHANGED <<grouped, public, heard>> /\ panicked' = TRUE
    BY <1>2, <1>6
  <2>2. DeferredTypeOK' /\ ListsInv' /\ PlaceholdersInv'
    BY <1>1, <2>1 DEF DeferredTypeOK, ListsInv, ForBlock, PlaceholdersInv, HasPlaceholder, Listed, Alone
  <2>3. CurrentInv'
    BY <1>1, <1>5, <2>1 DEF CurrentInv, Current, HasPlaceholder, Alone, Holder
  <2>4. ~KeptForOne
    BY <1>1, <1>6 DEF ExecutionsInv
  <2> QED BY <1>4, <2>2, <2>3, <2>4 DEF ExecutionsInv
<1>7. CASE run # None
  <2>1. /\ grouped' = [grouped EXCEPT ![n].runs[b].done = value]
        /\ public' = [public EXCEPT ![o].block = value]
        /\ heard' = heard \cup {Holder(run.by)} /\ panicked' = panicked
    BY <1>2, <1>7
  <2>2. /\ run \in Executions /\ run.by \in Outputs /\ run.done \in Versions \cup {None}
        /\ BlockOf[run.by] = b /\ StageOf[o] = n /\ (Alone(o) => run.by = o)
        /\ Holder(run.by) \in Outputs \cup Blocks
    BY <1>1, <1>7, RunFacts
  <2>3. value \in Versions /\ value # Raw
    BY <1>3, <2>2, Apart DEF DeferredTypeOK
  <2> DEFINE did == [by |-> run.by, done |-> value]
             list == [files |-> grouped[n].files, runs |-> [grouped[n].runs EXCEPT ![b] = did]]
             file == [text |-> public[o].text, block |-> value]
  <2>4. did \in Executions /\ did # None
    BY <2>2, <2>3, Apart DEF Executions
  <2>5. grouped' = [grouped EXCEPT ![n] = list]
    <3>1. [run EXCEPT !.done = value] = did
      BY <2>2 DEF Executions
    <3>2. [grouped[n] EXCEPT !.runs = [grouped[n].runs EXCEPT ![b] = did]] = list
      BY <1>3 DEF ContextLists
    <3> QED BY <2>1, <3>1, <3>2
  <2>6. public' = [public EXCEPT ![o] = file]
    <3>1. [public[o] EXCEPT !.block = value] = file
      BY <1>3 DEF Files
    <3> QED BY <2>1, <3>1
  <2>7. file \in Files /\ file.text = public[o].text /\ file.block = value /\ file # None
    <3>1. file \in Files
      BY <1>3, <2>3 DEF Files
    <3> QED BY <3>1, Apart
  <2> HIDE DEF did, file, value
  <2>8. /\ list.files = grouped[n].files /\ list.runs[b] = did
        /\ \A c \in Blocks : c # b => list.runs[c] = grouped[n].runs[c]
        /\ list \in ContextLists
    BY <1>3, <2>4 DEF ContextLists
  <2> HIDE DEF list
  <2>9. /\ grouped' \in [1..Stages -> ContextLists] /\ grouped'[n] = list
        /\ \A k \in 1..Stages : k # n => grouped'[k] = grouped[k]
    BY <2>5, <2>8 DEF DeferredTypeOK
  <2>10. /\ public' \in [Outputs -> Files \cup {None}] /\ public'[o] = file
         /\ \A p \in Outputs : p # o => public'[p] = public[p]
    BY <2>6, <2>7 DEF DeferredTypeOK
  <2>11. DeferredTypeOK'
    BY <1>1, <2>1, <2>2, <2>9, <2>10 DEF DeferredTypeOK
  <2>12. ListsInv'
    <3>1. ForBlock(list) /\ \A p \in list.files : StageOf[p] = n
      BY <2>2, <2>8 DEF did, ListsInv, ForBlock
    <3>2. \A k \in 1..Stages : ForBlock(grouped'[k]) /\ \A p \in grouped'[k].files : StageOf[p] = k
      BY <2>9, <3>1 DEF ListsInv
    <3> QED BY <1>1, <3>2 DEF ListsInv, ForBlock
  <2>13. ~HasPlaceholder(o)' /\ \A p \in Outputs : p # o => (HasPlaceholder(p)' <=> HasPlaceholder(p))
    BY <2>3, <2>7, <2>10 DEF HasPlaceholder
  <2>14. PlaceholdersInv'
    <3> SUFFICES ASSUME ~lapsed, NEW p \in Outputs, p # o, HasPlaceholder(p) PROVE Listed(p)'
      BY <1>1, <2>13 DEF PlaceholdersInv
    <3>1. Listed(p) /\ StageOf[p] \in 1..Stages /\ BlockOf[p] \in Blocks
      BY DeferredTables DEF PlaceholdersInv
    <3>2. Alone(p) => BlockOf[p] # b
      BY DEF Alone
    <3> QED BY <1>1, <2>8, <2>9, <3>1, <3>2 DEF Listed, Alone
  <2>15. CurrentInv'
    <3> SUFFICES ASSUME ~lapsed, NEW p \in Outputs \ unrendered, Current(p) PROVE Current(p)'
      BY <1>1, <1>5 DEF CurrentInv
    <3>1. CASE p # o
      BY <1>1, <1>5, <2>1, <2>10, <2>13, <3>1 DEF Current, Alone, Holder
    <3>2. CASE p = o
      <4>1. Alone(o) => run.by = o /\ run.done = None
        BY <1>1, <1>7, <2>2 DEF PlaceholdersInv, Listed
      <4>2. Alone(o) => Holder(o) \in heard' /\ value = version[Asset[b]]
        BY <2>1, <4>1 DEF value
      <4> QED BY <1>1, <2>7, <2>10, <3>2, <4>2 DEF Current, Alone, Holder
    <3> QED BY <3>1, <3>2
  <2>16. ExecutionsInv'
    <3> SUFFICES ASSUME KeptForOne PROVE ExecutionsInv'
      BY DEF ExecutionsInv
    <3>1. \A p \in list.files : p \in Outputs /\ list.runs[BlockOf[p]] # None
      BY <1>3, <2>4, <2>8, DeferredTables DEF ExecutionsInv, ContextLists
    <3>2. \A k \in 1..Stages : \A p \in grouped'[k].files : grouped'[k].runs[BlockOf[p]] # None
      BY <2>9, <3>1 DEF ExecutionsInv
    <3> QED BY <1>1, <2>1, <3>2 DEF ExecutionsInv
  <2> QED BY <1>4, <2>11, <2>12, <2>14, <2>15, <2>16
<1> QED BY <1>6, <1>7

\* A block that fails leaves a placeholder: the session has lapsed.
LEMMA ExecuteFailsStep ==
  ASSUME DeferredInv, NEW n \in 1..Stages, NEW o \in Outputs, ExecuteDeferredFails(n, o)
  PROVE  DeferredInv'
<1> USE DEF DeferredInv
<1> DEFINE run == grouped[n].runs[BlockOf[o]]
<1>1. PICK s \in {Asset[BlockOf[o]]} \cup Reads[o] :
      /\ step = "deferred" /\ o \in grouped[n].files /\ HasPlaceholder(o) /\ run # None
      /\ heard' = heard \cup {Holder(run.by)} /\ todo' = {}
      /\ BuildReturns(errors \cup {s})
      /\ UNCHANGED <<version, faulty, news, edited, stage, unrendered, queue, errors, fatal, kept,
                     open, grouped, public, panicked>>
  BY DEF ExecuteDeferredFails, Comes, sourceVars
<1>2. errors \cup {s} \subseteq SiteFiles
  BY DeferredTables DEF DeferredTypeOK
<1>3. /\ step' = "idle" /\ result' = "failed" /\ again' \subseteq SiteFiles /\ lapsed' = TRUE
  BY <1>1, <1>2, ReturnsFacts
<1>4. DeferredTypeOK'
  <2>1. heard' \subseteq Outputs \cup Blocks
    BY <1>1, RunFacts DEF DeferredTypeOK
  <2> QED BY <1>1, <1>3, <2>1 DEF DeferredTypeOK
<1>5. VersionsInv' /\ OrderInv'
  BY <1>1, <1>3 DEF VersionsInv, OrderInv
<1>6. ListsInv' /\ ExecutionsInv'
  BY <1>1, <1>3 DEF ListsInv, ForBlock, ExecutionsInv
<1>7. PlaceholdersInv' /\ CurrentInv'
  BY <1>3 DEF PlaceholdersInv, CurrentInv
<1> QED BY <1>4, <1>5, <1>6, <1>7

LEMMA DeferredStep == DeferredInv /\ [DeferredNext]_deferredVars => DeferredInv'
<1> SUFFICES ASSUME DeferredInv, [DeferredNext]_deferredVars PROVE DeferredInv'
  OBVIOUS
<1>1. CASE DeferredNext
  BY <1>1, EditStep, BuildStartsStep, StopStageStep, StatsStep, EndsStep, RenderStep,
     RenderFailsStep, FatalStep, ContextStep, ExecuteStep, ExecuteFailsStep DEF DeferredNext
<1>2. CASE UNCHANGED deferredVars
  <2>1. UNCHANGED <<version, faulty, news, again, step, stage, unrendered, queue, errors, fatal,
                    kept, open, grouped, todo, public, heard, result, lapsed, panicked, edited>>
    BY <1>2 DEF deferredVars
  <2>2. DeferredTypeOK' /\ VersionsInv' /\ OrderInv' /\ ExecutionsInv'
    BY <2>1 DEF DeferredInv, DeferredTypeOK, VersionsInv, OrderInv, ExecutionsInv, Blamed
  <2>3. ListsInv' /\ PlaceholdersInv'
    BY <2>1 DEF DeferredInv, ListsInv, ForBlock, PlaceholdersInv, HasPlaceholder, Listed, Alone
  <2>4. CurrentInv'
    BY <2>1 DEF DeferredInv, CurrentInv, Current, HasPlaceholder, Alone, Holder, Pending, Blamed
  <2> QED BY <2>2, <2>3, <2>4 DEF DeferredInv
<1> QED BY <1>1, <1>2

LEMMA DeferredInvariance == DeferredSpec => []DeferredInv
BY InitStep, DeferredStep, PTL DEF DeferredSpec

\* What the invariant says of a build that has ended well.
LEMMA PublishedNow == DeferredInv => PublishedFromNow
<1> SUFFICES ASSUME DeferredInv, step = "idle", result = "ok", news = {}, ~lapsed, NEW o \in Outputs
             PROVE  /\ public[o] # None /\ ~HasPlaceholder(o)
                    /\ public[o].text = Written(o).text
                    /\ Alone(o) => public[o].block = version[Asset[BlockOf[o]]]
  BY DEF PublishedFromNow
<1>1. Pending = {} /\ unrendered = {}
  BY DEF DeferredInv, OrderInv, Pending
<1>2. Current(o) /\ ~HasPlaceholder(o)
  BY <1>1 DEF DeferredInv, CurrentInv, PlaceholdersInv
<1>3. Written(o).text = [s \in Reads[o] |-> version[s]]
  BY DEF Written
<1> QED BY <1>1, <1>2, <1>3 DEF Current

\* Every variable stays in its set.
THEOREM DeferredTypes == DeferredSpec => []DeferredTypeOK
<1>1. DeferredInv => DeferredTypeOK
  BY DEF DeferredInv
<1> QED BY <1>1, DeferredInvariance, PTL

\* After a build without an error, in a session in which no build failed with a
\* placeholder in a file or with two errors, what is on disk comes from the files
\* as they are (HugoSites.Build, executeDeferredTemplates); and no deferred execution is
\* missing when kept content belongs to one output and is read from all its files.
THEOREM BlocksArePublished == DeferredSpec => []BlocksPublished
<1>1. DeferredInv => BlocksPublished
  BY PublishedNow DEF DeferredInv, BlocksPublished, ExecutionsInv, ExecutionFound
<1> QED BY <1>1, DeferredInvariance, PTL
=============================================================================
