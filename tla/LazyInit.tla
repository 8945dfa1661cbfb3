------------------------------ MODULE LazyInit ------------------------------
(* Values that a build makes when they are first asked for, and drops when  *)
(* the next build begins (lazy/once.go, lazy/init.go): the menus and        *)
(* taxonomies of a site, which need the page tree, and the data files.  An  *)
(* Init is a OnceMore with a function or a child.  The Init that a site's   *)
(* Inits branch from does nothing, is never reset, and is left out.  Those  *)
(* who ask are templates; one that took too long is given up by its page    *)
(* (cache/dynacache), and may go on while the next build drops the values.  *)
EXTENDS Naturals, Sequences, Absent

CONSTANTS
  Inits,
  Child,        \* of each Init the one of ini.children, or None
  Works,        \* those with a function f
  FromPages,    \* those of Works whose function reads the page tree
  MayFail,      \* those of Works whose function can fail
  Asked,        \* those that templates ask for
  Always,       \* those of Asked that every rebuild resets
  Callers,      \* goroutines that render templates
  MayLapse,     \* those of Callers that can outlive their build
  Mixed,
  MaxBuilds

Family(i) == {i, Child[i]} \cap Inits

(* An Init that branches off has a function and no child; one that Add was  *)
(* called on has only a child, which has a function, no child, and nobody   *)
(* else that could ask it.  What reads pages is reset by every rebuild.     *)
ASSUME LazyInitAssumption ==
  /\ Child \in [Inits -> Inits \cup {None}]
  /\ FromPages \subseteq Works /\ Works \subseteq Inits /\ MayFail \subseteq Works
  /\ Always \subseteq Asked /\ Asked \subseteq Inits
  /\ MayLapse \subseteq Callers /\ MaxBuilds \in Nat
  /\ None \notin Inits \cup Callers
  /\ \A i \in Asked :
       IF Child[i] = None THEN i \in Works
       ELSE i \notin Works /\ Child[i] \in Works \ Asked /\ Child[Child[i]] = None
  /\ \A i, j \in Asked : Child[i] = Child[j] /\ Child[i] # None => i = j
  /\ FromPages \subseteq UNION {Family(i) : i \in Always}

VARIABLES
  locked, done,   \* of each OnceMore: the words that are swapped and stored
  mu,           \* who holds its mutex
  err,          \* whether ini.err is set
  value,        \* what the function has made: of which build, or Mixed
  stack,        \* each caller's calls of Do, the innermost last
  lapsed,       \* callers that their build has given up
  answer,       \* what each caller was last given in this build, or None
  build,        \* number of the build
  changing,     \* it has not yet assembled the pages
  toReset,      \* what it has still to reset
  since,        \* the build in which what a function reads last changed
  crossed       \* history: Inits that a Do was in while they were reset, or
                \* between that and the end of the assembly

onceVars == <<locked, done, mu>>
valueVars == <<err, value>>
askVars == <<stack, lapsed, answer>>
buildVars == <<build, changing, toReset, since, crossed>>
lazyVars == <<onceVars, valueVars, askVars, buildVars>>

Frame == [init : Inits, at : {"swap", "enter", "work", "working", "child", "store", "unlock",
                              "open", "wait"},
          from : Nat \cup {Mixed}]

LazyInitTypeOK ==
  /\ locked \in [Inits -> BOOLEAN] /\ done \in [Inits -> BOOLEAN]
  /\ mu \in [Inits -> Callers \cup {None}]
  /\ err \in [Inits -> BOOLEAN] /\ value \in [Works -> Nat \cup {Mixed}]
  /\ stack \in [Callers -> Seq(Frame)] /\ lapsed \subseteq MayLapse
  /\ answer \in [Callers -> [init : Asked, value : Nat \cup {Mixed, None}] \cup {None}]
  /\ build \in Nat /\ changing \in BOOLEAN /\ toReset \subseteq Asked
  /\ since \in [Inits -> Nat] /\ crossed \subseteq Inits

LazyInitInit ==
  /\ locked = [i \in Inits |-> FALSE] /\ done = locked /\ err = locked
  /\ mu = [i \in Inits |-> None] /\ value = [i \in Works |-> Mixed]
  /\ stack = [c \in Callers |-> <<>>] /\ lapsed = {} /\ answer = [c \in Callers |-> None]
  /\ build = 0 /\ changing = FALSE /\ toReset = {} /\ since = [i \in Inits |-> 0] /\ crossed = {}

---------------------------------------------------------------------------
Top(c) == stack[c][Len(stack[c])]
Stands(c, at) == stack[c] # <<>> /\ Top(c).at = at
On(c) == Top(c).init

Moves(c, at) == stack' = [stack EXCEPT ![c][Len(stack[c])].at = at]

(* What is next after the function, and after the double check.             *)
AfterWork(i) == IF Child[i] # None THEN "child" ELSE "store"
AfterCheck(i) == IF i \in Works THEN "work" ELSE AfterWork(i)

(* OnceMore.Do has nothing to do if done is set.                            *)
Call(i) == [init |-> i, at |-> IF done[i] THEN "wait" ELSE "swap", from |-> 0]

(* Init.shouldInitialize                                                    *)
ShouldInitialize(i) == ~done[i] /\ ~locked[i]

(* A template asks: Site.Menus, pageMenus, Site.Taxonomies, HugoSites.Data. *)
Asks(c, i) ==
  /\ stack[c] = <<>> /\ (changing => c \in lapsed)
  /\ stack' = [stack EXCEPT ![c] = <<Call(i)>>]
  /\ answer' = [answer EXCEPT ![c] = None]
  /\ UNCHANGED <<onceVars, valueVars, lapsed, buildVars>>

(* Nor if another has swapped the word: "f may call this Do and we would get*)
(* a deadlock".                                                             *)
Swap(c) ==
  /\ Stands(c, "swap")
  /\ locked' = [locked EXCEPT ![On(c)] = TRUE]
  /\ Moves(c, IF locked[On(c)] THEN "wait" ELSE "enter")
  /\ crossed' = IF ~locked[On(c)] /\ changing THEN crossed \cup {On(c)} ELSE crossed
  /\ UNCHANGED <<done, mu, valueVars, lapsed, answer, build, changing, toReset, since>>

(* The double check under the mutex.                                        *)
Enter(c) ==
  /\ Stands(c, "enter") /\ mu[On(c)] = None
  /\ mu' = [mu EXCEPT ![On(c)] = c]
  /\ Moves(c, IF done[On(c)] THEN "unlock" ELSE AfterCheck(On(c)))
  /\ UNCHANGED <<locked, done, valueVars, lapsed, answer, buildVars>>

(* What function f of Init i finds if it reads now.                         *)
Finds(i) == IF changing /\ i \in FromPages THEN Mixed ELSE since[i]

(* ini.f begins ...                                                         *)
Work(c) ==
  /\ Stands(c, "work")
  /\ stack' = [stack EXCEPT ![c][Len(stack[c])] =
                 [@ EXCEPT !.at = "working", !.from = Finds(On(c))]]
  /\ UNCHANGED <<onceVars, valueVars, lapsed, answer, buildVars>>

(* ... and ends: with what it has read, or with an error.                   *)
Worked(c) ==
  /\ Stands(c, "working")
  /\ \E fails \in BOOLEAN :
       /\ fails => On(c) \in MayFail
       /\ err' = [err EXCEPT ![On(c)] = fails]
       /\ value' = [value EXCEPT ![On(c)] =
                      IF ~fails /\ Top(c).from = Finds(On(c)) THEN Top(c).from ELSE Mixed]
  /\ Moves(c, AfterWork(On(c)))
  /\ UNCHANGED <<onceVars, lapsed, answer, buildVars>>

(* The child, if nobody has begun with it.                                  *)
Children(c) ==
  /\ Stands(c, "child")
  /\ LET k == Child[On(c)]
     IN  IF ShouldInitialize(k)
         THEN stack' = [stack EXCEPT ![c] = Append([@ EXCEPT ![Len(@)].at = "store"], Call(k))]
         ELSE Moves(c, "store")
  /\ UNCHANGED <<onceVars, valueVars, lapsed, answer, buildVars>>

(* Mutant of Store: an Init whose function fails is not done.               *)
StoreIfNoError(c) ==
  /\ Stands(c, "store")
  /\ done' = [done EXCEPT ![On(c)] = ~err[On(c)]]
  /\ Moves(c, "unlock")
  /\ UNCHANGED <<locked, mu, valueVars, lapsed, answer, buildVars>>

(* The deferred steps, in this order.                                       *)
Store(c) ==
  /\ Stands(c, "store")
  /\ done' = [done EXCEPT ![On(c)] = TRUE]
  /\ Moves(c, "unlock")
  /\ UNCHANGED <<locked, mu, valueVars, lapsed, answer, buildVars>>

Unlock(c) ==
  /\ Stands(c, "unlock")
  /\ mu' = [mu EXCEPT ![On(c)] = None]
  /\ Moves(c, "open")
  /\ UNCHANGED <<locked, done, valueVars, lapsed, answer, buildVars>>

Open(c) ==
  /\ Stands(c, "open")
  /\ locked' = [locked EXCEPT ![On(c)] = FALSE]
  /\ Moves(c, "wait")
  /\ UNCHANGED <<done, mu, valueVars, lapsed, answer, buildVars>>

(* What a template gets for Init i: HugoSites.Data returns nothing after an *)
(* error, and reports it.                                                   *)
Value(i) ==
  LET made == Family(i) \cap Works
  IN  IF err[i] \/ made = {} THEN None ELSE value[CHOOSE j \in made : TRUE]

(* Do returns to the template, or to the Do that has called it, which stops *)
(* at an error.                                                             *)
Answers(c) ==
  LET outer == Len(stack[c]) - 1
  IN  /\ IF outer = 0
         THEN /\ answer' = [answer EXCEPT ![c] = [init |-> On(c), value |-> Value(On(c))]]
              /\ stack' = [stack EXCEPT ![c] = <<>>]
              /\ UNCHANGED err
         ELSE LET caller == stack[c][outer]
                  then == IF err[On(c)] THEN [caller EXCEPT !.at = "store"] ELSE caller
              IN  /\ stack' = [stack EXCEPT ![c] = Append(SubSeq(@, 1, outer - 1), then)]
                  /\ err' = [err EXCEPT ![caller.init] = @ \/ err[On(c)]]
                  /\ UNCHANGED answer
      /\ UNCHANGED <<onceVars, value, lapsed, buildVars>>

(* Init.wait sleeps and looks at done again.                                *)
Waited(c) == Stands(c, "wait") /\ done[On(c)] /\ Answers(c)

Does(c) ==
  \/ Swap(c) \/ Enter(c) \/ Work(c) \/ Worked(c) \/ Children(c)
  \/ Store(c) \/ Unlock(c) \/ Open(c) \/ Waited(c)

---------------------------------------------------------------------------
(* The page that a caller renders is given up after its time.               *)
Lapse(c) ==
  /\ c \in MayLapse \ lapsed /\ stack[c] # <<>> /\ ~changing
  /\ lapsed' = lapsed \cup {c}
  /\ UNCHANGED <<onceVars, valueVars, stack, answer, buildVars>>

(* The goroutine of such a page ends.                                       *)
LapsedEnds(c) ==
  /\ c \in lapsed /\ stack[c] = <<>>
  /\ lapsed' = lapsed \ {c}
  /\ answer' = [answer EXCEPT ![c] = None]
  /\ UNCHANGED <<onceVars, valueVars, stack, buildVars>>

(* A rebuild begins when the last has waited for its pages.  All changes    *)
(* are of pages, and some of data files too.                                *)
BeginBuild ==
  /\ ~changing /\ build < MaxBuilds
  /\ \A c \in Callers \ lapsed : stack[c] = <<>>
  /\ build' = build + 1 /\ changing' = TRUE
  /\ answer' = [c \in Callers |-> None]
  /\ \E more \in SUBSET (Asked \ Always) :
       /\ toReset' = Always \cup more
       /\ LET dropped == UNION {Family(j) : j \in Always \cup more}
          IN  since' = [i \in Inits |-> IF i \in dropped THEN build' ELSE since[i]]
  /\ UNCHANGED <<onceVars, valueVars, stack, lapsed, crossed>>

(* Init.Reset of an Init and its child, under their mutexes: siteInit.Reset *)
(* in initRebuild, and for data files in processPartialFileEvents.          *)
Reset(i) ==
  /\ i \in toReset /\ \A j \in Family(i) : mu[j] = None
  /\ toReset' = toReset \ {i}
  /\ done' = [j \in Inits |-> j \notin Family(i) /\ done[j]]
  /\ err' = [j \in Inits |-> j \notin Family(i) /\ err[j]]
  /\ crossed' = (crossed \ Family(i)) \cup {j \in Family(i) : locked[j]}
  /\ UNCHANGED <<locked, mu, value, askVars, build, changing, since>>

(* The pages are in the tree, and rendering begins.                         *)
Assembled ==
  /\ changing /\ toReset = {}
  /\ changing' = FALSE
  /\ UNCHANGED <<onceVars, valueVars, askVars, build, toReset, since, crossed>>

LazyInitNext ==
  \/ \E c \in Callers : Does(c) \/ Lapse(c) \/ LapsedEnds(c)
  \/ \E c \in Callers, i \in Asked : Asks(c, i)
  \/ \E i \in Asked : Reset(i)
  \/ BeginBuild \/ Assembled

LazyInitSpec == LazyInitInit /\ [][LazyInitNext]_lazyVars

(* Goroutines keep running.                                                 *)
LazyInitFairness == \A c \in Callers : WF_lazyVars(Does(c))

---------------------------------------------------------------------------
(* Init i, or its child, was in use while it was reset.                     *)
Crossed(i) == Family(i) \cap crossed # {}

(* A template is given what was made in its build, or an error if there is  *)
(* one to report.                                                           *)
AnswersOfThisBuild ==
  \A c \in Callers \ lapsed :
    answer[c] # None =>
      LET i == answer[c].init
      IN  \/ answer[c].value = since[i]
          \/ answer[c].value = None /\ Family(i) \cap MayFail # {}
          \/ Crossed(i)

(* A template's question is answered, though Do may only wait for another.  *)
AsksEnd ==
  \A c \in Callers :
    (stack[c] # <<>> /\ c \notin lapsed)
      ~> (stack[c] = <<>> \/ c \in lapsed \/ Crossed(stack[c][1].init))

(* Whoever asks in a build is answered, with that build's value, whoever    *)
(* else asks at the same time.  The exception is what a page that has been  *)
(* given up still asks for when the next build begins: it may make a value  *)
(* of pages that are not assembled, which that build then uses; or hold the *)
(* swapped word over the reset, so that a Do finds itself second, and waits *)
(* for a first that does not come.                                          *)
AskersGetThisBuild == []AnswersOfThisBuild /\ AsksEnd
=============================================================================
