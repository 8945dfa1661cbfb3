------------------------------- MODULE Finder -------------------------------
(***************************************************************************)
(* The dependency finder (identity/finder.go).  A rebuild asks it, for     *)
(* every page output and every changed identity, whether the change can be *)
(* reached from the output's dependency manager; a wrong "no" leaves the   *)
(* output stale on disk.  One finder serves all the goroutines of a        *)
(* rebuild and remembers, per manager and changed identity, the answer of  *)
(* every search it made on the way.                                        *)
(*                                                                         *)
(* A manager holds identities; an identity may carry a manager of its own. *)
(* A search walks that graph, at most once through a manager, and never    *)
(* deeper than the limit its caller gives.  The order in which a manager's *)
(* identities come up is Go's map order: any.                              *)
(***************************************************************************)
EXTENDS Naturals, Absent

CONSTANTS Searchers,   \* the goroutines that share the finder
          Managers,    \* dependency managers
          Ids,         \* what a manager can hold
          Starts,      \* what callers ask about: the managers of pages and outputs
          Changes,     \* the changed identities the finder is asked about
          Match,       \* Match[c]: the identities that doCheckOne takes for c
          Carries,     \* Carries[v]: the manager of v, or None
          First,       \* First[v]: [id, manager] when v is a find-first provider, else None
          Limits,      \* the depth limits callers pass; NoLimit stands for -1
          NoLimit, Outer,
          Graphs,      \* what the managers may hold
          MaxQueries   \* bound: questions asked of one finder

(* FinderResult: the larger, the surer *)
NotFound   == 0
Repetition == 1
OneOfMany  == 2
Found      == 3
Results    == 0..3

Better(a, b) == IF a > b THEN a ELSE b

(* Where a search may be.                                                   *)
Places == Managers \cup {Outer}

(* One call of search: the identities left, the one in hand and what is     *)
(* still to do with it, the best result, and the search that called it.     *)
Frames == [todo : SUBSET Ids, hand : Ids \cup {None},
           doing : {"next", "first", "own"}, best : Results,
           level : Nat, from : Places \cup {None}]

Questions == [id : Changes, in : Starts, limit : Limits]

ASSUME FinderAssumption ==
  /\ Starts \subseteq Ids /\ None \notin Ids
  /\ None \notin Managers /\ Outer \notin Managers /\ None # Outer
  /\ Match \in [Changes -> SUBSET Ids]
  /\ Carries \in [Ids -> Managers \cup {None}]
  /\ First \in [Ids -> [id : Ids, manager : Managers] \cup {None}]
  /\ None \notin [id : Ids, manager : Managers]
  /\ Graphs \subseteq [Managers -> SUBSET Ids]
  /\ Limits \subseteq Nat \cup {NoLimit}
  /\ None \notin Frames /\ None \notin Results
  /\ MaxQueries \in Nat

VARIABLES holds,     \* what every manager holds during this rebuild
          answers,   \* f.answers
          spotted,   \* f.seenFindOnce
          asked,     \* the question a searcher works on: [id, in, limit]
          at,        \* the manager its search is in, Outer before the first, None when idle
          frame,     \* its searches under way, and (a frame at all) its sid.seen
          told,      \* the last answer it got
          queries    \* questions asked so far

finderVars == <<holds, answers, spotted, asked, at, frame, told, queries>>

FinderTypeOK ==
  /\ holds \in Graphs
  /\ answers \in [Managers \X Changes -> (Results \ {OneOfMany}) \cup {None}]
  /\ spotted \subseteq Ids
  /\ asked \in [Searchers -> Questions \cup {None}]
  /\ at \in [Searchers -> Places \cup {None}]
  /\ frame \in [Searchers -> [Places -> Frames \cup {None}]]
  /\ told \in [Searchers -> Results \cup {None}]
  /\ queries \in 0..MaxQueries

FinderInit ==
  /\ holds \in Graphs
  /\ answers = [q \in Managers \X Changes |-> None]
  /\ spotted = {}
  /\ asked = [s \in Searchers |-> None]
  /\ at = [s \in Searchers |-> None]
  /\ frame = [s \in Searchers |-> [m \in Places |-> None]]
  /\ told = [s \in Searchers |-> None]
  /\ queries = 0

Asks(s, id, in, limit) ==
  /\ at[s] = None /\ queries < MaxQueries
  /\ queries' = queries + 1
  /\ asked' = [asked EXCEPT ![s] = [id |-> id, in |-> in, limit |-> limit]]
  /\ at' = [at EXCEPT ![s] = Outer]
  /\ told' = [told EXCEPT ![s] = None]

OuterFrame(in) == [todo |-> {in}, hand |-> None, doing |-> "next",
                   best |-> NotFound, level |-> 0, from |-> None]

(* Mutant: putSearchID does not empty sid.seen.                             *)
ContainsKeepsSeen(s, id, in, limit) ==
  /\ Asks(s, id, in, limit)
  /\ frame' = [frame EXCEPT ![s][Outer] = OuterFrame(in)]
  /\ UNCHANGED <<holds, answers, spotted>>

(* Contains: the question starts with the identity itself in hand.          *)
Contains(s, id, in, limit) ==
  /\ Asks(s, id, in, limit)
  /\ frame' = [frame EXCEPT ![s] =
                 [m \in Places |-> IF m = Outer THEN OuterFrame(in) ELSE None]]
  /\ UNCHANGED <<holds, answers, spotted>>

Here(s) == frame[s][at[s]]

Put(s, f) == frame' = [frame EXCEPT ![s][at[s]] = f]

(* doCheckOne: is v, or what it wraps, the changed identity?                *)
IsOne(v, id) == v \in Match[id]

(* The identity v is taken in hand and counts as r; what is next is to be   *)
(* done with it.                                                            *)
Count(f, v, r, next) ==
  [f EXCEPT !.todo = @ \ {v}, !.hand = v, !.best = Better(@, r), !.doing = next]

(* checkOne, up to its own checkManager: a find-first provider counts once  *)
(* for the whole rebuild.                                                   *)
CheckOne(s) ==
  /\ at[s] # None /\ Here(s).doing = "next" /\ Here(s).best # Found
  /\ \E v \in Here(s).todo :
       LET id == asked[s].id
           first == First[v].id
       IN  \/ /\ First[v] = None /\ IsOne(v, id)
              /\ Put(s, Count(Here(s), v, Found, "next")) /\ UNCHANGED spotted
           \/ /\ First[v] = None /\ ~IsOne(v, id)
              /\ Put(s, Count(Here(s), v, NotFound, "own")) /\ UNCHANGED spotted
           \/ /\ First[v] # None /\ first \in spotted
              /\ Put(s, Count(Here(s), v, Repetition, "own")) /\ UNCHANGED spotted
           \/ /\ First[v] # None /\ first \notin spotted /\ IsOne(first, id)
              /\ Put(s, Count(Here(s), v, OneOfMany, "own"))
              /\ spotted' = spotted \cup {first}
           \/ /\ First[v] # None /\ first \notin spotted /\ ~IsOne(first, id)
              /\ Put(s, Count(Here(s), v, NotFound, "first")) /\ UNCHANGED spotted
  /\ UNCHANGED <<holds, answers, asked, at, told, queries>>

(* What a frame makes of the result of the checkManager it waits for.       *)
(* A find-first hit is a hit for the first search only: double-checked      *)
(* under the lock.                                                          *)
Hit(f, r) == f.doing = "first" /\ r > Repetition

Took(f, r) ==
  IF f.doing = "first"
  THEN [f EXCEPT !.best = Better(@, IF r <= Repetition THEN r
                                    ELSE IF First[f.hand].id \in spotted
                                         THEN Repetition ELSE OneOfMany),
                 !.doing = "own"]
  ELSE [f EXCEPT !.best = Better(@, r), !.doing = "next", !.hand = None]

Mark(f, r) ==
  spotted' = IF Hit(f, r) THEN spotted \cup {First[f.hand].id} ELSE spotted

(* the manager the frame in hand goes into next, and how deep it is         *)
Target(f) == IF f.doing = "first" THEN First[f.hand].manager ELSE Carries[f.hand]

Depth(s) == IF at[s] = Outer THEN 0
            ELSE IF Here(s).doing = "first" THEN Here(s).level ELSE Here(s).level + 1

TooDeep(s) == asked[s].limit # NoLimit /\ Depth(s) > asked[s].limit

(* checkManager when it answers at once: too deep, no manager, a manager    *)
(* this search has been in, or an answer from before.                       *)
Cut(s, m) == TooDeep(s) \/ m = None \/ (m \in Managers /\ frame[s][m] # None)

AtOnce(s, m) == IF Cut(s, m) THEN NotFound ELSE answers[<<m, asked[s].id>>]

Remembered(s, m) == ~Cut(s, m) /\ answers[<<m, asked[s].id>>] # None

(* The answer from before counts as being in the manager, so a second way   *)
(* to it in the same search finds nothing.                                  *)
CheckManagerAtOnce(s) ==
  /\ at[s] # None /\ Here(s).doing # "next"
  /\ LET m == Target(Here(s))
         r == AtOnce(s, m)
         up == at[s]
     IN  /\ r # None
         /\ frame' = [frame EXCEPT ![s] = [n \in Places |->
                CASE n = up -> Took(@[n], r)
                  [] n = m /\ Remembered(s, m) ->
                       [todo |-> {}, hand |-> None, doing |-> "next",
                        best |-> r, level |-> Depth(s), from |-> up]
                  [] OTHER -> @[n]]]
         /\ Mark(Here(s), r)
  /\ UNCHANGED <<holds, answers, asked, at, told, queries>>

(* checkManager, search: go through everything the manager holds.           *)
CheckManagerSearch(s) ==
  /\ at[s] # None /\ Here(s).doing # "next"
  /\ LET m == Target(Here(s))
     IN  /\ AtOnce(s, m) = None
         /\ frame' = [frame EXCEPT ![s][m] =
                        [todo |-> holds[m], hand |-> None, doing |-> "next",
                         best |-> NotFound, level |-> Depth(s), from |-> at[s]]]
         /\ at' = [at EXCEPT ![s] = m]
  /\ UNCHANGED <<holds, answers, spotted, asked, told, queries>>

Ended(f) == f.doing = "next" /\ (f.todo = {} \/ f.best = Found)

(* Mutant: "one of many" is kept too.                                       *)
KeepAll(m, id, r) == answers' = [answers EXCEPT ![<<m, id>>] = r]

(* Mutant: answers are kept per manager, whatever the identity was.         *)
KeepForManager(m, id, r) ==
  answers' = [q \in DOMAIN answers |->
                IF q[1] = m /\ r # OneOfMany THEN r ELSE answers[q]]

(* the answer of a search is kept, unless it says "one of many"             *)
Keep(m, id, r) ==
  answers' = IF r = OneOfMany THEN answers
             ELSE [answers EXCEPT ![<<m, id>>] = r]

SearchReturns(s) ==
  /\ at[s] \in Managers /\ Ended(Here(s))
  /\ LET r == Here(s).best
         up == Here(s).from
     IN  /\ Keep(at[s], asked[s].id, r)
         /\ frame' = [frame EXCEPT ![s][up] = Took(@, r)]
         /\ Mark(frame[s][up], r)
         /\ at' = [at EXCEPT ![s] = up]
  /\ UNCHANGED <<holds, asked, told, queries>>

ContainsReturns(s) ==
  /\ at[s] = Outer /\ Ended(Here(s))
  /\ told' = [told EXCEPT ![s] = Here(s).best]
  /\ at' = [at EXCEPT ![s] = None]
  /\ UNCHANGED <<holds, answers, spotted, asked, frame, queries>>

FinderNext ==
  \E s \in Searchers :
    \/ \E id \in Changes, in \in Starts, limit \in Limits : Contains(s, id, in, limit)
    \/ CheckOne(s)
    \/ CheckManagerAtOnce(s)
    \/ CheckManagerSearch(s)
    \/ SearchReturns(s)
    \/ ContainsReturns(s)

FinderSpec == FinderInit /\ [][FinderNext]_finderVars
-----------------------------------------------------------------------------
(* What an answer is measured against: the graph itself.                    *)

Through(v) == {Carries[v]} \cup
              (IF First[v] = None THEN {} ELSE {First[v].manager})

Closed(S) == \A v \in S : \A m \in Through(v) \cap Managers : holds[m] \subseteq S

Hits(v, id) == IF First[v] = None THEN IsOne(v, id) ELSE IsOne(First[v].id, id)

Reaches(V, id) ==
  \A S \in SUBSET Ids : V \subseteq S /\ Closed(S) => \E v \in S : Hits(v, id)

(* A "yes" is never made up: an output that a rebuild resets (a result      *)
(* above Repetition) does depend on the change, whatever the finder         *)
(* remembered from other questions, other searchers and other limits.       *)
FindsOnlyDependents ==
  \A s \in Searchers :
    told[s] # None /\ told[s] > Repetition => Reaches({asked[s].in}, asked[s].id)

(* The searched graph has no cycle: some order of the managers has every    *)
(* manager lead to later ones only.                                         *)
Below(m) == UNION {Through(v) \cap Managers : v \in holds[m]}

Acyclic ==
  \A M \in SUBSET Managers : M # {} => \E m \in M : Below(m) \cap M = {}

(* FinderConfig's comment: "we don't want to have any false negatives       *)
(* there".                                                                  *)
NoFalseNegatives ==
  \A s \in Searchers :
    told[s] = NotFound => ~Reaches({asked[s].in}, asked[s].id)

(* A "no" can be relied on when no limit cuts a search short, the managers  *)
(* form no cycle, and no find-first provider is held or asked about.        *)
PlainSearch ==
  /\ Limits = {NoLimit} /\ Acyclic
  /\ \A v \in Starts : First[v] = None
  /\ \A m \in Managers : \A v \in holds[m] : First[v] = None

NoFalseNegativesWithoutCycles == PlainSearch => NoFalseNegatives
=============================================================================
