---------------------------- MODULE FinderProofs ----------------------------
(* Theorems about Finder, for any managers, graphs, questions and limits.   *)
EXTENDS Finder, TLAPS

\* What the frame of a manager, or the outermost one, goes through.
Base(q, m) == IF m = Outer THEN {q.in} ELSE holds[m]

\* A frame goes through what its manager holds, was entered from something held
\* by the manager it came from, which has a frame too, and makes no "yes" up.
FrameOK(fr, q, m) ==
  /\ fr[m].todo \subseteq Base(q, m)
  /\ fr[m].hand # None => fr[m].hand \in Base(q, m)
  /\ fr[m].doing # "next" => fr[m].hand # None
  /\ fr[m].doing = "first" => First[fr[m].hand] # None
  /\ fr[m].best > Repetition => Reaches(Base(q, m), q.id)
  /\ m \in Managers => /\ fr[m].from \in Places /\ fr[fr[m].from] # None
                       /\ \E v \in Base(q, fr[m].from) : m \in Through(v)

FrameFunctions == [Places -> Frames \cup {None}]

FramesOK(fr, q) == \A m \in Places : fr[m] # None => FrameOK(fr, q, m)

\* A searcher that is somewhere has a question and a frame there.
StackInv ==
  \A s \in Searchers :
    /\ at[s] # None \/ told[s] # None => asked[s] \in Questions
    /\ at[s] # None => frame[s][at[s]] # None /\ FramesOK(frame[s], asked[s])

\* What is remembered is not made up either.
AnswersInv ==
  \A m \in Managers, c \in Changes :
    answers[<<m, c>>] # None /\ answers[<<m, c>>] > Repetition => Reaches(holds[m], c)

\* A manager is not one of the two marks.
LEMMA PlacesApart == /\ Outer \notin Managers /\ None \notin Managers /\ None \notin Places
               /\ None \notin Ids /\ None \notin Frames
               /\ Places = Managers \cup {Outer} /\ Outer \in Places
BY FinderAssumption DEF Places

\* What the tables of the assumption hold.
LEMMA Tables ==
  /\ \A v \in Ids : Carries[v] \in Managers \cup {None}
  /\ \A v \in Ids : First[v] # None => First[v].id \in Ids /\ First[v].manager \in Managers
  /\ \A v \in Ids : Through(v) \subseteq Managers \cup {None}
BY FinderAssumption DEF Through

\* Took leaves the frame with the same identities and the same caller, and
\* closer to its next identity.
LEMMA TookType ==
  ASSUME NEW f \in Frames, NEW r \in Results
  PROVE  /\ Took(f, r) \in Frames
         /\ Took(f, r).todo = f.todo /\ Took(f, r).from = f.from
         /\ Took(f, r).hand \in {f.hand, None}
         /\ Took(f, r).doing \in {"next", "own"}
         /\ Took(f, r).doing = "own" => Took(f, r).hand = f.hand /\ f.doing = "first"
         /\ Took(f, r).best > Repetition => f.best > Repetition \/ r > Repetition
<1> DEFINE best == IF r <= Repetition THEN r
                   ELSE IF First[f.hand].id \in spotted THEN Repetition ELSE OneOfMany
<1>1. best \in Results /\ (best > Repetition => r > Repetition)
  BY DEF Results, Repetition, OneOfMany
<1>2. \A x \in Results : Better(f.best, x) \in Results /\
         (Better(f.best, x) > Repetition => f.best > Repetition \/ x > Repetition)
  BY DEF Better, Results, Frames
<1>3. CASE f.doing = "first"
  <2>1. Took(f, r) = [f EXCEPT !.best = Better(f.best, best), !.doing = "own"]
    BY <1>3 DEF Took
  <2>2. Better(f.best, best) \in Results /\
          (Better(f.best, best) > Repetition => f.best > Repetition \/ r > Repetition)
    BY <1>1, <1>2
  <2> HIDE DEF best
  <2> QED BY <1>3, <2>1, <2>2 DEF Frames
<1>4. CASE f.doing # "first"
  <2>1. Took(f, r) = [f EXCEPT !.best = Better(f.best, r), !.doing = "next", !.hand = None]
    BY <1>4 DEF Took
  <2> QED BY <1>2, <1>4, <2>1 DEF Frames
<1> QED BY <1>3, <1>4

\* One frame of a question changes.
LEMMA OneFrame ==
  ASSUME NEW fr \in FrameFunctions, NEW q, FramesOK(fr, q),
         NEW x \in Places, NEW g \in Frames,
         g.todo \subseteq Base(q, x),
         g.hand # None => g.hand \in Base(q, x),
         g.doing # "next" => g.hand # None,
         g.doing = "first" => First[g.hand] # None,
         g.best > Repetition => Reaches(Base(q, x), q.id),
         x \in Managers => /\ g.from \in Places /\ fr[g.from] # None
                           /\ \E v \in Base(q, g.from) : x \in Through(v)
  PROVE  /\ [fr EXCEPT ![x] = g] \in FrameFunctions
         /\ [fr EXCEPT ![x] = g][x] = g /\ g # None
         /\ FramesOK([fr EXCEPT ![x] = g], q)
<1> DEFINE fr2 == [fr EXCEPT ![x] = g]
<1>1. g # None
  BY PlacesApart
<1>2. fr2 \in FrameFunctions /\ fr2[x] = g /\ \A m \in Places \ {x} : fr2[m] = fr[m]
  BY DEF FrameFunctions
<1>3. \A m \in Places : fr[m] # None => fr2[m] # None
  BY <1>1, <1>2
<1> HIDE DEF fr2
<1>4. ASSUME NEW m \in Places, fr2[m] # None PROVE FrameOK(fr2, q, m)
  <2>1. CASE m = x
    BY <1>2, <1>3, <2>1 DEF FrameOK
  <2>2. CASE m # x
    <3>1. FrameOK(fr, q, m)
      BY <1>2, <1>4, <2>2 DEF FramesOK
    <3> QED BY <1>2, <1>3, <2>2, <3>1 DEF FrameOK
  <2> QED BY <2>1, <2>2
<1>5. FramesOK(fr2, q)
  BY <1>4 DEF FramesOK
<1> QED BY <1>1, <1>2, <1>5 DEF fr2

\* A frame that waits for checkManager gets its result.
LEMMA TookFrame ==
  ASSUME NEW fr \in FrameFunctions, NEW q, FramesOK(fr, q),
         NEW x \in Places, fr[x] # None, NEW r \in Results,
         r > Repetition => Reaches(Base(q, x), q.id)
  PROVE  /\ [fr EXCEPT ![x] = Took(fr[x], r)] \in FrameFunctions
         /\ Took(fr[x], r) \in Frames /\ Took(fr[x], r) # None
         /\ [fr EXCEPT ![x] = Took(fr[x], r)][x] = Took(fr[x], r)
         /\ FramesOK([fr EXCEPT ![x] = Took(fr[x], r)], q)
<1>1. fr[x] \in Frames
  BY DEF FrameFunctions
<1> DEFINE g == Took(fr[x], r)
<1>2. /\ g \in Frames /\ g.todo = fr[x].todo /\ g.from = fr[x].from
      /\ g.hand \in {fr[x].hand, None} /\ g.doing \in {"next", "own"}
      /\ g.doing = "own" => g.hand = fr[x].hand /\ fr[x].doing = "first"
      /\ g.best > Repetition => fr[x].best > Repetition \/ r > Repetition
  BY <1>1, TookType
<1>3. FrameOK(fr, q, x)
  BY DEF FramesOK
<1> HIDE DEF g
<1>4. /\ g.todo \subseteq Base(q, x)
      /\ g.hand # None => g.hand \in Base(q, x)
      /\ g.doing # "next" => g.hand # None
      /\ g.doing # "first"
      /\ g.best > Repetition => Reaches(Base(q, x), q.id)
      /\ x \in Managers => /\ g.from \in Places /\ fr[g.from] # None
                           /\ \E v \in Base(q, g.from) : x \in Through(v)
  BY <1>2, <1>3 DEF FrameOK
<1>5. /\ [fr EXCEPT ![x] = g] \in FrameFunctions
      /\ [fr EXCEPT ![x] = g][x] = g /\ g # None
      /\ FramesOK([fr EXCEPT ![x] = g], q)
  BY <1>2, <1>4, OneFrame
<1> QED BY <1>2, <1>5 DEF g

\* What a set of identities reaches: what is in it, and what the managers of
\* what is in it hold.
LEMMA ReachesOne == ASSUME NEW V, NEW v \in V, NEW id, Hits(v, id) PROVE Reaches(V, id)
BY DEF Reaches

LEMMA ReachesOn ==
  ASSUME NEW V, NEW v \in V, NEW id, NEW m \in Managers, m \in Through(v), Reaches(holds[m], id)
  PROVE  Reaches(V, id)
<1> SUFFICES ASSUME NEW S \in SUBSET Ids, V \subseteq S, Closed(S) PROVE \E w \in S : Hits(w, id)
  BY DEF Reaches
<1>1. holds[m] \subseteq S
  BY DEF Closed
<1> QED BY <1>1 DEF Reaches

FinderInv == FinderTypeOK /\ StackInv /\ AnswersInv /\ FindsOnlyDependents

\* The graph stays, and with it what can be reached.
LEMMA SameGraph ==
  ASSUME holds' = holds
  PROVE  /\ \A V, id : Reaches(V, id)' <=> Reaches(V, id)
         /\ \A q, m : Base(q, m)' = Base(q, m)
         /\ \A fr, q : FramesOK(fr, q)' <=> FramesOK(fr, q)
<1>1. \A V, id : Reaches(V, id)' <=> Reaches(V, id)
  BY DEF Reaches, Closed
<1>2. \A q, m : Base(q, m)' = Base(q, m)
  BY DEF Base
<1>3. \A fr, q : FramesOK(fr, q)' <=> FramesOK(fr, q)
  BY <1>1, <1>2 DEF FramesOK, FrameOK
<1> QED BY <1>1, <1>2, <1>3

AnswerTables == [Managers \X Changes -> (Results \ {OneOfMany}) \cup {None}]

\* A step of a search: its frames change, and where it is.
LEMMA SearchStep ==
  ASSUME FinderInv, NEW s \in Searchers, at[s] # None,
         NEW fr \in FrameFunctions, FramesOK(fr, asked[s]),
         NEW p \in Places, fr[p] # None,
         frame' = [frame EXCEPT ![s] = fr], at' = [at EXCEPT ![s] = p],
         UNCHANGED <<holds, asked, told, queries>>,
         spotted' \subseteq Ids, answers' \in AnswerTables, AnswersInv'
  PROVE  FinderInv'
<1> USE DEF FinderInv
<1>1. FinderTypeOK'
  BY DEF FinderTypeOK, FrameFunctions, AnswerTables
<1>2. StackInv'
  <2>1. p # None
    BY PlacesApart
  <2>2. \A t \in Searchers : t # s => frame'[t] = frame[t] /\ at'[t] = at[t]
    BY DEF FinderTypeOK
  <2>3. frame'[s] = fr /\ at'[s] = p
    BY DEF FinderTypeOK
  <2> QED BY <2>1, <2>2, <2>3, SameGraph DEF StackInv
<1>3. FindsOnlyDependents'
  BY SameGraph DEF FindsOnlyDependents
<1> QED BY <1>1, <1>2, <1>3

\* A question begins: the frames of the one before are forgotten.
LEMMA ContainsStep ==
  ASSUME FinderInv, NEW s \in Searchers, NEW id \in Changes, NEW in \in Starts, NEW limit \in Limits,
         Contains(s, id, in, limit)
  PROVE  FinderInv'
<1> USE DEF FinderInv
<1> DEFINE q == [id |-> id, in |-> in, limit |-> limit]
           fr == [m \in Places |-> IF m = Outer THEN OuterFrame(in) ELSE None]
<1>1. q \in Questions /\ q.in = in /\ q.id = id
  BY DEF Questions
<1>2. /\ asked' = [asked EXCEPT ![s] = q] /\ at' = [at EXCEPT ![s] = Outer]
      /\ told' = [told EXCEPT ![s] = None] /\ frame' = [frame EXCEPT ![s] = fr]
      /\ queries < MaxQueries /\ queries' = queries + 1
      /\ UNCHANGED <<holds, answers, spotted>>
  BY DEF Contains, Asks
<1>3. OuterFrame(in) \in Frames
  BY FinderAssumption DEF OuterFrame, Frames, NotFound, Results
<1>4. fr \in FrameFunctions /\ fr[Outer] # None /\ \A m \in Places : fr[m] # None => m = Outer
  BY <1>3, PlacesApart DEF FrameFunctions
<1>5. FramesOK(fr, q)
  <2>1. FrameOK(fr, q, Outer)
    <3>1. fr[Outer] = OuterFrame(in)
      BY PlacesApart
    <3> QED BY <1>1, <3>1, PlacesApart DEF FrameOK, OuterFrame, Base, NotFound, Repetition
  <2> QED BY <1>4, <2>1 DEF FramesOK
<1> HIDE DEF q, fr
<1>6. FinderTypeOK'
  <2>1. queries' \in 0..MaxQueries
    BY <1>2, FinderAssumption DEF FinderTypeOK
  <2>2. /\ asked' \in [Searchers -> Questions \cup {None}]
        /\ at' \in [Searchers -> Places \cup {None}]
        /\ frame' \in [Searchers -> [Places -> Frames \cup {None}]]
        /\ told' \in [Searchers -> Results \cup {None}]
    BY <1>1, <1>2, <1>4, PlacesApart DEF FinderTypeOK, FrameFunctions
  <2> QED BY <1>2, <2>1, <2>2 DEF FinderTypeOK
<1>7. StackInv'
  <2>1. frame'[s] = fr /\ at'[s] = Outer /\ asked'[s] = q
    BY <1>2 DEF FinderTypeOK
  <2>2. \A t \in Searchers \ {s} : /\ frame'[t] = frame[t] /\ at'[t] = at[t]
                                  /\ asked'[t] = asked[t] /\ told'[t] = told[t]
    BY <1>2 DEF FinderTypeOK
  <2> QED BY <1>1, <1>2, <1>4, <1>5, <2>1, <2>2, SameGraph DEF StackInv
<1>8. AnswersInv'
  BY <1>2, SameGraph DEF AnswersInv
<1>9. FindsOnlyDependents'
  BY <1>2, SameGraph DEF FindsOnlyDependents, FinderTypeOK
<1> QED BY <1>6, <1>7, <1>8, <1>9

\* What a search that goes on knows of its frame.
LEMMA HereOK ==
  ASSUME FinderInv, NEW s \in Searchers, at[s] # None
  PROVE  /\ at[s] \in Places /\ frame[s] \in FrameFunctions /\ Here(s) = frame[s][at[s]]
         /\ Here(s) \in Frames /\ Here(s) # None
         /\ FramesOK(frame[s], asked[s]) /\ FrameOK(frame[s], asked[s], at[s])
         /\ asked[s] \in Questions /\ asked[s].id \in Changes /\ asked[s].in \in Starts
         /\ Base(asked[s], at[s]) \subseteq Ids
         /\ Here(s).todo \subseteq Base(asked[s], at[s])
         /\ Here(s).doing # "next" => Here(s).hand \in Base(asked[s], at[s]) /\ Here(s).hand \in Ids
<1> USE DEF FinderInv
<1>1. /\ at[s] \in Places /\ frame[s] \in FrameFunctions /\ Here(s) = frame[s][at[s]]
      /\ Here(s) # None
  BY DEF FinderTypeOK, StackInv, FrameFunctions, Here
<1>2. Here(s) \in Frames
  BY <1>1 DEF FrameFunctions
<1>3. asked[s] \in Questions /\ FramesOK(frame[s], asked[s])
  BY DEF StackInv
<1>4. asked[s].id \in Changes /\ asked[s].in \in Starts
  BY <1>3 DEF Questions
<1>5. FrameOK(frame[s], asked[s], at[s])
  BY <1>1, <1>3 DEF FramesOK
<1>6. Base(asked[s], at[s]) \subseteq Ids
  BY <1>1, <1>4, FinderAssumption DEF Base, FinderTypeOK, Places
<1>7. /\ Here(s).todo \subseteq Base(asked[s], at[s])
      /\ Here(s).doing # "next" => Here(s).hand \in Base(asked[s], at[s])
  BY <1>1, <1>5 DEF FrameOK
<1> QED BY <1>1, <1>2, <1>3, <1>4, <1>5, <1>6, <1>7

\* checkOne counts what it has in hand: the changed identity itself, or a
\* find-first provider of it.
LEMMA CheckOneStep == ASSUME FinderInv, NEW s \in Searchers, CheckOne(s) PROVE FinderInv'
<1> DEFINE q == asked[s]
<1>1. at[s] # None /\ Here(s).doing = "next"
  BY DEF CheckOne
<1>2. PICK v \in Here(s).todo, b \in Results, d \in {"next", "own", "first"} :
        /\ Put(s, Count(Here(s), v, b, d))
        /\ b > Repetition => Hits(v, q.id)
        /\ d = "first" => First[v] # None
        /\ spotted' = spotted \/ (First[v] # None /\ spotted' = spotted \cup {First[v].id})
  <2>1. Found \in Results /\ NotFound \in Results /\ Repetition \in Results /\ OneOfMany \in Results
        /\ ~(NotFound > Repetition) /\ ~(Repetition > Repetition)
    BY DEF Results, NotFound, Repetition, OneOfMany, Found
  <2> QED BY <2>1, Zenon DEF CheckOne, Hits
<1> DEFINE g == Count(Here(s), v, b, d)
           fr == [frame[s] EXCEPT ![at[s]] = g]
<1>3. v \in Base(q, at[s]) /\ v \in Ids
  BY <1>1, HereOK
<1>4. /\ g \in Frames /\ g.todo \subseteq Here(s).todo /\ g.hand = v /\ g.doing = d
      /\ g.from = Here(s).from /\ (g.best > Repetition => Here(s).best > Repetition \/ b > Repetition)
  <2>1. Here(s) \in Frames
    BY <1>1, HereOK
  <2>2. Better(Here(s).best, b) \in Results /\
          (Better(Here(s).best, b) > Repetition => Here(s).best > Repetition \/ b > Repetition)
    BY <2>1 DEF Frames, Better, Results
  <2> QED BY <1>3, <2>1, <2>2 DEF Frames, Count
<1>5. g.best > Repetition => Reaches(Base(q, at[s]), q.id)
  BY <1>1, <1>2, <1>3, <1>4, HereOK, ReachesOne DEF FrameOK
<1> HIDE DEF g
<1>6. fr \in FrameFunctions /\ fr[at[s]] # None /\ FramesOK(fr, q)
  BY <1>1, <1>2, <1>3, <1>4, <1>5, HereOK, OneFrame, PlacesApart DEF FrameOK
<1>7. frame' = [frame EXCEPT ![s] = fr] /\ at' = [at EXCEPT ![s] = at[s]]
  BY <1>1, <1>2, HereOK DEF CheckOne, Put, FinderInv, FinderTypeOK, g
<1>8. spotted' \subseteq Ids
  BY <1>2, <1>3, Tables DEF FinderInv, FinderTypeOK
<1>9. UNCHANGED <<holds, answers, asked, told, queries>>
  BY DEF CheckOne
<1>10. answers' \in AnswerTables /\ AnswersInv'
  BY <1>9, SameGraph DEF FinderInv, FinderTypeOK, AnswersInv, AnswerTables
<1> QED BY <1>1, <1>6, <1>7, <1>8, <1>9, <1>10, HereOK, SearchStep

\* The manager the identity in hand leads into is one it goes through.
LEMMA TargetThrough ==
  ASSUME FinderInv, NEW s \in Searchers, at[s] # None, Here(s).doing # "next",
         Target(Here(s)) \in Managers
  PROVE  \E v \in Base(asked[s], at[s]) : Target(Here(s)) \in Through(v)
<1>1. Here(s).hand \in Base(asked[s], at[s])
  BY HereOK
<1>2. Here(s).doing = "first" => First[Here(s).hand] # None
  BY HereOK DEF FrameOK
<1> QED BY <1>1, <1>2 DEF Target, Through

\* How deep a search is.
LEMMA DepthNat == ASSUME FinderInv, NEW s \in Searchers, at[s] # None PROVE Depth(s) \in Nat
BY HereOK DEF Depth, Frames

\* A find-first provider is marked by its own identity.
LEMMA MarkType ==
  ASSUME FinderInv, NEW f \in Frames, NEW r, f.hand # None,
         f.doing = "first" => First[f.hand] # None, Mark(f, r)
  PROVE  spotted' \subseteq Ids
<1>1. f.hand \in Ids
  BY DEF Frames
<1> QED BY <1>1, Tables DEF Mark, Hit, FinderInv, FinderTypeOK

\* checkManager answers at once: what it remembers was not made up.
LEMMA CheckManagerAtOnceStep ==
  ASSUME FinderInv, NEW s \in Searchers, CheckManagerAtOnce(s) PROVE FinderInv'
<1> DEFINE q == asked[s]
           m == Target(Here(s))
           r == AtOnce(s, m)
           up == at[s]
           took == [frame[s] EXCEPT ![up] = Took(frame[s][up], r)]
           g == [todo |-> {}, hand |-> None, doing |-> "next",
                 best |-> r, level |-> Depth(s), from |-> up]
           fr == IF m # up /\ m \in Places /\ Remembered(s, m) THEN [took EXCEPT ![m] = g] ELSE took
<1>1. at[s] # None /\ Here(s).doing # "next" /\ r # None /\ Mark(Here(s), r)
  BY DEF CheckManagerAtOnce
<1>2. ~Cut(s, m) => m \in Managers /\ frame[s][m] = None
  <2>1. m \in Managers \cup {None}
    BY <1>1, HereOK, Tables DEF Target, FrameOK
  <2> QED BY <2>1 DEF Cut
<1>3. r \in Results /\ (r > Repetition => m \in Managers /\ Reaches(holds[m], q.id))
  <2>1. CASE Cut(s, m)
    BY <2>1 DEF AtOnce, NotFound, Repetition, Results
  <2>2. CASE ~Cut(s, m)
    <3>1. r = answers[<<m, q.id>>] /\ m \in Managers /\ q.id \in Changes
      BY <1>1, <1>2, <2>2, HereOK DEF AtOnce
    <3> HIDE DEF m, r
    <3>2. r \in Results
      BY <1>1, <3>1 DEF FinderInv, FinderTypeOK
    <3> QED BY <1>1, <3>1, <3>2 DEF FinderInv, AnswersInv
  <2> QED BY <2>1, <2>2
<1>4. frame' = [frame EXCEPT ![s] = fr]
  <2>1. frame' = [frame EXCEPT ![s] = [n \in Places |->
                    CASE n = up -> Took(frame[s][n], r)
                      [] n = m /\ Remembered(s, m) -> g
                      [] OTHER -> frame[s][n]]]
    BY DEF CheckManagerAtOnce, FinderInv, FinderTypeOK
  <2>2. frame[s] \in [Places -> Frames \cup {None}] /\ up \in Places
    BY <1>1, HereOK DEF FrameFunctions
  <2> HIDE DEF m, r, g, up
  <2>3. fr = [n \in Places |->
                    CASE n = up -> Took(frame[s][n], r)
                      [] n = m /\ Remembered(s, m) -> g
                      [] OTHER -> frame[s][n]]
    BY <2>2
  <2> HIDE DEF fr
  <2> QED BY <2>1, <2>3
<1>5. r > Repetition => Reaches(Base(q, up), q.id)
  BY <1>1, <1>3, TargetThrough, ReachesOn
<1>6. /\ took \in FrameFunctions /\ took[up] # None /\ FramesOK(took, q)
  <2> HIDE DEF m, r
  <2> QED BY <1>1, <1>3, <1>5, HereOK, TookFrame
<1>7. fr \in FrameFunctions /\ fr[up] # None /\ FramesOK(fr, q)
  <2>1. CASE m # up /\ m \in Places /\ Remembered(s, m)
    <3>1. fr = [took EXCEPT ![m] = g] /\ m \in Managers
      BY <1>2, <2>1 DEF Remembered
    <3>2. Base(q, m) = holds[m]
      BY <3>1, PlacesApart DEF Base
    <3>3. \E v \in Base(q, up) : m \in Through(v)
      BY <1>1, <3>1, TargetThrough
    <3>4. up \in Places /\ Depth(s) \in Nat
      BY <1>1, HereOK, DepthNat
    <3> HIDE DEF m, r, up, took
    <3>5. g \in Frames /\ g.todo = {} /\ g.hand = None /\ g.doing = "next" /\ g.best = r /\ g.from = up
      BY <1>3, <3>4 DEF Frames
    <3>6. took[up] # None /\ took \in FrameFunctions /\ FramesOK(took, q)
      BY <1>6
    <3>7. r > Repetition => Reaches(Base(q, m), q.id)
      BY <1>3, <3>2
    <3> HIDE DEF g, q
    <3>8. [took EXCEPT ![m] = g] \in FrameFunctions /\ FramesOK([took EXCEPT ![m] = g], q)
      BY <2>1, <3>3, <3>4, <3>5, <3>6, <3>7, OneFrame
    <3>9. [took EXCEPT ![m] = g][up] = took[up]
      BY <2>1, <3>4, <3>6 DEF FrameFunctions
    <3> QED BY <3>1, <3>6, <3>8, <3>9
  <2>2. CASE ~(m # up /\ m \in Places /\ Remembered(s, m))
    <3>1. fr = took
      BY <2>2
    <3> HIDE DEF fr, took
    <3> QED BY <1>6, <3>1
  <2> QED BY <2>1, <2>2
<1>8. spotted' \subseteq Ids
  BY <1>1, HereOK, PlacesApart, MarkType DEF FrameOK
<1>9. UNCHANGED <<holds, answers, asked, at, told, queries>>
  BY DEF CheckManagerAtOnce
<1>10. answers' \in AnswerTables /\ AnswersInv'
  BY <1>9, SameGraph DEF FinderInv, FinderTypeOK, AnswersInv, AnswerTables
<1>11. at' = [at EXCEPT ![s] = up] /\ up \in Places
  BY <1>1, <1>9, HereOK DEF FinderInv, FinderTypeOK
<1> HIDE DEF fr, up
<1> QED BY <1>4, <1>7, <1>8, <1>9, <1>10, <1>11, <1>1, SearchStep DEF up

\* checkManager goes into a manager.
LEMMA CheckManagerSearchStep ==
  ASSUME FinderInv, NEW s \in Searchers, CheckManagerSearch(s) PROVE FinderInv'
<1> DEFINE q == asked[s]
           m == Target(Here(s))
           g == [todo |-> holds[m], hand |-> None, doing |-> "next",
                 best |-> NotFound, level |-> Depth(s), from |-> at[s]]
           fr == [frame[s] EXCEPT ![m] = g]
<1>1. at[s] # None /\ Here(s).doing # "next" /\ AtOnce(s, m) = None
  BY DEF CheckManagerSearch
<1>2. m \in Managers
  <2>1. m \in Managers \cup {None}
    BY <1>1, HereOK, Tables DEF Target, FrameOK
  <2>2. ~Cut(s, m)
    <3>1. None \notin Results
      BY FinderAssumption
    <3>2. CASE Cut(s, m)
      BY <1>1, <3>1, <3>2 DEF AtOnce, NotFound, Results
    <3> QED BY <3>2
  <2> QED BY <2>1, <2>2 DEF Cut
<1>3. Base(q, m) = holds[m] /\ holds[m] \subseteq Ids
  BY <1>2, PlacesApart, FinderAssumption DEF Base, FinderInv, FinderTypeOK
<1>4. \E v \in Base(q, at[s]) : m \in Through(v)
  BY <1>1, <1>2, TargetThrough
<1>5. /\ at[s] \in Places /\ Depth(s) \in Nat /\ frame[s] \in FrameFunctions
      /\ frame[s][at[s]] # None /\ FramesOK(frame[s], q) /\ m \in Places
  BY <1>1, <1>2, HereOK, DepthNat DEF Places
<1>6. frame' = [frame EXCEPT ![s] = fr] /\ at' = [at EXCEPT ![s] = m]
  BY DEF CheckManagerSearch, FinderInv, FinderTypeOK
<1>7. UNCHANGED <<holds, answers, spotted, asked, told, queries>>
  BY DEF CheckManagerSearch
<1> HIDE DEF m
<1>8. /\ g \in Frames /\ g.todo = holds[m] /\ g.hand = None /\ g.doing = "next"
      /\ ~(g.best > Repetition) /\ g.from = at[s]
  BY <1>3, <1>5 DEF Frames, NotFound, Repetition, Results
<1> HIDE DEF g
<1>9. fr \in FrameFunctions /\ fr[m] # None /\ FramesOK(fr, q)
  BY <1>3, <1>4, <1>5, <1>8, OneFrame
<1>10. answers' \in AnswerTables /\ AnswersInv' /\ spotted' \subseteq Ids
  BY <1>7, SameGraph DEF FinderInv, FinderTypeOK, AnswersInv, AnswerTables
<1> HIDE DEF fr
<1> QED BY <1>1, <1>5, <1>6, <1>7, <1>9, <1>10, SearchStep

\* A search ends: its answer is kept and goes to the search that called it.
LEMMA SearchReturnsStep ==
  ASSUME FinderInv, NEW s \in Searchers, SearchReturns(s) PROVE FinderInv'
<1> DEFINE q == asked[s]
           m == at[s]
           r == Here(s).best
           up == Here(s).from
           fr == [frame[s] EXCEPT ![up] = Took(frame[s][up], r)]
<1>1. /\ m \in Managers /\ at[s] # None
      /\ Keep(m, q.id, r) /\ Mark(frame[s][up], r)
      /\ UNCHANGED <<holds, asked, told, queries>>
  BY PlacesApart DEF SearchReturns
<1>2. frame' = [frame EXCEPT ![s] = fr] /\ at' = [at EXCEPT ![s] = up]
  BY DEF SearchReturns, FinderInv, FinderTypeOK
<1>3. /\ r \in Results /\ q.id \in Changes /\ FramesOK(frame[s], q)
      /\ frame[s] \in FrameFunctions
  BY <1>1, HereOK DEF Frames
<1>4. /\ up \in Places /\ frame[s][up] # None
      /\ \E v \in Base(q, up) : m \in Through(v)
      /\ r > Repetition => Reaches(holds[m], q.id)
  BY <1>1, HereOK, PlacesApart DEF FrameOK, Base
<1>5. r > Repetition => Reaches(Base(q, up), q.id)
  BY <1>1, <1>4, ReachesOn
<1>6. frame[s][up] \in Frames /\ FrameOK(frame[s], q, up)
  BY <1>3, <1>4 DEF FrameFunctions, FramesOK
<1> HIDE DEF r, up
<1>7. /\ fr \in FrameFunctions /\ fr[up] # None /\ FramesOK(fr, q)
  BY <1>3, <1>4, <1>5, TookFrame
<1>8. spotted' \subseteq Ids
  <2>1. CASE frame[s][up].doing = "first"
    BY <1>1, <1>6, <2>1, MarkType DEF FrameOK
  <2>2. CASE frame[s][up].doing # "first"
    BY <1>1, <2>2 DEF Mark, Hit, FinderInv, FinderTypeOK
  <2> QED BY <2>1, <2>2
<1>9. answers \in AnswerTables
  BY DEF FinderInv, FinderTypeOK, AnswerTables
<1>10. answers' \in AnswerTables /\
         \A n \in Managers, c \in Changes :
            answers'[<<n, c>>] = answers[<<n, c>>] \/ (n = m /\ c = q.id /\ answers'[<<n, c>>] = r)
  BY <1>1, <1>3, <1>9 DEF Keep, AnswerTables
<1>11. AnswersInv'
  <2>1. \A n \in Managers, c \in Changes :
          answers'[<<n, c>>] # None /\ answers'[<<n, c>>] > Repetition => Reaches(holds[n], c)
    BY <1>4, <1>10 DEF FinderInv, AnswersInv
  <2> QED BY <1>1, <2>1, SameGraph DEF AnswersInv
<1> HIDE DEF fr
<1> QED BY <1>1, <1>2, <1>4, <1>7, <1>8, <1>10, <1>11, SearchStep

\* The outermost search ends: its best is the answer.
LEMMA ContainsReturnsStep ==
  ASSUME FinderInv, NEW s \in Searchers, ContainsReturns(s) PROVE FinderInv'
<1>1. /\ at[s] = Outer /\ at[s] # None
      /\ told' = [told EXCEPT ![s] = Here(s).best] /\ at' = [at EXCEPT ![s] = None]
      /\ UNCHANGED <<holds, answers, spotted, asked, frame, queries>>
  BY PlacesApart, FinderAssumption DEF ContainsReturns
<1>2. /\ Here(s).best \in Results
      /\ Here(s).best > Repetition => Reaches({asked[s].in}, asked[s].id)
  BY <1>1, HereOK DEF Frames, FrameOK, Base
<1>3. FinderTypeOK'
  BY <1>1, <1>2 DEF FinderInv, FinderTypeOK
<1>4. \A t \in Searchers \ {s} : told'[t] = told[t] /\ at'[t] = at[t]
  BY <1>1 DEF FinderInv, FinderTypeOK
<1>5. told'[s] = Here(s).best /\ at'[s] = None
  BY <1>1 DEF FinderInv, FinderTypeOK
<1>6. StackInv'
  BY <1>1, <1>4, <1>5, SameGraph DEF FinderInv, StackInv
<1>7. AnswersInv'
  BY <1>1, SameGraph DEF FinderInv, AnswersInv
<1>8. FindsOnlyDependents'
  <2>1. \A t \in Searchers : told'[t] # None /\ told'[t] > Repetition
                            => Reaches({asked[t].in}, asked[t].id)
    BY <1>2, <1>4, <1>5 DEF FinderInv, FindsOnlyDependents
  <2> QED BY <1>1, <2>1, SameGraph DEF FindsOnlyDependents
<1> QED BY <1>3, <1>6, <1>7, <1>8 DEF FinderInv

LEMMA FinderInitInv == FinderInit => FinderInv
BY FinderAssumption DEF FinderInit, FinderInv, FinderTypeOK, StackInv, AnswersInv, FindsOnlyDependents

LEMMA FinderNextInv == FinderInv /\ [FinderNext]_finderVars => FinderInv'
<1> SUFFICES ASSUME FinderInv, [FinderNext]_finderVars PROVE FinderInv'
  OBVIOUS
<1>1. CASE FinderNext
  BY <1>1, ContainsStep, CheckOneStep, CheckManagerAtOnceStep, CheckManagerSearchStep,
     SearchReturnsStep, ContainsReturnsStep DEF FinderNext
<1>2. CASE UNCHANGED finderVars
  <2>1. UNCHANGED <<holds, answers, spotted, asked, at, frame, told, queries>>
    BY <1>2 DEF finderVars
  <2> QED BY <2>1, SameGraph DEF FinderInv, FinderTypeOK, StackInv, AnswersInv, FindsOnlyDependents
<1> QED BY <1>1, <1>2

LEMMA FinderInvariance == FinderSpec => []FinderInv
BY FinderInitInv, FinderNextInv, PTL DEF FinderSpec

\* Every variable of the finder stays in its set, for any graph, any limits and
\* any number of searchers.
THEOREM FinderTypes == FinderSpec => []FinderTypeOK
<1>1. FinderInv => FinderTypeOK
  BY DEF FinderInv
<1> QED BY <1>1, FinderInvariance, PTL

\* A "yes" of Contains is never made up: whatever searches share the
\* answers, whatever the limits cut off, an output that a rebuild resets does
\* depend on the change.
THEOREM OnlyDependents == FinderSpec => []FindsOnlyDependents
<1>1. FinderInv => FindsOnlyDependents
  BY DEF FinderInv
<1> QED BY <1>1, FinderInvariance, PTL
-----------------------------------------------------------------------------
(* The other direction: what a search may not overlook.                     *)

\* The identities from which nothing leads to the change.
Clear(id) == {w \in Ids : ~Reaches({w}, id)}

\* A frame that has not found anything has only clear identities behind it.
ScanOK(fr, q, m) ==
  /\ fr[m].best \in {NotFound, Found} /\ fr[m].doing \in {"next", "own"}
  /\ fr[m].doing = "own" => fr[m].best = NotFound /\ ~Hits(fr[m].hand, q.id)
  /\ fr[m].best = NotFound =>
       \A v \in Base(q, m) \ fr[m].todo :
         v \in Clear(q.id) \/ (fr[m].doing = "own" /\ v = fr[m].hand)

\* A frame the search is not in has ended, or waits for the one it leads into.
Waits(fr, m) == fr[m] # None /\ fr[m].doing = "own"

PathOK(fr, a) ==
  /\ \A m \in Places \ {a} : fr[m] # None /\ fr[m].doing = "next" => fr[m].best = Found \/ fr[m].todo = {}
  /\ \A m \in Places \ {a} : Waits(fr, m) =>
       LET t == Carries[fr[m].hand]
       IN  t \in Managers /\ fr[t] # None /\ fr[t].from = m /\ (t = a \/ Waits(fr, t))
  /\ \A m \in Managers : m = a \/ Waits(fr, m) =>
       fr[m].from # a /\ Waits(fr, fr[m].from) /\ Carries[fr[fr[m].from].hand] = m
  /\ (\E m \in Places : fr[m] # None /\ fr[m].best = Found) => fr[a].best = Found

SearchOK(fr, q, a) == PathOK(fr, a) /\ \A m \in Places : fr[m] # None => ScanOK(fr, q, m)

SearchesOK == \A s \in Searchers : at[s] # None => SearchOK(frame[s], asked[s], at[s])

\* What is remembered overlooks nothing either.
AnswersNo ==
  \A m \in Managers, c \in Changes :
    answers[<<m, c>>] # None =>
      /\ answers[<<m, c>>] \in {NotFound, Found}
      /\ answers[<<m, c>>] = NotFound => holds[m] \subseteq Clear(c)

ToldNo == \A s \in Searchers : told[s] = NotFound => asked[s].in \in Clear(asked[s].id)

NoInv == PlainSearch => SearchesOK /\ AnswersNo /\ ToldNo

\* The clear identities are closed, and hold whatever leads to them only.
LEMMA ClearClosed ==
  ASSUME NEW id, NEW w \in Clear(id), NEW m \in Through(w) \cap Managers
  PROVE  holds[m] \subseteq Clear(id)
<1>1. PICK S \in SUBSET Ids : {w} \subseteq S /\ Closed(S) /\ ~(\E x \in S : Hits(x, id))
  BY DEF Clear, Reaches
<1>2. holds[m] \subseteq S
  BY <1>1 DEF Closed
<1>3. \A x \in S : x \in Clear(id)
  BY <1>1 DEF Clear, Reaches
<1> QED BY <1>2, <1>3

LEMMA ClearHitsNot == ASSUME NEW id, NEW w \in Clear(id) PROVE ~Hits(w, id)
BY DEF Clear, Reaches

\* An identity is clear when it is not the change and leads to clear ones only.
LEMMA ClearOn ==
  ASSUME NEW id, NEW v \in Ids, ~Hits(v, id),
         \A m \in Through(v) \cap Managers : holds[m] \subseteq Clear(id)
  PROVE  v \in Clear(id)
<1> DEFINE S == {v} \cup Clear(id)
<1>1. S \in SUBSET Ids /\ {v} \subseteq S
  BY DEF Clear
<1>2. Closed(S)
  BY ClearClosed DEF Closed
<1>3. ~(\E x \in S : Hits(x, id))
  BY ClearHitsNot
<1> HIDE DEF S
<1>4. ~Reaches({v}, id)
  BY <1>1, <1>2, <1>3 DEF Reaches
<1> QED BY <1>4 DEF Clear

\* In a plain search an identity that a frame goes through is no provider.
LEMMA PlainBase ==
  ASSUME FinderInv, PlainSearch, NEW s \in Searchers, at[s] # None,
         NEW v \in Base(asked[s], at[s])
  PROVE  First[v] = None /\ Through(v) = {Carries[v]}
<1>1. at[s] \in Places /\ asked[s].in \in Starts
  BY HereOK
<1>2. First[v] = None
  BY <1>1, PlacesApart DEF PlainSearch, Base
<1> QED BY <1>2 DEF Through

\* The graph stays, and with it what is clear.
LEMMA SameClear ==
  ASSUME holds' = holds
  PROVE  /\ \A id : Clear(id)' = Clear(id)
         /\ \A fr, q, a : SearchOK(fr, q, a)' <=> SearchOK(fr, q, a)
         /\ PlainSearch' <=> PlainSearch
<1>1. \A id : Clear(id)' = Clear(id)
  BY SameGraph DEF Clear
<1>2. \A fr, q, a : SearchOK(fr, q, a)' <=> SearchOK(fr, q, a)
  BY <1>1, SameGraph DEF SearchOK, ScanOK, PathOK, Waits, Hits, IsOne
<1>3. PlainSearch' <=> PlainSearch
  BY DEF PlainSearch, Acyclic, Below
<1> QED BY <1>1, <1>2, <1>3

\* A step of a search that leaves the other searches alone.
LEMMA PlainStep ==
  ASSUME FinderInv, NoInv, PlainSearch, NEW s \in Searchers,
         NEW fr \in FrameFunctions, NEW p \in Places, SearchOK(fr, asked[s], p),
         frame' = [frame EXCEPT ![s] = fr], at' = [at EXCEPT ![s] = p],
         UNCHANGED <<holds, asked, told>>, AnswersNo'
  PROVE  NoInv'
<1>1. /\ \A t \in Searchers : t # s => frame'[t] = frame[t] /\ at'[t] = at[t]
      /\ frame'[s] = fr /\ at'[s] = p
  BY DEF FinderInv, FinderTypeOK
<1>2. SearchesOK'
  BY <1>1, SameClear DEF NoInv, SearchesOK
<1>3. ToldNo'
  BY SameClear DEF NoInv, ToldNo
<1> QED BY <1>2, <1>3 DEF NoInv

LEMMA SameAnswersNo ==
  ASSUME NoInv, PlainSearch, UNCHANGED <<holds, answers>> PROVE AnswersNo'
BY SameClear DEF NoInv, AnswersNo

\* A question begins with an identity that nothing was looked at for.
LEMMA ContainsPlain ==
  ASSUME FinderInv, NoInv, PlainSearch, NEW s \in Searchers, NEW id \in Changes,
         NEW in \in Starts, NEW limit \in Limits, Contains(s, id, in, limit)
  PROVE  NoInv'
<1> DEFINE q == [id |-> id, in |-> in, limit |-> limit]
           fr == [m \in Places |-> IF m = Outer THEN OuterFrame(in) ELSE None]
<1>1. /\ asked' = [asked EXCEPT ![s] = q] /\ at' = [at EXCEPT ![s] = Outer]
      /\ told' = [told EXCEPT ![s] = None] /\ frame' = [frame EXCEPT ![s] = fr]
      /\ at[s] = None /\ UNCHANGED <<holds, answers, spotted>>
  BY DEF Contains, Asks
<1>2. OuterFrame(in) # None /\ \A m \in Places : fr[m] # None => m = Outer /\ fr[m] = OuterFrame(in)
  BY FinderAssumption DEF OuterFrame, Frames, NotFound, Results
<1>3. SearchOK(fr, q, Outer)
  <2>1. \A m \in Places : fr[m] # None => ScanOK(fr, q, m)
    BY <1>2 DEF ScanOK, Base, OuterFrame, NotFound, Found
  <2>2. PathOK(fr, Outer)
    <3>1. \A m \in Places : ~Waits(fr, m) /\ ~(fr[m] # None /\ fr[m].best = Found)
      BY <1>2 DEF Waits, OuterFrame, NotFound, Found
    <3> HIDE DEF fr
    <3> QED BY <1>2, <3>1, PlacesApart DEF PathOK
  <2> QED BY <2>1, <2>2 DEF SearchOK
<1> HIDE DEF fr, q
<1>4. /\ \A t \in Searchers : t # s => frame'[t] = frame[t] /\ at'[t] = at[t] /\ asked'[t] = asked[t]
                                      /\ told'[t] = told[t]
      /\ frame'[s] = fr /\ at'[s] = Outer /\ asked'[s] = q /\ told'[s] = None
  BY <1>1 DEF FinderInv, FinderTypeOK
<1>5. SearchesOK'
  BY <1>1, <1>3, <1>4, SameClear DEF NoInv, SearchesOK
<1>6. ToldNo'
  BY <1>1, <1>4, SameClear, FinderAssumption DEF NoInv, ToldNo, NotFound, Results
<1> QED BY <1>1, <1>5, <1>6, SameAnswersNo DEF NoInv

\* checkOne: what is not the change is in hand until its manager is searched.
LEMMA CheckOnePlain ==
  ASSUME FinderInv, NoInv, PlainSearch, NEW s \in Searchers, CheckOne(s)
  PROVE  NoInv'
<1> DEFINE q == asked[s]
           a == at[s]
           f == Here(s)
<1>1. a # None /\ f.doing = "next" /\ f.best # Found
  BY DEF CheckOne
<1>2. /\ a \in Places /\ frame[s] \in FrameFunctions /\ f = frame[s][a] /\ f \in Frames /\ f # None
      /\ f.todo \subseteq Base(q, a)
  BY <1>1, HereOK
<1>3. SearchOK(frame[s], q, a)
  BY <1>1 DEF NoInv, SearchesOK
<1>4. f.best = NotFound
  BY <1>1, <1>2, <1>3 DEF SearchOK, ScanOK
<1>5. PICK v \in f.todo :
        \/ IsOne(v, q.id) /\ Put(s, Count(f, v, Found, "next"))
        \/ ~IsOne(v, q.id) /\ Put(s, Count(f, v, NotFound, "own"))
  BY <1>1, <1>2, PlainBase DEF CheckOne
<1>6. First[v] = None /\ (Hits(v, q.id) <=> IsOne(v, q.id))
  BY <1>1, <1>2, PlainBase DEF Hits
<1>7. PICK g : /\ g = Count(f, v, Found, "next") \/ (g = Count(f, v, NotFound, "own") /\ ~Hits(v, q.id))
               /\ Put(s, g)
  BY <1>5, <1>6
<1>8. /\ g.todo = f.todo \ {v} /\ g.hand = v /\ g.from = f.from
      /\ \/ g.doing = "next" /\ g.best = Found
         \/ g.doing = "own" /\ g.best = NotFound /\ ~Hits(v, q.id)
  <2>1. Better(NotFound, Found) = Found /\ Better(NotFound, NotFound) = NotFound
    BY DEF Better, NotFound, Found
  <2> HIDE DEF f
  <2> QED BY <1>2, <1>4, <1>7, <2>1 DEF Count, Frames
<1>9. g # None /\ g \in Frames
  <2>1. v \in Ids
    BY <1>2, <1>5, <1>1, HereOK
  <2>2. Better(f.best, Found) \in Results /\ Better(f.best, NotFound) \in Results
    BY <1>2 DEF Better, Frames, Results, Found, NotFound
  <2> HIDE DEF f
  <2>3. Count(f, v, Found, "next") \in Frames /\ Count(f, v, NotFound, "own") \in Frames
    BY <1>2, <2>1, <2>2 DEF Count, Frames
  <2>4. g \in Frames
    BY <1>7, <2>3
  <2> QED BY <2>4, PlacesApart
<1> DEFINE fr == [frame[s] EXCEPT ![a] = g]
<1>10. frame' = [frame EXCEPT ![s] = fr] /\ at' = [at EXCEPT ![s] = a]
       /\ UNCHANGED <<holds, answers, asked, told, queries>>
  BY <1>7 DEF CheckOne, Put, FinderInv, FinderTypeOK
<1>11. fr \in FrameFunctions /\ fr[a] = g /\ \A m \in Places \ {a} : fr[m] = frame[s][m]
  BY <1>2, <1>9 DEF FrameFunctions
<1> HIDE DEF fr, f
<1>12. SearchOK(fr, q, a)
  <2>1. ASSUME NEW m \in Places, fr[m] # None PROVE ScanOK(fr, q, m)
    <3>1. CASE m = a
      <4>1. ScanOK(frame[s], q, a)
        BY <1>2, <1>3 DEF SearchOK
      <4> QED BY <1>1, <1>2, <1>4, <1>8, <1>11, <3>1, <4>1 DEF ScanOK, NotFound, Found, f
    <3>2. CASE m # a
      <4>1. ScanOK(frame[s], q, m) /\ fr[m] = frame[s][m]
        BY <1>3, <1>11, <2>1, <3>2 DEF SearchOK
      <4> QED BY <4>1 DEF ScanOK
    <3> QED BY <3>1, <3>2
  <2>2. PathOK(fr, a)
    <3>1. PathOK(frame[s], a)
      BY <1>3 DEF SearchOK
    <3>2. \A m \in Places \ {a} : Waits(fr, m) <=> Waits(frame[s], m)
      BY <1>11 DEF Waits
    <3>3. \A m \in Places \ {a} : fr[m] # None /\ fr[m].doing = "next" => fr[m].best = Found \/ fr[m].todo = {}
      BY <1>11, <3>1 DEF PathOK
    <3>4. ASSUME NEW m \in Places \ {a}, Waits(fr, m)
          PROVE  LET t == Carries[fr[m].hand]
                 IN  t \in Managers /\ fr[t] # None /\ fr[t].from = m /\ (t = a \/ Waits(fr, t))
      <4> DEFINE t == Carries[frame[s][m].hand]
      <4>1. t \in Managers /\ frame[s][t] # None /\ frame[s][t].from = m /\ (t = a \/ Waits(frame[s], t))
        BY <3>1, <3>2, <3>4 DEF PathOK
      <4>2. t \in Places
        BY <4>1, PlacesApart
      <4> HIDE DEF t
      <4>3. fr[t] # None /\ fr[t].from = m /\ (t = a \/ Waits(fr, t))
        BY <1>2, <1>8, <1>9, <1>11, <3>2, <4>1, <4>2
      <4> QED BY <1>11, <4>1, <4>3 DEF t
    <3>5. ASSUME NEW m \in Managers, m = a \/ Waits(fr, m)
          PROVE  fr[m].from # a /\ Waits(fr, fr[m].from) /\ Carries[fr[fr[m].from].hand] = m
      <4> DEFINE u == frame[s][m].from
      <4>1. m \in Places
        BY PlacesApart
      <4>2. fr[m].from = u
        BY <1>2, <1>8, <1>11, <4>1
      <4>3. u # a /\ Waits(frame[s], u) /\ Carries[frame[s][u].hand] = m
        BY <3>1, <3>2, <3>5, <4>1 DEF PathOK
      <4>4. u \in Places
        <5>1. frame[s][m] # None
          BY <1>2, <1>9, <1>11, <3>5, <4>1 DEF Waits
        <5> QED BY <5>1, <1>1, HereOK DEF FramesOK, FrameOK, Places
      <4> QED BY <1>11, <3>2, <4>2, <4>3, <4>4
    <3>6. (\E m \in Places : fr[m] # None /\ fr[m].best = Found) => fr[a].best = Found
      <4>1. \A m \in Places : ~(frame[s][m] # None /\ frame[s][m].best = Found)
        BY <1>2, <1>4, <3>1 DEF PathOK, NotFound, Found
      <4> QED BY <1>11, <4>1
    <3> QED BY <3>3, <3>4, <3>5, <3>6 DEF PathOK
  <2> QED BY <2>1, <2>2 DEF SearchOK
<1> HIDE DEF a, q
<1> QED BY <1>2, <1>10, <1>11, <1>12, SameAnswersNo, PlainStep DEF a, q

\* What is known of a plain search that wants to go into a manager.
LEMMA WantsPlain ==
  ASSUME FinderInv, NoInv, PlainSearch, NEW s \in Searchers, at[s] # None, Here(s).doing # "next"
  PROVE  /\ SearchOK(frame[s], asked[s], at[s]) /\ Waits(frame[s], at[s])
         /\ Here(s).doing = "own" /\ Here(s).best = NotFound
         /\ Here(s).hand \in Base(asked[s], at[s]) /\ Here(s).hand \in Ids
         /\ ~Hits(Here(s).hand, asked[s].id)
         /\ Target(Here(s)) = Carries[Here(s).hand] /\ Through(Here(s).hand) = {Target(Here(s))}
         /\ ~TooDeep(s)
         /\ \A m \in Places : frame[s][m] # None => frame[s][m].best = NotFound
<1>1. /\ SearchOK(frame[s], asked[s], at[s]) /\ at[s] \in Places /\ Here(s) = frame[s][at[s]]
      /\ Here(s) # None
  BY HereOK DEF NoInv, SearchesOK
<1>2. Here(s).doing = "own" /\ Here(s).best = NotFound /\ ~Hits(Here(s).hand, asked[s].id)
  BY <1>1 DEF SearchOK, ScanOK
<1>3. Here(s).hand \in Base(asked[s], at[s]) /\ Here(s).hand \in Ids
  BY HereOK
<1>4. Target(Here(s)) = Carries[Here(s).hand] /\ Through(Here(s).hand) = {Target(Here(s))}
  BY <1>2, <1>3, PlainBase DEF Target
<1>5. ~TooDeep(s)
  <2>1. asked[s].limit \in Limits
    BY HereOK DEF Questions
  <2> QED BY <2>1 DEF TooDeep, PlainSearch
<1>6. \A m \in Places : frame[s][m] # None => frame[s][m].best = NotFound
  BY <1>1, <1>2 DEF SearchOK, PathOK, ScanOK, NotFound, Found
<1> QED BY <1>1, <1>2, <1>3, <1>4, <1>5, <1>6 DEF Waits

\* A manager that a plain search comes to a second time is not one it is still
\* in, for then there were a cycle; and the first time it found nothing there.
LEMMA SecondTime ==
  ASSUME FinderInv, NoInv, PlainSearch, NEW s \in Searchers, at[s] # None, Here(s).doing # "next",
         NEW m \in Managers, m = Target(Here(s)), frame[s][m] # None
  PROVE  holds[m] \subseteq Clear(asked[s].id)
<1> DEFINE fr == frame[s]
           a == at[s]
           q == asked[s]
           M == {w \in Managers : Waits(fr, w)}
<1>1. /\ PathOK(fr, a) /\ Waits(fr, a) /\ ScanOK(fr, q, m) /\ FramesOK(fr, q)
      /\ a \in Places /\ Here(s) = fr[a] /\ m \in Places
      /\ fr[m].best = NotFound
  BY WantsPlain, HereOK, PlacesApart DEF SearchOK
<1>2. ASSUME m \in M PROVE FALSE
  <2>1. ASSUME NEW w \in M PROVE Below(w) \cap M # {}
    <3>1. /\ w \in Managers /\ fr[w] # None /\ fr[w].doing = "own" /\ w \in Places /\ w # Outer
      BY PlacesApart DEF Waits
    <3>2. fr[w].hand \in holds[w]
      <4>1. FrameOK(fr, q, w)
        BY <1>1, <3>1 DEF FramesOK
      <4>2. fr[w].hand \in Base(q, w)
        BY <3>1, <4>1 DEF FrameOK
      <4> QED BY <3>1, <4>2 DEF Base
    <3>3. Carries[fr[w].hand] \in M
      <4>1. CASE w = a
        BY <1>1, <1>2, <4>1, WantsPlain
      <4>2. CASE w # a
        <5>1. LET t == Carries[fr[w].hand] IN t \in Managers /\ (t = a \/ Waits(fr, t))
          BY <1>1, <3>1, <4>2 DEF PathOK
        <5> QED BY <1>1, <5>1
      <4> QED BY <4>1, <4>2
    <3>4. Carries[fr[w].hand] \in Below(w)
      BY <3>2, <3>3 DEF Below, Through
    <3> QED BY <3>3, <3>4
  <2>2. M \in SUBSET Managers /\ M # {}
    BY <1>2
  <2> HIDE DEF M
  <2> QED BY <2>1, <2>2 DEF PlainSearch, Acyclic
<1>3. m # a /\ fr[m].doing = "next"
  BY <1>1, <1>2 DEF ScanOK, Waits
<1>4. fr[m].todo = {}
  <2>1. fr[m].best # Found
    BY <1>1 DEF NotFound, Found
  <2>2. \A n \in Places \ {a} : fr[n] # None /\ fr[n].doing = "next" => fr[n].best = Found \/ fr[n].todo = {}
    BY <1>1 DEF PathOK
  <2> HIDE DEF fr, a
  <2> QED BY <1>1, <1>3, <2>1, <2>2 DEF fr
<1>5. Base(q, m) = holds[m]
  BY PlacesApart DEF Base
<1> QED BY <1>1, <1>3, <1>4, <1>5 DEF ScanOK

\* The frame at the top of a plain search gets a result and goes on.
LEMMA TookPlain ==
  ASSUME NEW f \in Frames, NEW r \in {NotFound, Found}, f.doing = "own", f.best = NotFound
  PROVE  /\ Took(f, r) \in Frames /\ Took(f, r) # None
         /\ Took(f, r).todo = f.todo /\ Took(f, r).from = f.from
         /\ Took(f, r).doing = "next" /\ Took(f, r).best = r
<1>1. Took(f, r) = [f EXCEPT !.best = Better(f.best, r), !.doing = "next", !.hand = None]
  BY DEF Took
<1>2. Better(f.best, r) = r /\ r \in Results
  BY DEF Better, NotFound, Found, Results
<1>3. Took(f, r) \in Frames
  <2>1. /\ f.todo \in SUBSET Ids /\ f.level \in Nat /\ f.from \in Places \cup {None}
        /\ f = [todo |-> f.todo, hand |-> f.hand, doing |-> f.doing, best |-> f.best,
                level |-> f.level, from |-> f.from]
    BY DEF Frames
  <2>2. Took(f, r) = [todo |-> f.todo, hand |-> None, doing |-> "next", best |-> r,
                      level |-> f.level, from |-> f.from]
    BY <1>1, <1>2, <2>1
  <2> QED BY <1>2, <2>1, <2>2 DEF Frames
<1> QED BY <1>1, <1>2, <1>3, PlacesApart DEF Frames

\* checkManager answers at once.
LEMMA CheckManagerAtOncePlain ==
  ASSUME FinderInv, NoInv, PlainSearch, NEW s \in Searchers, CheckManagerAtOnce(s)
  PROVE  NoInv'
<1> DEFINE q == asked[s]
           a == at[s]
           m == Target(Here(s))
           r == AtOnce(s, m)
           old == frame[s]
           g == [todo |-> {}, hand |-> None, doing |-> "next",
                 best |-> r, level |-> Depth(s), from |-> a]
           fr == [n \in Places |-> CASE n = a -> Took(old[n], r)
                                     [] n = m /\ Remembered(s, m) -> g
                                     [] OTHER -> old[n]]
<1>1. /\ a # None /\ Here(s).doing # "next" /\ r # None
      /\ frame' = [frame EXCEPT ![s] = fr]
      /\ UNCHANGED <<holds, answers, asked, at, told, queries>>
  BY DEF CheckManagerAtOnce, FinderInv, FinderTypeOK
<1>2. /\ a \in Places /\ old \in FrameFunctions /\ old[a] = Here(s) /\ old[a] \in Frames
      /\ old[a] # None /\ q.id \in Changes
  BY <1>1, HereOK
<1>3. /\ SearchOK(old, q, a) /\ Waits(old, a) /\ old[a].doing = "own" /\ old[a].best = NotFound
      /\ old[a].hand \in Ids /\ ~Hits(old[a].hand, q.id) /\ Carries[old[a].hand] = m
      /\ Through(old[a].hand) = {m} /\ ~TooDeep(s)
      /\ \A n \in Places : old[n] # None => old[n].best = NotFound
  BY <1>1, <1>2, WantsPlain
<1>4. m \in Managers \/ m = None
  BY <1>3, Tables
<1>5. /\ r \in {NotFound, Found}
      /\ r = NotFound /\ m \in Managers => holds[m] \subseteq Clear(q.id)
  <2>1. CASE Cut(s, m)
    <3>1. r = NotFound
      BY <2>1 DEF AtOnce
    <3>2. m \in Managers => old[m] # None
      BY <1>3, <1>4, <2>1, PlacesApart DEF Cut
    <3> QED BY <1>1, <3>1, <3>2, SecondTime
  <2>2. CASE ~Cut(s, m)
    <3>1. m \in Managers /\ r = answers[<<m, q.id>>]
      BY <1>4, <2>2 DEF Cut, AtOnce
    <3> HIDE DEF m, r
    <3> QED BY <1>1, <1>2, <3>1 DEF NoInv, AnswersNo
  <2> QED BY <2>1, <2>2
<1>6. r = NotFound => old[a].hand \in Clear(q.id)
  BY <1>3, <1>5, ClearOn
<1>7. Remembered(s, m) => m \in Managers /\ m \in Places /\ old[m] = None /\ m # a
  BY <1>2, <1>4, PlacesApart DEF Remembered, Cut
<1> DEFINE top == Took(old[a], r)
<1>8. /\ top \in Frames /\ top # None /\ top.todo = old[a].todo /\ top.from = old[a].from
      /\ top.doing = "next" /\ top.best = r
  BY <1>2, <1>3, <1>5, TookPlain
<1>9. g \in Frames /\ g # None
  <2>1. Depth(s) \in Nat /\ r \in Results
    BY <1>1, <1>5, DepthNat DEF Results, NotFound, Found
  <2> HIDE DEF r, a
  <2>2. g \in Frames
    BY <1>2, <2>1 DEF Frames
  <2> QED BY <2>2, PlacesApart
<1>10. /\ g.todo = {} /\ g.doing = "next" /\ g.best = r /\ g.from = a
  OBVIOUS
<1> DEFINE new == Remembered(s, m)
<1>11. /\ fr \in FrameFunctions /\ fr[a] = top /\ (new => fr[m] = g)
       /\ \A n \in Places : n # a /\ ~(n = m /\ new) => fr[n] = old[n]
  <2> HIDE DEF g, top, m, r, new
  <2>1. \A n \in Places : fr[n] = CASE n = a -> Took(old[n], r) [] n = m /\ new -> g [] OTHER -> old[n]
    BY DEF new
  <2>2. fr[a] = top /\ (new => fr[m] = g) /\ \A n \in Places : n # a /\ ~(n = m /\ new) => fr[n] = old[n]
    BY <1>2, <1>7, <2>1 DEF top, new
  <2> HIDE DEF fr
  <2>3. \A n \in Places : fr[n] \in Frames \cup {None}
    BY <1>2, <1>8, <1>9, <2>2 DEF FrameFunctions
  <2> QED BY <2>2, <2>3 DEF FrameFunctions, fr
<1>12. /\ \A n \in Places : Waits(fr, n) <=> n # a /\ Waits(old, n)
  BY <1>7, <1>8, <1>10, <1>11 DEF Waits
<1> HIDE DEF fr, g, top, r, m, new
<1>13. SearchOK(fr, q, a)
  <2>1. ASSUME NEW n \in Places, fr[n] # None PROVE ScanOK(fr, q, n)
    <3>1. CASE n = a
      <4>1. ScanOK(old, q, a)
        BY <1>2, <1>3 DEF SearchOK
      <4> QED BY <1>2, <1>3, <1>5, <1>6, <1>8, <1>11, <3>1, <4>1 DEF ScanOK
    <3>2. CASE n # a /\ n = m /\ new
      <4>1. Base(q, m) = holds[m]
        BY <1>7, <3>2, PlacesApart DEF Base, new
      <4> QED BY <1>5, <1>7, <1>10, <1>11, <3>2, <4>1 DEF ScanOK, new
    <3>3. CASE n # a /\ ~(n = m /\ new)
      <4>1. fr[n] = old[n] /\ ScanOK(old, q, n)
        BY <1>3, <1>11, <2>1, <3>3 DEF SearchOK
      <4> QED BY <4>1 DEF ScanOK
    <3> QED BY <3>1, <3>2, <3>3
  <2>2. PathOK(fr, a)
    <3>1. PathOK(old, a)
      BY <1>3 DEF SearchOK
    <3>2. \A n \in Places \ {a} : fr[n] # None /\ fr[n].doing = "next" => fr[n].best = Found \/ fr[n].todo = {}
      BY <1>10, <1>11, <3>1 DEF PathOK
    <3>3. ASSUME NEW n \in Places \ {a}, Waits(fr, n)
          PROVE  LET t == Carries[fr[n].hand]
                 IN  t \in Managers /\ fr[t] # None /\ fr[t].from = n /\ (t = a \/ Waits(fr, t))
      <4> DEFINE t == Carries[old[n].hand]
      <4>1. t \in Managers /\ old[t] # None /\ old[t].from = n /\ (t = a \/ Waits(old, t))
        BY <1>12, <3>1, <3>3 DEF PathOK
      <4>2. t \in Places /\ fr[n] = old[n]
        BY <1>7, <1>11, <1>12, <3>3, <4>1, PlacesApart DEF Waits, new
      <4> HIDE DEF t
      <4>3. fr[t] # None /\ fr[t].from = n /\ (t = a \/ Waits(fr, t))
        BY <1>7, <1>8, <1>11, <1>12, <4>1, <4>2 DEF new
      <4> QED BY <4>1, <4>2, <4>3 DEF t
    <3>4. ASSUME NEW n \in Managers, n = a \/ Waits(fr, n)
          PROVE  fr[n].from # a /\ Waits(fr, fr[n].from) /\ Carries[fr[fr[n].from].hand] = n
      <4> DEFINE u == old[n].from
      <4>1. n \in Places
        BY PlacesApart
      <4>2. old[n] # None /\ fr[n].from = u
        BY <1>2, <1>7, <1>8, <1>11, <1>12, <3>4, <4>1 DEF Waits, new
      <4>3. u # a /\ Waits(old, u) /\ Carries[old[u].hand] = n
        BY <1>12, <3>1, <3>4, <4>1 DEF PathOK
      <4>4. u \in Places
        BY <4>2, <1>1, HereOK DEF FramesOK, FrameOK, Places
      <4>5. fr[u] = old[u]
        BY <1>7, <1>11, <4>3, <4>4 DEF Waits, new
      <4> QED BY <1>12, <4>2, <4>3, <4>4, <4>5
    <3>5. (\E n \in Places : fr[n] # None /\ fr[n].best = Found) => fr[a].best = Found
      BY <1>3, <1>8, <1>10, <1>11 DEF NotFound, Found
    <3> QED BY <3>2, <3>3, <3>4, <3>5 DEF PathOK
  <2> QED BY <2>1, <2>2 DEF SearchOK
<1>14. at' = [at EXCEPT ![s] = a]
  BY <1>1 DEF FinderInv, FinderTypeOK
<1> QED BY <1>1, <1>2, <1>11, <1>13, <1>14, SameAnswersNo, PlainStep

\* checkManager goes into a manager that the search has not been in.
LEMMA CheckManagerSearchPlain ==
  ASSUME FinderInv, NoInv, PlainSearch, NEW s \in Searchers, CheckManagerSearch(s)
  PROVE  NoInv'
<1> DEFINE q == asked[s]
           a == at[s]
           m == Target(Here(s))
           old == frame[s]
           g == [todo |-> holds[m], hand |-> None, doing |-> "next",
                 best |-> NotFound, level |-> Depth(s), from |-> a]
           fr == [old EXCEPT ![m] = g]
<1>1. /\ a # None /\ Here(s).doing # "next" /\ AtOnce(s, m) = None
      /\ frame' = [frame EXCEPT ![s] = fr] /\ at' = [at EXCEPT ![s] = m]
      /\ UNCHANGED <<holds, answers, asked, told, queries>>
  BY DEF CheckManagerSearch, FinderInv, FinderTypeOK
<1>2. /\ a \in Places /\ old \in FrameFunctions /\ old[a] = Here(s) /\ old[a] # None
  BY <1>1, HereOK
<1>3. /\ SearchOK(old, q, a) /\ Waits(old, a) /\ Carries[old[a].hand] = m
      /\ \A n \in Places : old[n] # None => old[n].best = NotFound
  BY <1>1, <1>2, WantsPlain
<1>4. m \in Managers /\ m \in Places /\ old[m] = None /\ m # a
  <2>1. m \in Managers \/ m = None
    BY <1>1, <1>3, WantsPlain, Tables
  <2>2. ~Cut(s, m)
    BY <1>1, FinderAssumption DEF AtOnce, NotFound, Results
  <2> QED BY <1>2, <2>1, <2>2, PlacesApart DEF Cut
<1>5. /\ g \in Frames /\ g # None /\ g.todo = holds[m] /\ g.doing = "next"
      /\ g.best = NotFound /\ g.from = a
  <2>1. Depth(s) \in Nat /\ holds[m] \subseteq Ids
    BY <1>1, <1>4, DepthNat, FinderAssumption DEF FinderInv, FinderTypeOK
  <2> HIDE DEF m, a
  <2>2. g \in Frames
    BY <1>2, <2>1 DEF Frames, NotFound, Results
  <2> QED BY <2>2, PlacesApart
<1> HIDE DEF g, m
<1>6. fr \in FrameFunctions /\ fr[m] = g /\ \A n \in Places \ {m} : fr[n] = old[n]
  BY <1>2, <1>4, <1>5 DEF FrameFunctions
<1>7. \A n \in Places : Waits(fr, n) <=> Waits(old, n)
  BY <1>4, <1>5, <1>6 DEF Waits
<1> HIDE DEF fr
<1>8. SearchOK(fr, q, m)
  <2>1. ASSUME NEW n \in Places, fr[n] # None PROVE ScanOK(fr, q, n)
    <3>1. CASE n = m
      <4>1. Base(q, m) = holds[m]
        BY <1>4, PlacesApart DEF Base
      <4> QED BY <1>5, <1>6, <3>1, <4>1 DEF ScanOK
    <3>2. CASE n # m
      <4>1. fr[n] = old[n] /\ ScanOK(old, q, n)
        BY <1>3, <1>6, <2>1, <3>2 DEF SearchOK
      <4> QED BY <4>1 DEF ScanOK
    <3> QED BY <3>1, <3>2
  <2>2. PathOK(fr, m)
    <3>1. PathOK(old, a)
      BY <1>3 DEF SearchOK
    <3>2. \A n \in Places \ {m} : fr[n] # None /\ fr[n].doing = "next" => fr[n].best = Found \/ fr[n].todo = {}
      BY <1>3, <1>6, <3>1 DEF PathOK, Waits
    <3>3. ASSUME NEW n \in Places \ {m}, Waits(fr, n)
          PROVE  LET t == Carries[fr[n].hand]
                 IN  t \in Managers /\ fr[t] # None /\ fr[t].from = n /\ (t = m \/ Waits(fr, t))
      <4>1. CASE n = a
        BY <1>3, <1>4, <1>5, <1>6, <4>1
      <4>2. CASE n # a
        <5> DEFINE t == Carries[old[n].hand]
        <5>1. t \in Managers /\ old[t] # None /\ old[t].from = n /\ (t = a \/ Waits(old, t))
          BY <1>7, <3>1, <3>3, <4>2 DEF PathOK
        <5>2. t \in Places /\ fr[n] = old[n]
          BY <1>6, <5>1, PlacesApart
        <5> HIDE DEF t
        <5>3. fr[t] # None /\ fr[t].from = n /\ Waits(fr, t)
          BY <1>3, <1>4, <1>6, <1>7, <5>1, <5>2
        <5> QED BY <5>1, <5>2, <5>3 DEF t
      <4> QED BY <4>1, <4>2
    <3>4. ASSUME NEW n \in Managers, n = m \/ Waits(fr, n)
          PROVE  fr[n].from # m /\ Waits(fr, fr[n].from) /\ Carries[fr[fr[n].from].hand] = n
      <4>1. CASE n = m
        BY <1>2, <1>3, <1>4, <1>5, <1>6, <1>7, <4>1
      <4>2. CASE n # m
        <5> DEFINE u == old[n].from
        <5>1. n \in Places
          BY PlacesApart
        <5>2. old[n] # None /\ fr[n].from = u /\ Waits(old, n)
          BY <1>6, <1>7, <3>4, <4>2, <5>1 DEF Waits
        <5>3. Waits(old, u) /\ Carries[old[u].hand] = n
          BY <3>1, <5>2 DEF PathOK
        <5>4. u \in Places
          BY <5>1, <5>2, <1>1, HereOK DEF FramesOK, FrameOK, Places
        <5>5. fr[u] = old[u] /\ u # m
          BY <1>4, <1>6, <5>3, <5>4 DEF Waits
        <5> QED BY <1>7, <5>2, <5>3, <5>4, <5>5
      <4> QED BY <4>1, <4>2
    <3>5. \A n \in Places : ~(fr[n] # None /\ fr[n].best = Found)
      BY <1>3, <1>5, <1>6 DEF NotFound, Found
    <3> QED BY <3>2, <3>3, <3>4, <3>5 DEF PathOK
  <2> QED BY <2>1, <2>2 DEF SearchOK
<1> QED BY <1>1, <1>4, <1>6, <1>8, SameAnswersNo, PlainStep

\* A search ends: what it has not found is not there.
LEMMA SearchReturnsPlain ==
  ASSUME FinderInv, NoInv, PlainSearch, NEW s \in Searchers, SearchReturns(s)
  PROVE  NoInv'
<1> DEFINE q == asked[s]
           a == at[s]
           r == Here(s).best
           up == Here(s).from
           old == frame[s]
           fr == [old EXCEPT ![up] = Took(old[up], r)]
<1>1. /\ a \in Managers /\ a # None /\ Ended(Here(s)) /\ Keep(a, q.id, r)
      /\ frame' = [frame EXCEPT ![s] = fr] /\ at' = [at EXCEPT ![s] = up]
      /\ UNCHANGED <<holds, asked, told, queries>>
  BY PlacesApart DEF SearchReturns, FinderInv, FinderTypeOK
<1>2. /\ a \in Places /\ old \in FrameFunctions /\ old[a] = Here(s) /\ old[a] # None
      /\ q.id \in Changes /\ FramesOK(old, q)
  BY <1>1, HereOK
<1>3. SearchOK(old, q, a) /\ PathOK(old, a) /\ ScanOK(old, q, a)
  BY <1>1, <1>2 DEF NoInv, SearchesOK, SearchOK
<1>4. /\ up # a /\ up \in Places /\ Waits(old, up) /\ Carries[old[up].hand] = a
      /\ old[up] \in Frames /\ old[up].best = NotFound /\ ScanOK(old, q, up) /\ ~Hits(old[up].hand, q.id)
  <2>1. up # a /\ Waits(old, up) /\ Carries[old[up].hand] = a
    BY <1>1, <1>2, <1>3 DEF PathOK
  <2>2. up \in Places
    BY <1>1, <1>2 DEF FramesOK, FrameOK
  <2>3. old[up] \in Frames /\ ScanOK(old, q, up)
    BY <1>2, <1>3, <2>1, <2>2 DEF FrameFunctions, SearchOK, Waits
  <2> QED BY <2>1, <2>2, <2>3 DEF ScanOK, Waits
<1>5. /\ r \in {NotFound, Found} /\ old[a].doing = "next" /\ (r = Found \/ old[a].todo = {})
      /\ r = NotFound => holds[a] \subseteq Clear(q.id)
  <2>1. r \in {NotFound, Found} /\ old[a].doing = "next" /\ (r = Found \/ old[a].todo = {})
    BY <1>1, <1>2, <1>3 DEF Ended, ScanOK
  <2>2. Base(q, a) = holds[a]
    BY <1>1, PlacesApart DEF Base
  <2> QED BY <1>2, <1>3, <2>1, <2>2 DEF ScanOK, NotFound, Found
<1>6. r = NotFound => old[up].hand \in Clear(q.id)
  <2>1. old[up].hand \in Base(q, up)
    BY <1>2, <1>4 DEF FramesOK, FrameOK, Waits
  <2>2. old[up].hand \in Ids
    BY <1>4, <1>2, PlacesApart DEF Frames, Waits, FramesOK, FrameOK
  <2>3. First[old[up].hand] = None
    <3>1. q.in \in Starts
      BY <1>1, HereOK
    <3> QED BY <1>4, <2>1, <3>1, PlacesApart DEF PlainSearch, Base
  <2>4. Through(old[up].hand) = {a}
    BY <1>4, <2>3 DEF Through
  <2> QED BY <1>4, <1>5, <2>2, <2>4, ClearOn
<1> DEFINE top == Took(old[up], r)
<1>7. /\ top \in Frames /\ top # None /\ top.todo = old[up].todo /\ top.from = old[up].from
      /\ top.doing = "next" /\ top.best = r
  BY <1>4, <1>5, TookPlain DEF Waits
<1>8. fr \in FrameFunctions /\ fr[up] = top /\ \A n \in Places \ {up} : fr[n] = old[n]
  <2> HIDE DEF top, r, up
  <2> QED BY <1>2, <1>4, <1>7 DEF FrameFunctions, top
<1>9. \A n \in Places : Waits(fr, n) <=> n # up /\ Waits(old, n)
  BY <1>7, <1>8 DEF Waits
<1>10. fr[a] = old[a]
  BY <1>2, <1>4, <1>8
<1> HIDE DEF fr, top, up, r
<1>11. SearchOK(fr, q, up)
  <2>1. ASSUME NEW n \in Places, fr[n] # None PROVE ScanOK(fr, q, n)
    <3>1. CASE n = up
      BY <1>4, <1>5, <1>6, <1>7, <1>8, <3>1 DEF ScanOK
    <3>2. CASE n # up
      <4>1. fr[n] = old[n] /\ ScanOK(old, q, n)
        BY <1>3, <1>8, <2>1, <3>2 DEF SearchOK
      <4> QED BY <4>1 DEF ScanOK
    <3> QED BY <3>1, <3>2
  <2>2. PathOK(fr, up)
    <3>1. \A n \in Places \ {up} : fr[n] # None /\ fr[n].doing = "next" => fr[n].best = Found \/ fr[n].todo = {}
      BY <1>2, <1>3, <1>5, <1>8 DEF PathOK, r
    <3>2. ASSUME NEW n \in Places \ {up}, Waits(fr, n)
          PROVE  LET t == Carries[fr[n].hand]
                 IN  t \in Managers /\ fr[t] # None /\ fr[t].from = n /\ (t = up \/ Waits(fr, t))
      <4> DEFINE t == Carries[old[n].hand]
      <4>1. n # a /\ Waits(old, n) /\ fr[n] = old[n]
        BY <1>5, <1>8, <1>9, <3>2 DEF Waits
      <4>2. t \in Managers /\ old[t] # None /\ old[t].from = n /\ (t = a \/ Waits(old, t))
        BY <1>3, <4>1 DEF PathOK
      <4>3. t \in Places /\ t # a
        BY <1>2, <3>2, <4>2, PlacesApart DEF up
      <4> HIDE DEF t
      <4>4. fr[t] # None /\ fr[t].from = n /\ (t = up \/ Waits(fr, t))
        BY <1>7, <1>8, <1>9, <4>2, <4>3
      <4> QED BY <4>1, <4>2, <4>4 DEF t
    <3>3. ASSUME NEW n \in Managers, n = up \/ Waits(fr, n)
          PROVE  fr[n].from # up /\ Waits(fr, fr[n].from) /\ Carries[fr[fr[n].from].hand] = n
      <4> DEFINE u == old[n].from
      <4>1. n \in Places /\ n # a
        BY <1>4, <1>5, <1>9, <3>3, PlacesApart DEF Waits
      <4>2. Waits(old, n) /\ fr[n].from = u
        BY <1>4, <1>7, <1>8, <1>9, <3>3, <4>1
      <4>3. u # a /\ Waits(old, u) /\ Carries[old[u].hand] = n
        BY <1>3, <4>2 DEF PathOK
      <4>4. u \in Places
        BY <1>2, <4>1, <4>2 DEF FramesOK, FrameOK, Waits
      <4>5. u # up
        BY <1>4, <4>1, <4>3
      <4> QED BY <1>8, <1>9, <4>2, <4>3, <4>4, <4>5
    <3>4. (\E n \in Places : fr[n] # None /\ fr[n].best = Found) => fr[up].best = Found
      <4>1. CASE r = Found
        BY <1>7, <1>8, <4>1
      <4>2. CASE r = NotFound
        <5>1. \A n \in Places : ~(old[n] # None /\ old[n].best = Found)
          BY <1>2, <1>3, <4>2 DEF PathOK, NotFound, Found, r
        <5> QED BY <1>7, <1>8, <4>2, <5>1 DEF NotFound, Found
      <4> QED BY <1>5, <4>1, <4>2
    <3> QED BY <3>1, <3>2, <3>3, <3>4 DEF PathOK
  <2> QED BY <2>1, <2>2 DEF SearchOK
<1>12. AnswersNo'
  <2>1. answers \in AnswerTables
    BY DEF FinderInv, FinderTypeOK, AnswerTables
  <2>2. \A n \in Managers, c \in Changes :
          answers'[<<n, c>>] = answers[<<n, c>>] \/ (n = a /\ c = q.id /\ answers'[<<n, c>>] = r)
    BY <1>1, <1>2, <2>1 DEF Keep, AnswerTables, r
  <2>3. \A n \in Managers, c \in Changes : answers'[<<n, c>>] # None =>
          /\ answers'[<<n, c>>] \in {NotFound, Found}
          /\ answers'[<<n, c>>] = NotFound => holds[n] \subseteq Clear(c)
    BY <1>5, <2>2 DEF NoInv, AnswersNo
  <2> QED BY <1>1, <2>3, SameClear DEF AnswersNo
<1> HIDE DEF q
<1> QED BY <1>1, <1>4, <1>8, <1>11, <1>12, PlainStep DEF q, fr, up, r

\* The answer is the outermost search's.
LEMMA ContainsReturnsPlain ==
  ASSUME FinderInv, NoInv, PlainSearch, NEW s \in Searchers, ContainsReturns(s)
  PROVE  NoInv'
<1>1. /\ at[s] = Outer /\ at[s] # None /\ Ended(Here(s)) /\ Here(s) = frame[s][Outer]
      /\ told' = [told EXCEPT ![s] = Here(s).best] /\ at' = [at EXCEPT ![s] = None]
      /\ UNCHANGED <<holds, answers, spotted, asked, frame, queries>>
  BY PlacesApart, FinderAssumption DEF ContainsReturns, Here
<1>2. ScanOK(frame[s], asked[s], Outer)
  BY <1>1, HereOK DEF NoInv, SearchesOK, SearchOK
<1>3. Here(s).best = NotFound => asked[s].in \in Clear(asked[s].id)
  BY <1>1, <1>2 DEF ScanOK, Ended, Base, NotFound, Found
<1>4. /\ \A t \in Searchers \ {s} : told'[t] = told[t] /\ at'[t] = at[t]
      /\ told'[s] = Here(s).best /\ at'[s] = None
  BY <1>1 DEF FinderInv, FinderTypeOK
<1>5. SearchesOK'
  BY <1>1, <1>4, SameClear DEF NoInv, SearchesOK
<1>6. ToldNo'
  <2>1. \A t \in Searchers : told'[t] = NotFound => asked[t].in \in Clear(asked[t].id)
    BY <1>3, <1>4 DEF NoInv, ToldNo
  <2> QED BY <1>1, <2>1, SameClear DEF ToldNo
<1> QED BY <1>1, <1>5, <1>6, SameAnswersNo DEF NoInv

LEMMA NoInitInv == FinderInit => NoInv
<1> SUFFICES ASSUME FinderInit PROVE SearchesOK /\ AnswersNo /\ ToldNo
  BY DEF NoInv
<1>1. SearchesOK /\ AnswersNo
  BY DEF FinderInit, SearchesOK, AnswersNo
<1>2. None # NotFound
  BY FinderAssumption DEF NotFound, Results
<1> QED BY <1>1, <1>2 DEF FinderInit, ToldNo

LEMMA NoNextInv == FinderInv /\ NoInv /\ [FinderNext]_finderVars => NoInv'
<1> SUFFICES ASSUME FinderInv, NoInv, [FinderNext]_finderVars PROVE NoInv'
  OBVIOUS
<1>1. holds' = holds
  BY DEF FinderNext, Contains, CheckOne, CheckManagerAtOnce, CheckManagerSearch,
         SearchReturns, ContainsReturns, finderVars
<1>2. CASE ~PlainSearch
  BY <1>1, <1>2, SameClear DEF NoInv
<1>3. CASE PlainSearch /\ FinderNext
  BY <1>3, ContainsPlain, CheckOnePlain, CheckManagerAtOncePlain, CheckManagerSearchPlain,
     SearchReturnsPlain, ContainsReturnsPlain DEF FinderNext
<1>4. CASE PlainSearch /\ UNCHANGED finderVars
  <2>1. UNCHANGED <<holds, answers, spotted, asked, at, frame, told, queries>>
    BY <1>4 DEF finderVars
  <2> QED BY <1>4, <2>1, SameClear DEF NoInv, SearchesOK, AnswersNo, ToldNo
<1> QED BY <1>2, <1>3, <1>4

\* A "no" of Contains can be relied on, whatever searches share the answers and
\* in whatever order they come, where nothing cuts a search short but what it
\* has seen: there is no way from what was asked about to the change.
THEOREM NothingOverlooked == FinderSpec => []NoFalseNegativesWithoutCycles
<1>1. FinderInit => FinderInv /\ NoInv
  BY FinderInitInv, NoInitInv
<1>2. FinderInv /\ NoInv /\ [FinderNext]_finderVars => FinderInv' /\ NoInv'
  BY FinderNextInv, NoNextInv
<1>3. NoInv => NoFalseNegativesWithoutCycles
  BY DEF NoInv, ToldNo, Clear, NoFalseNegativesWithoutCycles, NoFalseNegatives
<1> QED BY <1>1, <1>2, <1>3, PTL DEF FinderSpec
=============================================================================
