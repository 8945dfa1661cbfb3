-------------------------- MODULE DevServerProofs --------------------------
(* Proofs about DevServer: the type invariant, and the three safety          *)
(* invariants of the server's locking, for any number of requests and full   *)
(* rebuild goroutines and any bounds.                                        *)
EXTENDS DevServer, TLAPS

(***************************************************************************)
(* The inductive invariant, in parts that each depend on few variables.    *)
(***************************************************************************)

\* Who builds, or waits for the lock in order to build, has its HugoSites.
NeedsHandle(a) == pc[a] \in {"start", "building"} \/ (a # Loop /\ pc[a] = "lock")

HandleInv == \A a \in Actors : NeedsHandle(a) => handle[a] # None

DataInv == DataOK /\ HandleInv

\* The loop holds the build lock in all of handleEvents, every other goroutine
\* while it builds; only the loop builds without taking the lock itself.
HoldsLock(a) == IF a = Loop THEN pc[a] \notin {"idle", "lock"} ELSE InBuild(a)
LockInv == /\ \A a \in Actors : HoldsLock(a) => lock = a
           /\ \A a \in Actors \ {Loop} : pc[a] # "start"

\* A full rebuild goroutine that runs holds the semaphore.
SemInv == \A r \in Rebuilders : pc[r] # "idle" => sem = r

IInv == FlagsOK /\ DataInv /\ LockInv /\ SemInv /\ FullRebuildOnCurrent

(***************************************************************************)
(* The types.                                                              *)
(***************************************************************************)

\* c.hugo() keeps the types of what it changes, and hands out a HugoSites.
LEMMA HugoTyped ==
  ASSUME DataInv, NEW a \in Actors, HugoOK(a) \/ HugoFails
  PROVE  /\ slot' \in Versions \cup {None} /\ sites' \in [Versions -> Site] /\ fails' \in Nat
         /\ handle' \in [Actors -> Versions \cup {None}]
         /\ \A b \in Actors : handle[b] # None => handle'[b] # None
         /\ HugoOK(a) => handle'[a] # None
  <1> USE BoundsAssumption DEF DataInv, DataOK, Versions
  <1>1. CASE HugoOK(a)
    BY <1>1 DEF HugoOK, Site
  <1>2. CASE HugoFails
    BY <1>2 DEF HugoFails, HugoOK, Site
  <1> QED BY <1>1, <1>2

\* Reading the content keeps the type of sites.
LEMMA ReadTyped ==
  ASSUME DataInv, NEW k \in Versions, ReadAll(k) \/ ReadChanged(k)
  PROVE  sites' \in [Versions -> Site]
  BY DEF DataInv, DataOK, ReadAll, ReadChanged, Site

\* Every step keeps the Boolean variables Boolean.
LEMMA FlagsStep == FlagsOK /\ [Next]_vars => FlagsOK'
  <1> SUFFICES ASSUME FlagsOK, [Next]_vars PROVE FlagsOK' OBVIOUS
  <1> USE DEF FlagsOK
  <1>1. CASE LoopNext
    <2>1. CASE LoopReceive
      BY <2>1 DEF LoopReceive, Step, At, Goto, siteVars, errVars, timerVars
    <2>2. CASE LoopLock
      BY <2>2 DEF LoopLock, Step, At, Goto, TakeLock, siteVars, errVars, timerVars,
            envVars
    <2>3. CASE LoopConfig
      BY <2>3 DEF LoopConfig, At, Goto, LoopUnchanged, siteVars, errVars, timerVars,
            envVars
    <2>4. CASE LoopAcquire
      BY <2>4 DEF LoopAcquire, At, Spawn, LoopUnchanged, siteVars, errVars, timerVars,
            envVars
    <2>5. CASE LoopIgnore
      BY <2>5 DEF LoopIgnore, At, Goto, LoopUnchanged, HandleContent, siteVars, errVars,
            timerVars, envVars
    <2>6. CASE LoopDebounce
      BY <2>6 DEF LoopDebounce, At, Goto, LoopUnchanged, HandleContent, siteVars,
            errVars, envVars
    <2>7. CASE LoopFilter
      BY <2>7 DEF LoopFilter, At, Goto, LoopUnchanged, HandleContent, errVars,
            timerVars, envVars
    <2>8. CASE LoopHugo
      BY <2>8 DEF LoopHugo, At, Goto, LoopUnchanged, timerVars, envVars
    <2>9. CASE LoopBuildStart
      BY <2>9 DEF LoopBuildStart, Step, At, Goto, LoopUnchanged, errVars, timerVars,
            envVars
    <2>10. CASE LoopBuildDone
      BY <2>10 DEF LoopBuildDone, Step, At, Goto, BuildResult, PublishSite, siteVars,
            timerVars, envVars
    <2>11. CASE LoopPost
      BY <2>11 DEF LoopPost, Step, At, Goto, HugoTry, LoopUnchanged, siteVars, errVars,
            timerVars, envVars
    <2>12. CASE LoopFinish
      BY <2>12 DEF LoopFinish, Step, At, Goto, DropLock, siteVars, timerVars, envVars
    <2> QED
      BY <1>1, <2>1, <2>2, <2>3, <2>4, <2>5, <2>6, <2>7, <2>8, <2>9, <2>10, <2>11, <2>12
            DEF LoopNext
  <1>2. ASSUME NEW r \in Rebuilders, RebuildNext(r) PROVE FlagsOK'
    <2>1. CASE RebuildBump(r)
      BY <2>1 DEF RebuildBump, Step, At, Goto, siteVars, errVars, timerVars, envVars
    <2>2. CASE RebuildLoad(r)
      BY <2>2 DEF RebuildLoad, At, Goto, siteVars, errVars, timerVars, envVars
    <2>3. CASE RebuildPause(r)
      BY <2>3 DEF RebuildPause, Step, At, Goto, RebuildUnchanged, siteVars, timerVars,
            envVars
    <2>4. CASE RebuildFailed(r)
      BY <2>4 DEF RebuildFailed, Step, At, Goto, RebuildUnchanged, siteVars, timerVars,
            envVars
    <2>5. CASE RebuildResume(r)
      BY <2>5 DEF RebuildResume, Step, At, Goto, RebuildUnchanged, siteVars, timerVars,
            envVars
    <2>6. CASE RebuildCheck(r)
      BY <2>6 DEF RebuildCheck, Step, At, Goto, RebuildUnchanged, siteVars, errVars,
            timerVars, envVars
    <2>7. CASE RebuildStatic(r)
      BY <2>7 DEF RebuildStatic, At, Goto, RebuildUnchanged, errVars, timerVars, envVars
    <2>8. CASE RebuildPost(r)
      BY <2>8 DEF RebuildPost, Step, At, Goto, HugoTry, RebuildUnchanged, errVars,
            timerVars, envVars
    <2>9. CASE RebuildRelease(r)
      BY <2>9 DEF RebuildRelease, Step, At, Goto, siteVars, errVars, timerVars, envVars
    <2> QED BY <1>2, <2>1, <2>2, <2>3, <2>4, <2>5, <2>6, <2>7, <2>8, <2>9 DEF RebuildNext
  <1>3. ASSUME NEW a \in Builders, BuildNext(a) PROVE FlagsOK'
    <2>1. CASE BuildHugo(a)
      BY <2>1 DEF BuildHugo, At, Goto, RebuildUnchanged, errVars, timerVars, envVars
    <2>2. CASE BuildLock(a)
      BY <2>2 DEF BuildLock, Step, At, Goto, TakeLock, RebuildUnchanged, errVars,
            timerVars, envVars
    <2>3. CASE BuildDone(a)
      BY <2>3 DEF BuildDone, Step, At, Goto, DropLock, BuildResult, PublishSite,
            RebuildUnchanged, siteVars, errVars, timerVars, envVars
    <2>4. CASE BuildReport(a)
      BY <2>4 DEF BuildReport, Step, At, Goto, RebuildUnchanged, siteVars, timerVars,
            envVars
    <2> QED BY <1>3, <2>1, <2>2, <2>3, <2>4 DEF BuildNext
  <1>4. ASSUME NEW h \in Handlers, RequestNext(h) PROVE FlagsOK'
    <2>1. CASE RequestHugo(h)
      BY <2>1 DEF RequestHugo, At, Goto, HandlerUnchanged, timerVars, envVars
    <2>2. CASE RequestLock(h)
      BY <2>2 DEF RequestLock, Step, At, Goto, TakeLock, HandlerUnchanged, siteVars,
            timerVars, envVars
    <2>3. CASE RequestRendered(h)
      BY <2>3 DEF RequestRendered, Step, At, Goto, DropLock, BuildResult,
            PublishVisited, HandlerUnchanged, siteVars, timerVars, envVars
    <2>4. CASE RequestWasErr(h)
      BY <2>4 DEF RequestWasErr, Step, At, Goto, HandlerUnchanged, siteVars, timerVars,
            envVars
    <2>5. CASE RequestReport(h)
      BY <2>5 DEF RequestReport, Step, At, Goto, HandlerUnchanged, siteVars, timerVars,
            envVars
    <2> QED BY <1>4, <2>1, <2>2, <2>3, <2>4, <2>5 DEF RequestNext
  <1>5. CASE TimerFires
    BY <1>5 DEF TimerFires, siteVars, errVars, envVars
  <1>6. CASE TimerAcquire
    BY <1>6 DEF TimerAcquire, Spawn, siteVars, errVars, envVars
  <1>7. CASE MainPost
    BY <1>7 DEF MainPost, At, Goto, RebuildUnchanged, siteVars, errVars, timerVars,
          envVars
  <1>8. CASE EditConfig
    BY <1>8, KindsAssumption DEF EditConfig, At, EnvUnchanged, MayEdit, siteVars,
          errVars, timerVars
  <1>9. CASE EditContent
    BY <1>9 DEF EditContent, At, EnvUnchanged, MayEdit, siteVars, errVars, timerVars
  <1>10. CASE TouchFile
    BY <1>10 DEF TouchFile, EnvUnchanged, siteVars, errVars, timerVars
  <1>11. CASE SignalRebuild
    BY <1>11 DEF SignalRebuild, EnvUnchanged, siteVars, errVars, timerVars
  <1>12. ASSUME NEW h \in Handlers, RequestPage(h) PROVE FlagsOK'
    BY <1>12 DEF RequestPage, Step, At, Goto, HandlerUnchanged, siteVars, timerVars,
          envVars
  <1>13. ASSUME NEW h \in Handlers, RequestShowsError(h) PROVE FlagsOK'
    BY <1>13 DEF RequestShowsError, At, HugoTry, HandlerUnchanged, timerVars, envVars
  <1>14. CASE UNCHANGED vars
    BY <1>14 DEF vars, siteVars, errVars, timerVars, envVars
  <1> QED
    BY <1>1, <1>2, <1>3, <1>4, <1>5, <1>6, <1>7, <1>8, <1>9, <1>10, <1>11, <1>12, <1>13,
          <1>14 DEF Next, ServerNext, EnvNext

\* Every step keeps the other types, and HandleInv.
LEMMA DataStep == DataInv /\ [Next]_vars => DataInv'
  <1> SUFFICES ASSUME DataInv, [Next]_vars PROVE DataInv' OBVIOUS
  <1> USE ActorsAssumption, KindsAssumption, BoundsAssumption DEF DataInv, DataOK
  <1>1. CASE LoopNext
    <2>1. CASE LoopReceive
      BY <2>1 DEF LoopReceive, Step, At, Goto, siteVars, errVars, timerVars, HandleInv,
            NeedsHandle, Actors, Builders, Labels, Site, Versions, Kinds
    <2>2. CASE LoopLock
      BY <2>2 DEF LoopLock, Step, At, Goto, TakeLock, siteVars, errVars, timerVars,
            envVars, HandleInv, NeedsHandle, Actors, Builders, Labels, Site, Versions,
            Kinds
    <2>3. CASE LoopConfig
      BY <2>3 DEF LoopConfig, At, Goto, LoopUnchanged, siteVars, errVars, timerVars,
            envVars, HandleInv, NeedsHandle, Actors, Builders, Labels, Site, Versions,
            Kinds
    <2>4. CASE LoopAcquire
      BY <2>4 DEF LoopAcquire, At, Spawn, LoopUnchanged, siteVars, errVars, timerVars,
            envVars, HandleInv, NeedsHandle, Actors, Builders, Labels, Site, Versions,
            Kinds
    <2>5. CASE LoopIgnore
      BY <2>5 DEF LoopIgnore, At, Goto, LoopUnchanged, HandleContent, siteVars, errVars,
            timerVars, envVars, HandleInv, NeedsHandle, Actors, Builders, Labels, Site,
            Versions, Kinds
    <2>6. CASE LoopDebounce
      BY <2>6 DEF LoopDebounce, At, Goto, LoopUnchanged, HandleContent, siteVars,
            errVars, envVars, HandleInv, NeedsHandle, Actors, Builders, Labels, Site,
            Versions, Kinds
    <2>7. CASE LoopFilter
      <3>1. HugoOK(Loop) \/ HugoFails
        BY <2>7 DEF LoopFilter
      <3>2. \E l \in {"rebuild", "finish"} : Goto(Loop, l)
        BY <2>7 DEF LoopFilter
      <3>3. LoopUnchanged /\ UNCHANGED <<sem, timerVars>>
        BY <2>7 DEF LoopFilter
      <3> QED
        BY <3>1, <3>2, <3>3, HugoTyped
        DEF Goto, LoopUnchanged, timerVars, envVars, HandleInv, NeedsHandle, Actors, Builders, Labels
    <2>8. CASE LoopHugo
      <3>1. /\ slot' \in Versions \cup {None} /\ sites' \in [Versions -> Site] /\ fails' \in Nat
            /\ handle' \in [Actors -> Versions \cup {None}]
            /\ \A b \in Actors : handle[b] # None => handle'[b] # None
        BY <2>8, HugoTyped DEF LoopHugo, Actors, Builders
      <3>2. \E l \in {"start", "post"} : Goto(Loop, l) /\ (l = "start" => handle'[Loop] # None)
        BY <2>8, HugoTyped DEF LoopHugo, Actors, Builders
      <3>3. LoopUnchanged /\ UNCHANGED <<sem, paused, waserr, timerVars>>
        BY <2>8 DEF LoopHugo
      <3> HIDE DEF Site, Versions
      <3> QED
        BY <3>1, <3>2, <3>3 DEF Goto, LoopUnchanged, timerVars, envVars, HandleInv,
              NeedsHandle, Actors, Builders, Labels
    <2>9. CASE LoopBuildStart
      BY <2>9, ReadTyped DEF LoopBuildStart, Step, At, Goto, LoopUnchanged, errVars,
            timerVars, envVars, HandleInv, NeedsHandle, Actors, Builders, Labels, Site,
            Versions, Kinds
    <2>10. CASE LoopBuildDone
      BY <2>10 DEF LoopBuildDone, Step, At, Goto, BuildResult, PublishSite, siteVars,
            timerVars, envVars, HandleInv, NeedsHandle, Actors, Builders, Labels, Site,
            Versions, Kinds
    <2>11. CASE LoopPost
      BY <2>11, HugoTyped DEF LoopPost, Step, At, Goto, HugoTry, LoopUnchanged,
            siteVars, errVars, timerVars, envVars, HandleInv, NeedsHandle, Actors,
            Builders, Labels, Site, Versions, Kinds
    <2>12. CASE LoopFinish
      BY <2>12 DEF LoopFinish, Step, At, Goto, DropLock, siteVars, timerVars, envVars,
            HandleInv, NeedsHandle, Actors, Builders, Labels, Site, Versions, Kinds
    <2> QED
      BY <1>1, <2>1, <2>2, <2>3, <2>4, <2>5, <2>6, <2>7, <2>8, <2>9, <2>10, <2>11, <2>12
            DEF LoopNext
  <1>2. ASSUME NEW r \in Rebuilders, RebuildNext(r) PROVE DataInv'
    <2>1. CASE RebuildBump(r)
      BY <2>1 DEF RebuildBump, Step, At, Goto, siteVars, errVars, timerVars, envVars,
            HandleInv, NeedsHandle, Actors, Builders, Labels, Site, Versions, Kinds
    <2>2. CASE RebuildLoad(r)
      <3>1. \E l \in {"pause", "resume"} : Goto(r, l)
        BY <2>2 DEF RebuildLoad
      <3>2. conf' \in {conf, disk} /\ fails' \in {fails, fails + 1}
        BY <2>2 DEF RebuildLoad
      <3>3. UNCHANGED <<handle, batch, lock, sem, ver, siteVars, timerVars, envVars, published>>
        BY <2>2 DEF RebuildLoad
      <3> QED
        BY <3>1, <3>2, <3>3 DEF Goto, siteVars, timerVars, envVars, HandleInv, NeedsHandle, Actors, Builders, Labels
    <2>3. CASE RebuildPause(r)
      BY <2>3 DEF RebuildPause, Step, At, Goto, RebuildUnchanged, siteVars, timerVars,
            envVars, HandleInv, NeedsHandle, Actors, Builders, Labels, Site, Versions,
            Kinds
    <2>4. CASE RebuildFailed(r)
      BY <2>4 DEF RebuildFailed, Step, At, Goto, RebuildUnchanged, siteVars, timerVars,
            envVars, HandleInv, NeedsHandle, Actors, Builders, Labels, Site, Versions,
            Kinds
    <2>5. CASE RebuildResume(r)
      BY <2>5 DEF RebuildResume, Step, At, Goto, RebuildUnchanged, siteVars, timerVars,
            envVars, HandleInv, NeedsHandle, Actors, Builders, Labels, Site, Versions,
            Kinds
    <2>6. CASE RebuildCheck(r)
      BY <2>6 DEF RebuildCheck, Step, At, Goto, RebuildUnchanged, siteVars, errVars,
            timerVars, envVars, HandleInv, NeedsHandle, Actors, Builders, Labels, Site,
            Versions, Kinds
    <2>7. CASE RebuildStatic(r)
      BY <2>7, HugoTyped DEF RebuildStatic, At, Goto, RebuildUnchanged, errVars,
            timerVars, envVars, HandleInv, NeedsHandle, Actors, Builders, Labels, Site,
            Versions, Kinds
    <2>8. CASE RebuildPost(r)
      BY <2>8, HugoTyped DEF RebuildPost, Step, At, Goto, HugoTry, RebuildUnchanged,
            errVars, timerVars, envVars, HandleInv, NeedsHandle, Actors, Builders,
            Labels, Site, Versions, Kinds
    <2>9. CASE RebuildRelease(r)
      BY <2>9 DEF RebuildRelease, Step, At, Goto, siteVars, errVars, timerVars, envVars,
            HandleInv, NeedsHandle, Actors, Builders, Labels, Site, Versions, Kinds
    <2> QED BY <1>2, <2>1, <2>2, <2>3, <2>4, <2>5, <2>6, <2>7, <2>8, <2>9 DEF RebuildNext
  <1>3. ASSUME NEW a \in Builders, BuildNext(a) PROVE DataInv'
    <2>1. CASE BuildHugo(a)
      <3>1. /\ slot' \in Versions \cup {None} /\ sites' \in [Versions -> Site] /\ fails' \in Nat
            /\ handle' \in [Actors -> Versions \cup {None}]
            /\ \A b \in Actors : handle[b] # None => handle'[b] # None
        BY <2>1, HugoTyped DEF BuildHugo, Actors, Builders
      <3>2. \E l \in {"lock", "report"} : Goto(a, l) /\ (l = "lock" => handle'[a] # None)
        BY <2>1, HugoTyped DEF BuildHugo, Actors, Builders
      <3>3. RebuildUnchanged /\ UNCHANGED <<lock, errVars, published>>
        BY <2>1 DEF BuildHugo
      <3> HIDE DEF Site, Versions
      <3> QED
        BY <3>1, <3>2, <3>3 DEF Goto, RebuildUnchanged, errVars, timerVars, envVars, HandleInv,
              NeedsHandle, Actors, Builders, Labels
    <2>2. CASE BuildLock(a)
      BY <2>2, ReadTyped DEF BuildLock, Step, At, Goto, TakeLock, RebuildUnchanged,
            errVars, timerVars, envVars, HandleInv, NeedsHandle, Actors, Builders,
            Labels, Site, Versions, Kinds
    <2>3. CASE BuildDone(a)
      BY <2>3 DEF BuildDone, Step, At, Goto, DropLock, BuildResult, PublishSite,
            RebuildUnchanged, siteVars, errVars, timerVars, envVars, HandleInv,
            NeedsHandle, Actors, Builders, Labels, Site, Versions, Kinds
    <2>4. CASE BuildReport(a)
      BY <2>4 DEF BuildReport, Step, At, Goto, RebuildUnchanged, siteVars, timerVars,
            envVars, HandleInv, NeedsHandle, Actors, Builders, Labels, Site, Versions,
            Kinds
    <2> QED BY <1>3, <2>1, <2>2, <2>3, <2>4 DEF BuildNext
  <1>4. ASSUME NEW h \in Handlers, RequestNext(h) PROVE DataInv'
    <2>1. CASE RequestHugo(h)
      <3>1. /\ slot' \in Versions \cup {None} /\ sites' \in [Versions -> Site] /\ fails' \in Nat
            /\ handle' \in [Actors -> Versions \cup {None}]
            /\ \A b \in Actors : handle[b] # None => handle'[b] # None
        BY <2>1, HugoTyped DEF RequestHugo, Actors, Builders
      <3>2. \E l \in {"lock", "rendered"} : Goto(h, l) /\ (l = "lock" => handle'[h] # None)
        BY <2>1, HugoTyped DEF RequestHugo, Actors, Builders
      <3>3. HandlerUnchanged /\ UNCHANGED <<lock, builderr, waserr, published>>
        BY <2>1 DEF RequestHugo
      <3> HIDE DEF Site, Versions
      <3> QED
        BY <3>1, <3>2, <3>3 DEF Goto, HandlerUnchanged, timerVars, envVars, HandleInv,
              NeedsHandle, Actors, Builders, Labels
    <2>2. CASE RequestLock(h)
      BY <2>2 DEF RequestLock, Step, At, Goto, TakeLock, HandlerUnchanged, siteVars,
            timerVars, envVars, HandleInv, NeedsHandle, Actors, Builders, Labels, Site,
            Versions, Kinds
    <2>3. CASE RequestRendered(h)
      BY <2>3 DEF RequestRendered, Step, At, Goto, DropLock, BuildResult,
            PublishVisited, HandlerUnchanged, siteVars, timerVars, envVars, HandleInv,
            NeedsHandle, Actors, Builders, Labels, Site, Versions, Kinds
    <2>4. CASE RequestWasErr(h)
      BY <2>4 DEF RequestWasErr, Step, At, Goto, HandlerUnchanged, siteVars, timerVars,
            envVars, HandleInv, NeedsHandle, Actors, Builders, Labels, Site, Versions,
            Kinds
    <2>5. CASE RequestReport(h)
      BY <2>5 DEF RequestReport, Step, At, Goto, HandlerUnchanged, siteVars, timerVars,
            envVars, HandleInv, NeedsHandle, Actors, Builders, Labels, Site, Versions,
            Kinds
    <2> QED BY <1>4, <2>1, <2>2, <2>3, <2>4, <2>5 DEF RequestNext
  <1>5. CASE TimerFires
    BY <1>5 DEF TimerFires, siteVars, errVars, envVars, HandleInv, NeedsHandle, Actors,
          Builders, Labels, Site, Versions, Kinds
  <1>6. CASE TimerAcquire
    BY <1>6 DEF TimerAcquire, Spawn, siteVars, errVars, envVars, HandleInv, NeedsHandle,
          Actors, Builders, Labels, Site, Versions, Kinds
  <1>7. CASE MainPost
    <2>1. HugoOK(Main) \/ HugoFails \/ UNCHANGED <<handle, siteVars, fails>>
      BY <1>7 DEF MainPost
    <2>2. \E l \in {"serving", "exited"} : Goto(Main, l)
      BY <1>7 DEF MainPost
    <2>3. RebuildUnchanged /\ UNCHANGED <<lock, published>>
      BY <1>7 DEF MainPost
    <2> QED
      BY <2>1, <2>2, <2>3, HugoTyped
      DEF Goto, RebuildUnchanged, siteVars, timerVars, envVars, HandleInv, NeedsHandle, Actors, Builders, Labels
  <1>8. CASE EditConfig
    BY <1>8 DEF EditConfig, At, EnvUnchanged, MayEdit, siteVars, errVars, timerVars,
          HandleInv, NeedsHandle, Actors, Builders, Labels, Site, Versions, Kinds
  <1>9. CASE EditContent
    BY <1>9 DEF EditContent, At, EnvUnchanged, MayEdit, siteVars, errVars, timerVars,
          HandleInv, NeedsHandle, Actors, Builders, Labels, Site, Versions, Kinds
  <1>10. CASE TouchFile
    BY <1>10 DEF TouchFile, EnvUnchanged, siteVars, errVars, timerVars, HandleInv,
          NeedsHandle, Actors, Builders, Labels, Site, Versions, Kinds
  <1>11. CASE SignalRebuild
    BY <1>11 DEF SignalRebuild, EnvUnchanged, siteVars, errVars, timerVars, HandleInv,
          NeedsHandle, Actors, Builders, Labels, Site, Versions, Kinds
  <1>12. ASSUME NEW h \in Handlers, RequestPage(h) PROVE DataInv'
    BY <1>12 DEF RequestPage, Step, At, Goto, HandlerUnchanged, siteVars, timerVars,
          envVars, HandleInv, NeedsHandle, Actors, Builders, Labels, Site, Versions,
          Kinds
  <1>13. ASSUME NEW h \in Handlers, RequestShowsError(h) PROVE DataInv'
    BY <1>13, HugoTyped DEF RequestShowsError, At, HugoTry, HandlerUnchanged, timerVars,
          envVars, HandleInv, NeedsHandle, Actors, Builders, Labels, Site, Versions,
          Kinds
  <1>14. CASE UNCHANGED vars
    BY <1>14 DEF vars, siteVars, errVars, timerVars, envVars, HandleInv, NeedsHandle,
          Actors, Builders, Labels, Site, Versions, Kinds
  <1> QED
    BY <1>1, <1>2, <1>3, <1>4, <1>5, <1>6, <1>7, <1>8, <1>9, <1>10, <1>11, <1>12, <1>13,
          <1>14 DEF Next, ServerNext, EnvNext

(***************************************************************************)
(* The build lock, the semaphore and the current HugoSites.                *)
(***************************************************************************)

\* Every step keeps LockInv.
LEMMA LockStep == DataInv /\ LockInv /\ [Next]_vars => LockInv'
  <1> SUFFICES ASSUME DataInv, LockInv, [Next]_vars PROVE LockInv' OBVIOUS
  <1> USE ActorsAssumption DEF DataInv, DataOK, LockInv, HoldsLock, InBuild, Actors, Builders
  <1>1. CASE LoopNext
    <2>1. CASE LoopReceive
      BY <2>1 DEF LoopReceive, Step, At, Goto, siteVars, errVars, timerVars
    <2>2. CASE LoopLock
      BY <2>2 DEF LoopLock, Step, At, Goto, TakeLock, siteVars, errVars, timerVars,
            envVars
    <2>3. CASE LoopConfig
      BY <2>3 DEF LoopConfig, At, Goto, LoopUnchanged, siteVars, errVars, timerVars,
            envVars
    <2>4. CASE LoopAcquire
      BY <2>4 DEF LoopAcquire, At, Spawn, LoopUnchanged, siteVars, errVars, timerVars,
            envVars
    <2>5. CASE LoopIgnore
      BY <2>5 DEF LoopIgnore, At, Goto, LoopUnchanged, HandleContent, siteVars, errVars,
            timerVars, envVars
    <2>6. CASE LoopDebounce
      BY <2>6 DEF LoopDebounce, At, Goto, LoopUnchanged, HandleContent, siteVars,
            errVars, envVars
    <2>7. CASE LoopFilter
      BY <2>7 DEF LoopFilter, At, Goto, LoopUnchanged, HandleContent, errVars,
            timerVars, envVars
    <2>8. CASE LoopHugo
      BY <2>8 DEF LoopHugo, At, Goto, LoopUnchanged, timerVars, envVars
    <2>9. CASE LoopBuildStart
      BY <2>9 DEF LoopBuildStart, Step, At, Goto, LoopUnchanged, errVars, timerVars,
            envVars
    <2>10. CASE LoopBuildDone
      BY <2>10 DEF LoopBuildDone, Step, At, Goto, siteVars, timerVars, envVars
    <2>11. CASE LoopPost
      BY <2>11 DEF LoopPost, Step, At, Goto, LoopUnchanged, siteVars, errVars,
            timerVars, envVars
    <2>12. CASE LoopFinish
      BY <2>12 DEF LoopFinish, Step, At, Goto, DropLock, siteVars, timerVars, envVars
    <2> QED
      BY <1>1, <2>1, <2>2, <2>3, <2>4, <2>5, <2>6, <2>7, <2>8, <2>9, <2>10, <2>11, <2>12
            DEF LoopNext
  <1>2. ASSUME NEW r \in Rebuilders, RebuildNext(r) PROVE LockInv'
    <2>1. CASE RebuildBump(r)
      BY <2>1 DEF RebuildBump, Step, At, Goto, siteVars, errVars, timerVars, envVars
    <2>2. CASE RebuildLoad(r)
      BY <2>2 DEF RebuildLoad, At, Goto, siteVars, errVars, timerVars, envVars
    <2>3. CASE RebuildPause(r)
      BY <2>3 DEF RebuildPause, Step, At, Goto, RebuildUnchanged, siteVars, timerVars,
            envVars
    <2>4. CASE RebuildFailed(r)
      BY <2>4 DEF RebuildFailed, Step, At, Goto, RebuildUnchanged, siteVars, timerVars,
            envVars
    <2>5. CASE RebuildResume(r)
      BY <2>5 DEF RebuildResume, Step, At, Goto, RebuildUnchanged, siteVars, timerVars,
            envVars
    <2>6. CASE RebuildCheck(r)
      BY <2>6 DEF RebuildCheck, Step, At, Goto, RebuildUnchanged, siteVars, errVars,
            timerVars, envVars
    <2>7. CASE RebuildStatic(r)
      BY <2>7 DEF RebuildStatic, At, Goto, RebuildUnchanged, errVars, timerVars, envVars
    <2>8. CASE RebuildPost(r)
      BY <2>8 DEF RebuildPost, Step, At, Goto, RebuildUnchanged, errVars, timerVars,
            envVars
    <2>9. CASE RebuildRelease(r)
      BY <2>9 DEF RebuildRelease, Step, At, Goto, siteVars, errVars, timerVars, envVars
    <2> QED BY <1>2, <2>1, <2>2, <2>3, <2>4, <2>5, <2>6, <2>7, <2>8, <2>9 DEF RebuildNext
  <1>3. ASSUME NEW a \in Builders, BuildNext(a) PROVE LockInv'
    <2>1. CASE BuildHugo(a)
      BY <2>1 DEF BuildHugo, At, Goto, RebuildUnchanged, errVars, timerVars, envVars
    <2>2. CASE BuildLock(a)
      BY <2>2 DEF BuildLock, Step, At, Goto, TakeLock, RebuildUnchanged, errVars,
            timerVars, envVars
    <2>3. CASE BuildDone(a)
      BY <2>3 DEF BuildDone, Step, At, Goto, DropLock, RebuildUnchanged, siteVars,
            errVars, timerVars, envVars
    <2>4. CASE BuildReport(a)
      BY <2>4 DEF BuildReport, Step, At, Goto, RebuildUnchanged, siteVars, timerVars,
            envVars
    <2> QED BY <1>3, <2>1, <2>2, <2>3, <2>4 DEF BuildNext
  <1>4. ASSUME NEW h \in Handlers, RequestNext(h) PROVE LockInv'
    <2>1. CASE RequestHugo(h)
      BY <2>1 DEF RequestHugo, At, Goto, HandlerUnchanged, timerVars, envVars
    <2>2. CASE RequestLock(h)
      BY <2>2 DEF RequestLock, Step, At, Goto, TakeLock, HandlerUnchanged, siteVars,
            timerVars, envVars
    <2>3. CASE RequestRendered(h)
      BY <2>3 DEF RequestRendered, Step, At, Goto, DropLock, HandlerUnchanged, siteVars,
            timerVars, envVars
    <2>4. CASE RequestWasErr(h)
      BY <2>4 DEF RequestWasErr, Step, At, Goto, HandlerUnchanged, siteVars, timerVars,
            envVars
    <2>5. CASE RequestReport(h)
      BY <2>5 DEF RequestReport, Step, At, Goto, HandlerUnchanged, siteVars, timerVars,
            envVars
    <2> QED BY <1>4, <2>1, <2>2, <2>3, <2>4, <2>5 DEF RequestNext
  <1>5. CASE TimerFires
    BY <1>5 DEF TimerFires, siteVars, errVars, envVars
  <1>6. CASE TimerAcquire
    BY <1>6 DEF TimerAcquire, Spawn, siteVars, errVars, envVars
  <1>7. CASE MainPost
    BY <1>7 DEF MainPost, At, Goto, RebuildUnchanged, siteVars, errVars, timerVars,
          envVars
  <1>8. CASE EditConfig
    BY <1>8 DEF EditConfig, At, EnvUnchanged, MayEdit, siteVars, errVars, timerVars
  <1>9. CASE EditContent
    BY <1>9 DEF EditContent, At, EnvUnchanged, MayEdit, siteVars, errVars, timerVars
  <1>10. CASE TouchFile
    BY <1>10 DEF TouchFile, EnvUnchanged, siteVars, errVars, timerVars
  <1>11. CASE SignalRebuild
    BY <1>11 DEF SignalRebuild, EnvUnchanged, siteVars, errVars, timerVars
  <1>12. ASSUME NEW h \in Handlers, RequestPage(h) PROVE LockInv'
    BY <1>12 DEF RequestPage, Step, At, Goto, HandlerUnchanged, siteVars, timerVars,
          envVars
  <1>13. ASSUME NEW h \in Handlers, RequestShowsError(h) PROVE LockInv'
    BY <1>13 DEF RequestShowsError, At, HandlerUnchanged, timerVars, envVars
  <1>14. CASE UNCHANGED vars
    BY <1>14 DEF vars, siteVars, errVars, timerVars, envVars
  <1> QED
    BY <1>1, <1>2, <1>3, <1>4, <1>5, <1>6, <1>7, <1>8, <1>9, <1>10, <1>11, <1>12, <1>13,
          <1>14 DEF Next, ServerNext, EnvNext

\* Every step keeps SemInv.
LEMMA SemStep == DataInv /\ SemInv /\ [Next]_vars => SemInv'
  <1> SUFFICES ASSUME DataInv, SemInv, [Next]_vars PROVE SemInv' OBVIOUS
  <1> USE ActorsAssumption DEF DataInv, DataOK, SemInv, Actors, Builders
  <1>1. CASE LoopNext
    <2>1. CASE LoopReceive
      BY <2>1 DEF LoopReceive, Step, At, Goto, siteVars, errVars, timerVars
    <2>2. CASE LoopLock
      BY <2>2 DEF LoopLock, Step, At, Goto, TakeLock, siteVars, errVars, timerVars,
            envVars
    <2>3. CASE LoopConfig
      BY <2>3 DEF LoopConfig, At, Goto, LoopUnchanged, siteVars, errVars, timerVars,
            envVars
    <2>4. CASE LoopAcquire
      BY <2>4 DEF LoopAcquire, At, Spawn, LoopUnchanged, siteVars, errVars, timerVars,
            envVars
    <2>5. CASE LoopIgnore
      BY <2>5 DEF LoopIgnore, At, Goto, LoopUnchanged, HandleContent, siteVars, errVars,
            timerVars, envVars
    <2>6. CASE LoopDebounce
      BY <2>6 DEF LoopDebounce, At, Goto, LoopUnchanged, HandleContent, siteVars,
            errVars, envVars
    <2>7. CASE LoopFilter
      BY <2>7 DEF LoopFilter, At, Goto, LoopUnchanged, HandleContent, errVars,
            timerVars, envVars
    <2>8. CASE LoopHugo
      BY <2>8 DEF LoopHugo, At, Goto, LoopUnchanged, timerVars, envVars
    <2>9. CASE LoopBuildStart
      BY <2>9 DEF LoopBuildStart, Step, At, Goto, LoopUnchanged, errVars, timerVars,
            envVars
    <2>10. CASE LoopBuildDone
      BY <2>10 DEF LoopBuildDone, Step, At, Goto, siteVars, timerVars, envVars
    <2>11. CASE LoopPost
      BY <2>11 DEF LoopPost, Step, At, Goto, LoopUnchanged, siteVars, errVars,
            timerVars, envVars
    <2>12. CASE LoopFinish
      BY <2>12 DEF LoopFinish, Step, At, Goto, DropLock, siteVars, timerVars, envVars
    <2> QED
      BY <1>1, <2>1, <2>2, <2>3, <2>4, <2>5, <2>6, <2>7, <2>8, <2>9, <2>10, <2>11, <2>12
            DEF LoopNext
  <1>2. ASSUME NEW r \in Rebuilders, RebuildNext(r) PROVE SemInv'
    <2>1. CASE RebuildBump(r)
      BY <2>1 DEF RebuildBump, Step, At, Goto, siteVars, errVars, timerVars, envVars
    <2>2. CASE RebuildLoad(r)
      BY <2>2 DEF RebuildLoad, At, Goto, siteVars, errVars, timerVars, envVars
    <2>3. CASE RebuildPause(r)
      BY <2>3 DEF RebuildPause, Step, At, Goto, RebuildUnchanged, siteVars, timerVars,
            envVars
    <2>4. CASE RebuildFailed(r)
      BY <2>4 DEF RebuildFailed, Step, At, Goto, RebuildUnchanged, siteVars, timerVars,
            envVars
    <2>5. CASE RebuildResume(r)
      BY <2>5 DEF RebuildResume, Step, At, Goto, RebuildUnchanged, siteVars, timerVars,
            envVars
    <2>6. CASE RebuildCheck(r)
      BY <2>6 DEF RebuildCheck, Step, At, Goto, RebuildUnchanged, siteVars, errVars,
            timerVars, envVars
    <2>7. CASE RebuildStatic(r)
      BY <2>7 DEF RebuildStatic, At, Goto, RebuildUnchanged, errVars, timerVars, envVars
    <2>8. CASE RebuildPost(r)
      BY <2>8 DEF RebuildPost, Step, At, Goto, RebuildUnchanged, errVars, timerVars,
            envVars
    <2>9. CASE RebuildRelease(r)
      BY <2>9 DEF RebuildRelease, Step, At, Goto, siteVars, errVars, timerVars, envVars
    <2> QED BY <1>2, <2>1, <2>2, <2>3, <2>4, <2>5, <2>6, <2>7, <2>8, <2>9 DEF RebuildNext
  <1>3. ASSUME NEW a \in Builders, BuildNext(a) PROVE SemInv'
    <2>1. CASE BuildHugo(a)
      BY <2>1 DEF BuildHugo, At, Goto, RebuildUnchanged, errVars, timerVars, envVars
    <2>2. CASE BuildLock(a)
      BY <2>2 DEF BuildLock, Step, At, Goto, TakeLock, RebuildUnchanged, errVars,
            timerVars, envVars
    <2>3. CASE BuildDone(a)
      BY <2>3 DEF BuildDone, Step, At, Goto, DropLock, RebuildUnchanged, siteVars,
            errVars, timerVars, envVars
    <2>4. CASE BuildReport(a)
      BY <2>4 DEF BuildReport, Step, At, Goto, RebuildUnchanged, siteVars, timerVars,
            envVars
    <2> QED BY <1>3, <2>1, <2>2, <2>3, <2>4 DEF BuildNext
  <1>4. ASSUME NEW h \in Handlers, RequestNext(h) PROVE SemInv'
    <2>1. CASE RequestHugo(h)
      BY <2>1 DEF RequestHugo, At, Goto, HandlerUnchanged, timerVars, envVars
    <2>2. CASE RequestLock(h)
      BY <2>2 DEF RequestLock, Step, At, Goto, TakeLock, HandlerUnchanged, siteVars,
            timerVars, envVars
    <2>3. CASE RequestRendered(h)
      BY <2>3 DEF RequestRendered, Step, At, Goto, DropLock, HandlerUnchanged, siteVars,
            timerVars, envVars
    <2>4. CASE RequestWasErr(h)
      BY <2>4 DEF RequestWasErr, Step, At, Goto, HandlerUnchanged, siteVars, timerVars,
            envVars
    <2>5. CASE RequestReport(h)
      BY <2>5 DEF RequestReport, Step, At, Goto, HandlerUnchanged, siteVars, timerVars,
            envVars
    <2> QED BY <1>4, <2>1, <2>2, <2>3, <2>4, <2>5 DEF RequestNext
  <1>5. CASE TimerFires
    BY <1>5 DEF TimerFires, siteVars, errVars, envVars
  <1>6. CASE TimerAcquire
    BY <1>6 DEF TimerAcquire, Spawn, siteVars, errVars, envVars
  <1>7. CASE MainPost
    BY <1>7 DEF MainPost, At, Goto, RebuildUnchanged, siteVars, errVars, timerVars,
          envVars
  <1>8. CASE EditConfig
    BY <1>8 DEF EditConfig, At, EnvUnchanged, MayEdit, siteVars, errVars, timerVars
  <1>9. CASE EditContent
    BY <1>9 DEF EditContent, At, EnvUnchanged, MayEdit, siteVars, errVars, timerVars
  <1>10. CASE TouchFile
    BY <1>10 DEF TouchFile, EnvUnchanged, siteVars, errVars, timerVars
  <1>11. CASE SignalRebuild
    BY <1>11 DEF SignalRebuild, EnvUnchanged, siteVars, errVars, timerVars
  <1>12. ASSUME NEW h \in Handlers, RequestPage(h) PROVE SemInv'
    BY <1>12 DEF RequestPage, Step, At, Goto, HandlerUnchanged, siteVars, timerVars,
          envVars
  <1>13. ASSUME NEW h \in Handlers, RequestShowsError(h) PROVE SemInv'
    BY <1>13 DEF RequestShowsError, At, HandlerUnchanged, timerVars, envVars
  <1>14. CASE UNCHANGED vars
    BY <1>14 DEF vars, siteVars, errVars, timerVars, envVars
  <1> QED
    BY <1>1, <1>2, <1>3, <1>4, <1>5, <1>6, <1>7, <1>8, <1>9, <1>10, <1>11, <1>12, <1>13,
          <1>14 DEF Next, ServerNext, EnvNext

\* Only the holder of the semaphore bumps the version, so a full rebuild that
\* waits for the lock keeps the current HugoSites.
LEMMA CurrentStep == DataInv /\ SemInv /\ FullRebuildOnCurrent /\ [Next]_vars => FullRebuildOnCurrent'
  <1> SUFFICES ASSUME DataInv, SemInv, FullRebuildOnCurrent, [Next]_vars
               PROVE  FullRebuildOnCurrent'
    OBVIOUS
  <1> USE ActorsAssumption DEF DataInv, DataOK, SemInv, FullRebuildOnCurrent, Actors, Builders
  <1>1. CASE LoopNext
    <2>1. CASE LoopReceive
      BY <2>1 DEF LoopReceive, Step, At, Goto, siteVars, errVars, timerVars
    <2>2. CASE LoopLock
      BY <2>2 DEF LoopLock, Step, At, Goto, siteVars, errVars, timerVars, envVars
    <2>3. CASE LoopConfig
      BY <2>3 DEF LoopConfig, At, Goto, LoopUnchanged, siteVars, errVars, timerVars,
            envVars
    <2>4. CASE LoopAcquire
      BY <2>4 DEF LoopAcquire, At, Spawn, LoopUnchanged, siteVars, errVars, timerVars,
            envVars
    <2>5. CASE LoopIgnore
      BY <2>5 DEF LoopIgnore, Goto, LoopUnchanged, siteVars, errVars, timerVars, envVars
    <2>6. CASE LoopDebounce
      BY <2>6 DEF LoopDebounce, Goto, LoopUnchanged, siteVars, errVars, envVars
    <2>7. CASE LoopFilter
      BY <2>7 DEF LoopFilter, Goto, HugoOK, HugoFails, LoopUnchanged, errVars,
            timerVars, envVars
    <2>8. CASE LoopHugo
      BY <2>8 DEF LoopHugo, At, Goto, HugoOK, HugoFails, LoopUnchanged, timerVars,
            envVars
    <2>9. CASE LoopBuildStart
      BY <2>9 DEF LoopBuildStart, Step, At, Goto, LoopUnchanged, errVars, timerVars,
            envVars, ReadChanged
    <2>10. CASE LoopBuildDone
      BY <2>10 DEF LoopBuildDone, Step, At, Goto, siteVars, timerVars, envVars
    <2>11. CASE LoopPost
      BY <2>11 DEF LoopPost, Step, At, Goto, HugoTry, HugoOK, HugoFails, LoopUnchanged,
            siteVars, errVars, timerVars, envVars
    <2>12. CASE LoopFinish
      BY <2>12 DEF LoopFinish, Step, At, Goto, siteVars, timerVars, envVars
    <2> QED
      BY <1>1, <2>1, <2>2, <2>3, <2>4, <2>5, <2>6, <2>7, <2>8, <2>9, <2>10, <2>11, <2>12
            DEF LoopNext
  <1>2. ASSUME NEW r \in Rebuilders, RebuildNext(r) PROVE FullRebuildOnCurrent'
    <2>1. CASE RebuildBump(r)
      BY <2>1 DEF RebuildBump, Step, At, Goto, siteVars, errVars, timerVars, envVars
    <2>2. CASE RebuildLoad(r)
      BY <2>2 DEF RebuildLoad, At, Goto, siteVars, errVars, timerVars, envVars
    <2>3. CASE RebuildPause(r)
      BY <2>3 DEF RebuildPause, Step, At, Goto, RebuildUnchanged, siteVars, timerVars,
            envVars
    <2>4. CASE RebuildFailed(r)
      BY <2>4 DEF RebuildFailed, Step, At, Goto, RebuildUnchanged, siteVars, timerVars,
            envVars
    <2>5. CASE RebuildResume(r)
      BY <2>5 DEF RebuildResume, Step, At, Goto, RebuildUnchanged, siteVars, timerVars,
            envVars
    <2>6. CASE RebuildCheck(r)
      BY <2>6 DEF RebuildCheck, Step, At, Goto, RebuildUnchanged, siteVars, errVars,
            timerVars, envVars
    <2>7. CASE RebuildStatic(r)
      BY <2>7 DEF RebuildStatic, At, Goto, HugoOK, HugoFails, RebuildUnchanged, errVars,
            timerVars, envVars
    <2>8. CASE RebuildPost(r)
      BY <2>8 DEF RebuildPost, Step, At, Goto, HugoTry, HugoOK, HugoFails,
            RebuildUnchanged, errVars, timerVars, envVars
    <2>9. CASE RebuildRelease(r)
      BY <2>9 DEF RebuildRelease, Step, At, Goto, siteVars, errVars, timerVars, envVars
    <2> QED BY <1>2, <2>1, <2>2, <2>3, <2>4, <2>5, <2>6, <2>7, <2>8, <2>9 DEF RebuildNext
  <1>3. ASSUME NEW a \in Builders, BuildNext(a) PROVE FullRebuildOnCurrent'
    <2>1. CASE BuildHugo(a)
      BY <2>1 DEF BuildHugo, At, Goto, HugoOK, HugoFails, RebuildUnchanged, errVars,
            timerVars, envVars
    <2>2. CASE BuildLock(a)
      BY <2>2 DEF BuildLock, Step, At, Goto, RebuildUnchanged, errVars, timerVars,
            envVars, ReadAll
    <2>3. CASE BuildDone(a)
      BY <2>3 DEF BuildDone, Step, At, Goto, RebuildUnchanged, siteVars, errVars,
            timerVars, envVars
    <2>4. CASE BuildReport(a)
      BY <2>4 DEF BuildReport, Step, At, Goto, RebuildUnchanged, siteVars, timerVars,
            envVars
    <2> QED BY <1>3, <2>1, <2>2, <2>3, <2>4 DEF BuildNext
  <1>4. ASSUME NEW h \in Handlers, RequestNext(h) PROVE FullRebuildOnCurrent'
    <2>1. CASE RequestHugo(h)
      BY <2>1 DEF RequestHugo, At, Goto, HugoOK, HugoFails, HandlerUnchanged, timerVars,
            envVars
    <2>2. CASE RequestLock(h)
      BY <2>2 DEF RequestLock, Step, At, Goto, HandlerUnchanged, siteVars, timerVars,
            envVars
    <2>3. CASE RequestRendered(h)
      BY <2>3 DEF RequestRendered, Step, At, Goto, HandlerUnchanged, siteVars,
            timerVars, envVars
    <2>4. CASE RequestWasErr(h)
      BY <2>4 DEF RequestWasErr, Step, At, Goto, HandlerUnchanged, siteVars, timerVars,
            envVars
    <2>5. CASE RequestReport(h)
      BY <2>5 DEF RequestReport, Step, At, Goto, HandlerUnchanged, siteVars, timerVars,
            envVars
    <2> QED BY <1>4, <2>1, <2>2, <2>3, <2>4, <2>5 DEF RequestNext
  <1>5. CASE TimerFires
    BY <1>5 DEF TimerFires, siteVars, errVars, envVars
  <1>6. CASE TimerAcquire
    BY <1>6 DEF TimerAcquire, Spawn, siteVars, errVars, envVars
  <1>7. CASE MainPost
    BY <1>7 DEF MainPost, At, Goto, HugoOK, HugoFails, RebuildUnchanged, siteVars,
          errVars, timerVars, envVars
  <1>8. CASE EditConfig
    BY <1>8 DEF EditConfig, EnvUnchanged, siteVars, errVars, timerVars
  <1>9. CASE EditContent
    BY <1>9 DEF EditContent, EnvUnchanged, siteVars, errVars, timerVars
  <1>10. CASE TouchFile
    BY <1>10 DEF TouchFile, EnvUnchanged, siteVars, errVars, timerVars
  <1>11. CASE SignalRebuild
    BY <1>11 DEF SignalRebuild, EnvUnchanged, siteVars, errVars, timerVars
  <1>12. ASSUME NEW h \in Handlers, RequestPage(h) PROVE FullRebuildOnCurrent'
    BY <1>12 DEF RequestPage, Step, At, Goto, HandlerUnchanged, siteVars, timerVars,
          envVars
  <1>13. ASSUME NEW h \in Handlers, RequestShowsError(h) PROVE FullRebuildOnCurrent'
    BY <1>13 DEF RequestShowsError, At, HugoTry, HugoOK, HugoFails, HandlerUnchanged,
          timerVars, envVars
  <1>14. CASE UNCHANGED vars
    BY <1>14 DEF vars, siteVars, errVars, timerVars, envVars
  <1> QED
    BY <1>1, <1>2, <1>3, <1>4, <1>5, <1>6, <1>7, <1>8, <1>9, <1>10, <1>11, <1>12, <1>13,
          <1>14 DEF Next, ServerNext, EnvNext

(***************************************************************************)
(* The theorems.                                                           *)
(***************************************************************************)

\* The inductive invariant holds in every state of the server.
LEMMA Invariance == Spec => []IInv
  <1>1. Init => IInv
    <2> SUFFICES ASSUME Init PROVE IInv OBVIOUS
    <2> USE ActorsAssumption DEF Init
    <2>1. FlagsOK
      BY DEF FlagsOK
    <2>2. DataInv
      BY BoundsAssumption DEF DataInv, DataOK, HandleInv, NeedsHandle, Actors, Labels, Site,
         Versions, Kinds, Unmade
    <2>3. LockInv /\ SemInv /\ FullRebuildOnCurrent
      BY DEF LockInv, HoldsLock, InBuild, SemInv, FullRebuildOnCurrent, Actors
    <2> QED BY <2>1, <2>2, <2>3 DEF IInv
  <1>2. IInv /\ [Next]_vars => IInv'
    BY FlagsStep, DataStep, LockStep, SemStep, CurrentStep DEF IInv
  <1> QED BY <1>1, <1>2, PTL DEF Spec

\* Every variable of the server keeps its type, whatever the bounds.
THEOREM TypeCorrect == Spec => []TypeOK
  <1>1. IInv => TypeOK
    BY DEF IInv, TypeOK, DataInv
  <1> QED BY <1>1, Invariance, PTL

\* No two goroutines are ever inside Build at once, although the event loop
\* builds with NoBuildLock.
THEOREM BuildsExclude == Spec => []BuildExclusion
  <1>1. IInv => BuildExclusion
    BY DEF IInv, LockInv, HoldsLock, BuildExclusion, InBuild
  <1> QED BY <1>1, Invariance, PTL

\* At most one full rebuild is under way, whether the loop or the debounce
\* timer started it.
THEOREM RebuildsExclude == Spec => []OneFullRebuild
  <1>1. IInv => OneFullRebuild
    BY DEF IInv, SemInv, OneFullRebuild
  <1> QED BY <1>1, Invariance, PTL

\* A full rebuild renders the HugoSites of the current configuration version.
THEOREM RebuildsCurrent == Spec => []FullRebuildOnCurrent
  <1>1. IInv => FullRebuildOnCurrent
    BY DEF IInv
  <1> QED BY <1>1, Invariance, PTL

\* Neither the loop nor the full rebuild that wait for each other has a step, and
\* nobody else gives back what they wait for.
LEMMA DeadlockStep == DataInv /\ Deadlocked /\ [Next]_vars => Deadlocked'
  <1> SUFFICES ASSUME DataInv, Deadlocked, [Next]_vars PROVE Deadlocked' OBVIOUS
  <1> USE ActorsAssumption DEF DataInv, DataOK, Deadlocked, At, Actors, Builders
  <1>1. CASE LoopNext
    <2>1. CASE LoopReceive
      BY <2>1 DEF LoopReceive, Step, At, Goto, siteVars, errVars, timerVars
    <2>2. CASE LoopLock
      BY <2>2 DEF LoopLock, Step, At, Goto, TakeLock, siteVars, errVars, timerVars,
            envVars
    <2>3. CASE LoopConfig
      BY <2>3 DEF LoopConfig, At, Goto, LoopUnchanged, siteVars, errVars, timerVars,
            envVars
    <2>4. CASE LoopAcquire
      BY <2>4 DEF LoopAcquire, At, Spawn, LoopUnchanged, siteVars, errVars, timerVars,
            envVars
    <2>5. CASE LoopIgnore
      BY <2>5 DEF LoopIgnore, At, Goto, LoopUnchanged, HandleContent, siteVars, errVars,
            timerVars, envVars
    <2>6. CASE LoopDebounce
      BY <2>6 DEF LoopDebounce, At, Goto, LoopUnchanged, HandleContent, siteVars,
            errVars, envVars
    <2>7. CASE LoopFilter
      BY <2>7 DEF LoopFilter, At, Goto, LoopUnchanged, HandleContent, errVars,
            timerVars, envVars
    <2>8. CASE LoopHugo
      BY <2>8 DEF LoopHugo, At, Goto, LoopUnchanged, timerVars, envVars
    <2>9. CASE LoopBuildStart
      BY <2>9 DEF LoopBuildStart, Step, At, Goto, LoopUnchanged, errVars, timerVars,
            envVars
    <2>10. CASE LoopBuildDone
      BY <2>10 DEF LoopBuildDone, Step, At, Goto, siteVars, timerVars, envVars
    <2>11. CASE LoopPost
      BY <2>11 DEF LoopPost, Step, At, Goto, LoopUnchanged, siteVars, errVars,
            timerVars, envVars
    <2>12. CASE LoopFinish
      BY <2>12 DEF LoopFinish, Step, At, Goto, DropLock, siteVars, timerVars, envVars
    <2> QED
      BY <1>1, <2>1, <2>2, <2>3, <2>4, <2>5, <2>6, <2>7, <2>8, <2>9, <2>10, <2>11, <2>12
            DEF LoopNext
  <1>2. ASSUME NEW r \in Rebuilders, RebuildNext(r) PROVE Deadlocked'
    <2>1. CASE RebuildBump(r)
      BY <2>1 DEF RebuildBump, Step, At, Goto, siteVars, errVars, timerVars, envVars
    <2>2. CASE RebuildLoad(r)
      BY <2>2 DEF RebuildLoad, At, Goto, siteVars, errVars, timerVars, envVars
    <2>3. CASE RebuildPause(r)
      BY <2>3 DEF RebuildPause, Step, At, Goto, RebuildUnchanged, siteVars, timerVars,
            envVars
    <2>4. CASE RebuildFailed(r)
      BY <2>4 DEF RebuildFailed, Step, At, Goto, RebuildUnchanged, siteVars, timerVars,
            envVars
    <2>5. CASE RebuildResume(r)
      BY <2>5 DEF RebuildResume, Step, At, Goto, RebuildUnchanged, siteVars, timerVars,
            envVars
    <2>6. CASE RebuildCheck(r)
      BY <2>6 DEF RebuildCheck, Step, At, Goto, RebuildUnchanged, siteVars, errVars,
            timerVars, envVars
    <2>7. CASE RebuildStatic(r)
      BY <2>7 DEF RebuildStatic, At, Goto, RebuildUnchanged, errVars, timerVars, envVars
    <2>8. CASE RebuildPost(r)
      BY <2>8 DEF RebuildPost, Step, At, Goto, RebuildUnchanged, errVars, timerVars,
            envVars
    <2>9. CASE RebuildRelease(r)
      BY <2>9 DEF RebuildRelease, Step, At, Goto, siteVars, errVars, timerVars, envVars
    <2> QED BY <1>2, <2>1, <2>2, <2>3, <2>4, <2>5, <2>6, <2>7, <2>8, <2>9 DEF RebuildNext
  <1>3. ASSUME NEW a \in Builders, BuildNext(a) PROVE Deadlocked'
    <2>1. CASE BuildHugo(a)
      BY <2>1 DEF BuildHugo, At, Goto, RebuildUnchanged, errVars, timerVars, envVars
    <2>2. CASE BuildLock(a)
      BY <2>2 DEF BuildLock, Step, At, Goto, TakeLock, RebuildUnchanged, errVars,
            timerVars, envVars
    <2>3. CASE BuildDone(a)
      BY <2>3 DEF BuildDone, Step, At, Goto, DropLock, RebuildUnchanged, siteVars,
            errVars, timerVars, envVars
    <2>4. CASE BuildReport(a)
      BY <2>4 DEF BuildReport, Step, At, Goto, RebuildUnchanged, siteVars, timerVars,
            envVars
    <2> QED BY <1>3, <2>1, <2>2, <2>3, <2>4 DEF BuildNext
  <1>4. ASSUME NEW h \in Handlers, RequestNext(h) PROVE Deadlocked'
    <2>1. CASE RequestHugo(h)
      BY <2>1 DEF RequestHugo, At, Goto, HandlerUnchanged, timerVars, envVars
    <2>2. CASE RequestLock(h)
      BY <2>2 DEF RequestLock, Step, At, Goto, TakeLock, HandlerUnchanged, siteVars,
            timerVars, envVars
    <2>3. CASE RequestRendered(h)
      BY <2>3 DEF RequestRendered, Step, At, Goto, DropLock, HandlerUnchanged, siteVars,
            timerVars, envVars
    <2>4. CASE RequestWasErr(h)
      BY <2>4 DEF RequestWasErr, Step, At, Goto, HandlerUnchanged, siteVars, timerVars,
            envVars
    <2>5. CASE RequestReport(h)
      BY <2>5 DEF RequestReport, Step, At, Goto, HandlerUnchanged, siteVars, timerVars,
            envVars
    <2> QED BY <1>4, <2>1, <2>2, <2>3, <2>4, <2>5 DEF RequestNext
  <1>5. CASE TimerFires
    BY <1>5 DEF TimerFires, siteVars, errVars, envVars
  <1>6. CASE TimerAcquire
    BY <1>6 DEF TimerAcquire, Spawn, siteVars, errVars, envVars
  <1>7. CASE MainPost
    BY <1>7 DEF MainPost, At, Goto, RebuildUnchanged, siteVars, errVars, timerVars,
          envVars
  <1>8. CASE EditConfig
    BY <1>8 DEF EditConfig, At, EnvUnchanged, MayEdit, siteVars, errVars, timerVars
  <1>9. CASE EditContent
    BY <1>9 DEF EditContent, At, EnvUnchanged, MayEdit, siteVars, errVars, timerVars
  <1>10. CASE TouchFile
    BY <1>10 DEF TouchFile, EnvUnchanged, siteVars, errVars, timerVars
  <1>11. CASE SignalRebuild
    BY <1>11 DEF SignalRebuild, EnvUnchanged, siteVars, errVars, timerVars
  <1>12. ASSUME NEW h \in Handlers, RequestPage(h) PROVE Deadlocked'
    BY <1>12 DEF RequestPage, Step, At, Goto, HandlerUnchanged, siteVars, timerVars,
          envVars
  <1>13. ASSUME NEW h \in Handlers, RequestShowsError(h) PROVE Deadlocked'
    BY <1>13 DEF RequestShowsError, At, HandlerUnchanged, timerVars, envVars
  <1>14. CASE UNCHANGED vars
    BY <1>14 DEF vars, siteVars, errVars, timerVars, envVars
  <1> QED
    BY <1>1, <1>2, <1>3, <1>4, <1>5, <1>6, <1>7, <1>8, <1>9, <1>10, <1>11, <1>12, <1>13,
          <1>14 DEF Next, ServerNext, EnvNext

\* What ends a wait without an answer is no passing state: a loop and a full rebuild
\* that wait for each other do so for ever.
THEOREM DeadlockStays == Spec => [][Deadlocked => Deadlocked']_vars
  <1>1. IInv /\ [Next]_vars => [Deadlocked => Deadlocked']_vars
    BY DeadlockStep DEF IInv
  <1> QED BY <1>1, Invariance, PTL DEF Spec
=============================================================================
