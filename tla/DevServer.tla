----------------------------- MODULE DevServer -----------------------------
(* The control part of `hugo server` (commands/hugobuilder.go,               *)
(* commands/server.go, commands/commandeer.go): the event loop, the full     *)
(* rebuild goroutines it starts, the debounce timer, the HTTP handlers that  *)
(* re-render a visited page, and the main goroutine's first build.  They     *)
(* share the build lock, the full rebuild semaphore, the configuration with  *)
(* its version counter, the cache that holds one HugoSites, and errState.    *)
(*                                                                           *)
(* Files on disk are versions: `disk` counts edits of the configuration,     *)
(* `src` edits of the content.  A HugoSites is named by the configuration    *)
(* version that is its cache key.                                            *)
EXTENDS Integers, FiniteSets

CONSTANTS
  Rebuilders,       \* goroutines that fullRebuild may start
  Handlers,         \* HTTP requests in flight
  Loop, Main,       \* the event loop and the main goroutine
  None,
  ConfigKinds,      \* kinds of configuration edit: "config", "gomod"
  ContentKinds,     \* kinds of content edit: "content", "mass" (> 50 files)
  TouchKinds,       \* other events: "chmod" of a config file, "static" or ignored files
  MayBreak,         \* subset of BOOLEAN: may an edit leave a config that fails to load?
  EarlyEdits,       \* may files change before the first build has ended?
  MaxConfigEdits, MaxContentEdits,       \* bounds: edits of each sort,
  MaxEdits,         \* and of both together
  MaxTouches, MaxSignals, MaxFailures,   \* bounds
  MaxReloads        \* bound; no less than the edits that start a full rebuild

Actors == {Loop, Main} \cup Rebuilders \cup Handlers

ASSUME ActorsAssumption ==
  /\ Loop # Main /\ {Loop, Main} \cap (Rebuilders \cup Handlers) = {}
  /\ Rebuilders \cap Handlers = {} /\ None \notin Actors
ASSUME KindsAssumption ==
  /\ ConfigKinds \subseteq {"config", "gomod"}
  /\ ContentKinds \subseteq {"content", "mass"}
  /\ TouchKinds \subseteq {"chmod", "static"}
  /\ MayBreak \subseteq {FALSE, TRUE} /\ EarlyEdits \in BOOLEAN
ASSUME BoundsAssumption ==
  /\ MaxConfigEdits \in Nat /\ MaxContentEdits \in Nat /\ MaxEdits \in Nat
  /\ MaxTouches \in Nat /\ MaxSignals \in Nat /\ MaxFailures \in Nat /\ MaxReloads \in Nat
  /\ None \notin Nat

Kinds == {"config", "gomod", "chmod", "static", "content", "mass"}

VARIABLES
  pc,         \* where each goroutine is
  handle,     \* the HugoSites each goroutine works on
  outcome,    \* did the build this goroutine has just finished succeed?
  batch,      \* the events the loop is handling; {} for a signal from a build
  lock,       \* holder of .hugo_build.lock
  sem,        \* holder of fullRebuildSem
  ver,        \* configVersionID
  conf,       \* c.conf, as the disk version it was loaded from
  slot,       \* key of the one HugoSites in the cache, or None
  sites,      \* what each HugoSites was made from: configuration and content
  builderr, paused, waserr,          \* errState
  armed, fired,                      \* the debounce timer, callbacks waiting
  disk, broken, src, pending, touches, signals, signalled,  \* files and events
  fails,      \* failures so far
  published   \* what the browser gets: the whole site, and the visited page

siteVars == <<slot, sites>>
errVars  == <<builderr, paused, waserr>>
timerVars == <<armed, fired>>
envVars  == <<disk, broken, src, pending, touches, signals, signalled>>
vars == <<pc, handle, outcome, batch, lock, sem, ver, conf, slot, sites, builderr,
          paused, waserr, armed, fired, disk, broken, src, pending, touches,
          signals, signalled, fails, published>>

Versions == 0..MaxReloads
Unmade == [conf |-> None, src |-> None]

Init ==
  /\ pc = [a \in Actors |-> IF a = Main THEN "hugo" ELSE "idle"]
  /\ handle = [a \in Actors |-> None]
  /\ outcome = [a \in Actors |-> TRUE]
  /\ batch = {}
  /\ lock = None /\ sem = None
  /\ ver = 0 /\ conf = 0
  /\ slot = 0                      \* newWatcher has called c.hugo()
  /\ sites = [k \in Versions |-> IF k = 0 THEN [conf |-> 0, src |-> None] ELSE Unmade]
  /\ builderr = FALSE /\ paused = FALSE /\ waserr = FALSE
  /\ armed = FALSE /\ fired = 0
  /\ disk = 0 /\ broken = FALSE /\ src = 0 /\ pending = {}
  /\ touches = 0 /\ signals = 0 /\ signalled = FALSE
  /\ fails = 0
  /\ published = [p \in {"site", "visited"} |-> Unmade]

Goto(a, l) == pc' = [pc EXCEPT ![a] = l]
At(a, l) == pc[a] = l
Step(a, from, to) == At(a, from) /\ Goto(a, to)

(***************************************************************************)
(* Operations several goroutines share.                                    *)
(***************************************************************************)

\* c.hugo(): HugFromConfig runs under confmu.  The key is the version counter,
\* the contents come from c.conf; the cache holds one entry, so a new key
\* evicts and closes the HugoSites before it.
HugoOK(a) ==
  /\ slot' = ver
  /\ sites' = IF slot = ver THEN sites
              ELSE [sites EXCEPT ![ver] = [conf |-> conf, src |-> None]]
  /\ handle' = [handle EXCEPT ![a] = ver]
  /\ UNCHANGED fails

\* NewHugoSites fails: the old entry is already evicted, the new one deleted.
HugoFails ==
  /\ slot # ver /\ fails < MaxFailures
  /\ slot' = None
  /\ fails' = fails + 1
  /\ UNCHANGED <<sites, handle>>

HugoTry(a) == HugoOK(a) \/ HugoFails

\* Build's own LockBuild, unless the configuration says NoBuildLock.
TakeLock(a) == lock = None /\ lock' = a
DropLock(a) == lock' = IF lock = a THEN None ELSE lock

\* The content a build reads.  A full build reads everything; a rebuild for
\* some events completes only a HugoSites that has had its full build.
ReadAll(k)     == sites' = [sites EXCEPT ![k].src = src]
ReadCached(k)  == sites' = [sites EXCEPT ![k].src = @]      \* fault: stale page caches
ReadChanged(k) == sites' = [sites EXCEPT ![k].src = IF @ = None THEN None ELSE src]

BuildResult(a, ok) ==
  /\ outcome' = [outcome EXCEPT ![a] = ok]
  /\ ok \/ fails < MaxFailures
  /\ fails' = IF ok THEN fails ELSE fails + 1

PublishSite(k, ok) == published' = IF ok THEN [p \in {"site", "visited"} |-> sites[k]]
                                         ELSE published
PublishVisited(k, ok) ==
  published' = IF ok /\ sites[k].src # None THEN [published EXCEPT !["visited"] = sites[k]]
                                            ELSE published

\* fullRebuild: Acquire the semaphore in the caller, then start the goroutine.
\* `p` is pc with the caller moved on.
Spawn(p) ==
  /\ sem = None
  /\ \E r \in Rebuilders : /\ p[r] = "idle"
                            /\ sem' = r
                            /\ pc' = [p EXCEPT ![r] = "bump"]

(***************************************************************************)
(* The event loop of newWatcher.                                           *)
(***************************************************************************)

LoopReceive ==
  /\ \/ \E evs \in (SUBSET pending) \ {{}} :
          batch' = evs /\ pending' = pending \ evs /\ UNCHANGED signalled
     \/ signalled /\ batch' = {} /\ signalled' = FALSE /\ UNCHANGED pending
  /\ Step(Loop, "idle", "lock")
  /\ UNCHANGED <<handle, outcome, lock, sem, ver, conf, siteVars, errVars, timerVars,
                 disk, broken, src, touches, signals, fails, published>>

LoopLock ==
  /\ Step(Loop, "lock", IF batch = {} THEN "rebuild" ELSE "handle")
  /\ TakeLock(Loop)
  /\ UNCHANGED <<handle, outcome, batch, sem, ver, conf, siteVars, errVars, timerVars,
                 envVars, fails, published>>

LoopUnchanged == UNCHANGED <<outcome, batch, lock, ver, conf, envVars, published>>

\* handleEvents, a configuration file changed: a full rebuild and nothing else.
\* For go.mod, TryAcquire drops the event while a full rebuild is under way.
LoopConfig ==
  /\ At(Loop, "handle")
  /\ \E kind \in batch \cap {"config", "gomod"} :
       Goto(Loop, IF kind = "gomod" /\ sem # None THEN "finish" ELSE "acquire")
  /\ LoopUnchanged /\ UNCHANGED <<handle, sem, siteVars, errVars, timerVars, fails>>

LoopAcquire ==
  /\ At(Loop, "acquire")
  /\ Spawn([pc EXCEPT ![Loop] = "finish"])
  /\ LoopUnchanged /\ UNCHANGED <<handle, siteVars, errVars, timerVars, fails>>

HandleContent == At(Loop, "handle") /\ batch \cap {"config", "gomod"} = {}

\* isHandled (only chmod of a configuration file) or isPaused: return.
LoopIgnore ==
  /\ HandleContent
  /\ "chmod" \in batch \/ paused
  /\ Goto(Loop, "finish")
  /\ LoopUnchanged /\ UNCHANGED <<handle, sem, siteVars, errVars, timerVars, fails>>

\* Fault: the timer is not started.
LoopDebounceDrops ==
  /\ HandleContent /\ "mass" \in batch
  /\ Goto(Loop, "finish")
  /\ LoopUnchanged /\ UNCHANGED <<handle, sem, siteVars, errVars, timerVars, fails>>

LoopDebounce ==
  /\ HandleContent /\ "chmod" \notin batch /\ ~paused
  /\ "mass" \in batch
  /\ armed' = TRUE
  /\ Goto(Loop, "finish")
  /\ LoopUnchanged /\ UNCHANGED <<handle, sem, siteVars, errVars, fired, fails>>

\* The HugoSites is needed to filter the events: ignored files are dropped and
\* static files copied, which leaves nothing to rebuild, or c.hugo() fails.
LoopFilter ==
  /\ HandleContent /\ batch \cap {"chmod", "mass"} = {} /\ ~paused
  /\ \/ HugoOK(Loop) /\ Goto(Loop, IF "content" \in batch THEN "rebuild" ELSE "finish")
     \/ HugoFails /\ Goto(Loop, "finish")
  /\ LoopUnchanged /\ UNCHANGED <<sem, errVars, timerVars>>

\* rebuildSites and rebuildSitesForChanges: c.hugo() again, then Build with
\* NoBuildLock, since the loop itself holds the lock.
LoopHugo ==
  /\ At(Loop, "rebuild")
  /\ \/ HugoOK(Loop) /\ Goto(Loop, "start") /\ UNCHANGED builderr
     \/ HugoFails /\ Goto(Loop, "post") /\ builderr' = TRUE
  /\ LoopUnchanged /\ UNCHANGED <<sem, paused, waserr, timerVars>>

LoopBuildStart ==
  /\ Step(Loop, "start", "building")
  /\ ReadChanged(handle[Loop])
  /\ LoopUnchanged /\ UNCHANGED <<handle, sem, slot, errVars, timerVars, fails>>

\* The deferred setBuildErr runs with the loop's lock still held.
LoopBuildDone ==
  /\ Step(Loop, "building", "post")
  /\ \E ok \in BOOLEAN : /\ BuildResult(Loop, ok)
                         /\ PublishSite(handle[Loop], ok)
                         /\ builderr' = ~ok
  /\ UNCHANGED <<handle, batch, lock, sem, ver, conf, siteVars, paused, waserr,
                 timerVars, envVars>>

\* postBuild of handleEvents; a signal from a build has none.
LoopPost ==
  /\ Step(Loop, "post", "finish")
  /\ IF batch = {} THEN UNCHANGED <<handle, siteVars, fails>>
                    ELSE HugoTry(Loop)
  /\ LoopUnchanged /\ UNCHANGED <<sem, errVars, timerVars>>

\* Fault: an unlock is missing.
LoopFinishKeepsLock ==
  /\ Step(Loop, "finish", "idle")
  /\ waserr' = IF batch = {} THEN waserr ELSE FALSE
  /\ batch' = {}
  /\ UNCHANGED <<handle, outcome, lock, sem, ver, conf, siteVars, builderr, paused,
                 timerVars, envVars, fails, published>>

LoopFinish ==
  /\ Step(Loop, "finish", "idle")
  /\ waserr' = IF batch = {} THEN waserr ELSE FALSE
  /\ batch' = {}
  /\ DropLock(Loop)
  /\ UNCHANGED <<handle, outcome, sem, ver, conf, siteVars, builderr, paused, timerVars,
                 envVars, fails, published>>

LoopNext == \/ LoopReceive \/ LoopLock \/ LoopConfig \/ LoopAcquire \/ LoopIgnore
            \/ LoopDebounce \/ LoopFilter \/ LoopHugo \/ LoopBuildStart
            \/ LoopBuildDone \/ LoopPost \/ LoopFinish

\* The debounce timer fires 4 seconds after the last mass edit; its callback
\* is fullRebuild(""), which waits for the semaphore but holds no lock.
TimerFires ==
  /\ armed
  /\ armed' = FALSE /\ fired' = fired + 1
  /\ UNCHANGED <<pc, handle, outcome, batch, lock, sem, ver, conf, siteVars, errVars,
                 envVars, fails, published>>

TimerAcquire ==
  /\ fired > 0
  /\ Spawn(pc)
  /\ fired' = fired - 1
  /\ UNCHANGED <<handle, outcome, batch, lock, ver, conf, siteVars, errVars, armed,
                 envVars, fails, published>>

(***************************************************************************)
(* The goroutine of fullRebuild.                                           *)
(***************************************************************************)

\* Fault: the version is not bumped.
RebuildBumpForgets(r) ==
  /\ Step(r, "bump", "load")
  /\ UNCHANGED <<handle, outcome, batch, lock, sem, ver, conf, siteVars, errVars,
                 timerVars, envVars, fails, published>>

\* reloadConfig bumps the version before it holds confmu ...
RebuildBump(r) ==
  /\ Step(r, "bump", "load")
  /\ ver < MaxReloads
  /\ ver' = ver + 1
  /\ UNCHANGED <<handle, outcome, batch, lock, sem, conf, siteVars, errVars, timerVars,
                 envVars, fails, published>>

\* Fault: a configuration that fails to load is swapped in.
RebuildLoadBroken(r) ==
  /\ Step(r, "load", IF broken THEN "pause" ELSE "resume")
  /\ conf' = IF broken THEN None ELSE disk
  /\ UNCHANGED <<handle, outcome, batch, lock, sem, ver, siteVars, errVars, timerVars,
                 envVars, fails, published>>

\* ... and swaps c.conf under it.  onConfigLoaded may fail after the swap.
RebuildLoad(r) ==
  /\ At(r, "load")
  /\ \/ broken /\ Goto(r, "pause") /\ UNCHANGED <<conf, fails>>
     \/ ~broken /\ Goto(r, "resume") /\ conf' = disk /\ UNCHANGED fails
     \/ ~broken /\ Goto(r, "pause") /\ conf' = disk
        /\ fails < MaxFailures /\ fails' = fails + 1
  /\ UNCHANGED <<handle, outcome, batch, lock, sem, ver, siteVars, errVars, timerVars,
                 envVars, published>>

RebuildUnchanged == UNCHANGED <<batch, sem, ver, conf, timerVars, envVars>>

RebuildPause(r) ==
  /\ Step(r, "pause", "failed")
  /\ paused' = TRUE
  /\ RebuildUnchanged
  /\ UNCHANGED <<handle, outcome, lock, siteVars, builderr, waserr, fails, published>>

RebuildFailed(r) ==
  /\ Step(r, "failed", "check")
  /\ builderr' = TRUE
  /\ RebuildUnchanged
  /\ UNCHANGED <<handle, outcome, lock, siteVars, paused, waserr, fails, published>>

RebuildResume(r) ==
  /\ Step(r, "resume", "check")
  /\ paused' = FALSE
  /\ RebuildUnchanged
  /\ UNCHANGED <<handle, outcome, lock, siteVars, builderr, waserr, fails, published>>

\* Fault: the semaphore covers the reload only.
RebuildCheckReleases(r) ==
  /\ Step(r, "check", IF paused THEN "post" ELSE "static")
  /\ sem' = None
  /\ UNCHANGED <<handle, outcome, batch, lock, ver, conf, siteVars, errVars, timerVars,
                 envVars, fails, published>>

RebuildCheck(r) ==
  /\ Step(r, "check", IF paused THEN "post" ELSE "static")
  /\ RebuildUnchanged
  /\ UNCHANGED <<handle, outcome, lock, siteVars, errVars, fails, published>>

\* copyStatic: a c.hugo() that fails here is only logged.
RebuildStatic(r) ==
  /\ At(r, "static")
  /\ \/ HugoOK(r) /\ Goto(r, "hugo")
     \/ HugoFails /\ Goto(r, "post")
  /\ RebuildUnchanged
  /\ UNCHANGED <<outcome, lock, errVars, published>>

\* buildSites(false), for a rebuild and for the first build: c.hugo(), then
\* Build takes the lock, reads, renders, drops the lock; the deferred
\* setBuildErr comes after that.
Builders == Rebuilders \cup {Main}

BuildHugo(a) ==
  /\ At(a, "hugo")
  /\ \/ HugoOK(a) /\ Goto(a, "lock") /\ UNCHANGED outcome
     \/ HugoFails /\ Goto(a, "report") /\ outcome' = [outcome EXCEPT ![a] = FALSE]
  /\ RebuildUnchanged
  /\ UNCHANGED <<lock, errVars, published>>

\* Fault: a full rebuild says NoBuildLock.
BuildLockSkipped(a) ==
  /\ Step(a, "lock", "building")
  /\ ReadAll(handle[a])
  /\ RebuildUnchanged
  /\ UNCHANGED <<handle, outcome, lock, slot, errVars, fails, published>>

BuildLock(a) ==
  /\ Step(a, "lock", "building")
  /\ TakeLock(a)
  /\ ReadAll(handle[a])
  /\ RebuildUnchanged
  /\ UNCHANGED <<handle, outcome, slot, errVars, fails, published>>

BuildDone(a) ==
  /\ Step(a, "building", "report")
  /\ \E ok \in BOOLEAN : BuildResult(a, ok) /\ PublishSite(handle[a], ok)
  /\ DropLock(a)
  /\ RebuildUnchanged
  /\ UNCHANGED <<handle, siteVars, errVars>>

BuildReport(a) ==
  /\ Step(a, "report", "post")
  /\ builderr' = ~outcome[a]
  /\ RebuildUnchanged
  /\ UNCHANGED <<handle, outcome, lock, siteVars, paused, waserr, fails, published>>

\* Fault: the semaphore is released before the sleep.
RebuildPostReleases(r) ==
  /\ Step(r, "post", "sleep")
  /\ HugoTry(r)
  /\ sem' = None
  /\ UNCHANGED <<outcome, batch, lock, ver, conf, errVars, timerVars, envVars, published>>

\* postBuild.
RebuildPost(r) ==
  /\ Step(r, "post", "sleep")
  /\ HugoTry(r)
  /\ RebuildUnchanged
  /\ UNCHANGED <<outcome, lock, errVars, published>>

\* Fault: no Release.
RebuildReleaseForgets(r) ==
  /\ Step(r, "sleep", "idle")
  /\ UNCHANGED <<handle, outcome, batch, lock, sem, ver, conf, siteVars, errVars,
                 timerVars, envVars, fails, published>>

\* The two second sleep, then Release.
RebuildRelease(r) ==
  /\ Step(r, "sleep", "idle")
  /\ sem' = IF sem = r THEN None ELSE sem
  /\ UNCHANGED <<handle, outcome, batch, lock, ver, conf, siteVars, errVars, timerVars,
                 envVars, fails, published>>

\* build and serve: the process ends when the first build fails.
MainPost ==
  /\ At(Main, "post")
  /\ \/ outcome[Main] /\ HugoOK(Main) /\ Goto(Main, "serving")
     \/ outcome[Main] /\ HugoFails /\ Goto(Main, "exited")
     \/ ~outcome[Main] /\ Goto(Main, "exited") /\ UNCHANGED <<handle, siteVars, fails>>
  /\ RebuildUnchanged
  /\ UNCHANGED <<outcome, lock, errVars, published>>

(***************************************************************************)
(* HTTP handlers (fileServer.createEndpoint, partialReRender).             *)
(***************************************************************************)

HandlerUnchanged == UNCHANGED <<batch, sem, ver, conf, paused, timerVars, envVars>>

\* An error is shown instead of the page; errorTemplate calls hugoTry.
RequestShowsError(h) ==
  /\ At(Main, "serving") /\ At(h, "idle")
  /\ builderr
  /\ waserr' = TRUE
  /\ HugoTry(h)
  /\ HandlerUnchanged /\ UNCHANGED <<pc, outcome, lock, builderr, published>>

\* No error, and the page is not among the recently visited: partialReRender.
RequestPage(h) ==
  /\ At(Main, "serving")
  /\ Step(h, "idle", "hugo")
  /\ ~builderr
  /\ HandlerUnchanged
  /\ UNCHANGED <<handle, outcome, lock, siteVars, builderr, waserr, fails, published>>

RequestHugo(h) ==
  /\ At(h, "hugo")
  /\ \/ HugoOK(h) /\ Goto(h, "lock") /\ UNCHANGED outcome
     \/ HugoFails /\ Goto(h, "rendered") /\ outcome' = [outcome EXCEPT ![h] = FALSE]
  /\ HandlerUnchanged /\ UNCHANGED <<lock, builderr, waserr, published>>

\* Fault: a re-render says NoBuildLock.
RequestLockSkipped(h) ==
  /\ Step(h, "lock", "building")
  /\ HandlerUnchanged
  /\ UNCHANGED <<handle, outcome, lock, siteVars, builderr, waserr, fails, published>>

RequestLock(h) ==
  /\ Step(h, "lock", "building")
  /\ TakeLock(h)
  /\ HandlerUnchanged
  /\ UNCHANGED <<handle, outcome, siteVars, builderr, waserr, fails, published>>

\* Fault: the build lock is kept.
RequestRenderedKeepsLock(h) ==
  /\ Step(h, "building", "rendered")
  /\ BuildResult(h, TRUE) /\ PublishVisited(handle[h], TRUE)
  /\ HandlerUnchanged /\ UNCHANGED <<handle, lock, siteVars, builderr, waserr>>

RequestRendered(h) ==
  /\ Step(h, "building", "rendered")
  /\ \E ok \in BOOLEAN : BuildResult(h, ok) /\ PublishVisited(handle[h], ok)
  /\ DropLock(h)
  /\ HandlerUnchanged /\ UNCHANGED <<handle, siteVars, builderr, waserr>>

\* The deferred setWasErr(false) of partialReRender.
RequestWasErr(h) ==
  /\ Step(h, "rendered", IF outcome[h] THEN "idle" ELSE "report")
  /\ waserr' = FALSE
  /\ HandlerUnchanged
  /\ UNCHANGED <<handle, outcome, lock, siteVars, builderr, fails, published>>

\* handleBuildErr.
RequestReport(h) ==
  /\ Step(h, "report", "idle")
  /\ builderr' = TRUE
  /\ HandlerUnchanged
  /\ UNCHANGED <<handle, outcome, lock, siteVars, waserr, fails, published>>

(***************************************************************************)
(* The files, and the signals of a build that wants another build.         *)
(***************************************************************************)

EnvUnchanged == UNCHANGED <<pc, handle, outcome, batch, lock, sem, ver, conf, siteVars,
                            errVars, timerVars, fails, published>>

MayEdit == (EarlyEdits \/ At(Main, "serving")) /\ disk + src < MaxEdits

EditConfig ==
  /\ MayEdit
  /\ disk < MaxConfigEdits /\ disk' = disk + 1
  /\ broken' \in MayBreak
  /\ \E kind \in ConfigKinds : pending' = pending \cup {kind}
  /\ EnvUnchanged /\ UNCHANGED <<src, touches, signals, signalled>>

EditContent ==
  /\ MayEdit
  /\ src < MaxContentEdits /\ src' = src + 1
  /\ \E kind \in ContentKinds : pending' = pending \cup {kind}
  /\ EnvUnchanged /\ UNCHANGED <<disk, broken, touches, signals, signalled>>

\* Events that need no rebuild.
TouchFile ==
  /\ touches < MaxTouches /\ touches' = touches + 1
  /\ \E kind \in TouchKinds : pending' = pending \cup {kind}
  /\ EnvUnchanged /\ UNCHANGED <<disk, broken, src, signals, signalled>>

\* OnSignalRebuild: a remote resource that a build polls has changed.
SignalRebuild ==
  /\ signals < MaxSignals /\ signals' = signals + 1
  /\ signalled' = TRUE
  /\ EnvUnchanged /\ UNCHANGED <<disk, broken, src, pending, touches>>

(***************************************************************************)

RebuildNext(r) == \/ RebuildBump(r) \/ RebuildLoad(r) \/ RebuildPause(r)
                  \/ RebuildFailed(r) \/ RebuildResume(r) \/ RebuildCheck(r)
                  \/ RebuildStatic(r) \/ RebuildPost(r) \/ RebuildRelease(r)
BuildNext(a)   == BuildHugo(a) \/ BuildLock(a) \/ BuildDone(a) \/ BuildReport(a)
RequestNext(h) == \/ RequestHugo(h) \/ RequestLock(h) \/ RequestRendered(h)
                  \/ RequestWasErr(h) \/ RequestReport(h)

Running == ~At(Main, "exited")

ServerNext ==
  /\ Running
  /\ \/ LoopNext \/ TimerFires \/ TimerAcquire \/ MainPost
     \/ \E r \in Rebuilders : RebuildNext(r)
     \/ \E a \in Builders : BuildNext(a)
     \/ \E h \in Handlers : RequestNext(h)
EnvNext ==
  /\ Running
  /\ \/ EditConfig \/ EditContent \/ TouchFile \/ SignalRebuild
     \/ \E h \in Handlers : RequestPage(h) \/ RequestShowsError(h)

Next == ServerNext \/ EnvNext
Spec == Init /\ [][Next]_vars

\* Goroutines keep running; a goroutine that waits for the file lock or the
\* semaphore gets it if it is free again and again (both queue their waiters).
\* Edits and requests may stop.
Fairness ==
  /\ WF_vars(Running /\ LoopNext) /\ SF_vars(Running /\ LoopLock)
  /\ SF_vars(Running /\ LoopAcquire)
  /\ WF_vars(Running /\ TimerFires) /\ SF_vars(Running /\ TimerAcquire)
  /\ WF_vars(Running /\ MainPost)
  /\ \A r \in Rebuilders : WF_vars(Running /\ RebuildNext(r))
  /\ \A a \in Builders : WF_vars(Running /\ BuildNext(a)) /\ SF_vars(Running /\ BuildLock(a))
  /\ \A h \in Handlers : WF_vars(Running /\ RequestNext(h)) /\ SF_vars(Running /\ RequestLock(h))
FairSpec == Spec /\ Fairness

(***************************************************************************)
(* Properties.                                                             *)
(***************************************************************************)

Labels == {"idle", "lock", "handle", "acquire", "rebuild", "start", "building", "post",
           "finish", "bump", "load", "pause", "failed", "resume", "check", "static", "hugo",
           "report", "sleep", "serving", "exited", "rendered"}
Site == [conf : Nat \cup {None}, src : Nat \cup {None}]

FlagsOK ==
  /\ outcome \in [Actors -> BOOLEAN]
  /\ builderr \in BOOLEAN /\ paused \in BOOLEAN /\ waserr \in BOOLEAN
  /\ armed \in BOOLEAN /\ broken \in BOOLEAN /\ signalled \in BOOLEAN
DataOK ==
  /\ pc \in [Actors -> Labels]
  /\ handle \in [Actors -> Versions \cup {None}]
  /\ batch \subseteq Kinds /\ pending \subseteq Kinds
  /\ lock \in Actors \cup {None} /\ sem \in Rebuilders \cup {None}
  /\ ver \in Versions /\ slot \in Versions \cup {None}
  /\ sites \in [Versions -> Site]
  /\ fired \in Nat /\ disk \in Nat /\ src \in Nat /\ conf \in Nat
  /\ touches \in Nat /\ signals \in Nat /\ fails \in Nat
  /\ published \in [{"site", "visited"} -> Site]

\* The type invariant: every variable of the server keeps its type.
TypeOK == FlagsOK /\ DataOK

InBuild(a) == pc[a] \in {"start", "building"}

\* No two goroutines are inside HugoSites.Build at once: the loop's builds say
\* NoBuildLock, all others take the lock, so this rests on the loop holding
\* it from before handleEvents to after its last build.
BuildExclusion == \A a, b \in Actors : InBuild(a) /\ InBuild(b) => a = b

\* fullRebuildSem admits one full rebuild at a time, its sleep included.
OneFullRebuild == \A r, s \in Rebuilders : pc[r] # "idle" /\ pc[s] # "idle" => r = s

\* A full rebuild never renders a HugoSites that is closed or superseded, even
\* when it has waited for the build lock after its c.hugo(): nobody bumps the
\* version between the two, because the bump is inside the semaphore.
FullRebuildOnCurrent ==
  \A r \in Rebuilders : pc[r] \in {"lock", "building"} => handle[r] = ver /\ slot = ver

LatestServed == \A p \in {"site", "visited"} : published[p] = [conf |-> disk, src |-> src]

\* After the last edit the server comes to serve the latest configuration and
\* content, and stays there.
ServesLatest == <>[]LatestServed

\* Where the server stops for good: the loop, which holds the build lock, waits
\* for the semaphore, and the full rebuild that has it waits for that lock.
Deadlocked ==
  lock = Loop /\ At(Loop, "acquire") /\ sem \in Rebuilders /\ At(sem, "lock")

\* The event loop, which holds the build lock while it handles events, gives it
\* back, unless the full rebuild whose semaphore it waits for waits for that lock.
LoopLetsGo == lock = Loop ~> lock # Loop \/ Deadlocked \/ ~Running

\* A full rebuild ends, whether its configuration loads, its build fails or it is
\* the debounced one, and the semaphore is free for the next, with that exception.
RebuildEnds == sem # None ~> sem = None \/ Deadlocked \/ ~Running

\* A request is answered, whatever is being rebuilt, with that exception: what
\* answers it takes the build lock.
RequestsAnswered ==
  \A h \in Handlers : ~At(h, "idle") ~> At(h, "idle") \/ Deadlocked \/ ~Running

\* fullRebuild, on the sleep before Release: "This will block any rebuild on
\* config changes for the duration of the sleep", so the wait for it ends.
ConfigRebuildStarts == At(Loop, "acquire") ~> ~At(Loop, "acquire")

=============================================================================
