---------------------------- MODULE RebuildProofs ----------------------------
(* Theorems about the way of a file event, for any files and any number of  *)
(* changes, and about the parts that decide what a rebuild renders, side by *)
(* side.                                                                    *)
EXTENDS RebuildMC, FinderProofs, AssemblerProofs, DeferredProofs, TLAPS

(* The versions of a file are numbers.                                      *)
LEMMA FileVersions ==
  ASSUME WatcherTypeOK, NEW n \in Names
  PROVE  disk[n].version \in Nat /\ left[n].version \in Nat /\ view[n].version \in Nat
BY DEF WatcherTypeOK, File

LEMMA WatcherTypeInit == WatcherInit => WatcherTypeOK
<1> SUFFICES ASSUME WatcherInit PROVE WatcherTypeOK
  OBVIOUS
<1>1. Absent \in File /\ [there |-> TRUE, version |-> 0] \in File
  BY DEF Absent, File
<1>2. disk \in [Names -> File] /\ left \in [Names -> File] /\ view \in [Names -> File]
  BY <1>1 DEF WatcherInit
<1>3. QED
  BY <1>2 DEF WatcherInit, WatcherTypeOK, Batch

(* A change makes a file's version one higher.                              *)
LEMMA ChangeVersion ==
  ASSUME WatcherTypeOK, NEW n \in Names, Change(n)
  PROVE  disk' \in [Names -> File] /\ \A m \in Names : disk[m].version <= disk'[m].version
<1>1. PICK there \in BOOLEAN :
        disk' = [disk EXCEPT ![n] = [there |-> there, version |-> @.version + 1]]
  BY DEF Change, WatcherTypeOK, File
<1>2. [there |-> there, version |-> disk[n].version + 1] \in File
  BY FileVersions DEF File
<1>3. disk' \in [Names -> File]
  BY <1>1, <1>2 DEF WatcherTypeOK
<1>4. ASSUME NEW m \in Names PROVE disk[m].version <= disk'[m].version
  BY <1>1, FileVersions DEF WatcherTypeOK
<1>5. QED
  BY <1>3, <1>4

LEMMA WatcherTypeStep == WatcherTypeOK /\ [WatcherNext]_watcherVars => WatcherTypeOK'
<1> SUFFICES ASSUME WatcherTypeOK, [WatcherNext]_watcherVars PROVE WatcherTypeOK'
  OBVIOUS
<1> USE DEF WatcherTypeOK, Batch
<1>1. CASE AddWatch
  BY <1>1 DEF AddWatch
<1>2. CASE FirstBuild
  BY <1>2 DEF FirstBuild
<1>3. CASE Poll
  <2>1. outgoing' \in Batch /\ passed' \in Batch
    BY <1>3 DEF Poll
  <2>2. left' \in [Names -> File]
    BY <1>3 DEF Poll
  <2>3. QED
    BY <1>3, <2>1, <2>2 DEF Poll
<1>4. CASE Tick
  BY <1>4 DEF Tick
<1>5. CASE SendBatch
  BY <1>5 DEF SendBatch
<1>6. CASE TakeBatch
  BY <1>6 DEF TakeBatch
<1>7. CASE Handled
  <2>1. view' \in [Names -> File]
    BY <1>7 DEF Handled
  <2>2. QED
    BY <1>7, <2>1 DEF Handled
<1>8. ASSUME NEW n \in Names, Change(n) PROVE WatcherTypeOK'
  <2>1. disk' \in [Names -> File]
    BY <1>8, ChangeVersion
  <2>2. QED
    BY <1>8, <2>1 DEF Change
<1>9. ASSUME NEW n \in Names, SendEvent(n) PROVE WatcherTypeOK'
  BY <1>9 DEF SendEvent
<1>10. CASE UNCHANGED watcherVars
  BY <1>10 DEF watcherVars
<1>11. QED
  BY <1>1, <1>2, <1>3, <1>4, <1>5, <1>6, <1>7, <1>8, <1>9, <1>10 DEF WatcherNext

(* A recording is not newer than the directory: a build that reads a file   *)
(* reads at least what the poller has recorded of it.                       *)
LeftBehind == \A n \in Names : left[n].version <= disk[n].version

LEMMA BehindStep ==
  WatcherTypeOK /\ LeftBehind /\ [WatcherNext]_watcherVars => LeftBehind'
<1> SUFFICES ASSUME WatcherTypeOK, LeftBehind, [WatcherNext]_watcherVars, NEW n \in Names
             PROVE  left'[n].version <= disk'[n].version
  BY DEF LeftBehind
<1> USE FileVersions DEF LeftBehind
<1>1. CASE AddWatch \/ Poll
  BY <1>1 DEF AddWatch, Poll
<1>2. ASSUME NEW m \in Names, Change(m) PROVE left'[n].version <= disk'[n].version
  <2>1. disk[n].version <= disk'[n].version /\ disk'[n].version \in Nat
    BY <1>2, ChangeVersion DEF File
  <2>2. left' = left
    BY <1>2 DEF Change
  <2>3. QED
    BY <2>1, <2>2
<1>3. CASE UNCHANGED <<left, disk>>
  BY <1>3
<1>4. QED
  BY <1>1, <1>2, <1>3
  DEF WatcherNext, FirstBuild, Tick, SendBatch, TakeBatch, Handled, SendEvent, watcherVars

(* What the site has of file n is as the poller has recorded it, or newer,  *)
(* or will be.                                                              *)
ReachesSite(n) == view[n].version >= left[n].version \/ OnTheWay(n) \/ n \in passed

LEMMA ReachStep ==
  WatcherTypeOK /\ LeftBehind /\ ChangesReachSite /\ [WatcherNext]_watcherVars => ChangesReachSite'
<1> SUFFICES ASSUME WatcherTypeOK, LeftBehind, ChangesReachSite, [WatcherNext]_watcherVars,
                    command' = "built", NEW n \in Names
             PROVE  ReachesSite(n)'
  BY DEF ChangesReachSite, ReachesSite
<1> USE FileVersions DEF ReachesSite, OnTheWay
<1>1. CASE FirstBuild
  BY <1>1 DEF FirstBuild, LeftBehind
<1>2. ASSUME ~FirstBuild PROVE command = "built"
  BY <1>2 DEF WatcherNext, AddWatch, Poll, Tick, SendBatch, TakeBatch, Handled, Change,
              SendEvent, watcherVars
<1>3. ASSUME ~FirstBuild PROVE ReachesSite(n)
  BY <1>2, <1>3 DEF ChangesReachSite
<1>4. CASE Poll
  <2>1. CASE left[n].version = disk[n].version
    BY <1>3, <1>4, <2>1 DEF Poll, FirstBuild
  <2>2. CASE left[n].version # disk[n].version
    BY <1>4, <2>2 DEF Poll
  <2>3. QED
    BY <2>1, <2>2
<1>5. CASE SendBatch
  BY <1>3, <1>5 DEF SendBatch, FirstBuild
<1>6. CASE TakeBatch
  BY <1>3, <1>6 DEF TakeBatch, FirstBuild
<1>7. CASE Handled
  BY <1>3, <1>7 DEF Handled, FirstBuild, LeftBehind
<1>8. ASSUME NEW m \in Names, SendEvent(m) PROVE ReachesSite(n)'
  BY <1>3, <1>8 DEF SendEvent, FirstBuild
<1>9. CASE UNCHANGED <<left, outgoing, evs, ready, handling, view, passed, command>>
  BY <1>2, <1>3, <1>9 DEF ChangesReachSite
<1>10. QED
  BY <1>1, <1>4, <1>5, <1>6, <1>7, <1>8, <1>9
  DEF WatcherNext, AddWatch, Tick, Change, watcherVars

(* Every variable of the watcher has its type, for any set of files.        *)
THEOREM WatcherTypes == WatcherSpec => []WatcherTypeOK
BY WatcherTypeInit, WatcherTypeStep, PTL DEF WatcherSpec

(* ChangesReachSite of every behaviour: what a poll reports is lost neither *)
(* in the batcher nor behind a loop that is busy.                           *)
THEOREM PollsReachSite == WatcherSpec => []ChangesReachSite
<1>1. WatcherInit => LeftBehind /\ ChangesReachSite
  BY DEF WatcherInit, LeftBehind, ChangesReachSite, Absent
<1>2. QED
  BY WatcherTypeInit, WatcherTypeStep, BehindStep, ReachStep, <1>1, PTL DEF WatcherSpec

-----------------------------------------------------------------------------
(* The four side by side.                                                   *)

\* A behaviour of the parts side by side is one of each part, so what is proved
\* of a part holds of it in any company.
THEOREM PartsOfRebuild ==
  RebuildSpec => WatcherSpec /\ FinderSpec /\ AssemblerSpec /\ DeferredSpec
<1>1. RebuildInit => WatcherInit /\ FinderInit /\ AssemblerInit /\ DeferredInit
  BY DEF RebuildInit
<1>2. [RebuildNext]_rebuildVars => [WatcherNext]_watcherVars
  BY DEF RebuildNext, rebuildVars
<1>3. [RebuildNext]_rebuildVars => [FinderNext]_finderVars
  BY DEF RebuildNext, rebuildVars
<1>4. [RebuildNext]_rebuildVars => [AssemblerNext]_assemblerVars
  BY DEF RebuildNext, rebuildVars
<1>5. [RebuildNext]_rebuildVars => [DeferredNext]_deferredVars
  BY DEF RebuildNext, rebuildVars
<1> QED
  BY <1>1, <1>2, <1>3, <1>4, <1>5, PTL
  DEF RebuildSpec, WatcherSpec, FinderSpec, AssemblerSpec, DeferredSpec

\* Every variable of the four parts has its type, whichever runs.
THEOREM RebuildTypes == RebuildSpec => []RebuildTypeOK
<1>1. WatcherTypeOK /\ FinderTypeOK /\ AssemblerTypeOK /\ DeferredTypeOK => RebuildTypeOK
  BY DEF RebuildTypeOK
<1> QED
  BY <1>1, PartsOfRebuild, WatcherTypes, FinderTypes, AssemblerTypes, DeferredTypes, PTL
=============================================================================
