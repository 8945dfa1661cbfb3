------------------------------ MODULE Watcher ------------------------------
(* How a change of a file in a watched directory gets to the event loop     *)
(* when the server polls (watcher/filenotify/poller.go, watcher/batcher.go, *)
(* commands/hugobuilder.go): the poller's two recordings of the directory,  *)
(* its unbuffered channel of events, the batcher with its ticker and its    *)
(* channel of one ready, and the loop, which may be busy for long.          *)
EXTENDS Naturals, FiniteSets

CONSTANTS
  Names,        \* names of files in the directory
  MaxFileChanges    \* bound on changes of files

ASSUME ChangesAssumption == MaxFileChanges \in Nat

VARIABLES
  disk,         \* each file: whether it is there, and how often it has changed
  left,         \* itemToWatch.left: the recording that the next poll compares with
  outgoing,     \* files whose events watch has still to send
  evs,          \* Batcher.run's events since the last batch
  offering,     \* Batcher.run waits to send them
  ready,       \* the batch in the channel Batcher.Events, empty if there is none
  handling,     \* the batch that handleEvents works at, empty if it is not at work
  view,         \* each file as the site has last read it
  command,      \* how far the command is: "start", "watching", "built"
  changes,      \* number of changes so far
  passed        \* history: files that changed between two polls without an event

watcherVars ==
  <<disk, left, outgoing, evs, offering, ready, handling, view, command, changes, passed>>

File == [there : BOOLEAN, version : Nat]
Batch == SUBSET Names

Absent == [there |-> FALSE, version |-> 0]

WatcherTypeOK ==
  /\ disk \in [Names -> File] /\ left \in [Names -> File] /\ view \in [Names -> File]
  /\ outgoing \in Batch /\ evs \in Batch /\ ready \in Batch /\ handling \in Batch
  /\ passed \in Batch /\ offering \in BOOLEAN /\ changes \in Nat
  /\ command \in {"start", "watching", "built"}

(* checkChange of what two recordings have of a file: a modification time   *)
(* or a mode that differs counts only if it is there in both.               *)
Differs(one, other) ==
  one.there # other.there \/ (one.there /\ one.version # other.version)

Entries(recording) == {n \in Names : recording[n].there}

(* The names checkForChanges goes over: those in the larger recording, the  *)
(* earlier one if both have as many.                                        *)
Looked(old, new) ==
  IF Cardinality(Entries(new)) > Cardinality(Entries(old)) THEN Entries(new) ELSE Entries(old)

WatcherInit ==
  /\ disk \in [Names -> {Absent, [there |-> TRUE, version |-> 0]}]
  /\ left = [n \in Names |-> Absent] /\ view = left
  /\ outgoing = {} /\ evs = {} /\ passed = {} /\ offering = FALSE
  /\ ready = {} /\ handling = {}
  /\ command = "start" /\ changes = 0

(* Someone writes a file, makes it or removes it.                           *)
Change(n) ==
  /\ changes < MaxFileChanges
  /\ changes' = changes + 1
  /\ \E there \in {disk[n].there, ~disk[n].there} :
       /\ there \/ disk[n].there
       /\ disk' = [disk EXCEPT ![n] = [there |-> there, version |-> @.version + 1]]
  /\ UNCHANGED <<left, outgoing, evs, offering, ready, handling, view, command, passed>>

(* newWatcher adds the directory before the first build: filePoller.Add     *)
(* makes the first recording.                                               *)
AddWatch ==
  /\ command = "start"
  /\ command' = "watching"
  /\ left' = disk
  /\ UNCHANGED <<disk, outgoing, evs, offering, ready, handling, view, changes, passed>>

(* The first build reads every file.                                        *)
FirstBuild ==
  /\ command = "watching"
  /\ command' = "built"
  /\ view' = disk
  /\ UNCHANGED <<disk, left, outgoing, evs, offering, ready, handling, changes, passed>>

(* A tick of watch: the directory is recorded and compared with the last    *)
(* recording, and the recordings change places.  Ticks are dropped while    *)
(* watch has events to send.                                                *)
Poll ==
  /\ command # "start" /\ outgoing = {}
  /\ LET changed == {n \in Names : Differs(left[n], disk[n])}
         told == changed \cap Looked(left, disk)
     IN  /\ outgoing' = told
         /\ passed' = (passed \cup {n \in Names : left[n].version # disk[n].version}) \ told
  /\ left' = disk
  /\ UNCHANGED <<disk, evs, offering, ready, handling, view, command, changes>>

(* sendEvent meets the batcher's select.                                    *)
SendEvent(n) ==
  /\ n \in outgoing /\ ~offering
  /\ outgoing' = outgoing \ {n}
  /\ evs' = evs \cup {n}
  /\ UNCHANGED <<disk, left, offering, ready, handling, view, command, changes, passed>>

(* The batcher's ticker fires and there are events: from now on it waits    *)
(* for room in the channel and takes no more events.                        *)
Tick ==
  /\ ~offering /\ evs # {}
  /\ offering' = TRUE
  /\ UNCHANGED <<disk, left, outgoing, evs, ready, handling, view, command, changes, passed>>

(* Mutant of SendBatch: a batch that finds the channel full is dropped.     *)
SendBatchOrDrop ==
  /\ offering
  /\ offering' = FALSE
  /\ ready' = IF ready = {} THEN evs ELSE ready
  /\ evs' = {}
  /\ UNCHANGED <<disk, left, outgoing, handling, view, command, changes, passed>>

SendBatch ==
  /\ offering /\ ready = {}
  /\ offering' = FALSE
  /\ ready' = evs
  /\ evs' = {}
  /\ UNCHANGED <<disk, left, outgoing, handling, view, command, changes, passed>>

(* The event loop takes a batch ...                                         *)
TakeBatch ==
  /\ ready # {} /\ handling = {}
  /\ handling' = ready
  /\ ready' = {}
  /\ UNCHANGED <<disk, left, outgoing, evs, offering, view, command, changes, passed>>

(* ... and the rebuild reads the files that the events name.                *)
Handled ==
  /\ handling # {}
  /\ handling' = {}
  /\ view' = [n \in Names |-> IF n \in handling THEN disk[n] ELSE view[n]]
  /\ UNCHANGED <<disk, left, outgoing, evs, offering, ready, command, changes, passed>>

WatcherNext ==
  \/ AddWatch \/ FirstBuild \/ Poll \/ Tick \/ SendBatch \/ TakeBatch \/ Handled
  \/ \E n \in Names : Change(n) \/ SendEvent(n)

WatcherSpec == WatcherInit /\ [][WatcherNext]_watcherVars

---------------------------------------------------------------------------
OnTheWay(n) == n \in outgoing \cup evs \cup ready \cup handling

(* However long the loop is busy, and whatever changes meanwhile: once the  *)
(* first build is done, the site has read every file as the poller has last *)
(* recorded it, or later, or the file's event is on its way to the loop.    *)
(* Two kinds of change have no event, and are the exception: a rename       *)
(* between two polls leaves as many names, and checkForChanges then does    *)
(* not go over the recording with the new one; and a file that is made and  *)
(* removed between two polls is in neither, though a build may have read it.*)
ChangesReachSite ==
  command = "built" =>
    \A n \in Names :
      view[n].version >= left[n].version \/ OnTheWay(n) \/ n \in passed
=============================================================================
