------------------------------ MODULE FileCache ------------------------------
(***************************************************************************)
(* The file caches (cache/filecache) and those who use them: processed     *)
(* images (ReadOrCreate), remote data and rendered math (GetOrCreate), and *)
(* transformed resources, which are a pair of files, metadata and content, *)
(* written through WriteCloser and read back only when the tool that makes *)
(* them is missing or the resource cache is always used.                   *)
(*                                                                         *)
(* The three are separate Caches, with directories of their own, so a      *)
(* behaviour has the users of one of them.                                 *)
(*                                                                         *)
(* Every file has a named lock.  The locks are of one Cache in one         *)
(* process: a crash frees them and leaves the files as they were.          *)
(***************************************************************************)
EXTENDS Naturals, FiniteSets, Absent

CONSTANTS Users,       \* the goroutines that use the cache
          Files,       \* file names
          Meta, Content,   \* the two files of a transformed resource
          Tasks,       \* what the users may be there for: [how, file] of each
          Ages,        \* whether files expire (maxAge > 0) or not (-1)
          MaxCrashes   \* bound: crashes of the process

Pairs == {"writePair", "readPair"}

Hows == {"getOrCreate", "readOrCreate"} \cup Pairs

ASSUME FileCacheAssumption ==
  /\ Meta \in Files /\ Content \in Files /\ Meta # Content
  /\ Tasks \subseteq [Users -> [how : Hows, file : Files]]
  /\ \A t \in Tasks, u \in Users : t[u].how \in Pairs <=> t[u].file = Meta
  /\ Ages \in BOOLEAN /\ MaxCrashes \in Nat
  /\ None \notin Users

VARIABLES task,     \* the users' tasks
          file,     \* what is on disk: "none", "part", "whole", "expired"
          lock,     \* nlocker: who holds the lock of a file
          seen,     \* nlocker.seen: the files whose lock was asked for
          step,     \* idle, asking, looking, creating, writing, done
          on,       \* the file a user is at
          got,      \* what it got: "whole", "torn", "own", "failed", "nothing"
          cut,      \* files a write was cut short on, and nobody has opened since
          crashes

fileVars == <<task, file, lock, seen, step, on, got, cut, crashes>>

FileCacheTypeOK ==
  /\ task \in Tasks
  /\ file \in [Files -> {"none", "part", "whole", "expired"}]
  /\ lock \in [Files -> Users \cup {None}]
  /\ seen \subseteq Files /\ cut \subseteq Files
  /\ step \in [Users -> {"idle", "asking", "looking", "creating", "writing", "done"}]
  /\ on \in [Users -> Files]
  /\ got \in [Users -> {"whole", "torn", "own", "failed", "nothing"}]
  /\ crashes \in Nat

FileCacheInit ==
  /\ task \in Tasks
  /\ file = [f \in Files |-> "none"] /\ lock = [f \in Files |-> None]
  /\ seen = {} /\ cut = {} /\ crashes = 0
  /\ step = [u \in Users |-> "idle"]
  /\ on = [u \in Users |-> task[u].file]
  /\ got = [u \in Users |-> "nothing"]

How(u) == task[u].how

Goes(u, here, next) == step[u] = here /\ step' = [step EXCEPT ![u] = next]

(* Leaves the operation, with the lock of the file given back.              *)
Ends(u, here, result) ==
  /\ Goes(u, here, "done")
  /\ got' = [got EXCEPT ![u] = result]
  /\ lock' = [lock EXCEPT ![on[u]] = None]

(* lockTracker.Lock notes the name and waits.  Of the transformations of    *)
(* one key one runs at a time: the memory cache in front of them sees to    *)
(* that, and a reader of the pair has its file open until it ends.          *)
Ask(u) ==
  /\ Goes(u, "idle", "asking")
  /\ How(u) \in Pairs =>
       \A v \in Users : How(v) \in Pairs => step[v] \in {"idle", "done"}
  /\ seen' = seen \cup {on[u]}
  /\ UNCHANGED <<task, file, lock, on, got, cut, crashes>>

(* Mutant: who only looks does not wait for the lock.                       *)
TakeUnlessLooking(u) ==
  /\ lock[on[u]] = None \/ file[on[u]] # "none"
  /\ Goes(u, "asking", IF How(u) = "writePair" THEN "creating" ELSE "looking")
  /\ lock' = [lock EXCEPT ![on[u]] = u]
  /\ UNCHANGED <<task, file, seen, on, got, cut, crashes>>

Take(u) ==
  /\ lock[on[u]] = None
  /\ Goes(u, "asking", IF How(u) = "writePair" THEN "creating" ELSE "looking")
  /\ lock' = [lock EXCEPT ![on[u]] = u]
  /\ UNCHANGED <<task, file, seen, on, got, cut, crashes>>

Readable(f) == file[f] \in {"part", "whole"}

Seen(f) == IF file[f] = "part" THEN "torn" ELSE "whole"

(* getOrRemove finds nothing, or removes what is expired.                   *)
Misses(u) ==
  /\ ~Readable(on[u])
  /\ file' = [file EXCEPT ![on[u]] = "none"]
  /\ IF How(u) = "readPair"
     THEN Ends(u, "looking", "failed")
     ELSE Goes(u, "looking", "creating") /\ UNCHANGED <<lock, got>>
  /\ UNCHANGED <<task, seen, on, cut, crashes>>

(* GetOrCreate and Get return the file as it is.                            *)
Gets(u) ==
  /\ Readable(on[u]) /\ How(u) \in {"getOrCreate", "readPair"} /\ on[u] # Meta
  /\ Ends(u, "looking", Seen(on[u]))
  /\ UNCHANGED <<task, file, seen, on, cut, crashes>>

(* getFromFile goes on from the metadata, if it parses, to the content.     *)
GetsMeta(u) ==
  /\ Readable(on[u]) /\ on[u] = Meta
  /\ lock' = [lock EXCEPT ![Meta] = None]
  /\ IF file[Meta] = "part"
     THEN /\ Goes(u, "looking", "done")
          /\ got' = [got EXCEPT ![u] = "failed"]
          /\ UNCHANGED <<seen, on>>
     ELSE /\ Goes(u, "looking", "asking")
          /\ on' = [on EXCEPT ![u] = Content]
          /\ seen' = seen \cup {Content}
          /\ UNCHANGED got
  /\ UNCHANGED <<task, file, cut, crashes>>

(* ReadOrCreate lets its caller read.  A read error is taken for a miss;    *)
(* part of an image may also be enough for its header.                      *)
Reads(u) ==
  /\ Readable(on[u]) /\ How(u) = "readOrCreate"
  /\ \/ Ends(u, "looking", Seen(on[u]))
     \/ file[on[u]] = "part" /\ Goes(u, "looking", "creating") /\ UNCHANGED <<lock, got>>
  /\ UNCHANGED <<task, file, seen, on, cut, crashes>>

(* GetOrCreate calls create before it opens the file.                       *)
CreateFails(u) ==
  /\ How(u) = "getOrCreate"
  /\ Ends(u, "creating", "failed")
  /\ UNCHANGED <<task, file, seen, on, cut, crashes>>

(* The file is created, or emptied.  writeMeta closes the metadata, which   *)
(* gives its lock back, when it has the writer of the content.              *)
Opens(u) ==
  /\ Goes(u, "creating", "writing")
  /\ file' = [file EXCEPT ![on[u]] = "part"]
  /\ cut' = cut \ {on[u]}
  /\ lock' = IF How(u) = "writePair" /\ on[u] = Content
             THEN [lock EXCEPT ![Meta] = None] ELSE lock
  /\ UNCHANGED <<task, seen, on, got, crashes>>

(* Written in full and closed; the metadata's writer asks for the content   *)
(* before it closes.                                                        *)
Writes(u) ==
  /\ file' = [file EXCEPT ![on[u]] = "whole"]
  /\ IF How(u) = "writePair" /\ on[u] = Meta
     THEN /\ Goes(u, "writing", "asking")
          /\ on' = [on EXCEPT ![u] = Content]
          /\ seen' = seen \cup {Content}
          /\ UNCHANGED <<lock, got>>
     ELSE Ends(u, "writing", "own") /\ UNCHANGED <<on, seen>>
  /\ UNCHANGED <<task, cut, crashes>>

(* Mutant: ReadOrCreate keeps the lock when create fails.                   *)
WriteCutKeepsLock(u) ==
  /\ cut' = cut \cup {on[u]}
  /\ Goes(u, "writing", "done")
  /\ got' = [got EXCEPT ![u] = "failed"]
  /\ UNCHANGED <<task, file, lock, seen, on, crashes>>

(* writeReader drops the error of io.Copy, and what GetOrCreate returns was *)
(* copied on the way, as far as the reading came; the create callback of    *)
(* ReadOrCreate, writeMeta and transform return their error.                *)
AfterCut(u) == IF How(u) = "getOrCreate" THEN {"own", "torn"} ELSE {"failed"}

(* The write is cut short; transform returns without closing the content's  *)
(* writer.                                                                  *)
WriteCut(u) ==
  /\ cut' = cut \cup {on[u]}
  /\ IF How(u) = "writePair" /\ on[u] = Content
     THEN /\ Goes(u, "writing", "done")
          /\ got' = [got EXCEPT ![u] = "failed"]
          /\ UNCHANGED lock
     ELSE \E result \in AfterCut(u) : Ends(u, "writing", result)
  /\ UNCHANGED <<task, file, seen, on, crashes>>

(* removeIfExpired looks at the modification time.                          *)
Expires(f) ==
  /\ Ages /\ file[f] = "whole"
  /\ file' = [file EXCEPT ![f] = "expired"]
  /\ UNCHANGED <<task, lock, seen, step, on, got, cut, crashes>>

(* Prune, after a build: what is expired goes, and what nobody asked for if *)
(* anything was asked for at all.  It takes no lock.                        *)
Prune(f) ==
  /\ \A u \in Users : step[u] \in {"idle", "done"}
  /\ file[f] = "expired" \/ (file[f] # "none" /\ seen # {} /\ f \notin seen)
  /\ file' = [file EXCEPT ![f] = "none"]
  /\ UNCHANGED <<task, lock, seen, step, on, got, cut, crashes>>

(* The process ends anywhere and a new one starts with the same directory.  *)
Crash ==
  /\ crashes < MaxCrashes
  /\ crashes' = crashes + 1
  /\ cut' = cut \cup {on[u] : u \in {v \in Users : step[v] = "writing"}}
  /\ step' = [u \in Users |-> IF step[u] = "idle" THEN "idle" ELSE "done"]
  /\ lock' = [f \in Files |-> None] /\ seen' = {}
  /\ UNCHANGED <<task, file, on, got>>

Uses(u) ==
  \/ Ask(u) \/ Take(u) \/ Misses(u) \/ Gets(u) \/ GetsMeta(u) \/ Reads(u)
  \/ CreateFails(u) \/ Opens(u) \/ Writes(u) \/ WriteCut(u)

FileCacheNext ==
  \/ \E u \in Users : Uses(u)
  \/ \E f \in Files : Expires(f) \/ Prune(f)
  \/ Crash

FileCacheFairness == \A u \in Users : WF_fileVars(Uses(u))

FileCacheSpec == FileCacheInit /\ [][FileCacheNext]_fileVars
FairFileCacheSpec == FileCacheSpec /\ FileCacheFairness
-----------------------------------------------------------------------------
(* A file that is being written is never read: part of a file is returned   *)
(* only when its last write was cut short, by an error, which may be that   *)
(* of the same call, or by the end of the process.                          *)
TornOnlyWhenCut ==
  [][\A u \in Users : got'[u] = "torn" /\ got[u] # "torn" => on[u] \in cut']_fileVars

(* Nobody waits for a file's lock for ever, except behind the writer that   *)
(* transform did not close.                                                 *)
Unclosed(f) ==
  \E u \in Users : /\ lock[f] = u /\ step[u] = "done"
                   /\ How(u) = "writePair" /\ f = Content

LocksComeFree ==
  \A u \in Users : step[u] = "asking" ~> (step[u] # "asking" \/ Unclosed(on[u]))
=============================================================================
