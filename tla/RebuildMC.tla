------------------------------ MODULE RebuildMC ------------------------------
(* The parts that decide what a rebuild renders, checked side by side: a    *)
(* behaviour is one of the watcher, of the finder, of the page tree or of   *)
(* the builds with deferred templates.                                      *)
EXTENDS WatcherMC, FinderMC, AssemblerMC, DeferredMC

VARIABLE part

rebuildVars == <<part, watcherVars, finderVars, assemblerVars, deferredVars>>

RebuildInit ==
  /\ part \in {"watcher", "finder", "assembler", "deferred"}
  /\ FinderInit /\ (part # "finder" => holds = CHOOSE g \in Graphs : TRUE)
  /\ WatcherInit /\ (part # "watcher" => disk = left)
  /\ AssemblerInit /\ DeferredInit

RebuildNext ==
  /\ UNCHANGED part
  /\ \/ part = "watcher" /\ WatcherNext /\ UNCHANGED <<finderVars, assemblerVars, deferredVars>>
     \/ part = "finder" /\ FinderNext /\ UNCHANGED <<watcherVars, assemblerVars, deferredVars>>
     \/ part = "assembler" /\ AssemblerNext /\ UNCHANGED <<watcherVars, finderVars, deferredVars>>
     \/ part = "deferred" /\ DeferredNext /\ UNCHANGED <<watcherVars, finderVars, assemblerVars>>

RebuildSpec == RebuildInit /\ [][RebuildNext]_rebuildVars

(* Every variable of the four parts has its type.                           *)
RebuildTypeOK == WatcherTypeOK /\ FinderTypeOK /\ AssemblerTypeOK /\ DeferredTypeOK
=============================================================================
