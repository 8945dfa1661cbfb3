------------------------------ MODULE ServicesMC ------------------------------
(* What the templates of a build call, checked side by side: a behaviour is *)
(* one of the WebAssembly pool, of a file cache, of the script batcher or   *)
(* of the values that are made when they are first asked for.               *)
EXTENDS WarpcMC, FileCacheMC, JSBatchMC, LazyInitMC

VARIABLE part

servicesVars == <<part, warpcVars, fileVars, batchVars, lazyVars>>

ServicesInit ==
  /\ part \in {"warpc", "filecache", "jsbatch", "lazy"}
  /\ FileCacheInit /\ (part # "filecache" => task = CHOOSE t \in Tasks : TRUE)
  /\ WarpcInit /\ JSBatchInit /\ LazyInitInit

ServicesNext ==
  /\ UNCHANGED part
  /\ \/ part = "warpc" /\ WarpcNext /\ UNCHANGED <<fileVars, batchVars, lazyVars>>
     \/ part = "filecache" /\ FileCacheNext /\ UNCHANGED <<warpcVars, batchVars, lazyVars>>
     \/ part = "jsbatch" /\ JSBatchNext /\ UNCHANGED <<warpcVars, fileVars, lazyVars>>
     \/ part = "lazy" /\ LazyInitNext /\ UNCHANGED <<warpcVars, fileVars, batchVars>>

ServicesSpec == ServicesInit /\ [][ServicesNext]_servicesVars

(* WarpcFairness, FileCacheFairness and LazyInitFairness, of the part that  *)
(* runs.                                                                    *)
ServicesFairness ==
  /\ \A call \in Calls : WF_warpcVars(part = "warpc" /\ CallSteps(call))
  /\ \A d \in Pool : WF_warpcVars(part = "warpc" /\ PoolSteps(d))
  /\ WF_warpcVars(part = "warpc" /\ RunReturns)
  /\ \A user \in Users : WF_fileVars(part = "filecache" /\ Uses(user))
  /\ \A caller \in Callers : WF_lazyVars(part = "lazy" /\ Does(caller))

FairServicesSpec == ServicesSpec /\ ServicesFairness

(* Every variable of the four parts has its type.                           *)
ServicesTypeOK == WarpcTypeOK /\ FileCacheTypeOK /\ JSBatchTypeOK /\ LazyInitTypeOK
=============================================================================
