---------------------------- MODULE DevServerMC ----------------------------
(* Model checking of DevServer: its goroutines as model values.             *)
EXTENDS DevServer, TLC

\* Full rebuild goroutines, and requests, differ in nothing but their names.
Symmetry == Permutations(Rebuilders) \cup Permutations(Handlers)
=============================================================================
