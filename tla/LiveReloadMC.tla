---------------------------- MODULE LiveReloadMC ----------------------------
(* Model checking of LiveReload: two browsers, one of which may stall.      *)
EXTENDS LiveReload

CONSTANTS c1, c2, r1
=============================================================================
