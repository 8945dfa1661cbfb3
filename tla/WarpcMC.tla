------------------------------- MODULE WarpcMC -------------------------------
EXTENDS Warpc
CONSTANTS w1, w2, w3, n1, n2
Two == [c \in Calls |-> IF c = w1 THEN n1 ELSE n2]
=============================================================================
