------------------------------- MODULE Absent -------------------------------
(* The one value that stands for "nothing there" (nil, no holder, no answer *)
(* yet) in the modules that are checked side by side.                       *)
CONSTANT None
=============================================================================
