----------------------------- MODULE MCReadState ----------------------------
(* Small instances of ReadState for TLC: one or two polls at a time.       *)
EXTENDS ReadState

CONSTANTS p1, p2
=============================================================================
