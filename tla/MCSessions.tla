----------------------------- MODULE MCSessions -----------------------------
(* Small instances of Sessions for TLC: two requests at a time and the     *)
(* session task of start-up.                                               *)
EXTENDS Sessions

CONSTANTS h1, h2, b
=============================================================================
