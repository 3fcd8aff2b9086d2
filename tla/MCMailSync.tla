----------------------------- MODULE MCMailSync -----------------------------
(* Instances of MailSync for TLC.                                          *)
EXTENDS MailSync

CONSTANT c1
=============================================================================
