----------------------------- MODULE MCOutbound -----------------------------
(* Instances of OutboundQueue for TLC.                                     *)
EXTENDS OutboundQueue

CONSTANTS m1, m2, r1, u1

OneRoom == [m \in Msgs |-> r1]
OneOwner == [r \in Rooms |-> u1]
=============================================================================
