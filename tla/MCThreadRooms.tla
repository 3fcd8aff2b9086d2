--------------------------- MODULE MCThreadRooms ---------------------------
(* Instances of ThreadRooms for TLC.                                       *)
EXTENDS ThreadRooms, TLC

CONSTANTS w1, w2, e1, e2, ta, composed

OneThread == (e1 :> ta) @@ (e2 :> ta)

\* Behaviours with two faults have one email, and one of the two is a fresh
\* mail.
Bounded ==
    \/ faults <= 1
    \/ /\ \A w \in Tasks : job[w] # e2
       /\ posts[e2] = 0
       /\ mail # None \/ freshMaps[ta] # 0
=============================================================================
