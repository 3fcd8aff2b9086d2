------------------------------- MODULE Outbox -------------------------------
(***************************************************************************)
(* What the outbound path promises, with queue, worker, hold and retries   *)
(* hidden: an accepted message is open until it is closed; copies of it    *)
(* are mailed only while it is open, one at first and one more for each    *)
(* submission whose outcome was lost (a slip).                             *)
(***************************************************************************)
EXTENDS Naturals

CONSTANT Msgs

VARIABLES stage,   \* [Msgs -> {"new", "open", "closed"}]
          copies,  \* [Msgs -> Nat]
          slips    \* [Msgs -> Nat]

vars == <<stage, copies, slips>>

Init ==
    /\ stage = [m \in Msgs |-> "new"]
    /\ copies = [m \in Msgs |-> 0]
    /\ slips = [m \in Msgs |-> 0]

Accept(m) ==
    /\ stage[m] = "new"
    /\ stage' = [stage EXCEPT ![m] = "open"]
    /\ UNCHANGED <<copies, slips>>

Deliver(m) ==
    /\ stage[m] = "open"
    /\ copies[m] <= slips[m]
    /\ copies' = [copies EXCEPT ![m] = @ + 1]
    /\ UNCHANGED <<stage, slips>>

\* Some open messages are closed, and the outcome of at most one submission
\* is lost.
Settle(closed, slipped) ==
    /\ \A m \in closed : stage[m] = "open"
    /\ \A m, n \in slipped : m = n
    /\ \A m \in slipped : copies[m] > slips[m]
    /\ stage' = [m \in Msgs |-> IF m \in closed THEN "closed" ELSE stage[m]]
    /\ slips' = [m \in Msgs |-> IF m \in slipped THEN slips[m] + 1
                               ELSE slips[m]]
    /\ UNCHANGED copies

Next ==
    \/ \E m \in Msgs : Accept(m) \/ Deliver(m)
    \/ \E closed, slipped \in SUBSET Msgs : Settle(closed, slipped)

Spec == Init /\ [][Next]_vars

\* Every accepted message is closed in the end.
Closes == \A m \in Msgs : stage[m] = "open" ~> stage[m] = "closed"
=============================================================================
