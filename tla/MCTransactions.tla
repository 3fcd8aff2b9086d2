--------------------------- MODULE MCTransactions ---------------------------
(* Instances of Transactions for TLC.                                      *)
EXTENDS Transactions

CONSTANTS s1, s2

\* The events are messages, but for a reaction at the head of the second
\* transaction.
MessagesAndReaction == {te \in Txns \X Events : te # <<2, 1>>}
=============================================================================
