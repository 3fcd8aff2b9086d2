---------------------------- MODULE Transactions ----------------------------
(***************************************************************************)
(* The appservice transaction endpoint: claim, process event by event,     *)
(* release the claim on a transient store error, answer the homeserver.    *)
(*                                                                         *)
(* The homeserver (external) delivers its transactions in order, one       *)
(* outstanding request at a time, and repeats a transaction until it gets  *)
(* a 200.  A request it gave up on may go on running in the bridge, next   *)
(* to its own repetition: each slot is one request being served.           *)
(***************************************************************************)
EXTENDS Naturals, FiniteSets

CONSTANTS
    Slots,        \* requests the bridge can be serving at the same time
    NoSlot,       \* the homeserver has no request outstanding
    NumTxns,      \* transactions of the stream
    NumEvents,    \* events of each transaction
    Messages,     \* the <<txn, event>> that are room messages
    MaxFaults,    \* bound: store errors
    MaxTimeouts,  \* bound: requests the homeserver gives up on
    MaxCrashes    \* bound: restarts of the bridge

Txns == 1..NumTxns
Events == 1..NumEvents

ASSUME StreamAssumption ==
    /\ NoSlot \notin Slots
    /\ NumTxns \in Nat \ {0}
    /\ NumEvents \in Nat \ {0}
    /\ Messages \subseteq Txns \X Events
    /\ MaxFaults \in Nat /\ MaxTimeouts \in Nat /\ MaxCrashes \in Nat

VARIABLES
    \* --- the SQLite store
    claimed,      \* transactions in processed_transactions
    old,          \* those whose processed_at is more than 7 days ago
    \* --- the requests being served
    pc,           \* [Slots -> Steps]
    txn,          \* [Slots -> Txns]: the txn_id of the request
    pos,          \* [Slots -> Nat]: the next event of process_transaction
    status,       \* [Slots -> {"ok", "error"}]: the answer
    \* --- the homeserver
    next,         \* the first transaction without a 200
    req,          \* the slot of the outstanding request, or NoSlot
    \* --- history: never read by the code
    seen,         \* [Txns -> [Events -> Nat]]: times the event was handled
    released,     \* [Txns -> Nat]: claims deleted, by unclaim or prune
    disturbed,    \* transactions a timeout, crash or failed release hit
    faults, timeouts, crashes

requests == <<pc, txn, pos, status>>
history  == <<seen, released, disturbed>>
budget   == <<faults, timeouts, crashes>>

vars == <<claimed, old, requests, next, req, history, budget>>

Steps == {"free", "claim", "process", "unclaim", "respond"}

\* Some request for the transaction is being served.
Served(t) == \E s \in Slots : pc[s] # "free" /\ txn[s] = t

\* The slot holds the claim of its transaction.
Owns(s) == pc[s] \in {"process", "unclaim"}

Init ==
    /\ claimed = {} /\ old = {}
    /\ pc = [s \in Slots |-> "free"]
    /\ txn = [s \in Slots |-> 1]
    /\ pos = [s \in Slots |-> 1]
    /\ status = [s \in Slots |-> "error"]
    /\ next = 1 /\ req = NoSlot
    /\ seen = [t \in Txns |-> [e \in Events |-> 0]]
    /\ released = [t \in Txns |-> 0]
    /\ disturbed = {}
    /\ faults = 0 /\ timeouts = 0 /\ crashes = 0

StoreError ==
    /\ faults < MaxFaults /\ faults' = faults + 1
    /\ UNCHANGED <<timeouts, crashes>>

\* The requests of the slots in S are over.
Free(S) ==
    /\ pc' = [s \in Slots |-> IF s \in S THEN "free" ELSE pc[s]]
    /\ txn' = [s \in Slots |-> IF s \in S THEN 1 ELSE txn[s]]
    /\ pos' = [s \in Slots |-> IF s \in S THEN 1 ELSE pos[s]]
    /\ status' = [s \in Slots |-> IF s \in S THEN "error" ELSE status[s]]

-----------------------------------------------------------------------------
(* The homeserver.                                                         *)

\* PUT /transactions/{next}, the first time or again.
Deliver(s) ==
    /\ next <= NumTxns
    /\ req = NoSlot
    /\ pc[s] = "free"
    /\ pc' = [pc EXCEPT ![s] = "claim"]
    /\ txn' = [txn EXCEPT ![s] = next]
    /\ req' = s
    /\ UNCHANGED <<claimed, old, pos, status, next, history, budget>>

\* The homeserver stops waiting.  The handler keeps running, or the server
\* drops it with its connection at the await it is suspended in.
GiveUpWaiting ==
    /\ req # NoSlot
    /\ timeouts < MaxTimeouts /\ timeouts' = timeouts + 1
    /\ UNCHANGED requests \/ Free({req})
    /\ disturbed' = disturbed \cup {txn[req]}
    /\ req' = NoSlot
    /\ UNCHANGED <<claimed, old, next, seen, released, faults,
                   crashes>>

-----------------------------------------------------------------------------
(* handle_transactions.                                                    *)

\* Mutant: INSERT OR REPLACE, every delivery believes it owns the claim.
ClaimAlways(s) ==
    /\ pc[s] = "claim"
    /\ claimed' = claimed \cup {txn[s]}
    /\ pc' = [pc EXCEPT ![s] = "process"]
    /\ pos' = [pos EXCEPT ![s] = 1]
    /\ UNCHANGED <<old, txn, status, next, req, history, budget>>

\* claim_transaction: INSERT OR IGNORE, and the row was not there.
ClaimTransaction(s) ==
    /\ pc[s] = "claim"
    /\ txn[s] \notin claimed
    /\ claimed' = claimed \cup {txn[s]}
    /\ pc' = [pc EXCEPT ![s] = "process"]
    /\ pos' = [pos EXCEPT ![s] = 1]
    /\ UNCHANGED <<old, txn, status, next, req, history, budget>>

\* Mutant: a transaction already claimed is answered with a 500.
RefuseClaimed(s) ==
    /\ pc[s] = "claim"
    /\ txn[s] \in claimed
    /\ pc' = [pc EXCEPT ![s] = "respond"]
    /\ status' = [status EXCEPT ![s] = "error"]
    /\ UNCHANGED <<claimed, old, txn, pos, next, req, history, budget>>

\* ... or it was: answered with a 200.
AlreadyClaimed(s) ==
    /\ pc[s] = "claim"
    /\ txn[s] \in claimed
    /\ pc' = [pc EXCEPT ![s] = "respond"]
    /\ status' = [status EXCEPT ![s] = "ok"]
    /\ UNCHANGED <<claimed, old, txn, pos, next, req, history, budget>>

\* ... or the store failed: answered with a 500.
ClaimFails(s) ==
    /\ pc[s] = "claim"
    /\ StoreError
    /\ pc' = [pc EXCEPT ![s] = "respond"]
    /\ status' = [status EXCEPT ![s] = "error"]
    /\ UNCHANGED <<claimed, old, txn, pos, next, req, history>>

\* One turn of process_transaction's loops: an ephemeral receipt, a
\* membership event, a reaction, a redaction, an edit or a message.  An error
\* that is not returned is logged and the event is done with.
ProcessEvent(s) ==
    /\ pc[s] = "process"
    /\ pos[s] <= NumEvents
    /\ seen' = [seen EXCEPT ![txn[s]][pos[s]] = @ + 1]
    /\ pos' = [pos EXCEPT ![s] = @ + 1]
    /\ UNCHANGED <<claimed, old, pc, txn, status, next, req, released,
                   disturbed, budget>>

\* Mutant: a store error skips the message instead of aborting.
SkipOnStoreError(s) ==
    /\ pc[s] = "process"
    /\ pos[s] <= NumEvents
    /\ <<txn[s], pos[s]>> \in Messages
    /\ StoreError
    /\ pos' = [pos EXCEPT ![s] = @ + 1]
    /\ UNCHANGED <<claimed, old, pc, txn, status, next, req, history>>

\* A room message whose ghost lookup or enqueue fails in the store: the only
\* error process_transaction returns.
AbortOnStoreError(s) ==
    /\ pc[s] = "process"
    /\ pos[s] <= NumEvents
    /\ <<txn[s], pos[s]>> \in Messages
    /\ StoreError
    /\ pc' = [pc EXCEPT ![s] = "unclaim"]
    /\ UNCHANGED <<claimed, old, txn, pos, status, next, req, seen, released,
                   disturbed>>

FinishTransaction(s) ==
    /\ pc[s] = "process"
    /\ pos[s] > NumEvents
    /\ pc' = [pc EXCEPT ![s] = "respond"]
    /\ status' = [status EXCEPT ![s] = "ok"]
    /\ UNCHANGED <<claimed, old, txn, pos, next, req, history, budget>>

\* Mutant: a 500 without releasing the claim.
RefuseWithoutUnclaim(s) ==
    /\ pc[s] = "unclaim"
    /\ pc' = [pc EXCEPT ![s] = "respond"]
    /\ UNCHANGED <<claimed, old, txn, pos, status, next, req, history, budget>>

\* unclaim_transaction, then a 500.
UnclaimTransaction(s) ==
    /\ pc[s] = "unclaim"
    /\ claimed' = claimed \ {txn[s]}
    /\ released' = [released EXCEPT ![txn[s]] = @ + 1]
    /\ pc' = [pc EXCEPT ![s] = "respond"]
    /\ status' = [status EXCEPT ![s] = "error"]
    /\ UNCHANGED <<old, txn, pos, next, req, seen, disturbed, budget>>

\* ... whose own error is only logged.
UnclaimFails(s) ==
    /\ pc[s] = "unclaim"
    /\ StoreError
    /\ disturbed' = disturbed \cup {txn[s]}
    /\ pc' = [pc EXCEPT ![s] = "respond"]
    /\ status' = [status EXCEPT ![s] = "error"]
    /\ UNCHANGED <<claimed, old, txn, pos, next, req, seen, released>>

\* Mutant: the slot is freed and the homeserver left waiting.
RespondNever(s) ==
    /\ pc[s] = "respond"
    /\ Free({s})
    /\ UNCHANGED <<claimed, old, next, req, history, budget>>

\* The answer: the homeserver moves on after a 200 and repeats after a 500;
\* nobody reads the answer to a request it gave up on.
Respond(s) ==
    /\ pc[s] = "respond"
    /\ Free({s})
    /\ IF req = s
       THEN /\ req' = NoSlot
            /\ next' = IF status[s] = "ok" THEN next + 1 ELSE next
       ELSE UNCHANGED <<req, next>>
    /\ UNCHANGED <<claimed, old, history, budget>>

-----------------------------------------------------------------------------
(* The daily prune, and restarts.                                          *)

\* Seven days pass over a claim; no request is served that long.
ClaimAges(t) ==
    /\ t \in claimed \ old
    /\ ~Served(t)
    /\ old' = old \cup {t}
    /\ UNCHANGED <<claimed, requests, next, req, history, budget>>

\* prune_old_data: DELETE ... WHERE processed_at < now - 7 days.
PruneOldData ==
    /\ old # {}
    /\ claimed' = claimed \ old
    /\ old' = {}
    /\ released' = [t \in Txns |-> IF t \in old THEN released[t] + 1
                                   ELSE released[t]]
    /\ UNCHANGED <<requests, next, req, seen, disturbed, budget>>

\* Requests are lost, the claims are not.
Crash ==
    /\ crashes < MaxCrashes /\ crashes' = crashes + 1
    /\ Free(Slots)
    /\ req' = NoSlot
    /\ disturbed' = disturbed \cup {t \in Txns : Served(t)}
    /\ UNCHANGED <<claimed, old, next, seen, released, faults,
                   timeouts>>

-----------------------------------------------------------------------------
Serve(s) ==
    \/ ClaimTransaction(s) \/ AlreadyClaimed(s) \/ ClaimFails(s)
    \/ ProcessEvent(s) \/ AbortOnStoreError(s) \/ FinishTransaction(s)
    \/ UnclaimTransaction(s) \/ UnclaimFails(s) \/ Respond(s)

Homeserver == GiveUpWaiting \/ \E s \in Slots : Deliver(s)

Next ==
    \/ Homeserver
    \/ \E s \in Slots : Serve(s)
    \/ \E t \in Txns : ClaimAges(t)
    \/ PruneOldData
    \/ Crash

Spec == Init /\ [][Next]_vars

\* The runtime keeps polling every request it serves, and the homeserver
\* repeats a transaction for as long as it takes.
Fairness ==
    /\ WF_vars(\E s \in Slots : Deliver(s))
    /\ \A s \in Slots : WF_vars(Serve(s))

FairSpec == Spec /\ Fairness

-----------------------------------------------------------------------------
(* Properties.                                                             *)

\* Every variable keeps its type; a request outstanding at the homeserver is
\* being served for the transaction it waits for.
TypeOK ==
    /\ claimed \subseteq Txns /\ old \subseteq Txns
    /\ pc \in [Slots -> Steps] /\ txn \in [Slots -> Txns]
    /\ pos \in [Slots -> Nat \ {0}] /\ status \in [Slots -> {"ok", "error"}]
    /\ next \in Nat \ {0}
    /\ req \in Slots \cup {NoSlot}
    /\ req # NoSlot => pc[req] # "free" /\ txn[req] = next
    /\ seen \in [Txns -> [Events -> Nat]]
    /\ released \in [Txns -> Nat]
    /\ disturbed \subseteq Txns
    /\ faults \in Nat /\ timeouts \in Nat /\ crashes \in Nat

\* Two deliveries of one transaction never process it at the same time, and
\* whoever processes it holds its claim (claim_transaction).
SingleOwner ==
    \A s \in Slots : Owns(s) =>
        /\ txn[s] \in claimed
        /\ \A x \in Slots \ {s} : Owns(x) => txn[x] # txn[s]

\* An event is handled once, and again only after the claim of its
\* transaction was deleted: duplicates, timeouts and crashes alone never
\* repeat one (handle_transactions).
HandledOncePerRelease ==
    \A t \in Txns : \A e \in Events : seen[t][e] <= released[t] + 1

\* Through aborts, repetitions and restarts, no event of a transaction is
\* ever handled more often than one before it: nothing is skipped on the way
\* to a later event (process_transaction).
EventsInOrder ==
    \A t \in Txns : \A e \in Events, f \in Events :
        e < f => seen[t][f] <= seen[t][e]

\* A transaction answered with a 200 has had every event handled, unless a
\* timeout, a crash or a failed release came in between.
AckedMeansHandled ==
    \A t \in Txns : t < next /\ t \notin disturbed
        => \A e \in Events : seen[t][e] > 0

\* The stream never stalls: every transaction is answered with a 200 in the
\* end, whatever finite number of errors, timeouts and crashes happens.
StreamAdvances == <>(next > NumTxns)
=============================================================================
