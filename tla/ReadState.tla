------------------------------ MODULE ReadState -----------------------------
(***************************************************************************)
(* The read state of one bridged email, the latest of its room, kept in    *)
(* step between the mail server ($seen) and Matrix (the user's m.read      *)
(* receipt and the m.marked_unread flag of the room).                      *)
(*                                                                         *)
(* Three parts of the bridge write it: polls (sync_read_state), the        *)
(* transaction endpoint (handle_receipt) and the puppet's /sync loop       *)
(* (sync_marked_unread).  Each hears of the others' writes as well as of   *)
(* the user's; two rows of the store (gates) are there to stop the echo.   *)
(* The user's JMAP session is live throughout (see Sessions).              *)
(***************************************************************************)
EXTENDS Naturals

CONSTANTS
    EventLoop,    \* the poll task of the event loop
    Commands,     \* polls of the sync command that can run next to it
    MaxActs,      \* bound: things the user does
    MaxFaults     \* bound: failed calls and restarts

Pollers == Commands \cup {EventLoop}

ASSUME ReadStateAssumption ==
    EventLoop \notin Commands /\ MaxActs \in Nat /\ MaxFaults \in Nat

VARIABLES
    \* --- the mail server
    seen,         \* the email has $seen
    changed,      \* Email/changes will report the email
    \* --- the homeserver
    receipt,      \* the user's m.read receipt covers the email's event
    marked,       \* m.marked_unread of the room
    notice,       \* a receipt is on its way to the appservice
    flagged,      \* the next /sync of the puppet reports the room's flag
    \* --- the store
    puppet,       \* a double-puppet token is stored, and its loop runs
    read_synced,  \* gate: the email was mirrored to Matrix as read
    marked_unread,\* gate: the flag was mirrored to the mail
    \* --- the tasks
    pc,           \* [Pollers -> PollSteps]
    snap,         \* [Pollers -> BOOLEAN]: $seen in the email fetched
    loop,         \* step of the puppet's loop
    got,          \* the flag in the /sync it handles
    \* --- history: never read by the code
    polled,       \* $seen as the polls last heard it
    reported,     \* the flag as the puppet last heard it
    coalesced,    \* $seen or the flag changed and changed back unheard
    raced,        \* two polls ran at once
    dropped,      \* an update was not mirrored: no puppet, or a failed call
    acts, faults

mail    == <<seen, changed>>
room    == <<receipt, marked, notice, flagged>>
store   == <<puppet, read_synced, marked_unread>>
tasks   == <<pc, snap, loop, got>>
history == <<polled, reported, coalesced, raced, dropped>>
budget  == <<acts, faults>>

vars == <<mail, room, store, tasks, history, budget>>

PollSteps == {"idle", "decide", "receipt", "unmark", "synced", "mark",
              "unsynced"}

\* The email has just been bridged and is about to be synced.
Init ==
    /\ seen \in BOOLEAN /\ changed = TRUE
    /\ receipt = FALSE /\ marked = FALSE /\ notice = FALSE
    /\ puppet \in BOOLEAN /\ flagged = puppet
    /\ read_synced = FALSE /\ marked_unread = FALSE
    /\ pc = [p \in Pollers |-> "idle"]
    /\ snap = [p \in Pollers |-> FALSE]
    /\ loop = "sync" /\ got = FALSE
    /\ polled = FALSE /\ reported = FALSE /\ coalesced = FALSE
    /\ raced = FALSE /\ dropped = FALSE
    /\ acts = 0 /\ faults = 0

Act == acts < MaxActs /\ acts' = acts + 1 /\ UNCHANGED faults

Fault == faults < MaxFaults /\ faults' = faults + 1 /\ UNCHANGED acts

Goto(p, step) == pc' = [pc EXCEPT ![p] = step]

\* Email/set of the $seen keyword.  A server may count an update that changes
\* nothing as a change.
SetSeen(b) ==
    /\ seen' = b
    /\ \/ changed' = TRUE
       \/ seen = b /\ UNCHANGED changed
    /\ coalesced' = (coalesced \/ (seen # b /\ seen # polled))

\* A write of the room's m.marked_unread, heard by the puppet's next /sync.
SetMarked(b) ==
    /\ marked' = b
    /\ flagged' = (flagged \/ marked # b)
    /\ coalesced' = (coalesced \/ (marked # b /\ marked # reported))

-----------------------------------------------------------------------------
(* The user.                                                               *)

\* In the mail client.
MailToggle ==
    /\ Act
    /\ SetSeen(~seen)
    /\ UNCHANGED <<room, store, tasks, polled, reported, raced, dropped>>

\* In Matrix: reading the room sends a receipt and clears the flag.  The
\* homeserver hands every receipt to the appservice, a repeated one too.
MatrixRead ==
    /\ Act
    /\ ~receipt \/ marked
    /\ receipt' = TRUE /\ notice' = TRUE
    /\ SetMarked(FALSE)
    /\ UNCHANGED <<mail, store, tasks, polled, reported, raced, dropped>>

\* In Matrix: "mark as unread".
MatrixUnread ==
    /\ Act
    /\ ~marked /\ SetMarked(TRUE)
    /\ UNCHANGED <<mail, receipt, notice, store, tasks, polled, reported,
                   raced, dropped>>

\* login-matrix stores a token and starts the loop, whose first /sync has no
\* since and reports every room.
LoginMatrix ==
    /\ Act
    /\ ~puppet /\ puppet' = TRUE
    /\ flagged' = TRUE
    /\ UNCHANGED <<mail, receipt, marked, notice, read_synced, marked_unread,
                   tasks, history>>

-----------------------------------------------------------------------------
(* Polls: sync_read_state.                                                 *)

Polling(p) == pc[p] # "idle"

\* A poll fetches the email with its keywords.
FetchEmail(p) ==
    /\ ~Polling(p)
    /\ snap' = [snap EXCEPT ![p] = seen]
    /\ polled' = seen
    /\ changed' = FALSE
    /\ raced' = (raced \/ \E q \in Pollers : Polling(q))
    /\ Goto(p, "decide")
    /\ UNCHANGED <<seen, room, store, loop, got, reported, coalesced,
                   dropped>>

\* A push makes the event loop poll.
Fetch == changed /\ FetchEmail(EventLoop) /\ UNCHANGED budget

\* The user's sync command polls at once.  A change is reported until the
\* poll that heard of it has saved its state, so to this one as well.
SyncCommand(c) ==
    /\ Act
    /\ changed \/ \E q \in Pollers : Polling(q)
    /\ FetchEmail(c)

\* Mutant: the gate is not looked at.
DecideUngated(p) ==
    /\ pc[p] = "decide"
    /\ puppet
    /\ Goto(p, IF snap[p] THEN "receipt" ELSE "mark")
    /\ UNCHANGED <<mail, room, store, snap, loop, got, history, budget>>

\* The gate, then the puppet's token: without one the edge is lost.
Decide(p) ==
    /\ pc[p] = "decide"
    /\ LET edge == snap[p] # read_synced IN
       /\ Goto(p, IF ~edge \/ ~puppet THEN "idle"
                  ELSE IF snap[p] THEN "receipt" ELSE "mark")
       /\ dropped' = (dropped \/ (edge /\ ~puppet))
    /\ UNCHANGED <<mail, room, store, snap, loop, got, polled, reported,
                   coalesced, raced, budget>>

\* unseen to seen: a receipt as the user ...
SendReceipt(p) ==
    /\ pc[p] = "receipt"
    /\ receipt' = TRUE /\ notice' = TRUE
    /\ Goto(p, "unmark")
    /\ UNCHANGED <<mail, marked, flagged, store, snap, loop, got, history,
                   budget>>

\* Mutant: a room the user marked unread stays so.
UnmarkNothing(p) ==
    /\ pc[p] = "unmark"
    /\ Goto(p, "synced")
    /\ UNCHANGED <<mail, room, store, snap, loop, got, history, budget>>

\* ... then the flag is cleared ...
Unmark(p) ==
    /\ pc[p] = "unmark"
    /\ SetMarked(FALSE)
    /\ Goto(p, "synced")
    /\ UNCHANGED <<mail, receipt, notice, store, snap, loop, got, polled,
                   reported, raced, dropped, budget>>

\* ... (best effort) ...
UnmarkFails(p) ==
    /\ pc[p] = "unmark" /\ Fault
    /\ dropped' = TRUE
    /\ Goto(p, "synced")
    /\ UNCHANGED <<mail, room, store, snap, loop, got, polled, reported,
                   coalesced, raced>>

\* ... and the gate is set.
SaveSynced(p) ==
    /\ pc[p] = "synced"
    /\ read_synced' = TRUE
    /\ Goto(p, "idle")
    /\ UNCHANGED <<mail, room, puppet, marked_unread, snap, loop, got,
                   history, budget>>

\* seen to unseen: the room is flagged as the user ...
MarkRoom(p) ==
    /\ pc[p] = "mark"
    /\ SetMarked(TRUE)
    /\ Goto(p, "unsynced")
    /\ UNCHANGED <<mail, receipt, notice, store, snap, loop, got, polled,
                   reported, raced, dropped, budget>>

\* ... and the gate is dropped.
DeleteSynced(p) ==
    /\ pc[p] = "unsynced"
    /\ read_synced' = FALSE
    /\ Goto(p, "idle")
    /\ UNCHANGED <<mail, room, puppet, marked_unread, snap, loop, got,
                   history, budget>>

\* A failed call before the gate: logged, and the edge is lost.  A gate that
\* is not written is ignored.
PollFails(p) ==
    /\ pc[p] \in {"decide", "receipt", "synced", "mark", "unsynced"}
    /\ Fault
    /\ dropped' = TRUE
    /\ Goto(p, "idle")
    /\ UNCHANGED <<mail, room, store, snap, loop, got, polled, reported,
                   coalesced, raced>>

-----------------------------------------------------------------------------
(* The transaction endpoint: handle_receipt.                               *)

HandleReceipt ==
    /\ notice /\ notice' = FALSE
    /\ SetSeen(TRUE)
    /\ UNCHANGED <<receipt, marked, flagged, store, tasks, polled, reported,
                   raced, dropped, budget>>

\* mark_as_read fails: logged, never repeated.
HandleReceiptFails ==
    /\ notice /\ notice' = FALSE
    /\ Fault
    /\ dropped' = TRUE
    /\ UNCHANGED <<mail, receipt, marked, flagged, store, tasks, polled,
                   reported, coalesced, raced>>

-----------------------------------------------------------------------------
(* The puppet's loop: run_auto_accept, handle_marked_unread.               *)

\* A /sync answers with the room's flag as it is now.
PuppetSync ==
    /\ puppet /\ loop = "sync" /\ flagged
    /\ flagged' = FALSE
    /\ got' = marked /\ reported' = marked
    /\ loop' = "apply"
    /\ UNCHANGED <<mail, receipt, marked, notice, store, pc, snap, polled,
                   coalesced, raced, dropped, budget>>

\* Mutant: the flag is read the wrong way round.
UnreadActionInverted(gated, unread) ==
    CASE ~unread /\ ~gated -> "MarkUnseen"
      [] unread /\ gated   -> "ClearGate"
      [] OTHER             -> "NoOp"

\* unread_action: what the flag says against the gate.
unread_action(gated, unread) ==
    CASE unread /\ ~gated -> "MarkUnseen"
      [] ~unread /\ gated -> "ClearGate"
      [] OTHER            -> "NoOp"

\* sync_marked_unread: $seen is cleared on the latest email of the room.
Apply ==
    /\ loop = "apply"
    /\ LET action == unread_action(marked_unread, got) IN
       /\ IF action = "MarkUnseen"
            THEN SetSeen(FALSE) /\ loop' = "save"
            ELSE UNCHANGED <<mail, coalesced>> /\ loop' = "sync"
       /\ marked_unread' = (marked_unread /\ action # "ClearGate")
    /\ UNCHANGED <<room, puppet, read_synced, pc, snap, got, polled,
                   reported, raced, dropped, budget>>

SaveGate ==
    /\ loop = "save"
    /\ marked_unread' = TRUE
    /\ loop' = "sync"
    /\ UNCHANGED <<mail, room, puppet, read_synced, pc, snap, got, history,
                   budget>>

\* A failed call is logged, and the loop goes on from the next batch.
LoopFails ==
    /\ loop \in {"apply", "save"} /\ Fault
    /\ dropped' = TRUE
    /\ loop' = "sync"
    /\ UNCHANGED <<mail, room, store, pc, snap, got, polled, reported,
                   coalesced, raced>>

-----------------------------------------------------------------------------
\* The bridge restarts: a poll that had not saved its state is repeated, and
\* the puppet starts over with a full /sync: what they had heard and not
\* mirrored is unheard again.
Restart ==
    /\ Fault
    /\ pc' = [p \in Pollers |-> "idle"]
    /\ changed' = (changed \/ \E p \in Pollers : Polling(p))
    /\ loop' = "sync"
    /\ flagged' = puppet
    /\ polled' = read_synced /\ reported' = marked_unread
    /\ coalesced' = \/ coalesced
                    \/ polled # read_synced /\ seen # polled
                    \/ reported # marked_unread /\ marked # reported
    /\ UNCHANGED <<seen, receipt, marked, notice, store, snap, got, raced,
                   dropped>>

Poll(p) ==
    \/ Decide(p)
    \/ SendReceipt(p) \/ Unmark(p) \/ SaveSynced(p)
    \/ MarkRoom(p) \/ DeleteSynced(p)

Puppet == PuppetSync \/ Apply \/ SaveGate

Next ==
    \/ MailToggle \/ MatrixRead \/ MatrixUnread \/ LoginMatrix
    \/ Fetch \/ \E c \in Commands : SyncCommand(c)
    \/ \E p \in Pollers : Poll(p) \/ UnmarkFails(p) \/ PollFails(p)
    \/ HandleReceipt \/ HandleReceiptFails
    \/ Puppet \/ LoopFails
    \/ Restart

Spec == Init /\ [][Next]_vars

\* The bridge's tasks run, and the homeserver delivers; the user does
\* nothing they do not want to.
FairSpec ==
    /\ Spec
    /\ WF_vars(Fetch) /\ \A p \in Pollers : WF_vars(Poll(p))
    /\ WF_vars(HandleReceipt) /\ WF_vars(Puppet)

-----------------------------------------------------------------------------
(* Properties.                                                             *)

FlagsOK ==
    /\ seen \in BOOLEAN /\ changed \in BOOLEAN
    /\ receipt \in BOOLEAN /\ marked \in BOOLEAN
    /\ notice \in BOOLEAN /\ flagged \in BOOLEAN
    /\ puppet \in BOOLEAN
    /\ read_synced \in BOOLEAN /\ marked_unread \in BOOLEAN
    /\ got \in BOOLEAN
    /\ polled \in BOOLEAN /\ reported \in BOOLEAN
    /\ coalesced \in BOOLEAN
    /\ raced \in BOOLEAN /\ dropped \in BOOLEAN

PollsOK ==
    /\ pc \in [Pollers -> PollSteps]
    /\ snap \in [Pollers -> BOOLEAN]
    /\ \A p \in Pollers :
          /\ pc[p] \in {"receipt", "unmark", "synced"} => snap[p]
          /\ pc[p] \in {"mark", "unsynced"} => ~snap[p]

LoopOK ==
    /\ loop \in {"sync", "apply", "save"}
    /\ loop = "save" => got

BudgetOK == acts \in 0..MaxActs /\ faults \in 0..MaxFaults

\* Types; and a task is on the branch its value calls for.
TypeOK == FlagsOK /\ PollsOK /\ LoopOK /\ BudgetOK

\* Nothing is on its way and no task is at work.
Quiet ==
    /\ ~changed /\ ~notice
    /\ puppet => ~flagged
    /\ loop = "sync"
    /\ \A p \in Pollers : ~Polling(p)

\* The room looks read in Matrix.
ReadInMatrix == receipt /\ ~marked

\* Every update was mirrored, by one poll at a time.
Mirrored == ~dropped /\ ~raced /\ puppet

\* Mail and Matrix agree once everything is quiet, unless $seen or the flag
\* changed back before a poll or a /sync had heard of the change.
Agreement ==
    Quiet /\ Mirrored /\ ~coalesced => (seen <=> ReadInMatrix)

\* As long as no one marks the room unread, the read_synced gate breaks the
\* cycle receipt, $seen, Email/changes, receipt: once the user stops, so does
\* the bridge.
ReceiptEchoEnds == []~marked => <>[]Quiet

\* What sync_read_state says: the gate breaks that cycle and its unread
\* counterpart, so that once the user stops, the bridge does too.
EchoesEnd == <>[]Quiet
=============================================================================
