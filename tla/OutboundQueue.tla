--------------------------- MODULE OutboundQueue ---------------------------
(***************************************************************************)
(* The Matrix -> email path of the bridge: the `outbound_queue` table, the *)
(* appservice handler that fills, edits and cancels its rows, the          *)
(* submission worker of retry.rs, the JMAP submission, the send-state      *)
(* reactions, logout/login, the trash/junk gesture and process restarts.   *)
(*                                                                         *)
(* Every SQL statement and every network call is one atomic step, because  *)
(* each is one await point of the code.  Three kinds of actor interleave:  *)
(* the transaction handler (sequential: the homeserver delivers one        *)
(* transaction at a time), the worker (sequential) and the detached tasks  *)
(* (thread action, reconnect).                                             *)
(***************************************************************************)
EXTENDS Naturals, FiniteSets

CONSTANTS
    Msgs,         \* user messages in ghost rooms, one queue row each
    Rooms,        \* bridged (ghost) rooms
    Users,        \* Matrix users
    RoomOf,       \* [Msgs -> Rooms]
    OwnerOf,      \* [Rooms -> Users]
    Gestures,     \* rooms whose user may trash or junk the conversation
    NoMsg,        \* the worker or the handler has no message in hand
    NoUser,       \* the handler serves no session command
    MaxAttempts,  \* 10 in the code: attempts before giving up
    BatchLimit,   \* 10 in the code: LIMIT of get_pending_outbound
    MaxEdits,     \* bound: edits per message
    MaxFaults     \* bound: store errors, lost replies and crashes

ASSUME ConstantsAssumption ==
    /\ RoomOf \in [Msgs -> Rooms]
    /\ OwnerOf \in [Rooms -> Users]
    /\ Gestures \subseteq Rooms
    /\ NoMsg \notin Msgs
    /\ NoUser \notin Users
    /\ MaxAttempts \in Nat \ {0}
    /\ BatchLimit \in Nat \ {0}
    /\ MaxEdits \in Nat
    /\ MaxFaults \in Nat

VARIABLES
    \* --- the SQLite store: survives a crash
    queue,        \* the messages that have a row in outbound_queue
    body,         \* [Msgs -> Nat]: body_text, as the number of its version
    retry_count,  \* [Msgs -> Nat]
    held,         \* messages whose release_at is still in the future
    due,          \* messages whose last_retry_at is older than the backoff
    fresh,        \* messages whose thread_root_id is NULL
    ghost,        \* rooms in room_ghost_mapping
    threads,      \* rooms some row of thread_mapping points to
    heldKey,      \* messages with a `send_state:<event>` key in jmap_state
    token,        \* users whose stored jmap_token is not blank
    \* --- process memory: lost in a crash
    clients,      \* users in ClientManager.clients
    reconnecting, \* users whose startup session task captured their login
    moving,       \* rooms whose thread action is moving the thread
    unbridging,   \* rooms between the two DELETEs of unbridge_room
    hpc, hmsg, huser,   \* the transaction handler
    wpc, cur, batch, snapBody, snapRetry, reply, mark,  \* the worker
    \* --- the outside world: the Matrix room and the mail server
    shown,        \* [Msgs -> SUBSET Marks]: reactions on the message
    noticed,      \* messages whose give-up notice was posted
    copies,       \* [Msgs -> Nat]: submissions the mail server accepted
    bodies,       \* [Msgs -> SUBSET Nat]: versions of the body it accepted
    \* --- history: never read by the code
    fate,         \* [Msgs -> SUBSET Fates]: what happened to the row
    heldEdit,     \* [Msgs -> Nat]: last version written inside the hold
    slips,        \* [Msgs -> Nat]: accepted submissions the store missed
    attempts,     \* [Msgs -> Nat]: times the worker took the message up
    faults        \* faults spent so far

columns == <<body, retry_count, held, due, fresh>>
store   == <<queue, columns, ghost, threads, heldKey, token>>
memory  == <<clients, reconnecting, moving, unbridging>>
handler == <<hpc, hmsg, huser>>
snap    == <<snapBody, snapRetry>>
worker  == <<wpc, cur, batch, snap, reply, mark>>
world   == <<shown, noticed, copies, bodies>>
history == <<fate, heldEdit, slips, attempts>>

vars == <<store, memory, handler, worker, world, history, faults>>

Marks == {"held", "sent", "failed"}

Fates == {"enqueued", "cancelledHeld", "cancelledLate", "abandoned",
          "purged", "gaveUp"}

HandlerSteps == {"idle", "react", "saveKey", "blankToken", "clearQueue",
                 "startSession"}

WorkerSteps == {"sleep", "next", "lookup", "purge", "submit", "reply", "map",
                "remove", "unresolved", "discard", "take", "settle", "react"}

Replies == {"none", "created", "filed", "refused"}

\* The Matrix user a message belongs to (outbound_queue.matrix_user_id).
UserOf(m) == OwnerOf[RoomOf[m]]

Zeros == [m \in Msgs |-> 0]

Init ==
    /\ queue = {}
    /\ body = Zeros /\ retry_count = Zeros
    /\ held = {} /\ due = {} /\ fresh = {}
    /\ ghost = Rooms
    /\ threads \in SUBSET Rooms
    /\ heldKey = {}
    /\ token = Users
    /\ clients = Users
    /\ reconnecting = {}
    /\ moving = {}
    /\ unbridging = {}
    /\ hpc = "idle" /\ hmsg = NoMsg /\ huser = NoUser
    /\ wpc = "sleep" /\ cur = NoMsg /\ batch = {}
    /\ snapBody = Zeros /\ snapRetry = Zeros
    /\ reply = "none" /\ mark = "sent"
    /\ shown = [m \in Msgs |-> {}]
    /\ noticed = {}
    /\ copies = Zeros
    /\ bodies = [m \in Msgs |-> {}]
    /\ fate = [m \in Msgs |-> {}]
    /\ heldEdit = Zeros
    /\ slips = Zeros
    /\ attempts = Zeros
    /\ faults = 0

-----------------------------------------------------------------------------
(* Faults: a store error, a lost reply or a crash, at most MaxFaults.      *)

Fault == faults < MaxFaults /\ faults' = faults + 1

NoFault == UNCHANGED faults

AddFate(S, f) ==
    fate' = [m \in Msgs |-> IF m \in S THEN fate[m] \cup {f} ELSE fate[m]]

-----------------------------------------------------------------------------
(* The transaction handler: outbound messages, redactions, edits.          *)

\* resolve_thread_context: the mail is a reply if the message's relation or
\* the room's latest thread names a thread, and fresh otherwise (or when the
\* latest thread cannot be read).
ResolveThreadContext(m) ==
    \/ UNCHANGED fresh /\ NoFault
    \/ /\ fresh' = fresh \cup {m}
       /\ IF RoomOf[m] \in threads THEN Fault ELSE NoFault

\* enqueue_held_send: the send-delay decides whether the row is held, and a
\* held message gets its hourglass next.
EnqueueHeldSend(m) ==
    /\ queue' = queue \cup {m}
    /\ \/ /\ held' = held \cup {m}
          /\ hpc' = "react" /\ hmsg' = m
       \/ UNCHANGED <<held, hpc, hmsg>>
    /\ AddFate({m}, "enqueued")

\* handle_ghost_outbound, handle_ghost_media_outbound: a text or a media
\* message in a ghost room, from a user with a session.
SendMessage(m) ==
    /\ hpc = "idle"
    /\ fate[m] = {}
    /\ RoomOf[m] \in ghost
    /\ UserOf(m) \in clients
    /\ ResolveThreadContext(m)
    /\ EnqueueHeldSend(m)
    /\ UNCHANGED <<body, retry_count, due, ghost, threads, heldKey, token,
                   memory, huser, worker, world, heldEdit, slips, attempts>>

\* mark_held, first call: the hourglass reaction.  On an error the key is
\* never saved.
PostHeld ==
    /\ hpc = "react"
    /\ \/ /\ shown' = [shown EXCEPT ![hmsg] = @ \cup {"held"}]
          /\ hpc' = "saveKey" /\ UNCHANGED hmsg
          /\ NoFault
       \/ /\ Fault
          /\ hpc' = "idle" /\ hmsg' = NoMsg
          /\ UNCHANGED shown
    /\ UNCHANGED <<store, memory, huser, worker, noticed, copies, bodies,
                   history>>

\* mark_held, second call: remember the reaction (`let _ =` on an error).
SaveHeldKey ==
    /\ hpc = "saveKey"
    /\ \/ heldKey' = heldKey \cup {hmsg} /\ NoFault
       \/ UNCHANGED heldKey /\ Fault
    /\ hpc' = "idle" /\ hmsg' = NoMsg
    /\ UNCHANGED <<queue, columns, ghost, threads, token, memory, huser,
                   worker, world, history>>

\* A redaction: cancel_outbound_by_event, then the "Unsent" notice.  It only
\* deletes the row; a redaction that finds no row changes nothing.
CancelSend(m) ==
    /\ hpc = "idle"
    /\ m \in queue
    /\ queue' = queue \ {m}
    /\ AddFate({m}, IF m \in held THEN "cancelledHeld" ELSE "cancelledLate")
    /\ UNCHANGED <<columns, ghost, threads, heldKey, token, memory, handler,
                   worker, world, heldEdit, slips, attempts, faults>>

\* An edit: update_outbound_body_by_event, then the "Updated" notice.
EditQueued(m) ==
    /\ hpc = "idle"
    /\ m \in queue
    /\ body[m] < MaxEdits
    /\ body' = [body EXCEPT ![m] = @ + 1]
    /\ heldEdit' = IF m \in held
                   THEN [heldEdit EXCEPT ![m] = body[m] + 1]
                   ELSE heldEdit
    /\ UNCHANGED <<queue, retry_count, held, due, fresh, ghost, threads,
                   heldKey, token, memory, handler, worker, world, fate,
                   slips, attempts, faults>>

-----------------------------------------------------------------------------
(* Session commands, run by the same handler.                              *)

\* ClientManager::logout drops the client, blanks the token, clears the
\* queue; an error in between leaves the rest undone.
BeginLogout(u) ==
    /\ hpc = "idle"
    /\ u \in clients \cup token
    /\ clients' = clients \ {u}
    /\ hpc' = "blankToken" /\ huser' = u
    /\ UNCHANGED <<store, reconnecting, moving, unbridging, hmsg, worker,
                   world, history, faults>>

BlankToken ==
    /\ hpc = "blankToken"
    /\ \/ /\ token' = token \ {huser}
          /\ hpc' = "clearQueue" /\ UNCHANGED huser
          /\ NoFault
       \/ /\ Fault
          /\ hpc' = "idle" /\ huser' = NoUser
          /\ UNCHANGED token
    /\ UNCHANGED <<queue, columns, ghost, threads, heldKey, memory, hmsg,
                   worker, world, history>>

\* clear_outbound_queue: DELETE ... WHERE matrix_user_id = ?
ClearQueue ==
    /\ hpc = "clearQueue"
    /\ \/ /\ queue' = {m \in queue : UserOf(m) # huser}
          /\ AddFate({m \in queue : UserOf(m) = huser}, "abandoned")
          /\ NoFault
       \/ Fault /\ UNCHANGED <<queue, fate>>
    /\ hpc' = "idle" /\ huser' = NoUser
    /\ UNCHANGED <<columns, ghost, threads, heldKey, token, memory, hmsg,
                   worker, world, heldEdit, slips, attempts>>

\* ClientManager::login: save_user, then start_session (over a live session
\* too, whose client it replaces).
SaveLogin(u) ==
    /\ hpc = "idle"
    /\ token' = token \cup {u}
    /\ hpc' = "startSession" /\ huser' = u
    /\ UNCHANGED <<queue, columns, ghost, threads, heldKey, memory, hmsg,
                   worker, world, history, faults>>

StartSession ==
    /\ hpc = "startSession"
    /\ clients' = clients \cup {huser}
    /\ hpc' = "idle" /\ huser' = NoUser
    /\ UNCHANGED <<store, reconnecting, moving, unbridging, hmsg, worker,
                   world, history, faults>>

\* The startup task of ClientManager::start: it connects with the user row
\* captured at boot, whatever happened to that row since.
Reconnect(u) ==
    /\ u \in reconnecting
    /\ reconnecting' = reconnecting \ {u}
    /\ clients' = clients \cup {u}
    /\ UNCHANGED <<store, moving, unbridging, handler, worker, world, history,
                   faults>>

-----------------------------------------------------------------------------
(* The trash/junk gesture: handle_thread_action, a detached task.  It      *)
(* takes the client, moves the thread on the mail server and unbridges the *)
(* room, in two separate DELETEs (unbridge_room).                          *)

BeginThreadAction(r) ==
    /\ r \in Gestures
    /\ r \notin moving \cup unbridging
    /\ OwnerOf[r] \in clients
    /\ moving' = moving \cup {r}
    /\ UNCHANGED <<store, clients, reconnecting, unbridging, handler, worker,
                   world, history, faults>>

\* The move is over: on an error nothing is unbridged, else the room's ghost
\* binding goes first (a no-op for a room that has none).
UnbridgeGhost(r) ==
    /\ r \in moving
    /\ moving' = moving \ {r}
    /\ \/ ghost' = ghost \ {r} /\ unbridging' = unbridging \cup {r}
       \/ UNCHANGED <<ghost, unbridging>>
    /\ UNCHANGED <<queue, columns, threads, heldKey, token, clients,
                   reconnecting, handler, worker, world, history, faults>>

UnbridgeThreads(r) ==
    /\ r \in unbridging
    /\ unbridging' = unbridging \ {r}
    /\ \/ threads' = threads \ {r} /\ NoFault
       \/ UNCHANGED threads /\ Fault
    /\ UNCHANGED <<queue, columns, ghost, heldKey, token, clients,
                   reconnecting, moving, handler, worker, world, history>>

-----------------------------------------------------------------------------
(* Time.                                                                   *)

HoldExpires(m) ==
    /\ m \in queue
    /\ m \in held
    /\ held' = held \ {m}
    /\ UNCHANGED <<queue, body, retry_count, due, fresh, ghost, threads,
                   heldKey, token, memory, handler, worker, world, history,
                   faults>>

BackoffElapses(m) ==
    /\ m \in queue
    /\ retry_count[m] > 0
    /\ m \notin due
    /\ due' = due \cup {m}
    /\ UNCHANGED <<queue, body, retry_count, held, fresh, ghost, threads,
                   heldKey, token, memory, handler, worker, world, history,
                   faults>>

-----------------------------------------------------------------------------
(* The submission worker (run_retry_loop).                                 *)

\* Mutant: the query without its release_at condition.
EligibleIgnoringHold(m) ==
    /\ m \in queue
    /\ retry_count[m] < MaxAttempts
    /\ retry_count[m] = 0 \/ m \in due

\* Mutant: the query with a smaller cap than handle_unresolved's.
EligibleBelowCap(m) ==
    /\ m \in queue
    /\ retry_count[m] < MaxAttempts - 1
    /\ m \notin held
    /\ retry_count[m] = 0 \/ m \in due

\* The WHERE clause of get_pending_outbound.
Eligible(m) ==
    /\ m \in queue
    /\ retry_count[m] < MaxAttempts
    /\ m \notin held
    /\ retry_count[m] = 0 \/ m \in due

\* get_pending_outbound: a snapshot of at most BatchLimit eligible rows, in
\* no particular order (the query has no ORDER BY).
FetchPending ==
    /\ wpc = "sleep"
    /\ LET pending == {m \in Msgs : Eligible(m)} IN
       /\ pending # {}
       /\ batch' \in SUBSET pending
       /\ \/ batch' = pending /\ Cardinality(pending) <= BatchLimit
          \/ Cardinality(batch') = BatchLimit
    /\ snapBody' = body /\ snapRetry' = retry_count
    /\ wpc' = "next"
    /\ UNCHANGED <<store, memory, handler, cur, reply, mark, world, history,
                   faults>>

BatchDone ==
    /\ wpc = "next"
    /\ batch = {}
    /\ wpc' = "sleep" /\ snapBody' = Zeros /\ snapRetry' = Zeros
    /\ UNCHANGED <<store, memory, handler, cur, batch, reply, mark, world,
                   history, faults>>

\* submit_one, first statement: the user's session.
TakeUp(m) ==
    /\ wpc = "next"
    /\ m \in batch
    /\ batch' = batch \ {m}
    /\ cur' = m
    /\ attempts' = [attempts EXCEPT ![m] = @ + 1]
    /\ wpc' = IF UserOf(m) \in clients THEN "lookup" ELSE "unresolved"
    /\ UNCHANGED <<store, memory, handler, snap, reply, mark, world, fate,
                   heldEdit, slips, faults>>

\* submit_one: get_ghost_email_by_room.
LookupRoom ==
    /\ wpc = "lookup"
    /\ \/ /\ wpc' = IF RoomOf[cur] \in ghost THEN "submit" ELSE "purge"
          /\ NoFault
       \/ wpc' = "unresolved" /\ Fault
    /\ UNCHANGED <<store, memory, handler, cur, batch, snap, reply, mark,
                   world, history>>

\* The room is gone: delete the row and tell nobody (the delete's error is
\* ignored).
PurgeRow ==
    /\ wpc = "purge"
    /\ \/ /\ queue' = queue \ {cur}
          /\ AddFate({cur}, "purged")
          /\ NoFault
       \/ Fault /\ UNCHANGED <<queue, fate>>
    /\ wpc' = "next" /\ cur' = NoMsg
    /\ UNCHANGED <<columns, ghost, threads, heldKey, token, memory, handler,
                   batch, snap, reply, mark, world, heldEdit, slips,
                   attempts>>

\* The mail server (external) answers the batch Email/set +
\* EmailSubmission/set: submitted, only filed in Sent, or refused outright.
SubmitBatch ==
    /\ wpc = "submit"
    /\ wpc' = "reply"
    /\ \/ /\ reply' = "created"
          /\ copies' = [copies EXCEPT ![cur] = @ + 1]
          /\ bodies' = [bodies EXCEPT ![cur] = @ \cup {snapBody[cur]}]
       \/ /\ reply' \in {"filed", "refused"}
          /\ UNCHANGED <<copies, bodies>>
    /\ UNCHANGED <<store, memory, handler, cur, batch, snap, mark, shown,
                   noticed, history, faults>>

\* Mutant: a copy filed in Sent passes for a submission.
VerifiedIfFiled(r) == r # "refused"

\* JmapSender::submit unpacks the response: success needs the submission
\* itself to have been created.
Verified(r) == r = "created"

ReadReply ==
    /\ wpc = "reply"
    /\ wpc' = IF ~Verified(reply) THEN "unresolved"
              ELSE IF cur \in fresh THEN "map" ELSE "remove"
    /\ reply' = "none"
    /\ UNCHANGED <<store, memory, handler, cur, batch, snap, mark, world,
                   history, faults>>

\* The connection breaks before the response is read: an error to the worker,
\* whatever the server did.
LoseReply ==
    /\ wpc = "reply"
    /\ Fault
    /\ wpc' = "unresolved"
    /\ slips' = IF reply = "created" THEN [slips EXCEPT ![cur] = @ + 1]
                ELSE slips
    /\ reply' = "none"
    /\ UNCHANGED <<store, memory, handler, cur, batch, snap, mark, world,
                   fate, heldEdit, attempts>>

\* submit_fresh: map the new JMAP thread to the room, best effort.
MapThread ==
    /\ wpc = "map"
    /\ threads' \in {threads, threads \cup {RoomOf[cur]}}
    /\ wpc' = "remove"
    /\ UNCHANGED <<queue, columns, ghost, heldKey, token, memory, handler,
                   cur, batch, snap, reply, mark, world, history, faults>>

\* Mutant: the row of a submitted message is not removed.
RemoveForgotten ==
    /\ wpc = "remove"
    /\ wpc' = "take" /\ mark' = "sent"
    /\ UNCHANGED <<store, memory, handler, cur, batch, snap, reply, world,
                   history, faults>>

\* submit_one, Ok branch: remove the row (error ignored), then mark_submitted.
RemoveSubmitted ==
    /\ wpc = "remove"
    /\ \/ queue' = queue \ {cur} /\ NoFault /\ UNCHANGED slips
       \/ /\ Fault
          /\ slips' = [slips EXCEPT ![cur] = @ + 1]
          /\ UNCHANGED queue
    /\ wpc' = "take" /\ mark' = "sent"
    /\ UNCHANGED <<columns, ghost, threads, heldKey, token, memory, handler,
                   cur, batch, snap, reply, world, fate, heldEdit, attempts>>

\* Mutant: a failed attempt drops the row instead of ageing it.
AgeByDropping ==
    /\ wpc = "unresolved"
    /\ snapRetry[cur] < MaxAttempts - 1
    /\ queue' = queue \ {cur}
    /\ wpc' = "next" /\ cur' = NoMsg
    /\ UNCHANGED <<columns, ghost, threads, heldKey, token, memory, handler,
                   batch, snap, reply, mark, world, history, faults>>

\* Mutant: the cap is off by one, the last attempt ages the row too.
AgePastCap ==
    /\ wpc = "unresolved"
    /\ snapRetry[cur] < MaxAttempts
    /\ retry_count' = [retry_count EXCEPT ![cur] = @ + 1]
    /\ due' = due \ {cur}
    /\ wpc' = "next" /\ cur' = NoMsg
    /\ UNCHANGED <<queue, body, held, fresh, ghost, threads, heldKey, token,
                   memory, handler, batch, snap, reply, mark, world,
                   history, faults>>

\* Mutant: the worker goes on to the next row with the old one in hand.
AgeWithoutRelease ==
    /\ wpc = "unresolved"
    /\ snapRetry[cur] < MaxAttempts - 1
    /\ wpc' = "next"
    /\ UNCHANGED <<store, memory, handler, cur, batch, snap, reply, mark,
                   world, history, faults>>

\* handle_unresolved below the cap: update_retry_count by row id (no effect
\* on a row that is gone; error ignored).
AgeRetry ==
    /\ wpc = "unresolved"
    /\ snapRetry[cur] < MaxAttempts - 1
    /\ \/ /\ retry_count' = IF cur \in queue
                            THEN [retry_count EXCEPT ![cur] = @ + 1]
                            ELSE retry_count
          /\ due' = IF cur \in queue THEN due \ {cur} ELSE due
          /\ NoFault
       \/ UNCHANGED <<retry_count, due>> /\ Fault
    /\ wpc' = "next" /\ cur' = NoMsg
    /\ UNCHANGED <<queue, body, held, fresh, ghost, threads, heldKey, token,
                   memory, handler, batch, snap, reply, mark, world,
                   history>>

\* handle_unresolved at the cap: post the notice (an error is only logged).
PostGiveUp ==
    /\ wpc = "unresolved"
    /\ snapRetry[cur] >= MaxAttempts - 1
    /\ \/ noticed' = noticed \cup {cur} /\ NoFault
       \/ UNCHANGED noticed /\ Fault
    /\ wpc' = "discard"
    /\ UNCHANGED <<store, memory, handler, cur, batch, snap, reply, mark,
                   shown, copies, bodies, history>>

\* ... then delete the row (error ignored) and go on to mark_failed.
DiscardRow ==
    /\ wpc = "discard"
    /\ \/ queue' = queue \ {cur} /\ NoFault
       \/ UNCHANGED queue /\ Fault
    /\ AddFate({cur}, "gaveUp")
    /\ wpc' = "take" /\ mark' = "failed"
    /\ UNCHANGED <<columns, ghost, threads, heldKey, token, memory, handler,
                   cur, batch, snap, reply, world, heldEdit, slips,
                   attempts>>

\* take_held: read the key.  Without one (or on a read error) a success shows
\* nothing, a failure still shows its mark.
TakeHeld ==
    /\ wpc = "take"
    /\ \/ /\ cur \in heldKey /\ NoFault
          /\ wpc' = "settle" /\ UNCHANGED cur
       \/ /\ IF cur \in heldKey THEN Fault ELSE NoFault
          /\ IF mark = "failed" THEN wpc' = "react" /\ UNCHANGED cur
                                ELSE wpc' = "next" /\ cur' = NoMsg
    /\ UNCHANGED <<store, memory, handler, batch, snap, reply, mark, world,
                   history>>

\* take_held: redact the hourglass and forget the key; each may fail alone.
SettleHeld ==
    /\ wpc = "settle"
    /\ LET redacted == [shown EXCEPT ![cur] = @ \ {"held"}] IN
       \/ shown' = redacted /\ heldKey' = heldKey \ {cur} /\ NoFault
       \/ Fault /\ shown' = shown /\ heldKey' = heldKey \ {cur}
       \/ Fault /\ shown' = redacted /\ heldKey' = heldKey
       \/ Fault /\ UNCHANGED <<shown, heldKey>>
    /\ wpc' = "react"
    /\ UNCHANGED <<queue, columns, ghost, threads, token, memory, handler,
                   cur, batch, snap, reply, mark, noticed, copies, bodies,
                   history>>

\* mark_submitted / mark_failed: the final reaction, best effort.
React ==
    /\ wpc = "react"
    /\ \/ shown' = [shown EXCEPT ![cur] = @ \cup {mark}] /\ NoFault
       \/ UNCHANGED shown /\ Fault
    /\ wpc' = "next" /\ cur' = NoMsg
    /\ UNCHANGED <<store, memory, handler, batch, snap, reply, mark, noticed,
                   copies, bodies, history>>

-----------------------------------------------------------------------------
(* A crash and the restart after it: memory is lost, the store is not, and *)
(* the startup pass captures every user that still has a token.  A         *)
(* submission the server accepted and the store does not know of yet is a  *)
(* slip.                                                                   *)

Crash ==
    /\ Fault
    /\ clients' = {}
    /\ reconnecting' = token
    /\ moving' = {} /\ unbridging' = {}
    /\ hpc' = "idle" /\ hmsg' = NoMsg /\ huser' = NoUser
    /\ wpc' = "sleep" /\ cur' = NoMsg /\ batch' = {}
    /\ snapBody' = Zeros /\ snapRetry' = Zeros
    /\ reply' = "none" /\ mark' = "sent"
    /\ slips' = IF \/ wpc = "reply" /\ reply = "created"
                   \/ wpc \in {"map", "remove"}
                THEN [slips EXCEPT ![cur] = @ + 1] ELSE slips
    /\ UNCHANGED <<store, world, fate, heldEdit, attempts>>

-----------------------------------------------------------------------------
HandlerStep ==
    \/ \E m \in Msgs : SendMessage(m) \/ CancelSend(m) \/ EditQueued(m)
    \/ PostHeld \/ SaveHeldKey
    \/ \E u \in Users : BeginLogout(u) \/ SaveLogin(u)
    \/ BlankToken \/ ClearQueue \/ StartSession

WorkerStep ==
    \/ FetchPending \/ BatchDone
    \/ \E m \in Msgs : TakeUp(m)
    \/ LookupRoom \/ PurgeRow
    \/ SubmitBatch \/ ReadReply \/ LoseReply
    \/ MapThread \/ RemoveSubmitted
    \/ AgeRetry \/ PostGiveUp \/ DiscardRow
    \/ TakeHeld \/ SettleHeld \/ React

DetachedStep ==
    \/ \E u \in Users : Reconnect(u)
    \/ \E r \in Rooms :
          BeginThreadAction(r) \/ UnbridgeGhost(r) \/ UnbridgeThreads(r)

TimePasses == \E m \in Msgs : HoldExpires(m) \/ BackoffElapses(m)

Next == HandlerStep \/ WorkerStep \/ DetachedStep \/ TimePasses \/ Crash

Spec == Init /\ [][Next]_vars

\* The tokio runtime keeps running the worker task and the clock keeps
\* ticking; nothing is assumed of users, homeserver or mail server.
Fairness ==
    /\ WF_vars(WorkerStep)
    /\ \A m \in Msgs : WF_vars(HoldExpires(m)) /\ WF_vars(BackoffElapses(m))

FairSpec == Spec /\ Fairness

-----------------------------------------------------------------------------
(* Properties.                                                             *)

\* Every variable keeps the type the store, the worker and the handler give
\* it.
TypeOK ==
    /\ queue \subseteq Msgs
    /\ body \in [Msgs -> Nat]
    /\ retry_count \in [Msgs -> Nat]
    /\ held \subseteq Msgs /\ due \subseteq Msgs /\ fresh \subseteq Msgs
    /\ ghost \subseteq Rooms /\ threads \subseteq Rooms
    /\ heldKey \subseteq Msgs
    /\ token \subseteq Users /\ clients \subseteq Users
    /\ reconnecting \subseteq Users
    /\ moving \subseteq Rooms /\ unbridging \subseteq Rooms
    /\ hpc \in HandlerSteps
    /\ hmsg \in Msgs \cup {NoMsg} /\ huser \in Users \cup {NoUser}
    /\ hpc \in {"react", "saveKey"} => hmsg \in Msgs
    /\ hpc \in {"blankToken", "clearQueue", "startSession"} => huser \in Users
    /\ wpc \in WorkerSteps
    /\ cur \in Msgs \cup {NoMsg}
    /\ wpc \notin {"sleep", "next"} => cur \in Msgs
    /\ wpc \in {"sleep", "next"} => cur = NoMsg
    /\ batch \subseteq Msgs
    /\ snapBody \in [Msgs -> Nat]
    /\ snapRetry \in [Msgs -> Nat]
    /\ reply \in Replies /\ mark \in Marks
    /\ shown \in [Msgs -> SUBSET Marks]
    /\ noticed \subseteq Msgs
    /\ copies \in [Msgs -> Nat] /\ bodies \in [Msgs -> SUBSET Nat]
    /\ fate \in [Msgs -> SUBSET Fates]
    /\ heldEdit \in [Msgs -> Nat]
    /\ slips \in [Msgs -> Nat] /\ attempts \in [Msgs -> Nat]
    /\ faults \in 0..MaxFaults

\* The worker may still submit m from its snapshot, row or no row.
InHand(m) == m \in batch \/ (cur = m /\ wpc \in {"lookup", "submit", "reply"})

\* A message is mailed once, plus at most once more for each accepted
\* submission whose outcome never reached the store (lost reply, failed
\* DELETE, crash): the at-least-once guarantee of submit_one's
\* submit-then-remove order, and nothing worse.
DeliveryBound == \A m \in Msgs : copies[m] <= slips[m] + 1

\* What the user does while the hold lasts is honoured, although the worker
\* submits from a snapshot (cancel_outbound_by_event and
\* update_outbound_body_by_event against the release_at condition of
\* get_pending_outbound): a redaction that deletes the row really unsends, no
\* copy is ever submitted; and an edit is never lost, every body submitted is
\* that version or a later one.
HeldHonoured ==
    \A m \in Msgs :
        /\ "cancelledHeld" \in fate[m] => copies[m] = 0
        /\ \A b \in bodies[m] : b >= heldEdit[m]

\* The check mark is only shown for a message the mail server accepted for
\* submission, filing a copy in Sent is not enough (submit's check of the
\* EmailSubmission response).
VerifiedMark == \A m \in Msgs : "sent" \in shown[m] => copies[m] > 0

\* No queued message vanishes: a message whose row is gone was submitted, or
\* redacted, abandoned by logout, purged with its room or given up on.
NothingVanishes ==
    \A m \in Msgs :
        fate[m] # {} /\ m \notin queue
            => copies[m] > 0 \/ \E f \in fate[m] : f # "enqueued"

\* The worker gives a message up only after MaxAttempts attempts and takes
\* no message up more often than that, one extra time per fault at most
\* (handle_unresolved decides on the snapshot's retry_count); and no row ages
\* to the count at which get_pending_outbound would never see it again.
AttemptCap ==
    \A m \in Msgs :
        /\ attempts[m] <= MaxAttempts + faults
        /\ "gaveUp" \in fate[m] => attempts[m] >= MaxAttempts
        /\ retry_count[m] < MaxAttempts

-----------------------------------------------------------------------------
(* What the repository's documents say of the program and the code does    *)
(* not guarantee.                                                          *)

\* "Unsent" is told of a message exactly when it is never submitted
\* (transactions.rs, the redaction branch).
UnsentMeansUnsent ==
    \A m \in Msgs :
        fate[m] \cap {"cancelledHeld", "cancelledLate"} # {} => copies[m] = 0

-----------------------------------------------------------------------------
(* The abstract promise: Outbox.                                           *)

stage == [m \in Msgs |-> IF fate[m] = {} THEN "new"
                         ELSE IF m \in queue \/ InHand(m) THEN "open"
                         ELSE "closed"]

Abstract == INSTANCE Outbox WITH Msgs <- Msgs, stage <- stage,
                                 copies <- copies, slips <- slips

\* The queue, handler, worker and mail server together implement the
\* abstract outbox: mail leaves only for an open message, one copy and one
\* more per slip, and a closed message is never opened or mailed again.
ImplementsOutbox == Abstract!Spec

\* Every queued message is closed in the end, out of the queue and out of
\* the worker's hands, whatever the mail server answers and whoever is logged
\* in: LIMIT without ORDER BY starves no row and every backoff ends.
OutboxCloses == Abstract!Closes
=============================================================================
