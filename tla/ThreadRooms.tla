---------------------------- MODULE ThreadRooms ----------------------------
(***************************************************************************)
(* Bridging inbound mail: process_email, run by the poll task, the         *)
(* backfill task and the `sync` command of one user at the same time.      *)
(*                                                                         *)
(* A thread gets one room, created under a lock that is a row of the store *)
(* (room_creation_locks) and is released by a spawned task; the same       *)
(* pattern creates the user's email space from inside room creation.  An   *)
(* email is posted first and recorded afterwards.  A pc names the next     *)
(* await of a task.                                                        *)
(*                                                                         *)
(* The outbound worker (OutboundQueue) is the second writer of             *)
(* thread_mapping: it maps the thread of a fresh mail to the room the mail *)
(* was sent from, under no lock.  Here it is only those two steps.         *)
(***************************************************************************)
EXTENDS Naturals, FiniteSets

CONSTANTS
    Tasks,          \* pollers that may run process_email at the same time
    Emails,
    Threads,
    ThreadOf,       \* [Emails -> Threads]
    Composed,       \* rooms `!compose` may open
    Space,          \* the lock key of the user's email space
    None,
    MaxFaults       \* bound: failed calls, aborted tasks, restarts, trash or
                    \* junk gestures and fresh mails submitted

Keys == Threads \cup {Space}
Rooms == (Threads \X (Nat \ {0})) \cup Composed

ASSUME RoomAssumption ==
    /\ IsFiniteSet(Tasks)
    /\ ThreadOf \in [Emails -> Threads]
    /\ Space \notin Threads
    /\ None \notin Emails \cup Rooms
    /\ MaxFaults \in Nat

VARIABLES
    \* --- the SQLite store
    thread_mapping,   \* [Threads -> Rooms \cup {None}]
    ghost,            \* rooms in room_ghost_mapping
    message_mapping,  \* emails in message_mapping
    locks,            \* keys in room_creation_locks
    space,            \* users.email_space_room is set
    \* --- the tasks
    pc, job,          \* next step, email in hand
    room,             \* the room it found or created
    guards,           \* [Tasks -> SUBSET Keys]: lock rows it inserted
    releasing,        \* keys whose release task was spawned
    \* --- the outbound worker
    mail,             \* the fresh mail whose thread it resolved
    \* --- the homeserver
    made,             \* [Threads -> Nat]: rooms created for the thread
    opened,           \* rooms `!compose` created
    unbridging,       \* rooms between the two DELETEs of unbridge_room
    leaving,          \* rooms unbridged, the bot about to leave
    defunct,          \* rooms the bot and the ghost left
    spaces,           \* spaces created
    posts,            \* [Emails -> Nat]: times the email was posted
    \* --- history: never read by the code
    late,             \* tasks that began while another had the same email
    orphans,          \* [Threads -> Nat]: rooms lost before they were mapped
    unbridged,        \* [Threads -> Nat]: mappings a gesture dropped
    moves,            \* [Threads -> Nat]: writes that replaced its room
    freshMaps,        \* [Threads -> Nat]: times the worker mapped it
    slips,            \* [Emails -> Nat]: posts that were never recorded
    repeats,          \* [Emails -> Nat]: posts by a late task
    spaceOrphans,     \* spaces lost before they were saved
    leaked,           \* keys whose row nobody is left to delete
    faults

store   == <<thread_mapping, ghost, message_mapping, space>>
tasks   == <<pc, job, room, guards>>
closing == <<unbridging, leaving, defunct>>
server  == <<made, closing, spaces, posts>>
\* What the gestures, `!compose` and the outbound worker change.
aside   == <<unbridged, opened, mail, moves, freshMaps>>
tallies == <<late, orphans, slips, repeats, spaceOrphans, leaked>>
history == <<tallies, aside>>

vars == <<store, locks, tasks, releasing, server, history, faults>>

Steps == {"idle", "loop", "acquire", "acquired", "create", "bind",
          "space", "spaceAcquire", "spaceAcquired", "spaceSave", "post",
          "saveThread", "reply", "saveMessage"}

\* The steps of ensure_email_space.
SpaceSteps == {"space", "spaceAcquire", "spaceAcquired", "spaceSave"}

Working(w) == pc[w] # "idle"

\* A repair of the email space, and `!compose`, have no email in hand.
Repairing(w) == Working(w) /\ job[w] = None

Thread(w) == ThreadOf[job[w]]

Init ==
    /\ thread_mapping = [t \in Threads |-> None]
    /\ ghost = {} /\ message_mapping = {} /\ locks = {} /\ space = FALSE
    /\ pc = [w \in Tasks |-> "idle"]
    /\ job = [w \in Tasks |-> None]
    /\ room = [w \in Tasks |-> None]
    /\ guards = [w \in Tasks |-> {}]
    /\ releasing = {}
    /\ made = [t \in Threads |-> 0]
    /\ opened = {} /\ unbridging = {} /\ leaving = {} /\ defunct = {}
    /\ spaces = 0
    /\ posts = [e \in Emails |-> 0]
    /\ late = {}
    /\ orphans = [t \in Threads |-> 0]
    /\ unbridged = [t \in Threads |-> 0]
    /\ mail = None
    /\ moves = [t \in Threads |-> 0]
    /\ freshMaps = [t \in Threads |-> 0]
    /\ slips = [e \in Emails |-> 0]
    /\ repeats = [e \in Emails |-> 0]
    /\ spaceOrphans = 0 /\ leaked = {}
    /\ faults = 0

Fault == faults < MaxFaults /\ faults' = faults + 1

Goto(w, step) == pc' = [pc EXCEPT ![w] = step]

\* Mutant: a failed email stays in hand.
LeaveKeepsJob(w, K) ==
    /\ Goto(w, "idle")
    /\ room' = [room EXCEPT ![w] = None]
    /\ guards' = [guards EXCEPT ![w] = {}]
    /\ releasing' = releasing \cup (guards[w] \ K)
    /\ late' = late \ {w}
    /\ UNCHANGED job

\* The task leaves process_email; the guards it drops spawn their releases,
\* those of the keys in K excepted.
Leave(w, K) ==
    /\ Goto(w, "idle")
    /\ job' = [job EXCEPT ![w] = None]
    /\ room' = [room EXCEPT ![w] = None]
    /\ guards' = [guards EXCEPT ![w] = {}]
    /\ releasing' = releasing \cup (guards[w] \ K)
    /\ late' = late \ {w}

-----------------------------------------------------------------------------
(* process_email.                                                          *)

\* Mutant: has_message_mapped is not asked.
BeginAlways(w, e) ==
    /\ pc[w] = "idle"
    /\ Goto(w, "loop")
    /\ job' = [job EXCEPT ![w] = e]
    /\ late' = IF \E x \in Tasks : job[x] = e THEN late \cup {w} ELSE late
    /\ UNCHANGED <<store, locks, room, guards, releasing, server, orphans,
                   aside, slips, repeats, spaceOrphans, leaked, faults>>

\* has_message_mapped said no, the mail is not the user's own, and
\* resolve_ghost registered the sender.  An email that is mapped is done
\* with, up to its read state (ReadState).
Begin(w, e) ==
    /\ pc[w] = "idle"
    /\ e \notin message_mapping
    /\ Goto(w, "loop")
    /\ job' = [job EXCEPT ![w] = e]
    /\ late' = IF \E x \in Tasks : job[x] = e THEN late \cup {w} ELSE late
    /\ UNCHANGED <<store, locks, room, guards, releasing, server, orphans,
                   aside, slips, repeats, spaceOrphans, leaked, faults>>

\* get_thread_info, asked by process_email and by each turn of the loop of
\* process_new_thread: a thread that has a room is replied to.
GetThreadInfo(w, here, none) ==
    /\ pc[w] = here
    /\ IF thread_mapping[Thread(w)] # None
       THEN /\ room' = [room EXCEPT ![w] = thread_mapping[Thread(w)]]
            /\ Goto(w, "reply")
       ELSE /\ UNCHANGED room
            /\ Goto(w, none)
    /\ UNCHANGED <<store, locks, job, guards, releasing, server, history,
                   faults>>

LookupThread(w) == GetThreadInfo(w, "loop", "acquire")

\* Mutant: the thread is not looked up again under the lock.
NoRecheck(w) ==
    /\ pc[w] = "acquired"
    /\ Goto(w, "create")
    /\ UNCHANGED <<store, locks, job, room, guards, releasing, server,
                   history, faults>>

Recheck(w) == GetThreadInfo(w, "acquired", "create")

\* Mutant: the lock row is upserted, everybody gets it.
AcquireAlways(w, here, key, got, held) ==
    /\ pc[w] = here
    /\ locks' = locks \cup {key}
    /\ guards' = [guards EXCEPT ![w] = @ \cup {key}]
    /\ Goto(w, got)
    /\ UNCHANGED <<store, job, room, releasing, server, history, faults>>

\* try_acquire_room_creation_lock: the INSERT of a UNIQUE key.  A key that
\* is there sends the task back to sleep 100 ms and look again.
TryAcquire(w, here, key, got, held) ==
    /\ pc[w] = here
    /\ IF key \notin locks
       THEN /\ locks' = locks \cup {key}
            /\ guards' = [guards EXCEPT ![w] = @ \cup {key}]
            /\ Goto(w, got)
       ELSE /\ UNCHANGED <<locks, guards>>
            /\ Goto(w, held)
    /\ UNCHANGED <<store, job, room, releasing, server, history, faults>>

AcquireThread(w) ==
    /\ ~Repairing(w)
    /\ TryAcquire(w, "acquire", Thread(w), "acquired", "loop")

-----------------------------------------------------------------------------
(* create_contact_room.                                                    *)

\* createRoom, inviting the user and the ghost.
CreateRoom(w) ==
    /\ pc[w] = "create"
    /\ made' = [made EXCEPT ![Thread(w)] = @ + 1]
    /\ room' = [room EXCEPT ![w] = <<Thread(w), made[Thread(w)] + 1>>]
    /\ Goto(w, "bind")
    /\ UNCHANGED <<store, locks, job, guards, releasing, closing, spaces,
                   posts, history, faults>>

\* save_room_ghost_mapping; the ghost and the user join, best effort.
BindGhost(w) ==
    /\ pc[w] = "bind"
    /\ ghost' = ghost \cup {room[w]}
    /\ Goto(w, "space")
    /\ UNCHANGED <<thread_mapping, message_mapping, space, locks, job, room,
                   guards, releasing, made, closing, spaces, posts, history,
                   faults>>

\* ensure_email_space is over: room creation goes on, a repair is done.  The
\* guard of the space lock is dropped.
LeaveSpace(w) ==
    IF Repairing(w)
    THEN Leave(w, {})
    ELSE /\ Goto(w, "post")
         /\ guards' = [guards EXCEPT ![w] = @ \ {Space}]
         /\ releasing' = releasing \cup (guards[w] \cap {Space})
         /\ UNCHANGED <<job, room, late>>

\* get_email_space_room, asked by each turn of the loop of
\* ensure_email_space.
GetSpace(w) ==
    /\ pc[w] = "space"
    /\ IF space
       THEN LeaveSpace(w)
       ELSE /\ Goto(w, "spaceAcquire")
            /\ UNCHANGED <<job, room, guards, releasing, late>>
    /\ UNCHANGED <<store, locks, server, orphans, aside, slips, repeats,
                   spaceOrphans, leaked, faults>>

AcquireSpace(w) ==
    TryAcquire(w, "spaceAcquire", Space, "spaceAcquired", "space")

\* The space is looked up again under its lock, and created.
CreateSpace(w) ==
    /\ pc[w] = "spaceAcquired"
    /\ IF space
       THEN /\ LeaveSpace(w)
            /\ UNCHANGED spaces
       ELSE /\ spaces' = spaces + 1
            /\ Goto(w, "spaceSave")
            /\ UNCHANGED <<job, room, guards, releasing, late>>
    /\ UNCHANGED <<store, locks, made, closing, posts, orphans, aside, slips,
                   repeats, spaceOrphans, leaked, faults>>

\* set_email_space_room; add_room_to_space is best effort.
SaveSpace(w) ==
    /\ pc[w] = "spaceSave"
    /\ space' = TRUE
    /\ LeaveSpace(w)
    /\ UNCHANGED <<thread_mapping, ghost, message_mapping, locks, server,
                   orphans, aside, slips, repeats, spaceOrphans, leaked,
                   faults>>

\* repair_email_space, at start-up and from the `sync` command.
BeginRepair(w) ==
    /\ pc[w] = "idle"
    /\ ghost # {}
    /\ Goto(w, "space")
    /\ UNCHANGED <<store, locks, job, room, guards, releasing, server,
                   history, faults>>

-----------------------------------------------------------------------------
(* Posting and recording.                                                  *)

\* send_as_ghost_joining: a ghost that is not joined is invited by the bot,
\* joins and sends again; in a room the bot has left the send fails.
CanSend(r) == r \notin defunct

\* send_message_as: the first message of a new room, or a reply.
Post(w, here, then) ==
    /\ pc[w] = here
    /\ CanSend(room[w])
    /\ posts' = [posts EXCEPT ![job[w]] = @ + 1]
    /\ repeats' = [repeats EXCEPT ![job[w]] =
                       IF w \in late THEN @ + 1 ELSE @]
    /\ Goto(w, then)
    /\ UNCHANGED <<store, locks, job, room, guards, releasing, made, closing,
                   spaces, late, orphans, aside, slips, spaceOrphans, leaked,
                   faults>>

PostFirst(w) == Post(w, "post", "saveThread")
PostReply(w) == Post(w, "reply", "saveMessage")

\* What an early return leaves behind: a room without a mapping, a post
\* without a record.
Orphaned(w) == pc[w] \in SpaceSteps \cup {"bind", "post", "saveThread"}
Unrecorded(w) == pc[w] \in {"saveThread", "saveMessage"}

\* The task ends before its email is recorded; releases of K are not
\* spawned.
EndEarly(w, K) ==
    /\ Leave(w, K)
    /\ orphans' = IF ~Repairing(w) /\ Orphaned(w)
                  THEN [orphans EXCEPT ![Thread(w)] = @ + 1] ELSE orphans
    /\ slips' = IF Unrecorded(w)
                THEN [slips EXCEPT ![job[w]] = @ + 1] ELSE slips

\* The send failed for good: the bot has left the room.
SendRefused(w) ==
    /\ pc[w] \in {"post", "reply"}
    /\ ~CanSend(room[w])
    /\ EndEarly(w, {})
    /\ UNCHANGED <<store, locks, server, aside, repeats, spaceOrphans, leaked,
                   faults>>

\* save_thread_mapping_atomic: INSERT OR REPLACE, whoever mapped the thread
\* meanwhile.
SaveMapping(t, r) ==
    /\ thread_mapping' = [thread_mapping EXCEPT ![t] = r]
    /\ moves' = [moves EXCEPT ![t] =
                     IF thread_mapping[t] \notin {None, r} THEN @ + 1 ELSE @]

SaveThread(w) ==
    /\ pc[w] = "saveThread"
    /\ SaveMapping(Thread(w), room[w])
    /\ Goto(w, "saveMessage")
    /\ UNCHANGED <<ghost, message_mapping, space, locks, job, room, guards,
                   releasing, server, tallies, unbridged, opened, mail,
                   freshMaps, faults>>

\* save_message_mapping; the attachments that follow change nothing here.
SaveMessage(w) ==
    /\ pc[w] = "saveMessage"
    /\ message_mapping' = message_mapping \cup {job[w]}
    /\ Leave(w, {})
    /\ UNCHANGED <<thread_mapping, ghost, space, locks, server, orphans,
                   aside, slips, repeats, spaceOrphans, leaked, faults>>

-----------------------------------------------------------------------------
(* `!compose` and the outbound worker.                                     *)

\* `!compose` opens a room of no thread: createRoom, save_room_ghost_mapping
\* and the joins of create_contact_room in one step; the room is then filed
\* under the email space.  If the binding cannot be saved the room is lost.
Compose(w, r) ==
    /\ pc[w] = "idle"
    /\ r \notin opened
    /\ opened' = opened \cup {r}
    /\ \/ ghost' = ghost \cup {r} /\ Goto(w, "space") /\ UNCHANGED faults
       \/ Fault /\ UNCHANGED <<ghost, pc>>
    /\ UNCHANGED <<thread_mapping, message_mapping, space, locks, job, room,
                   guards, releasing, server, tallies, unbridged, mail, moves,
                   freshMaps>>

\* submit_fresh: a mail that replies to nothing leaves from a bridged room,
\* and try_resolve_thread answers with the thread the mail server filed it
\* under - its own, or whatever thread the server thinks it belongs to.
SubmitFresh(r) ==
    /\ mail = None
    /\ r \in ghost
    /\ Fault
    /\ \E t \in Threads : mail' = [thread |-> t, room |-> r]
    /\ UNCHANGED <<store, locks, tasks, releasing, server, tallies, unbridged,
                   opened, moves, freshMaps>>

\* ... and maps it to the room, without the creation lock and without
\* another look; an error is logged.
MapFresh ==
    /\ mail # None
    /\ mail' = None
    /\ \/ /\ SaveMapping(mail.thread, mail.room)
          /\ freshMaps' = [freshMaps EXCEPT ![mail.thread] = @ + 1]
       \/ UNCHANGED <<thread_mapping, moves, freshMaps>>
    /\ UNCHANGED <<ghost, message_mapping, space, locks, tasks, releasing,
                   server, tallies, unbridged, opened, faults>>

-----------------------------------------------------------------------------
(* Locks, failures, aborts, restarts.                                      *)

\* Mutant: the guard is forgotten, nobody deletes the row.
ReleaseNever(k) ==
    /\ k \in releasing
    /\ releasing' = releasing \ {k}
    /\ UNCHANGED <<store, locks, tasks, server, history, faults>>

\* release_room_creation_lock, in the task the guard spawned.
Release(k) ==
    /\ k \in releasing
    /\ releasing' = releasing \ {k}
    /\ locks' = locks \ {k}
    /\ UNCHANGED <<store, tasks, server, history, faults>>

\* ... whose error is ignored.
ReleaseFails(k) ==
    /\ k \in releasing
    /\ Fault
    /\ releasing' = releasing \ {k}
    /\ leaked' = leaked \cup {k}
    /\ UNCHANGED <<store, locks, tasks, server, late, orphans, aside, slips,
                   repeats, spaceOrphans>>

\* A call fails, or its answer is lost after it took effect: process_email
\* returns the error.
Fail(w) ==
    /\ Working(w) /\ pc[w] \notin SpaceSteps
    /\ Fault
    /\ EndEarly(w, {})
    /\ UNCHANGED <<store, locks, server, aside, repeats, spaceOrphans,
                   leaked>>

SpaceLost(w) == IF pc[w] = "spaceSave" THEN spaceOrphans + 1 ELSE spaceOrphans

\* A failure around the email space is logged and room creation goes on.
FailSpace(w) ==
    /\ pc[w] \in SpaceSteps
    /\ Fault
    /\ LeaveSpace(w)
    /\ spaceOrphans' = SpaceLost(w)
    /\ UNCHANGED <<store, locks, server, orphans, aside, slips, repeats,
                   leaked>>

\* The key whose INSERT took effect although the task never resumed after it.
Unguarded(w) ==
    CASE pc[w] = "acquired" -> {Thread(w)}
      [] pc[w] = "spaceAcquired" -> {Space}
      [] OTHER -> {}

\* abort_poller, or the server dropping the request of a `sync` command: the
\* task ends at the await it is suspended in.
Abort(w) ==
    /\ Working(w)
    /\ Fault
    /\ \E K \in {{}, Unguarded(w)} :
           /\ EndEarly(w, K)
           /\ leaked' = leaked \cup K
    /\ spaceOrphans' = SpaceLost(w)
    /\ UNCHANGED <<store, locks, server, aside, repeats>>

\* The trash or junk gesture in a bridged room: handle_thread_action unbridges
\* it in two separate DELETEs ...
UnbridgeGhost(r) ==
    /\ r \in ghost
    /\ Fault
    /\ ghost' = ghost \ {r}
    /\ unbridging' = unbridging \cup {r}
    /\ UNCHANGED <<thread_mapping, message_mapping, space, locks, tasks,
                   releasing, made, leaving, defunct, spaces, posts, tallies,
                   unbridged, opened, mail, moves, freshMaps>>

\* ... and if the second fails, which costs no further fault, the mapping
\* stays and nobody leaves the room.
UnbridgeThreads(r) ==
    /\ r \in unbridging
    /\ unbridging' = unbridging \ {r}
    /\ \/ /\ thread_mapping' =
                [t \in Threads |-> IF thread_mapping[t] = r
                                   THEN None ELSE thread_mapping[t]]
          /\ unbridged' =
                [t \in Threads |-> IF thread_mapping[t] = r
                                   THEN unbridged[t] + 1 ELSE unbridged[t]]
          /\ leaving' = leaving \cup {r}
       \/ UNCHANGED <<thread_mapping, unbridged, leaving>>
    /\ UNCHANGED <<ghost, message_mapping, space, locks, tasks, releasing,
                   made, defunct, spaces, posts, tallies, opened, mail, moves,
                   freshMaps, faults>>

\* The bot and the ghost leave; the room takes no more posts.
LeaveRoom(r) ==
    /\ r \in leaving
    /\ leaving' = leaving \ {r}
    /\ defunct' = defunct \cup {r}
    /\ UNCHANGED <<store, locks, tasks, releasing, made, unbridging, spaces,
                   posts, history, faults>>

\* Every task ends; the next start deletes all lock rows.
Restart ==
    /\ Fault
    /\ pc' = [w \in Tasks |-> "idle"]
    /\ job' = [w \in Tasks |-> None]
    /\ room' = [w \in Tasks |-> None]
    /\ guards' = [w \in Tasks |-> {}]
    /\ releasing' = {} /\ locks' = {} /\ mail' = None
    /\ unbridging' = {} /\ leaving' = {}
    /\ late' = {} /\ leaked' = {}
    /\ orphans' = [t \in Threads |-> orphans[t] + Cardinality(
           {w \in Tasks : job[w] # None /\ Thread(w) = t /\ Orphaned(w)})]
    /\ slips' = [e \in Emails |-> slips[e] + Cardinality(
           {w \in Tasks : job[w] = e /\ Unrecorded(w)})]
    /\ spaceOrphans' = spaceOrphans
           + Cardinality({w \in Tasks : pc[w] = "spaceSave"})
    /\ UNCHANGED <<store, made, defunct, spaces, posts, unbridged, opened,
                   moves, freshMaps, repeats>>

-----------------------------------------------------------------------------
Step(w) ==
    \/ LookupThread(w) \/ AcquireThread(w) \/ Recheck(w)
    \/ CreateRoom(w) \/ BindGhost(w)
    \/ GetSpace(w) \/ AcquireSpace(w) \/ CreateSpace(w) \/ SaveSpace(w)
    \/ PostFirst(w) \/ PostReply(w) \/ SendRefused(w)
    \/ SaveThread(w) \/ SaveMessage(w)

Next ==
    \/ \E w \in Tasks : \/ \E e \in Emails : Begin(w, e)
                        \/ \E r \in Composed : Compose(w, r)
                        \/ BeginRepair(w) \/ Step(w)
                        \/ Fail(w) \/ FailSpace(w) \/ Abort(w)
    \/ \E k \in Keys : Release(k) \/ ReleaseFails(k)
    \/ \E r \in ghost : SubmitFresh(r) \/ UnbridgeGhost(r)
    \/ MapFresh
    \/ \E r \in unbridging : UnbridgeThreads(r)
    \/ \E r \in leaving : LeaveRoom(r)
    \/ Restart

Spec == Init /\ [][Next]_vars

\* The runtime keeps polling the tasks it has; mail, commands, gestures and
\* faults are the environment's.
Fairness ==
    /\ \A w \in Tasks : WF_vars(Step(w))
    /\ \A k \in Keys : WF_vars(Release(k))

FairSpec == Spec /\ Fairness

-----------------------------------------------------------------------------
(* Properties.                                                             *)

StoreOK ==
    /\ thread_mapping \in [Threads -> Rooms \cup {None}]
    /\ ghost \subseteq Rooms /\ message_mapping \subseteq Emails
    /\ locks \subseteq Keys

TasksOK ==
    /\ pc \in [Tasks -> Steps] /\ job \in [Tasks -> Emails \cup {None}]
    /\ \A w \in Tasks :
          pc[w] \notin SpaceSteps => (job[w] = None <=> pc[w] = "idle")
    /\ room \in [Tasks -> Rooms \cup {None}]
    /\ guards \in [Tasks -> SUBSET Keys]
    /\ releasing \subseteq Keys
    /\ mail \in [thread : Threads, room : Rooms] \cup {None}

ServerOK ==
    /\ made \in [Threads -> Nat]
    /\ opened \subseteq Composed
    /\ unbridging \cup leaving \cup defunct \subseteq Rooms
    /\ spaces \in Nat /\ posts \in [Emails -> Nat]

HistoryOK ==
    /\ late \subseteq Tasks /\ leaked \subseteq Keys
    /\ orphans \in [Threads -> Nat] /\ unbridged \in [Threads -> Nat]
    /\ moves \in [Threads -> Nat] /\ freshMaps \in [Threads -> Nat]
    /\ slips \in [Emails -> Nat] /\ repeats \in [Emails -> Nat]
    /\ spaceOrphans \in Nat
    /\ faults \in 0..MaxFaults

\* Types; and a task has an email in hand while it works on one.
TypeOK == StoreOK /\ space \in BOOLEAN /\ TasksOK /\ ServerOK /\ HistoryOK

\* Through spawned releases, aborts and failures, every lock row has exactly
\* one owner - a task, a release under way, or, leaked, nobody - so that two
\* tasks never create the same room and a row without a leak is on its way
\* out (try_acquire_room_creation_lock and its guard).
CreationExclusive ==
    /\ \A w, x \in Tasks : w # x => guards[w] \cap guards[x] = {}
    /\ \A w \in Tasks : guards[w] \cap (releasing \cup leaked) = {}
    /\ releasing \cap leaked = {}
    /\ \A k \in Keys :
          k \in locks <=> \/ k \in releasing \cup leaked
                         \/ \E w \in Tasks : k \in guards[w]

\* A thread gets a second room only after the first was unbridged or was
\* lost in a failure before it could be mapped, and a user a second space
\* only after the first was lost (process_new_thread, ensure_email_space).
\* Rooms that `!compose` opened are not counted: RoomsAreKept is about those.
OneRoomPerThread ==
    /\ \A t \in Threads : made[t] <= 1 + orphans[t] + unbridged[t]
    /\ spaces <= 1 + spaceOrphans

\* An email is posted once, and once more for every post whose record was
\* lost and for every poller that took it up while another had it in hand
\* (process_email).
PostBound ==
    \A e \in Emails : posts[e] <= 1 + slips[e] + repeats[e]

\* A thread that has a room is moved to another one only by a fresh mail the
\* outbound worker mapped: once for each, be it that the worker's unlocked
\* write replaces the room or that process_new_thread replaces the room the
\* worker mapped while it was creating its own (save_thread_mapping_atomic).
RoomsAreKept == \A t \in Threads : moves[t] <= freshMaps[t]

\* A task that waits for a creation lock gets on, unless a lock row was
\* leaked (process_new_thread, ensure_email_space).
Waiting(w) == pc[w] \in {"loop", "acquire", "space", "spaceAcquire"}
WaitersProceed ==
    \A w \in Tasks : []<>(~Waiting(w) \/ leaked # {})
=============================================================================
