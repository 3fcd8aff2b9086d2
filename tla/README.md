# A TLA+ model of jmap-matrix-bridge

The bridge is one Rust process between a Matrix homeserver (it is an
appservice) and a JMAP mail server. Mail threads become Matrix rooms; messages
typed in those rooms become mail. All its durable state is one SQLite
database; everything else is tokio tasks and maps in memory. This directory
holds TLA+ modules that model its components, the TLC runs that check them on
small instances, and TLAPS proofs of their safety for every instance.

    tlc -workers 2 -config MCOutbound_one.cfg MCOutbound     (any run of PROJECT.json)
    tlapm OutboundProofs.tla                                 (any *Proofs module)

`PROJECT.json` lists components, runs, mutants, the map from definitions to
source lines, findings, hazards and theorems. Paths below are relative to the
Rust crate (`src/src/` in the map).

## 1. Inventory

| Component | State it keeps | Operations | Correct when | Module |
|---|---|---|---|---|
| Outbound queue (`store/queue.rs`), worker (`retry.rs`), reactions (`services/send_state.rs`) | `outbound_queue` rows; the batch in hand; `send_state:` keys | enqueue, fetch, cancel, edit, age, remove, submit, give up, mark | mailed once, capped, nothing vanishes, every row settles, the check mark is honest | `OutboundQueue` |
| JMAP sender (`sender.rs`) | none | build, submit, mark read/unread | success means *submitted*, not filed in Sent | `OutboundQueue`, `ReadState` |
| Transaction endpoint (`routes.rs`, `store/sync.rs`, `services/transactions.rs`) | `processed_transactions` | claim, process, unclaim, prune | no event lost or repeated without cause | `Transactions` |
| Sessions (`client_manager.rs`, `store/users.rs`) | `users`; `clients`, `poller_handles` in memory | login, logout, start-up reconnect, shutdown | one poller per logged-in user, none without a client | `Sessions` |
| Thread rooms (`sync/email.rs`, `ghost.rs`, `store/threads.rs`) | `thread_mapping`, `message_mapping`, `room_ghost_mapping`, `room_creation_locks`, email space | process email, create room, post, unbridge | one room per thread, one post per email, nobody waits for ever | `ThreadRooms` |
| Event loop, sync, backfill (`client_manager.rs`, `sync/`) | change token, backfill position and cutoff, push stream, debounce channel | push, poll, bootstrap, walk | no mail is passed over | `MailSync` |
| Read state (`sync/email.rs`, `puppet.rs`, `services/transactions.rs`) | `read_synced`, `marked_unread` gates; `$seen`, receipts, room flags | both directions | both sides converge and stop | `ReadState` |
| Bot commands (`commands.rs`, `commands/`, `state.rs`), double puppet (`puppet.rs`) | login dialogue and its time-to-live, puppet token, accept loop | dialogue, commands, mint, ensure running | answers are not mixed up, no permission is gained, the loop follows the token | `BotCommands` |
| Content (`services/content.rs`, `services/images.rs`) | none; one load per reaction | sanitize, mark, load, clamp, attach | no text is lost, marks and loads agree, the event fits | `HtmlBody`, `Content` |
| Mailbox rooms, permission table, Matrix client, network guard, encryption, configuration, wiring | none of their own, or one setting | calls and conversions | - | section 8 |

How they interact. The homeserver PUTs transactions to the endpoint, which
handles their events in line: a message in a ghost room becomes a queue row, a
redaction or an edit changes the row, a bot command logs in or out, a reaction
may start a detached thread action or image load, a receipt sets `$seen`. The
worker polls the queue every few seconds, takes the user's client from
`ClientManager` and submits. One event loop per user polls the mail server,
posts to rooms and mirrors read state; a backfill task walks older mail next
to it. A puppet loop per user syncs as the user. They share only the database
and the `ClientManager` maps; nothing holds a lock across an await except the
room creation lock, which is a row in the database.

What is hard: the worker acts on a snapshot while rows are redacted, edited or
cleared; acceptance by the mail server, removal of the row and the reactions
are separate steps with failures and crashes between them; the homeserver may
repeat a transaction that is still being processed; a claim is written before
the work; sessions can be changed by three tasks at once; rooms, posts and
mappings are created in separate steps by concurrent pollers; an index is kept
into a list others delete from; read state travels in a circle. `hazards` in
`PROJECT.json` has each of these at its line.

## 2. Modules

| Module | Subject | Runs | Proofs |
|---|---|---|---|
| `OutboundQueue`, `Outbox` | Matrix to mail, and the abstract promise it implements | `outbound_one`, `outbound_live`, `outbound_unsent` | `OutboundProofs` |
| `Transactions` | claims, redelivery, order | `txn` | `TransactionsProofs` |
| `Sessions` | login, logout and reconnect of one user | `sessions`, `sessions_final` | `SessionsProofs` |
| `ThreadRooms` | `process_email` by concurrent pollers | `rooms` | `ThreadRoomsProofs` |
| `MailSync` | change token, bootstrap, backfill, push | `sync` | `MailSyncProofs` |
| `ReadState` | receipts, `$seen`, `marked_unread` both ways | `read`, `read_echo` | `ReadStateProofs` |
| `BotCommands` | login dialogue, commands, double puppet | `bot` | `BotCommandsProofs` |
| `HtmlBody`, `Content` | rendering, image marks and loads, clamp | `content` | `ContentProofs` |

An `MC` module instantiates each for TLC. Left for later: the composition of
`Transactions` with `OutboundQueue` (a redelivered message enqueued twice).

## 3. The outbound path: `OutboundQueue`

State. The store's variables are the columns and tables the path reads:
`queue` (the rows), `body` (a version number; only which edit it carries
matters), `retry_count`, `held` (`release_at` is still ahead), `due` (the
backoff since `last_retry_at` is over), `fresh` (`thread_root_id` is NULL),
`ghost`, `threads`, `heldKey`, `token`. Memory: `clients`, the startup tasks
not yet connected (`reconnecting`), the thread actions under way (`moving`,
`unbridging`), the handler and the worker with the batch it fetched (`batch`,
`snapBody`, `snapRetry`). The world: reactions shown, notices, copies and
bodies the mail server accepted. History variables (`fate`, `heldEdit`,
`slips`, `attempts`) are never read by an action's guard that models code
(`SendMessage` uses `fate` only to send each message once).

Actions, by actor:

- *transaction handler*: `SendMessage` (`handle_ghost_outbound` and its media
  twin, with `ResolveThreadContext` and `EnqueueHeldSend`), `PostHeld` and
  `SaveHeldKey` (`mark_held`), `CancelSend` (redaction), `EditQueued` (edit),
  `BeginLogout`/`BlankToken`/`ClearQueue` (`ClientManager::logout`),
  `SaveLogin`/`StartSession` (`ClientManager::login`);
- *worker*: `FetchPending`, `TakeUp`, `LookupRoom`, `PurgeRow`, `SubmitBatch`,
  `ReadReply`, `LoseReply`, `MapThread`, `RemoveSubmitted`, `AgeRetry`,
  `PostGiveUp`, `DiscardRow`, `TakeHeld`, `SettleHeld`, `React`, `BatchDone`;
- *detached tasks*: `Reconnect` (startup), `BeginThreadAction`,
  `UnbridgeGhost`, `UnbridgeThreads` (`handle_thread_action`, `unbridge_room`);
- *time*: `HoldExpires`, `BackoffElapses`; *faults*: `Crash`, and the failing
  branch of every store or Matrix call.

An await point is a step. `SendMessage` is one step although it awaits several
reads: what it reads besides the thread and the session is not written by
another actor, and the insert is its only write.

Decisions worth knowing:

- One row per event and a handler that does one thing at a time: the
  homeserver sends one transaction at a time. That a timed-out request can
  overlap its repetition, and that a released claim enqueues a message twice,
  is the subject of `Transactions`.
- The backoff table of the query is abstracted to `due` and the clock
  comparison with `release_at` to `held`; both change only by time passing or
  by the code's own writes.
- A refused submission may leave a copy in the Sent folder (`filed`). Those
  copies are not counted; `copies` counts submissions.
- The one-time hint about the send delay is a notice with its own key and
  touches nothing else; it is left out.
- The text commands for trash and junk run the thread action inside the
  handler; the detached action covers the same steps in more interleavings.
- At the first start every session is connected before the server listens and
  only failed ones reconnect in the background; `Reconnect` after a `Crash`
  allows all of them to be late, which is a superset.

### The abstract promise: `Outbox`

Per message `stage` (new, open, closed), `copies` and `slips`. A message is
accepted once, mailed only while open and only when `copies <= slips`, and
never reopened. The refinement mapping says a message is *open* while it has a
row or the worker may still submit it from its snapshot (`InHand`): that is the
honest promise of this code, because a row that was redacted late may still go
out. `slips` counts accepted submissions the store never learnt of: a lost
reply, a failed DELETE, a crash before it.

## 4. The endpoint: `Transactions`

The homeserver (external) has one outstanding request, `req`, for transaction
`next`, and repeats it until it reads a 200. Each slot is one request the
bridge is serving; a request the homeserver gave up on keeps running in its
slot, or is dropped with its connection - the model allows both. `claimed` is
`processed_transactions`; `old` marks the claims the daily prune may delete.
`ClaimTransaction`, `AlreadyClaimed` and `ClaimFails` are the outcomes of
`claim_transaction`; `ProcessEvent` is one turn of the loops of
`process_transaction`, whose only returned error is a store error on a room
message (`AbortOnStoreError`); then `UnclaimTransaction` or `UnclaimFails`,
and `Respond`. `ClaimAges` assumes only that no request is served for seven
days.

## 5. The other components

### Sessions: `Sessions`

Everything in `ClientManager` is keyed by the Matrix user id, so one user is
modelled. Credentials are numbered by login, event loops by spawn. An actor is
a request (`Login`, `Logout`) or `Boot`, the task of `ClientManager::start`
with the credentials it read at start-up; every await of `login`, `logout`,
`abort_poller` and `start_session` ends a step. `Cancel` drops a request at an
await (axum drops the future when the connection closes); `Restart` is a crash
or `shutdown` followed by a start. Two history flags say what happened since
the restart: `overlapped` (two session changes at once) and `cut` (one stopped
half-way). `SinglePoller` and `SessionConsistent` hold without either, which is
what the code is written for; `NoDeadClient` holds with any overlap.

### Inbound mail: `ThreadRooms`

`process_email` from the first look at `message_mapping` to the last write,
for several tasks (poll, backfill, `sync`). `TryAcquire` is the INSERT into
`room_creation_locks`; the guard that deletes the row lives in the task
(`guards`), its drop spawns a task (`releasing`), and a row whose owner is gone
is `leaked`. The same lock is used for the thread and, nested in it, for the
email space. `Abort` is the aborted poller or a dropped request; it may fall
after the INSERT and before the guard. `UnbridgeGhost`, `UnbridgeThreads` and
`LeaveRoom` are the trash/junk gesture, its two DELETEs apart as in
`OutboundQueue`. `orphans`, `slips`, `repeats`, `spaceOrphans` count the
excuses for a second room, post or space; each is raised only by the step that
causes it, and `PostBound` and `OneRoomPerThread` allow exactly one more for
each.

`thread_mapping` has two writers, and both use the INSERT OR REPLACE of
`save_thread_mapping_atomic` (`SaveMapping`). `SaveThread` is the one of
`process_email`. The other is the outbound worker: `SubmitFresh` submits a
fresh mail from a ghost room (one bridged, or opened by `Compose`, the part of
`!compose` that makes a room) and learns its thread, and `MapFresh` maps the
thread to that room, or fails to, after an await, with no lock and no second
look. Mail of the thread may be bridged in between, or be about to be.
`RoomsAreKept` says how far this goes: a thread changes its room only on
account of such a write, and at most once for each (`moves`, `freshMaps`).

### Mail to the bridge: `MailSync`

The mail server numbers mails in the order of `receivedAt` and has a change
log; a state token is a length of it. `sync_emails` is `ReadToken`,
`GetChanges` (with `CannotCalculateChanges`) or `Bootstrap` with
`ResolveCutoff`, `RegisterPosition` and `BootstrapState`, then `ProcessPage`
and `SaveToken`; `run_backfill_loop` is `CheckInitial`, `ReadPosition`,
`QueryBatch`, `ProcessBatch`, `SavePosition`, `DropPosition`, `DropAnchor`.
The event loop has the push stream, its end, the debounce channel and the
heartbeat. A mail may be missed only for a listed reason (`Excused`); the reasons are what the
code accepts (a failed email is logged and passed) or its known gaps (section
7). Emails reported as updated are `ReadState`'s subject. A destroyed email is
recorded in `destroyed_emails`; a failure of that write changes nothing else.

`Queue` and `Place` give a mail its position, mails to arrive included, so that
an arrival moves nobody; they are the ground for `shifted` and for the proof.
A bootstrap's query and the registration of its position are two steps, and so
are the two deletes of an ending walk (`sync/backfill.rs:70-82`), each of which
the store may fail: a bootstrap can fall between them. A position that loses
its anchor there may be walked on from in another window, which excuses
everything, like the other failures under the anchor. Joined into one step are
only the resolution of the cutoff and the query that uses it.

### Read state: `ReadState`

One email in one room. `seen` is `$seen`, `receipt`/`marked` are what Matrix
shows, `changed`, `notice` and `flagged` are the updates on their way to the
poll, the endpoint and the puppet's `/sync`; `read_synced` and `marked_unread`
are the two gates. The user acts on either side at any time. `Agreement` is
convergence: when nothing is on its way and every update was mirrored by one
poll at a time, the two sides agree, unless a value changed back before anyone
heard of it (`coalesced`: a poll sees the net change only, and the gate that
mirrors it is then one act behind).

### The bot: `BotCommands`

Messages of one user in two requests at a time, `Kinds` of them: answers of
the dialogue, commands, a one-shot login, a typed puppet token. Every await of
a handler is a step, so a dialogue step can be read in one request and
answered in another. Tokens are numbered; the homeserver may revoke one.
`upset` (requests overlapped), `strayed` (a restart, expiry or failed prompt
made the user answer a question nobody asked), `lapsed`, `refused` and
`declined` are history. `Redact` has both outcomes of `redact_event`: the
handlers ignore a failure, handle the password all the same and leave it in
the room; `refused` records that. Which permission entry matches a user is
configuration; `permitted` may change at a restart. Only typed messages are
modelled: the logins the operator asks for on the command line
(`main.rs:635-680`, `--user`) look at no permission entry, by design.

### Content: `HtmlBody`, `Content`

HTML is a sequence of tokens: opening and closing tags, text, blanks, breaks,
images with their attributes. Each pass of `sanitize_for_matrix` is an operator
of the same name and acts on that sequence; characters inside a text are not
modelled, nor attribute parsing. `clean` is the sanitizer as `matrix_sanitizer`
configures it. `Content` writes an arbitrary small document or text (the
environment), or both as the two parts of one email, where each body comes
from its own part; posts it, and lets image loads and edits run next to the
attachments. The fallback of an empty plain body to the subject is no text of
the body and is left out. An image without a source is still an image to
`chrome_image_offsets` and is dropped by the pass that looks at sources. A pass is a `Rewrite` (each token replaced by a short sequence), a
`KeepAt` (some positions kept) or a trim; the counting scan of
`strip_reply_blockquotes` and the repeated pruning are recursive functions, so
that both can be reasoned about.

`TextKept` has three parts: the formatted body (`HtmlKept`), the plain body
(`PlainKept`), and the quote under a reply that comes back (`QuoteComesOff`).
What is the sender's own is defined by how blockquotes nest (`Cited`, `Own`),
not by the scan of the code. `CellsApart` is the one property of the rendering
that depends on what surrounds the text.

## 6. Runs

| Run | Instance | States | Shows |
|---|---|---|---|
| `outbound_one` | 1 message, 2 attempts, 1 edit, 1 fault | 1.3 M | the safety invariants, the refinement of `Outbox`, and that the message is settled after any one fault |
| `outbound_live` | 2 messages, batch limit 1 | 599 k | LIMIT without ORDER BY starves nobody |
| `txn` | 2 slots, 2 transactions of 2 events, 2 store errors, 2 timeouts, 1 crash | 679 k | no repetition without a deleted claim, order, honest acknowledgement, no stall |
| `rooms` | 2 tasks, 2 emails of a thread, 1 composed room; 1 fault, or 2 with one email where one of the two is a fresh mail | 458 k | one room, one post, rooms move only by a fresh mail, no wait without a leak |
| `sync` | 3 mails (2 old), page of 1, moving window, 1 command, 1 fault | 417 k | no mail passed, every mail bridged |
| `sessions` | 2 requests, start-up task, 3 logins, 2 faults, 1 restart | 435 k | one loop, agreement, no dead client, resumption |
| `read` | 2 pollers, 4 acts, 1 fault | 348 k | agreement, receipts do not echo |
| `bot` | 2 requests, 4 messages, 2 tokens, 1 fault | 326 k | dialogue, permission, session, puppet |
| `content` | 3 parts of 12 fragments and 6 containers; 3 lines, alone or next to HTML; 3 images | 633 k | text kept, cells apart, marks match loads, event fits |

Why these bounds are enough to be interesting: two attempts make the first
retry and the last attempt different steps; a batch limit below the number of
messages makes them compete; one fault can be any failed call, lost answer,
crash or abort, at any await; two transactions let a late error of the first
fall after its acknowledgement. Two tasks with two emails of one thread meet in
every lock, and one fault suffices for every leak, orphan and lost record; a
fresh mail counts as a fault too, and the constraint `Bounded` of
`MCThreadRooms` lets a second fault meet it with one email (a gesture, a
failed create, a restart, or another fresh mail of the thread). The notice of
`content` is shorter than the budget, so that a body is cut to nothing and to
a part of itself. A page of one mail with three mails makes the walk, the bootstrap page and the
change log all non-trivial. Three logins and a restart let a stale reconnect
meet a newer login and a logout. Four acts of the user are two crossings of
mail and Matrix. Three nested parts are enough for every pass of the renderer
to act on what another produced. The safety results of the proved modules do
not rest on the bounds.

Runs that refute a statement of the repository (findings in `PROJECT.json`,
with the quotation):

| Run | Statement | What happens |
|---|---|---|
| `outbound_unsent` | "Unsent" means not sent | the worker already has the row in its batch; an edit after the fetch and a logout meet the same stale batch |
| `read_echo` | the gate breaks the cycle and its unread counterpart | a mark-unread and a read that cross are mirrored back and forth for ever |
| `sessions_final` | start-up never reconnects an ended session | the reconnect task still has the credentials it read at start-up |

Deadlock is checked in the outbound runs. The other systems may really stop
(the stream ends, no mail comes, nobody types), so their configurations switch
the check off and a liveness property takes its place where one is meaningful.

### Fairness

Weak fairness of every step of a task the runtime has (tokio keeps polling a
ready task; every await ends, in success or failure), and of time passing
where a timer is awaited (hold, backoff, heartbeat). In `Transactions` also of
the homeserver's delivery, which the Matrix specification asks to be repeated
until it succeeds; in `MailSync` of the mail server's push while the stream is
connected. Nothing is assumed of users, or of a mail server that may refuse
for ever: then the cap settles the row. Faults are bounded by constants, so
liveness reads "if faults end, then". `PuppetFollowsToken` and `WaitersProceed`
name the outcomes in which the code gives up (`declined`, `leaked`).

## 7. Known divergences

Besides the findings, modelling met these. Each is a behaviour the model has;
none has a run of its own.

- `retry.rs:207`: at the cap, a notice that fails to post and a lost reaction
  leave a dropped message without a sign; ADR 0007 says "never a silent drop".
- `services/send_state.rs:31`: the worker may settle a message between the
  hourglass and the save of its id; the hourglass then never resolves.
- `retry.rs:168-171`: a fresh submission maps its thread without the creation
  lock: it moves a thread that was bridged meanwhile to the composed room, or
  maps it to a room that was unbridged meanwhile; and `process_new_thread`,
  which looked before, replaces the room the worker has mapped.
- `client_manager.rs:364`: two session starts that overlap may leave two event
  loops; a request cut at an await (`client_manager.rs:316`) leaves a client
  without a loop or a loop without a handle.
- `routes.rs:141`: a repetition acknowledged while the first delivery still
  runs makes a later store error unrepairable; a crash leaves a claim for half
  a transaction (`store/sync.rs:70`); a released claim repeats the events
  before the failed one (`services/transactions.rs:103`).
- `ghost.rs:83` "a space failure must not fail room provisioning": a leaked
  lock of the space makes every room creation wait until the next start.
- `puppet.rs:130`: while the loop of a revoked token has not noticed, a new
  token's loop is not started, although `login-matrix` answers that it is.
- A password typed after the dialogue expired is not redacted; one whose
  redaction fails is used and stays in the room (`commands/login.rs:179-185`,
  and `56-62` for the one-shot form): no handler looks at the result.
- `sync/backfill.rs:174` "Ascending paging is also stable": a deletion before
  the position moves an unread mail behind it; a mail that arrives between the
  bootstrap's short page and its state is in neither; a position registered by
  a second bootstrap is deleted by the walk that ends, or has no task.
- `services/content.rs:1169`: marks and loads are not 1:1 when the email
  quotes, repeats an image or has more than the cap; `MarksMatchLoads` says
  where they are. An edit that shows images is not clamped. The clamp may
  exceed the budget by up to the notice when the HTML leaves no room for it.

## 8. Proofs and limits

Everything below holds for every value of the constants allowed by the named
assumption of the module (`ConstantsAssumption`, `StreamAssumption`,
`SessionAssumption`, `RoomAssumption`, `SyncAssumption`,
`ReadStateAssumption`, `BotAssumption`, `ImgAssumption` and
`ContentAssumption`): any sets of messages, rooms, users, slots, requests,
emails, commands, images and HTML fragments, any mailbox, any cap and any fault
budget. The assumptions say only that functions have their domains, null values
are outside their sets, bounds are natural numbers, and the tasks of
`ThreadRooms`, which are counted, are finitely many.

`OutboundProofs`. `TypeOK` is inductive by itself, the safety invariants are
not. Their strengthening is a chain, each part preserved given the earlier
ones:

- `WorkerInv`: the message in hand is not in the batch too, and a message
  never queued is untouched everywhere;
- `CopyInv` for `DeliveryBound`: while a message can still be submitted and is
  not just accepted, `copies <= slips`; from acceptance until the store knows,
  `copies > slips`. The bound itself says nothing about the state in which the
  next submission starts;
- `HoldInv` for `HeldHonoured`: a held message is neither in the
  batch nor in hand and was never mailed; the worker's snapshot is no older
  than the last edit made during the hold;
- `MarkInv` for `VerifiedMark`: the worker settles with "sent" only when a
  copy was accepted;
- `NothingVanishes` uses `CopyInv` and `WorkerInv`;
- `AttemptInv` for `AttemptCap`: snapshot and row agree on `retry_count` while
  the row exists, and attempts follow it up to the number of faults.

Its last part proves `Spec => Outbox!Spec` under the mapping `stage`.
`SendMessage` maps to `Accept`, an accepted `SubmitBatch` to `Deliver`, every
other step to `Settle` (`QuietSettles`: such a step opens nothing, mails
nothing and slips at most once, where `copies > slips`). The last comes from
`CopyInv`.

`TransactionsProofs`:

- `OwnerInv`: the owner of a claim is alone, and its claim is not old, so
  neither unclaim nor prune takes it from another;
- `SeenInv` for `HandledOncePerRelease`: events still before the owner, and
  all events of an unclaimed transaction, were handled at most `released`
  times;
- `OrderInv` for `EventsInOrder`: events behind the owner's position are
  ahead in count of those before it;
- `AckInv` for `AckedMeansHandled`: an undisturbed transaction is served only
  by the outstanding request, and its claim is either owned or stands for
  finished work.

`SessionsProofs`. `TypeOK` is split by kind of variable and inductive.
`ClientInv` for `NoDeadClient`: a client without a loop is about to get one or
to be dropped. For the other two: `MineInv` (who carries credentials),
`AloneInv` (without overlap one task is at work), and `StageInv`, which says
what store, map and loops look like at every step of that one task; the
invariants alone say nothing about the middle of a change. `StageNext` has one
step per action, and rests on the fact that every other task is idle.

`ThreadRoomsProofs`. `CreationExclusive` says who owns a row of
`room_creation_locks`; `GuardInv` that a task between its second look at the
thread and the save of the mapping holds the thread's row, and one that creates
the space holds the space's. What is left for `RoomsAreKept` is `MoveInv`: if
the thread of such a task has a room, the worker mapped it behind the task's
back, and that mapping has not been counted as a move yet - so the task's
replacement is still paid for. The bounds count only what is accounted for at
the end, so `RoomInv` and `SpaceInv` add that a thread with no room of its own
(`Creating`: what the worker maps during a creation is none), mapped or in a
task's hand, has none beyond its orphans and unbridged ones. `PostInv` does the same for posts, by the one task that
took the email up first (`FirstInv`). `Restart` ends all tasks at once and
raises the counters by the number of tasks with something in hand: hence the
cardinalities.

`MailSyncProofs`. `NoMailPassed` relates the stored token and the stored
position; a step may replace either by one in hand, and the position is an
index into a list that changes. The invariant:

- `PollInv`: what `NoMailPassed` says of the stored token holds of the token
  each poll has read or is about to save, with the page in hand as a further
  place for a mail to be;
- `WalkInv`: no mail between the first page and where the walk has come to is
  owed, for the saved position and for the one in hand, mails to arrive
  included; `LastInv`: after the last page nothing beyond the first page is;
- `RegisterInv`: between a bootstrap's query and the registration of its
  position, what is owed is on the page in hand or behind it;
- `AnchorInv`, `PositionInv`: the window does not move under a position, and a
  walk starts behind the bootstrap's page; so a bootstrap that sets the
  position back, and a walk that sets it forward again, pass nobody;
- `OrderInv`, `LogInv`: mails arrive in order, tokens are not ahead of the log.

The arithmetic of pages is in lemmas about counting a set below a number
(`CountGrows`, `CountSpan`, `CountFull`): positions are distinct and have no
holes, so a short page is the last one. `Steady` and `Owed` say once for every
action what it does to places and to the mails owed.

`ReadStateProofs`. `Agreement` speaks of quiet states only. `MirrorInv` says
what holds on the way there, as long as no poll raced another, nothing was
dropped and nothing changed back unheard: the poll, the gate and what was last
heard agree (`PollInv`, `FlagInv`), the gate is set after the receipt
(`ReceiptInv`), and a room that disagrees with the mail has a poll, a receipt
or a puppet step that will mend it (`ReadInv`, `UnreadInv`).

`BotCommandsProofs`. `HandInv` says what a handler has in hand at each step.
`PermitInv` for `DeniedGainsNothing`: without a permission entry nobody is in a
dialogue or past the router, so the one check at the start is enough.
`AloneInv`: without an overlap one request is at work, and its client lives.
`PromptInv` and `AnswerInv` for `LoginDialogue`: dialogue and prompt agree, so
every answer is stored as what it was asked for. `ExposedInv` strengthens the
redaction part: whatever else went wrong, only a lapse, an overlap or a
refused redaction leaves a password in the room.

`ContentProofs`. The invariants of `Content` are about what twelve passes do to
a sequence of any length, so most of the module is about operators:

- *induction*. The library's induction theorems have an operator as a
  parameter, but the existence of a minimal element in a well-founded set
  (`WFMin`, `NatLessThanWellFounded`) has not. `LeastElement`, `SetInduction`
  and `SeqInduction` state induction with a set in place of the predicate, and
  `RecursionExists` that a recursion along a sequence has a solution; with it
  `FlattenSeq`, `QuoteDepth` and the pruning passes are what they are meant to
  be;
- *what a pass keeps*. `Only(s, S)` is what is left of s in S. `RewriteKeeps`
  and `KeepKeeps` reduce "the pass keeps `Only(s, S)`" to a fact about one
  token; one lemma per pass follows, for S any part of `Solid` (text and
  marks), and `SanitizeKeeps` and `RenderKeeps` put them together. They hold of
  any sequence of tokens, of any depth; how ammonia mends tags that do not
  match (it may move them, not the text) is abstracted;
- *the quoted reply*. `StripIsOwn`: the counting scan drops exactly what a
  marked blockquote encloses (`CitedIs`, by comparing the depth with the excess
  of openings from each marked one on);
- *marks and loads*. `MarksAreWorth`: without a quote and a repeated address
  the walk that marks and the walk that extracts decide alike at every
  position, so the two sequences have equal length (`FlattenLengths`);
- *the plain body*. `NormalizeKeeps`, `StripQuotedKeeps`, `QuoteOff` and
  `ClampIs`.

The inductive invariant `IInv` then only has to say that the message was
rendered from the email as it still is (`HtmlRendered`, `PlainCarried`,
`Fitting`), and that a load runs only for an email with HTML
(`LoadsHaveHtml`), which is what makes the edit legal.

All inductive invariants were checked with TLC before they were proved, on the
instances of section 6, those of `MailSync` with two faults as well.

Only model-checked: liveness and refinements under fairness (`OutboxCloses`,
`StreamAdvances`, `WaitersProceed`, `MailIsBridged`, `SessionResumes`,
`ReceiptEchoEnds`, `PuppetFollowsToken`), which need ENABLED; and
`CellsApart`, which does not hold of arbitrary fragments (a space that
separates two cells is pruned when stray tags make it the only content of an
element) and would need a proof about well-formed HTML. The refutations are
runs.

Not modelled: the logins at start-up that the command line asks for; mailbox
rooms (one task creates them in turn); the permission
table, network guard, encryption at rest, configuration and wiring (pure
decisions, I/O and parsing); profiles, avatars and media streaming of the
Matrix client; subject, date and signature formatting; membership events
beyond being handled. An i64 overflow of the backfill window and the
characters inside a text are below the abstraction.
