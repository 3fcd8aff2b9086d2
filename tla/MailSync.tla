------------------------------ MODULE MailSync ------------------------------
(***************************************************************************)
(* How mail reaches process_email: the push-driven event loop of a session *)
(* and its debounced poll, the `sync` command, the bootstrap with the      *)
(* change token, and the positional backfill of older mail.                *)
(*                                                                         *)
(* The mail server (external) numbers mails in the order of receivedAt,    *)
(* which is the order of arrival, and its change log; a state token is a   *)
(* length of that log.  Processing one email is ThreadRooms' subject: here *)
(* it succeeds or fails.                                                   *)
(***************************************************************************)
EXTENDS Naturals, FiniteSets

CONSTANTS
    Loop,           \* the poll task of the event loop
    Commands,       \* `sync` commands that may poll next to it
    NoToken,        \* no row in jmap_state
    NumMails,       \* bound: mails that ever exist
    NumOld,         \* mails in the account before the first login
    SyncLimit,      \* sync_limit: mails per query
    Windowed,       \* a backfill window is configured
    MaxTicks,       \* bound: mails that leave the window as time passes
    MaxFaults       \* bound, together: failed calls, sessions started again,
                    \* streams that end, mails deleted, tokens refused and
                    \* `sync` commands

Mails == 1..NumMails
Pollers == {Loop} \cup Commands

ASSUME SyncAssumption ==
    /\ Loop \notin Commands
    /\ NoToken \notin Nat
    /\ NumMails \in Nat /\ NumOld \in 0..NumMails
    /\ SyncLimit \in Nat \ {0}
    /\ Windowed \in BOOLEAN
    /\ MaxTicks \in Nat /\ MaxFaults \in Nat

VARIABLES
    \* --- the mail server
    log,            \* length of the change log: its current state token
    born, died,     \* [Mails -> Nat]: log position, 0: not (yet)
    floor,          \* the first mail inside the window, counted from now
    \* --- the store: rows of jmap_state, destroyed_emails, the bridged mail
    changes,        \* the change token
    backfill_position,
    backfill_cutoff,
    destroyed_emails,
    bridged,        \* mails process_email succeeded for
    \* --- the event loop
    stream,         \* the push stream is connected
    unpushed,       \* a change the connected stream has not pushed yet
    nudge,          \* the debounce channel is not empty
    \* --- sync_emails, once per poller
    pc, cur, next, more, ids,
    \* --- run_backfill_loop
    bpc, initial, pos, batch,
    \* --- history: never read by the code
    failed,         \* mails process_email failed for, or left behind when
                    \* the position of the walk could not be saved
    shifted,        \* mails a deletion moved behind the walk
    gap,            \* mails that arrived after a last page was read: between
                    \* page and state of a bootstrap, or as the walk ended
    outside,        \* mails older than an anchored window; all of them once
                    \* the store failed under the anchor
    stranded,       \* a position was registered with no task left to walk
    faults

server  == <<log, born, died, floor>>
state   == <<changes, backfill_position, backfill_cutoff, destroyed_emails>>
push    == <<stream, unpushed, nudge>>
poll    == <<pc, cur, next, more, ids>>
walk    == <<bpc, initial, pos, batch>>
excuses == <<shifted, gap, outside>>

vars == <<server, state, bridged, push, poll, walk, failed, excuses,
          stranded, faults>>

Arrived == {e \in Mails : born[e] # 0}
Live == {e \in Arrived : died[e] = 0}

\* The mails of Email/query with a cutoff (0: no filter), ascending, from
\* position p.
InWindow(c) == {e \in Live : e >= c}
Rank(e, c) == Cardinality({x \in InWindow(c) : x < e})
Page(p, c) ==
    {e \in InWindow(c) : Rank(e, c) >= p /\ Rank(e, c) < p + SyncLimit}

Init ==
    /\ log = NumOld
    /\ born = [e \in Mails |-> IF e <= NumOld THEN e ELSE 0]
    /\ died = [e \in Mails |-> 0]
    /\ floor = IF Windowed THEN 1 ELSE 0
    /\ changes = NoToken /\ backfill_position = NoToken
    /\ backfill_cutoff = NoToken /\ destroyed_emails = {}
    /\ bridged = {}
    /\ stream = FALSE /\ unpushed = FALSE /\ nudge = TRUE
    /\ pc = [p \in Pollers |-> "idle"]
    /\ cur = [p \in Pollers |-> NoToken]
    /\ next = [p \in Pollers |-> 0]
    /\ more = [p \in Pollers |-> FALSE]
    /\ ids = [p \in Pollers |-> {}]
    /\ bpc = "check" /\ initial = FALSE /\ pos = 0 /\ batch = {}
    /\ failed = {} /\ shifted = {} /\ gap = {} /\ outside = {}
    /\ stranded = FALSE /\ faults = 0

Faults(n) == faults + n <= MaxFaults /\ faults' = faults + n
Fault == Faults(1)

-----------------------------------------------------------------------------
(* The mail server and the clock.                                          *)

\* A last page was read and what follows from it is not saved yet.
Closing ==
    \/ \E p \in Pollers : pc[p] = "state"
    \/ bpc = "finish"
    \/ bpc = "process" /\ Cardinality(batch) < SyncLimit

\* A mail arrives; a connected stream will push the change.
Arrive(e) ==
    /\ born[e] = 0
    /\ e = 1 \/ born[e - 1] # 0
    /\ log' = log + 1
    /\ born' = [born EXCEPT ![e] = log + 1]
    /\ unpushed' = stream
    /\ gap' = IF Closing THEN gap \cup {e} ELSE gap
    /\ UNCHANGED <<died, floor, state, bridged, stream, nudge, poll,
                   walk, failed, shifted, outside, stranded, faults>>

\* The positions the walk continues from: the saved one, the one a batch in
\* hand will save, and the first one, while a bootstrap has yet to save it.
WalkedTo ==
    (IF backfill_position = NoToken THEN {} ELSE {backfill_position})
    \cup (IF \E p \in Pollers : pc[p] = "register" THEN {SyncLimit} ELSE {})
    \cup (IF bpc \in {"process", "save"} THEN {pos + Cardinality(batch)}
          ELSE IF bpc = "query" THEN {pos} ELSE {})

Cutoff == IF backfill_cutoff = NoToken THEN floor ELSE backfill_cutoff

\* The order the walk counts its positions in: the mails of the window that
\* are there, and the ones that will arrive after them.
Queue == {x \in Mails : x >= Cutoff /\ (x \in Live \/ born[x] = 0)}
Place(e) == Cardinality({x \in Queue : x < e})

\* The mails, or the next to arrive, that a deletion moves from ahead of the
\* walk to behind it.
MovedUp(d) ==
    {e \in Queue : d >= Cutoff /\ d < e /\ Place(e) \in WalkedTo}

\* A mail is deleted: the mails behind it move up one place.
Destroy(d) ==
    /\ d \in Live
    /\ Fault
    /\ log' = log + 1
    /\ died' = [died EXCEPT ![d] = log + 1]
    /\ unpushed' = stream
    /\ shifted' = shifted \cup MovedUp(d)
    /\ UNCHANGED <<born, floor, state, bridged, stream, nudge, poll,
                   walk, failed, gap, outside, stranded>>

\* Time passes: a mail grows older than the window.
Tick ==
    /\ Windowed /\ floor <= MaxTicks
    /\ floor' = floor + 1
    /\ UNCHANGED <<log, born, died, state, bridged, push, poll, walk,
                   failed, excuses, stranded, faults>>

-----------------------------------------------------------------------------
(* run_event_loop.                                                         *)

Subscribe ==
    /\ ~stream
    /\ stream' = TRUE
    /\ UNCHANGED <<server, state, bridged, unpushed, nudge, poll, walk,
                   failed, excuses, stranded, faults>>

\* An event of the stream: a unit is sent to the debounce channel.
Push ==
    /\ stream /\ unpushed
    /\ unpushed' = FALSE /\ nudge' = TRUE
    /\ UNCHANGED <<server, state, bridged, stream, poll, walk, failed,
                   excuses, stranded, faults>>

\* The stream fails or ends: reconnected without a poll, and without the
\* changes it did not push.
StreamEnds ==
    /\ stream
    /\ Fault
    /\ stream' = FALSE /\ unpushed' = FALSE
    /\ UNCHANGED <<server, state, bridged, nudge, poll, walk, failed, excuses,
                   stranded>>

\* Mutant: an hour without an event only reconnects.
HeartbeatReconnectsOnly ==
    /\ stream /\ ~unpushed
    /\ stream' = FALSE
    /\ UNCHANGED <<server, state, bridged, unpushed, nudge, poll, walk,
                   failed, excuses, stranded, faults>>

\* An hour without an event: a poll, and a new stream.
Heartbeat ==
    /\ stream /\ ~unpushed
    /\ nudge' = TRUE /\ stream' = FALSE
    /\ UNCHANGED <<server, state, bridged, unpushed, poll, walk, failed,
                   excuses, stranded, faults>>

-----------------------------------------------------------------------------
(* poll and sync_emails.                                                   *)

PollFrame == UNCHANGED <<server, push, walk>>

\* Read the change token.
ReadToken(p) ==
    /\ pc' = [pc EXCEPT ![p] = "changes"]
    /\ cur' = [cur EXCEPT ![p] = changes]
    /\ UNCHANGED <<next, more, ids>>

\* The debounced poll task: drain the channel, wait, poll.
DebouncedPoll ==
    /\ pc[Loop] = "idle"
    /\ nudge /\ nudge' = FALSE
    /\ ReadToken(Loop)
    /\ UNCHANGED <<server, state, bridged, stream, unpushed, walk, failed,
                   excuses, stranded, faults>>

\* The `sync` command: poll_now.
PollNow(p) ==
    /\ pc[p] = "idle"
    /\ Fault
    /\ ReadToken(p)
    /\ UNCHANGED <<server, state, bridged, push, walk, failed, excuses,
                   stranded>>

\* Email/changes since the token, as far as the server likes.
GetChanges(p) ==
    /\ pc[p] = "changes" /\ cur[p] # NoToken
    /\ \E n \in cur[p]..log :
           /\ n = cur[p] => log = n
           /\ next' = [next EXCEPT ![p] = n]
           /\ more' = [more EXCEPT ![p] = n < log]
           /\ ids' = [ids EXCEPT ![p] =
                  {e \in Mails : born[e] > cur[p] /\ born[e] <= n}]
           /\ destroyed_emails' = destroyed_emails \cup
                  {e \in Mails : died[e] > cur[p] /\ died[e] <= n}
    /\ pc' = [pc EXCEPT ![p] = "process"]
    /\ UNCHANGED <<changes, backfill_position, backfill_cutoff, cur, bridged,
                   failed, excuses, faults, stranded>>
    /\ PollFrame

\* cannotCalculateChanges: the token is deleted and the bootstrap follows.
CannotCalculateChanges(p) ==
    /\ pc[p] = "changes" /\ cur[p] # NoToken
    /\ Fault
    /\ changes' = NoToken
    /\ cur' = [cur EXCEPT ![p] = NoToken]
    /\ UNCHANGED <<backfill_position, backfill_cutoff, destroyed_emails, pc,
                   next, more, ids, bridged, failed, excuses,
                   stranded>>
    /\ PollFrame

\* Mutant: the window is computed anew by every query.
FloatingCutoff(c, n) ==
    /\ c = floor /\ n = 0
    /\ UNCHANGED <<backfill_cutoff, outside>>

\* resolve_backfill_cutoff, with n failures: anchored and saved by the first
\* query that needs it, read from the store by every later one.  An anchor
\* that cannot be read is replaced, one that cannot be saved is used once;
\* the walk may then leave out anything.
ResolveCutoff(c, n) ==
    CASE n = 1 ->
           /\ Windowed /\ c = floor
           /\ backfill_cutoff' \in {floor, backfill_cutoff}
           /\ outside' = Mails
      [] n = 0 /\ (backfill_cutoff # NoToken \/ ~Windowed) ->
           /\ c = IF Windowed THEN backfill_cutoff ELSE 0
           /\ UNCHANGED <<backfill_cutoff, outside>>
      [] OTHER ->
           /\ c = floor
           /\ backfill_cutoff' = floor
           /\ outside' = outside \cup {e \in Mails : e < floor}

\* The bootstrap queries the first page, oldest first.
Bootstrap(p) ==
    /\ pc[p] = "changes" /\ cur[p] = NoToken
    /\ \E c \in 0..floor, n \in 0..1 :
           /\ Faults(n)
           /\ ResolveCutoff(c, n)
           /\ ids' = [ids EXCEPT ![p] = Page(0, c)]
           /\ pc' = [pc EXCEPT ![p] =
                  IF Cardinality(Page(0, c)) = SyncLimit THEN "register"
                  ELSE "state"]
    /\ UNCHANGED <<changes, backfill_position, destroyed_emails, cur, next,
                   more, bridged, failed, shifted, gap, stranded>>
    /\ PollFrame

\* A full page registers the position the backfill starts from, in time or
\* when the backfill task has ended.  When the save fails, the bootstrap goes
\* on without a walk.
RegisterPosition(p) ==
    /\ pc[p] = "register"
    /\ \/ /\ backfill_position' = SyncLimit
          /\ stranded' = (stranded \/ bpc \in {"anchor", "done"})
          /\ UNCHANGED <<failed, faults>>
       \/ /\ Fault
          /\ failed' = failed \cup (InWindow(Cutoff) \ ids[p])
          /\ UNCHANGED <<backfill_position, stranded>>
    /\ pc' = [pc EXCEPT ![p] = "state"]
    /\ UNCHANGED <<changes, backfill_cutoff, destroyed_emails, cur, next,
                   more, ids, bridged, excuses>>
    /\ PollFrame

\* Email/get without ids: the change token that belongs to the bootstrap.
BootstrapState(p) ==
    /\ pc[p] = "state"
    /\ next' = [next EXCEPT ![p] = log]
    /\ more' = [more EXCEPT ![p] = FALSE]
    /\ pc' = [pc EXCEPT ![p] = "process"]
    /\ UNCHANGED <<state, cur, ids, bridged, failed, excuses, faults,
                   stranded>>
    /\ PollFrame

\* process_email for the mails of F fails, and is only logged; the others
\* are bridged, unless they are gone or known to be.
ProcessEmails(mails, F) ==
    /\ bridged' = bridged \cup (((mails \cap Live) \ destroyed_emails) \ F)
    /\ failed' = failed \cup F
    /\ F = {} \/ (Cardinality(F) = 1 /\ F \subseteq mails \cap Live)

\* Mutant: the mails of the page stay in the list.
ProcessAgain(p) ==
    /\ pc[p] = "process"
    /\ ProcessEmails(ids[p], {})
    /\ pc' = [pc EXCEPT ![p] = IF more[p] THEN "changes" ELSE "save"]
    /\ cur' = [cur EXCEPT ![p] = IF more[p] THEN next[p] ELSE NoToken]
    /\ UNCHANGED <<state, ids, next, more, excuses, stranded, faults>>
    /\ PollFrame

\* fetch_emails and process_email for each mail of the page, then the next
\* page or the end of the loop.
ProcessPage(p) ==
    /\ pc[p] = "process"
    /\ \E F \in SUBSET ids[p] :
           /\ ProcessEmails(ids[p], F)
           /\ IF F = {} THEN UNCHANGED faults
              ELSE Fault
    /\ ids' = [ids EXCEPT ![p] = {}]
    /\ pc' = [pc EXCEPT ![p] = IF more[p] THEN "changes" ELSE "save"]
    /\ cur' = [cur EXCEPT ![p] = IF more[p] THEN next[p] ELSE NoToken]
    /\ UNCHANGED <<state, next, more, excuses, stranded>>
    /\ PollFrame

\* The token is saved once, at the end.
SaveToken(p) ==
    /\ pc[p] = "save"
    /\ changes' = next[p]
    /\ pc' = [pc EXCEPT ![p] = "idle"]
    /\ next' = [next EXCEPT ![p] = 0]
    /\ UNCHANGED <<backfill_position, backfill_cutoff, destroyed_emails, cur,
                   more, ids, bridged, failed, excuses, faults, stranded>>
    /\ PollFrame

\* A call of the poll fails: it ends with nothing saved.
PollFails(p) ==
    /\ pc[p] \notin {"idle", "register"}
    /\ Fault
    /\ pc' = [pc EXCEPT ![p] = "idle"]
    /\ cur' = [cur EXCEPT ![p] = NoToken]
    /\ next' = [next EXCEPT ![p] = 0]
    /\ more' = [more EXCEPT ![p] = FALSE]
    /\ ids' = [ids EXCEPT ![p] = {}]
    /\ UNCHANGED <<server, state, bridged, push, walk, failed, excuses,
                   stranded>>

-----------------------------------------------------------------------------
(* run_backfill_loop and backfill_batch.                                   *)

BackfillFrame == UNCHANGED <<server, changes, destroyed_emails, push, poll>>

\* The first of its two reads: has the initial sync happened?
CheckInitial ==
    /\ bpc = "check"
    /\ initial' = (changes # NoToken)
    /\ bpc' = "position"
    /\ UNCHANGED <<backfill_position, backfill_cutoff, bridged, pos, batch,
                   failed, excuses, stranded, faults>>
    /\ BackfillFrame

\* The second: without a position the task ends, or looks again later.
ReadPosition ==
    /\ bpc = "position"
    /\ IF backfill_position = NoToken
       THEN /\ bpc' = IF initial THEN "done" ELSE "check"
            /\ UNCHANGED pos
       ELSE /\ bpc' = "query"
            /\ pos' = backfill_position
    /\ initial' = FALSE
    /\ UNCHANGED <<backfill_position, backfill_cutoff, bridged, batch,
                   failed, excuses, stranded, faults>>
    /\ BackfillFrame

\* Either read fails: taken for "not yet" and for "no position".
ReadFails ==
    /\ bpc \in {"check", "position"}
    /\ Fault
    /\ bpc' = IF bpc = "check" THEN "position"
              ELSE IF initial THEN "done" ELSE "check"
    /\ stranded' = (stranded \/ /\ bpc = "position" /\ initial
                                /\ backfill_position # NoToken)
    /\ initial' = FALSE
    /\ UNCHANGED <<backfill_position, backfill_cutoff, bridged, pos, batch,
                   failed, excuses>>
    /\ BackfillFrame

QueryBatch ==
    /\ bpc = "query"
    /\ \E c \in 0..floor, n \in 0..1 :
           /\ Faults(n)
           /\ ResolveCutoff(c, n)
           /\ batch' = Page(pos, c)
           /\ bpc' = IF Page(pos, c) = {} THEN "finish" ELSE "process"
    /\ UNCHANGED <<backfill_position, initial, bridged, pos, failed, shifted,
                   gap, stranded>>
    /\ BackfillFrame

ProcessBatch ==
    /\ bpc = "process"
    /\ \E F \in SUBSET batch :
           /\ ProcessEmails(batch, F)
           /\ IF F = {} THEN UNCHANGED faults
              ELSE Fault
    /\ bpc' = IF Cardinality(batch) < SyncLimit THEN "finish" ELSE "save"
    /\ UNCHANGED <<backfill_position, backfill_cutoff, initial, pos, batch,
                   excuses, stranded>>
    /\ BackfillFrame

SavePosition ==
    /\ bpc = "save"
    /\ backfill_position' = pos + Cardinality(batch)
    /\ bpc' = "check" /\ pos' = 0 /\ batch' = {}
    /\ UNCHANGED <<backfill_cutoff, initial, bridged, failed, excuses,
                   stranded, faults>>
    /\ BackfillFrame

\* The walk is over: the position is deleted, unless the store fails.
DropPosition ==
    /\ bpc = "finish"
    /\ \E n \in 0..1 :
           /\ Faults(n)
           /\ backfill_position' = IF n = 1 THEN backfill_position
                                   ELSE NoToken
    /\ bpc' = "anchor" /\ pos' = 0 /\ batch' = {}
    /\ UNCHANGED <<backfill_cutoff, initial, bridged, failed, excuses,
                   stranded>>
    /\ BackfillFrame

\* Then the window's anchor, and the task ends.  A position that is there all
\* the same, left behind or registered by a bootstrap, or about to be, may be
\* walked on from in another window.
DropAnchor ==
    /\ bpc = "anchor"
    /\ \E n \in 0..1 :
           /\ Faults(n)
           /\ backfill_cutoff' = IF n = 1 THEN backfill_cutoff ELSE NoToken
    /\ outside' = IF /\ Windowed /\ WalkedTo # {}
                     /\ backfill_cutoff' = NoToken
                  THEN Mails ELSE outside
    /\ bpc' = "done"
    /\ UNCHANGED <<backfill_position, initial, bridged, pos, batch, failed,
                   shifted, gap, stranded>>
    /\ BackfillFrame

\* A failed batch is tried again from the saved position.
BackfillFails ==
    /\ bpc \in {"query", "process", "save"}
    /\ Fault
    /\ bpc' = "check" /\ pos' = 0 /\ batch' = {}
    /\ UNCHANGED <<backfill_position, backfill_cutoff, initial, bridged,
                   failed, excuses, stranded>>
    /\ BackfillFrame

\* The session starts again, after a crash or a login: a first poll, a new
\* backfill task, no stream.
NewSession ==
    /\ Fault
    /\ nudge' = TRUE /\ stream' = FALSE /\ unpushed' = FALSE
    /\ pc' = [p \in Pollers |-> "idle"]
    /\ cur' = [p \in Pollers |-> NoToken]
    /\ next' = [p \in Pollers |-> 0]
    /\ more' = [p \in Pollers |-> FALSE]
    /\ ids' = [p \in Pollers |-> {}]
    /\ stranded' = FALSE
    /\ bpc' = "check" /\ initial' = FALSE /\ pos' = 0 /\ batch' = {}
    /\ UNCHANGED <<server, state, bridged, failed, excuses>>

-----------------------------------------------------------------------------
PollStep(p) ==
    \/ GetChanges(p)
    \/ Bootstrap(p) \/ RegisterPosition(p) \/ BootstrapState(p)
    \/ ProcessPage(p) \/ SaveToken(p)

BackfillStep ==
    \/ CheckInitial \/ ReadPosition \/ QueryBatch \/ ProcessBatch
    \/ SavePosition \/ DropPosition \/ DropAnchor

MailServer ==
    \/ \E e \in Mails : Arrive(e) \/ Destroy(e)
    \/ Tick

Next ==
    \/ MailServer
    \/ Subscribe \/ Push \/ StreamEnds \/ Heartbeat
    \/ DebouncedPoll \/ \E p \in Commands : PollNow(p)
    \/ \E p \in Pollers : \/ PollStep(p) \/ CannotCalculateChanges(p)
                          \/ PollFails(p)
    \/ BackfillStep \/ ReadFails \/ BackfillFails
    \/ NewSession

Spec == Init /\ [][Next]_vars

\* The runtime polls its tasks and their timers fire; in the end a stream
\* lives for an hour.  Nobody has to type `sync`.
Fairness ==
    /\ WF_vars(Subscribe) /\ WF_vars(Push) /\ WF_vars(Heartbeat)
    /\ WF_vars(DebouncedPoll)
    /\ \A p \in Pollers : WF_vars(PollStep(p))
    /\ WF_vars(BackfillStep)

FairSpec == Spec /\ Fairness

-----------------------------------------------------------------------------
(* Properties.                                                             *)

ServerOK ==
    /\ log \in Nat /\ floor \in Nat
    /\ born \in [Mails -> Nat] /\ died \in [Mails -> Nat]

StoreOK ==
    /\ {changes, backfill_position, backfill_cutoff} \subseteq
           Nat \cup {NoToken}
    /\ destroyed_emails \subseteq Mails /\ bridged \subseteq Mails

PushOK == {stream, unpushed, nudge} \subseteq BOOLEAN

PollsOK ==
    /\ pc \in [Pollers -> {"idle", "changes", "register", "state",
                           "process", "save"}]
    /\ cur \in [Pollers -> Nat \cup {NoToken}]
    /\ next \in [Pollers -> Nat] /\ more \in [Pollers -> BOOLEAN]
    /\ ids \in [Pollers -> SUBSET Mails]
    /\ \A p \in Pollers :
           pc[p] \in {"idle", "save"} => ids[p] = {} /\ cur[p] = NoToken

WalkOK ==
    /\ bpc \in {"check", "position", "query", "process", "save", "finish",
                "anchor", "done"}
    /\ initial \in BOOLEAN /\ pos \in Nat /\ batch \subseteq Mails
    /\ bpc \in {"check", "position", "anchor", "done"}
           => batch = {} /\ pos = 0

HistoryOK ==
    /\ {failed, shifted, gap, outside} \subseteq SUBSET Mails
    /\ stranded \in BOOLEAN /\ faults \in 0..MaxFaults

\* Every variable keeps its type; between polls and between batches nothing
\* of the last one is left.
TypeOK == ServerOK /\ StoreOK /\ PushOK /\ PollsOK /\ WalkOK /\ HistoryOK

\* What a mail may have missed the bridge for.
Excused == failed \cup shifted \cup gap \cup outside

\* Whatever polls, walks and restarts overlap, a mail on the server
\* that is not bridged is ahead of the change token or ahead of the backfill
\* position; or its processing failed, a deletion moved it behind the walk,
\* it arrived just as a bootstrap or the walk read its last page, it is
\* older than the window, or the store failed under the window's anchor or
\* the first position (sync_emails, backfill_batch).
NoMailPassed ==
    \A e \in Live \ (bridged \cup Excused) :
        \/ changes = NoToken \/ born[e] > changes
        \/ /\ backfill_position # NoToken
           /\ Rank(e, Cutoff) >= backfill_position

\* Again and again the bridge has caught up: every mail on the server is
\* bridged or has one of the excuses above; a bootstrap that comes when the
\* backfill task has ended may leave the rest of the walk to the next session
\* (run_event_loop).  So no mail the server keeps is left out for ever.
MailIsBridged ==
    []<>(stranded \/ Live \subseteq bridged \cup Excused)

=============================================================================
