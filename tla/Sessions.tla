------------------------------ MODULE Sessions ------------------------------
(***************************************************************************)
(* The JMAP session of one user in the client manager: login, logout, the  *)
(* reconnect task of start-up, and the event loops they spawn and abort.   *)
(*                                                                         *)
(* Everything is keyed by the Matrix user id, so one user is enough.  An   *)
(* actor is a request being served (a bot command, or the provisioning of  *)
(* a configured user, which calls the same login) or Boot, the task of     *)
(* ClientManager::start, which holds the credentials it read at start-up.  *)
(* Every await of a session change ends a step.                            *)
(***************************************************************************)
EXTENDS Naturals, FiniteSets

CONSTANTS
    Handlers,     \* requests that can be served at the same time
    Boot,         \* the session task of start-up
    MaxLogins,    \* bound: credentials users type
    MaxLoops,     \* bound: event loops spawned
    MaxFaults,    \* bound: failed calls and cancelled requests
    MaxRestarts   \* bound: restarts of the bridge

ASSUME SessionAssumption ==
    /\ Boot \notin Handlers
    /\ MaxLogins \in Nat /\ MaxLoops \in Nat
    /\ MaxFaults \in Nat /\ MaxRestarts \in Nat

Actors == Handlers \cup {Boot}
Blank  == 0
NoLoop == 0

VARIABLES
    \* --- the store
    token,        \* users.jmap_token: the credentials saved, or Blank
    \* --- the client manager
    clients,      \* the credentials of the client in the map, or Blank
    handle,       \* the loop whose handle is in poller_handles, or NoLoop
    \* --- the tasks
    loops,        \* event loops that run
    cred,         \* the credentials each loop was spawned with
    pc,           \* [Actors -> Steps]
    mine,         \* the credentials of a session start; Blank for a logout
    held,         \* the handle an actor has taken or not yet registered
    starting,     \* start-up has not reached the server yet
    \* --- history: never read by the code
    overlapped,   \* two session changes ran at once since the restart
    cut,          \* a session change stopped half-way since the restart
    issued, spawned, faults, restarts

tasks   == <<pc, mine, held>>
history == <<overlapped, cut>>
budget  == <<issued, spawned, faults, restarts>>

vars == <<token, clients, handle, loops, cred, tasks, starting, history,
          budget>>

Steps == {"idle", "connect", "save", "take", "await", "start", "register",
          "drop", "blank", "clear"}

Idle(a) == pc[a] = "idle"

Quiet == \A a \in Actors : Idle(a)

Goto(a, step) == pc' = [pc EXCEPT ![a] = step]

Leave(a) ==
    /\ Goto(a, "idle")
    /\ mine' = [mine EXCEPT ![a] = Blank]
    /\ held' = [held EXCEPT ![a] = NoLoop]

Fault == faults < MaxFaults /\ faults' = faults + 1

\* start() goes through the rows that have credentials: the task of start-up
\* begins with those of the store.
BootStep(a, t) == IF a = Boot /\ t # Blank THEN "connect" ELSE "idle"
BootCred(a, t) == IF a = Boot THEN t ELSE Blank

Init ==
    /\ token = Blank
    /\ clients = Blank /\ handle = NoLoop /\ loops = {}
    /\ cred = [l \in 1..MaxLoops |-> Blank]
    /\ pc = [a \in Actors |-> BootStep(a, Blank)]
    /\ mine = [a \in Actors |-> BootCred(a, Blank)]
    /\ held = [a \in Actors |-> NoLoop]
    /\ starting = FALSE
    /\ overlapped = FALSE /\ cut = FALSE
    /\ issued = 0 /\ spawned = 0 /\ faults = 0 /\ restarts = 0

-----------------------------------------------------------------------------
(* The requests.                                                           *)

\* A request is served once start-up is over, next to whatever still runs.
Serve(h) ==
    /\ Idle(h) /\ ~starting
    /\ overlapped' = (overlapped \/ ~Quiet)
    /\ UNCHANGED <<token, clients, handle, loops, cred, held, starting, cut,
                   spawned, faults, restarts>>

\* login: the credentials are those the user has just given.
Login(h) ==
    /\ Serve(h)
    /\ issued < MaxLogins /\ issued' = issued + 1
    /\ mine' = [mine EXCEPT ![h] = issued + 1]
    /\ Goto(h, "connect")

\* LogoutCommand: answers "not logged in" unless there is a client or a
\* stored user; otherwise ClientManager::logout, which starts with
\* abort_poller.
Logout(h) ==
    /\ Serve(h)
    /\ clients # Blank \/ token # Blank
    /\ Goto(h, "take")
    /\ UNCHANGED <<mine, issued>>

-----------------------------------------------------------------------------
(* Connecting.                                                             *)

\* connect_jmap succeeds: login saves the user first, spawn_user goes on to
\* abort_poller.
Connect(a) ==
    /\ pc[a] = "connect"
    /\ Goto(a, IF a = Boot THEN "take" ELSE "save")
    /\ UNCHANGED <<token, clients, handle, loops, cred, mine, held, starting,
                   history, budget>>

\* Mutant: the reconnect task gives up after a failure.
ConnectGivesUp(a) ==
    /\ pc[a] = "connect" /\ Fault
    /\ Leave(a)
    /\ starting' = (starting /\ a # Boot)
    /\ UNCHANGED <<token, clients, handle, loops, cred, history, issued,
                   spawned, restarts>>

\* connect_jmap fails: login returns the error and nothing has changed; the
\* start-up attempt becomes a background task that sleeps and tries again
\* with the credentials it has, and start-up goes on.
ConnectFails(a) ==
    /\ pc[a] = "connect" /\ Fault
    /\ IF a = Boot
         THEN starting' = FALSE /\ UNCHANGED tasks
         ELSE Leave(a) /\ UNCHANGED starting
    /\ UNCHANGED <<token, clients, handle, loops, cred, history, issued,
                   spawned, restarts>>

\* save_user, then the primary email of the account (best effort: it only
\* labels the email space).
SaveUser(a) ==
    /\ pc[a] = "save"
    /\ token' = mine[a]
    /\ Goto(a, "take")
    /\ UNCHANGED <<clients, handle, loops, cred, mine, held, starting,
                   history, budget>>

\* save_user fails: login returns the error.
SaveUserFails(a) ==
    /\ pc[a] = "save" /\ Fault
    /\ Leave(a)
    /\ UNCHANGED <<token, clients, handle, loops, cred, starting, history,
                   issued, spawned, restarts>>

-----------------------------------------------------------------------------
(* Replacing the event loop.                                               *)

\* What follows abort_poller: a session start, or the rest of logout.
Aborted(a) == IF mine[a] = Blank THEN "drop" ELSE "start"

\* Mutant: the handle is dropped without aborting the loop.
TakeDetaches(a) ==
    /\ pc[a] = "take"
    /\ handle' = NoLoop
    /\ Goto(a, Aborted(a))
    /\ UNCHANGED <<token, clients, loops, cred, mine, held, starting,
                   history, budget>>

\* abort_poller: the handle is removed under the write lock, and aborted.
TakeHandle(a) ==
    /\ pc[a] = "take"
    /\ handle' = NoLoop
    /\ held' = [held EXCEPT ![a] = handle]
    /\ Goto(a, IF handle = NoLoop THEN Aborted(a) ELSE "await")
    /\ UNCHANGED <<token, clients, loops, cred, mine, starting, history,
                   budget>>

\* The aborted loop has ended at its next await point; so have its poll and
\* backfill tasks, whose guards it dropped.
Awaited(a) ==
    /\ pc[a] = "await"
    /\ loops' = loops \ {held[a]}
    /\ held' = [held EXCEPT ![a] = NoLoop]
    /\ Goto(a, Aborted(a))
    /\ UNCHANGED <<token, clients, handle, cred, mine, starting, history,
                   budget>>

\* Mutant: the event loop is started and the client map keeps the old
\* client.
StartKeepsClient(a) ==
    /\ pc[a] = "start"
    /\ spawned < MaxLoops /\ spawned' = spawned + 1
    /\ loops' = loops \cup {spawned + 1}
    /\ cred' = [cred EXCEPT ![spawned + 1] = mine[a]]
    /\ held' = [held EXCEPT ![a] = spawned + 1]
    /\ Goto(a, "register")
    /\ UNCHANGED <<token, clients, handle, mine, starting, history, issued,
                   faults, restarts>>

\* start_session: the client enters the map and the loop is spawned.
StartSession(a) ==
    /\ pc[a] = "start"
    /\ clients' = mine[a]
    /\ spawned < MaxLoops /\ spawned' = spawned + 1
    /\ loops' = loops \cup {spawned + 1}
    /\ cred' = [cred EXCEPT ![spawned + 1] = mine[a]]
    /\ held' = [held EXCEPT ![a] = spawned + 1]
    /\ Goto(a, "register")
    /\ UNCHANGED <<token, handle, mine, starting, history, issued, faults,
                   restarts>>

\* Mutant: the task is left with the handle it has registered.
RegisterAndHold(a) ==
    /\ pc[a] = "register"
    /\ handle' = held[a]
    /\ Goto(a, "idle")
    /\ starting' = (starting /\ a # Boot)
    /\ UNCHANGED <<token, clients, loops, cred, mine, held, history, budget>>

\* The handle is registered under the write lock.  A handle it replaces is
\* dropped, which detaches its loop.
Register(a) ==
    /\ pc[a] = "register"
    /\ handle' = held[a]
    /\ Leave(a)
    /\ starting' = (starting /\ a # Boot)
    /\ UNCHANGED <<token, clients, loops, cred, history, budget>>

-----------------------------------------------------------------------------
(* The rest of logout.                                                     *)

\* Mutant: logout leaves the client in the map.
DropNothing(a) ==
    /\ pc[a] = "drop"
    /\ Goto(a, "blank")
    /\ UNCHANGED <<token, clients, handle, loops, cred, mine, held, starting,
                   history, budget>>

DropClient(a) ==
    /\ pc[a] = "drop"
    /\ clients' = Blank
    /\ Goto(a, "blank")
    /\ UNCHANGED <<token, handle, loops, cred, mine, held, starting, history,
                   budget>>

\* clear_user_credentials blanks the token in place.
BlankCredentials(a) ==
    /\ pc[a] = "blank"
    /\ token' = Blank
    /\ Goto(a, "clear")
    /\ UNCHANGED <<clients, handle, loops, cred, mine, held, starting,
                   history, budget>>

\* The store refuses the update: "Logout failed", with the session stopped
\* and the credentials kept.
BlankFails(a) ==
    /\ pc[a] = "blank" /\ Fault
    /\ cut' = TRUE
    /\ Leave(a)
    /\ UNCHANGED <<token, clients, handle, loops, cred, starting, overlapped,
                   issued, spawned, restarts>>

\* clear_outbound_queue, whether it succeeds or not (module OutboundQueue
\* has the queue).
ClearQueue(a) ==
    /\ pc[a] = "clear"
    /\ Leave(a)
    /\ UNCHANGED <<token, clients, handle, loops, cred, starting, history,
                   budget>>

-----------------------------------------------------------------------------
(* Faults of the process.                                                  *)

\* The homeserver closes the connection and the server drops the request at
\* an await.  An aborted loop still ends; a loop not yet registered goes on
\* without a handle.
Cancel(h) ==
    /\ ~Idle(h) /\ Fault
    /\ cut' = TRUE
    /\ loops' = IF pc[h] = "await" THEN loops \ {held[h]} ELSE loops
    /\ Leave(h)
    /\ UNCHANGED <<token, clients, handle, cred, starting, overlapped,
                   issued, spawned, restarts>>

\* A crash, or shutdown (which aborts every registered loop) and a start.
Restart ==
    /\ restarts < MaxRestarts /\ restarts' = restarts + 1
    /\ clients' = Blank /\ handle' = NoLoop /\ loops' = {}
    /\ pc' = [a \in Actors |-> BootStep(a, token)]
    /\ mine' = [a \in Actors |-> BootCred(a, token)]
    /\ held' = [a \in Actors |-> NoLoop]
    /\ starting' = (token # Blank)
    /\ overlapped' = FALSE /\ cut' = FALSE
    /\ UNCHANGED <<token, cred, issued, spawned, faults>>

Step(a) ==
    \/ Connect(a) \/ SaveUser(a)
    \/ TakeHandle(a) \/ Awaited(a) \/ StartSession(a) \/ Register(a)
    \/ DropClient(a) \/ BlankCredentials(a) \/ ClearQueue(a)

Next ==
    \/ \E h \in Handlers : Login(h) \/ Logout(h) \/ Cancel(h)
    \/ \E a \in Actors :
          \/ Step(a)
          \/ ConnectFails(a) \/ SaveUserFails(a) \/ BlankFails(a)
    \/ Restart

Spec == Init /\ [][Next]_vars

\* Every task is polled by the runtime until it ends; a request may never
\* come and no failure has to happen.
FairSpec == Spec /\ \A a \in Actors : WF_vars(Step(a))

-----------------------------------------------------------------------------
(* Properties.                                                             *)

FlagsOK == starting \in BOOLEAN /\ overlapped \in BOOLEAN /\ cut \in BOOLEAN

ScalarsOK ==
    /\ token \in 0..MaxLogins /\ clients \in 0..MaxLogins
    /\ handle \in 0..MaxLoops /\ loops \subseteq 1..MaxLoops
    /\ cred \in [1..MaxLoops -> 0..MaxLogins]
    /\ issued \in 0..MaxLogins /\ spawned \in 0..MaxLoops
    /\ faults \in 0..MaxFaults /\ restarts \in 0..MaxRestarts

TasksOK ==
    /\ pc \in [Actors -> Steps]
    /\ mine \in [Actors -> 0..MaxLogins]
    /\ held \in [Actors -> 0..MaxLoops]

HandsOK ==
    \A a \in Actors : held[a] # NoLoop <=> pc[a] \in {"await", "register"}

\* Types; and a task keeps a handle only where the code holds one.
TypeOK == FlagsOK /\ ScalarsOK /\ TasksOK /\ HandsOK

\* As long as session changes neither overlap nor stop half-way, re-login
\* cancels the old event loop before it spawns a new one (login,
\* abort_poller): no two loops ever poll for the user.
SinglePoller ==
    ~overlapped /\ ~cut => Cardinality(loops) <= 1

\* Once every session change is over, under the same condition, the store,
\* the client map and the event loop agree: a client and one registered loop
\* with the saved credentials, or none of them (login, spawn_user, logout).
SessionConsistent ==
    ~overlapped /\ ~cut /\ Quiet =>
        /\ clients = token
        /\ handle = NoLoop <=> token = Blank
        /\ loops = {handle} \ {NoLoop}
        /\ handle # NoLoop => cred[handle] = token

\* However session changes overlap, the bridge never shows a client (status,
\* sync and the submission worker read the map) with no event loop behind
\* it, once they are over; only a cancelled request leaves one.
NoDeadClient ==
    clients # Blank /\ Quiet /\ ~cut => loops # {}

\* Credentials in the store lead to a session, whatever number of
\* connections fail first (start, the reconnect task), unless the user logs
\* out or a session change stops half-way.
SessionResumes ==
    (token # Blank) ~> (clients # Blank \/ token = Blank \/ cut)

\* What Store::get_all_users says: a session the user explicitly ended is
\* not reconnected.
LogoutIsFinal == Quiet /\ token = Blank /\ ~cut => loops = {}
=============================================================================
