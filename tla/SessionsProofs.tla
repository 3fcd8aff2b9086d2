--------------------------- MODULE SessionsProofs ---------------------------
(***************************************************************************)
(* Proofs about Sessions, for any number of requests, logins, loops,       *)
(* faults and restarts.                                                    *)
(***************************************************************************)
EXTENDS Sessions, FiniteSetTheorems, TLAPS

-----------------------------------------------------------------------------
(* Types.                                                                  *)

LEMMA TypeInit == Init => TypeOK
<1>1. Init => FlagsOK
  BY DEF Init, FlagsOK
<1>2. Init => ScalarsOK /\ TasksOK /\ HandsOK
  BY SessionAssumption
  DEF Init, ScalarsOK, TasksOK, HandsOK, BootStep, BootCred, Steps, Actors,
      Blank, NoLoop
<1> QED
  BY <1>1, <1>2 DEF TypeOK

LEMMA FlagsNext == FlagsOK /\ [Next]_vars => FlagsOK'
<1> SUFFICES ASSUME FlagsOK, [Next]_vars PROVE FlagsOK'
  OBVIOUS
<1> USE DEF FlagsOK, history
<1>1. CASE UNCHANGED vars
  BY <1>1, Zenon DEF vars
<1>2. ASSUME NEW h \in Handlers, Login(h) \/ Logout(h) \/ Cancel(h)
      PROVE  FlagsOK'
  BY <1>2, Zenon DEF Login, Logout, Cancel, Serve
<1>3. ASSUME NEW a \in Actors,
             ConnectFails(a) \/ SaveUserFails(a) \/ BlankFails(a)
      PROVE  FlagsOK'
  BY <1>3, Zenon DEF ConnectFails, SaveUserFails, BlankFails
<1>4. ASSUME NEW a \in Actors, Step(a) PROVE FlagsOK'
  BY <1>4, Zenon
  DEF Step, Connect, SaveUser, TakeHandle, Awaited, StartSession, Register,
      DropClient, BlankCredentials, ClearQueue
<1>5. CASE Restart
  BY <1>5, Zenon DEF Restart
<1> QED
  BY <1>1, <1>2, <1>3, <1>4, <1>5, Zenon DEF Next

LEMMA ScalarsNext == ScalarsOK /\ TasksOK /\ [Next]_vars => ScalarsOK'
<1> SUFFICES ASSUME ScalarsOK, TasksOK, [Next]_vars PROVE ScalarsOK'
  OBVIOUS
<1> USE SessionAssumption DEF ScalarsOK, TasksOK, Blank, NoLoop
<1>1. CASE UNCHANGED vars
  BY <1>1 DEF vars, tasks, budget
<1>2. ASSUME NEW h \in Handlers, Login(h) PROVE ScalarsOK'
  BY <1>2 DEF Login, Serve, Idle, Actors
<1>3. ASSUME NEW h \in Handlers, Logout(h) PROVE ScalarsOK'
  BY <1>3 DEF Logout, Serve, Idle, Actors
<1>4. ASSUME NEW h \in Handlers, Cancel(h) PROVE ScalarsOK'
  <2>1. loops' \subseteq loops
    BY <1>4 DEF Cancel
  <2>2. faults' \in 0..MaxFaults
    BY <1>4 DEF Cancel, Fault
  <2> QED
    BY <1>4, <2>1, <2>2 DEF Cancel
<1>5. ASSUME NEW a \in Actors, Connect(a) PROVE ScalarsOK'
  BY <1>5 DEF Connect, budget
<1>6. ASSUME NEW a \in Actors, SaveUser(a) PROVE ScalarsOK'
  BY <1>6 DEF SaveUser, budget
<1>7. ASSUME NEW a \in Actors, TakeHandle(a) PROVE ScalarsOK'
  BY <1>7 DEF TakeHandle, Aborted, budget
<1>8. ASSUME NEW a \in Actors, Awaited(a) PROVE ScalarsOK'
  BY <1>8 DEF Awaited, Aborted, budget
<1>9. ASSUME NEW a \in Actors, StartSession(a) PROVE ScalarsOK'
  BY <1>9 DEF StartSession
<1>10. ASSUME NEW a \in Actors, Register(a) PROVE ScalarsOK'
  BY <1>10 DEF Register, Leave, budget
<1>11. ASSUME NEW a \in Actors, DropClient(a) PROVE ScalarsOK'
  BY <1>11 DEF DropClient, budget
<1>12. ASSUME NEW a \in Actors, BlankCredentials(a) PROVE ScalarsOK'
  BY <1>12 DEF BlankCredentials, budget
<1>13. ASSUME NEW a \in Actors, ClearQueue(a) PROVE ScalarsOK'
  BY <1>13 DEF ClearQueue, Leave, budget
<1>14. ASSUME NEW a \in Actors, ConnectFails(a) PROVE ScalarsOK'
  BY <1>14 DEF ConnectFails, Fault, Leave, tasks
<1>15. ASSUME NEW a \in Actors, SaveUserFails(a) PROVE ScalarsOK'
  BY <1>15 DEF SaveUserFails, Fault, Leave
<1>16. ASSUME NEW a \in Actors, BlankFails(a) PROVE ScalarsOK'
  BY <1>16 DEF BlankFails, Fault, Leave
<1>17. CASE Restart
  BY <1>17 DEF Restart, BootStep, BootCred, Actors
<1> QED
  BY <1>1, <1>2, <1>3, <1>4, <1>5, <1>6, <1>7, <1>8, <1>9,
     <1>10, <1>11, <1>12, <1>13, <1>14, <1>15, <1>16, <1>17
  DEF Next, Step

LEMMA TasksNext == ScalarsOK /\ TasksOK /\ [Next]_vars => TasksOK'
<1> SUFFICES ASSUME ScalarsOK, TasksOK, [Next]_vars PROVE TasksOK'
  OBVIOUS
<1> USE SessionAssumption
  DEF ScalarsOK, TasksOK, Goto, Steps, Blank, NoLoop
<1>1. CASE UNCHANGED vars
  BY <1>1 DEF vars, tasks, budget
<1>2. ASSUME NEW h \in Handlers, Login(h) PROVE TasksOK'
  BY <1>2 DEF Login, Serve, Idle, Actors
<1>3. ASSUME NEW h \in Handlers, Logout(h) PROVE TasksOK'
  BY <1>3 DEF Logout, Serve, Idle, Actors
<1>4. ASSUME NEW h \in Handlers, Cancel(h) PROVE TasksOK'
  BY <1>4 DEF Cancel, Fault, Leave, Idle, Actors
<1>5. ASSUME NEW a \in Actors, Connect(a) PROVE TasksOK'
  BY <1>5 DEF Connect, budget
<1>6. ASSUME NEW a \in Actors, SaveUser(a) PROVE TasksOK'
  BY <1>6 DEF SaveUser, budget
<1>7. ASSUME NEW a \in Actors, TakeHandle(a) PROVE TasksOK'
  BY <1>7 DEF TakeHandle, Aborted, budget
<1>8. ASSUME NEW a \in Actors, Awaited(a) PROVE TasksOK'
  BY <1>8 DEF Awaited, Aborted, budget
<1>9. ASSUME NEW a \in Actors, StartSession(a) PROVE TasksOK'
  BY <1>9 DEF StartSession
<1>10. ASSUME NEW a \in Actors, Register(a) PROVE TasksOK'
  BY <1>10 DEF Register, Leave, budget
<1>11. ASSUME NEW a \in Actors, DropClient(a) PROVE TasksOK'
  BY <1>11 DEF DropClient, budget
<1>12. ASSUME NEW a \in Actors, BlankCredentials(a) PROVE TasksOK'
  BY <1>12 DEF BlankCredentials, budget
<1>13. ASSUME NEW a \in Actors, ClearQueue(a) PROVE TasksOK'
  BY <1>13 DEF ClearQueue, Leave, budget
<1>14. ASSUME NEW a \in Actors, ConnectFails(a) PROVE TasksOK'
  <2>1. CASE a = Boot
    BY <1>14, <2>1 DEF ConnectFails, tasks
  <2>2. CASE a # Boot
    <3>1. Leave(a)
      BY <1>14, <2>2 DEF ConnectFails
    <3> QED
      BY <3>1 DEF Leave
  <2> QED
    BY <2>1, <2>2
<1>15. ASSUME NEW a \in Actors, SaveUserFails(a) PROVE TasksOK'
  BY <1>15 DEF SaveUserFails, Fault, Leave
<1>16. ASSUME NEW a \in Actors, BlankFails(a) PROVE TasksOK'
  BY <1>16 DEF BlankFails, Fault, Leave
<1>17. CASE Restart
  BY <1>17 DEF Restart, BootStep, BootCred, Actors
<1> QED
  BY <1>1, <1>2, <1>3, <1>4, <1>5, <1>6, <1>7, <1>8, <1>9,
     <1>10, <1>11, <1>12, <1>13, <1>14, <1>15, <1>16, <1>17
  DEF Next, Step

LEMMA HandsNext == TypeOK /\ [Next]_vars => HandsOK'
<1> SUFFICES ASSUME TypeOK, [Next]_vars PROVE HandsOK'
  OBVIOUS
<1> USE SessionAssumption
  DEF TypeOK, ScalarsOK, TasksOK, HandsOK, Goto, Steps, Blank, NoLoop
<1>1. CASE UNCHANGED vars
  BY <1>1 DEF vars, tasks, budget
<1>2. ASSUME NEW h \in Handlers, Login(h) PROVE HandsOK'
  BY <1>2 DEF Login, Serve, Idle, Actors
<1>3. ASSUME NEW h \in Handlers, Logout(h) PROVE HandsOK'
  BY <1>3 DEF Logout, Serve, Idle, Actors
<1>4. ASSUME NEW h \in Handlers, Cancel(h) PROVE HandsOK'
  BY <1>4 DEF Cancel, Fault, Leave, Idle, Actors
<1>5. ASSUME NEW a \in Actors, Connect(a) PROVE HandsOK'
  BY <1>5 DEF Connect, budget
<1>6. ASSUME NEW a \in Actors, SaveUser(a) PROVE HandsOK'
  BY <1>6 DEF SaveUser, budget
<1>7. ASSUME NEW a \in Actors, TakeHandle(a) PROVE HandsOK'
  BY <1>7 DEF TakeHandle, Aborted, budget
<1>8. ASSUME NEW a \in Actors, Awaited(a) PROVE HandsOK'
  BY <1>8 DEF Awaited, Aborted, budget
<1>9. ASSUME NEW a \in Actors, StartSession(a) PROVE HandsOK'
  BY <1>9 DEF StartSession
<1>10. ASSUME NEW a \in Actors, Register(a) PROVE HandsOK'
  BY <1>10 DEF Register, Leave, budget
<1>11. ASSUME NEW a \in Actors, DropClient(a) PROVE HandsOK'
  BY <1>11 DEF DropClient, budget
<1>12. ASSUME NEW a \in Actors, BlankCredentials(a) PROVE HandsOK'
  BY <1>12 DEF BlankCredentials, budget
<1>13. ASSUME NEW a \in Actors, ClearQueue(a) PROVE HandsOK'
  BY <1>13 DEF ClearQueue, Leave, budget
<1>14. ASSUME NEW a \in Actors, ConnectFails(a) PROVE HandsOK'
  BY <1>14 DEF ConnectFails, Fault, Leave, tasks
<1>15. ASSUME NEW a \in Actors, SaveUserFails(a) PROVE HandsOK'
  BY <1>15 DEF SaveUserFails, Fault, Leave
<1>16. ASSUME NEW a \in Actors, BlankFails(a) PROVE HandsOK'
  BY <1>16 DEF BlankFails, Fault, Leave
<1>17. CASE Restart
  BY <1>17 DEF Restart, BootStep, BootCred, Actors
<1> QED
  BY <1>1, <1>2, <1>3, <1>4, <1>5, <1>6, <1>7, <1>8, <1>9,
     <1>10, <1>11, <1>12, <1>13, <1>14, <1>15, <1>16, <1>17
  DEF Next, Step

\* Every variable keeps its type, and a task has a handle in hand exactly
\* where the code holds one (abort_poller, start_session).
THEOREM TypeCorrect == Spec => []TypeOK
<1>1. TypeOK /\ [Next]_vars => TypeOK'
  BY FlagsNext, ScalarsNext, TasksNext, HandsNext DEF TypeOK
<1> QED
  BY <1>1, TypeInit, PTL DEF Spec

-----------------------------------------------------------------------------
(* A client has an event loop.                                             *)

\* A client without a loop is about to get one, or to be dropped.
ClientInv ==
    clients # Blank /\ ~cut
        => loops # {} \/ \E a \in Actors : pc[a] \in {"start", "drop"}

LEMMA ClientNext == TypeOK /\ ClientInv /\ [Next]_vars => ClientInv'
<1> SUFFICES ASSUME TypeOK, ClientInv, [Next]_vars PROVE ClientInv'
  OBVIOUS
<1> USE DEF TypeOK, ScalarsOK, TasksOK, HandsOK, ClientInv, Goto, Blank, NoLoop
<1>1. CASE UNCHANGED vars
  BY <1>1 DEF vars, tasks, history, budget
<1>2. ASSUME NEW h \in Handlers, Login(h) \/ Logout(h) PROVE ClientInv'
  BY <1>2 DEF Login, Logout, Serve, Idle, Actors
<1>3. ASSUME NEW h \in Handlers, Cancel(h) PROVE ClientInv'
  BY <1>3 DEF Cancel
<1>4. ASSUME NEW a \in Actors,
             ConnectFails(a) \/ SaveUserFails(a) \/ BlankFails(a)
      PROVE  ClientInv'
  BY <1>4 DEF ConnectFails, SaveUserFails, BlankFails, Leave, tasks, history
<1>5. ASSUME NEW a \in Actors, Connect(a) \/ SaveUser(a) \/ TakeHandle(a)
      PROVE  ClientInv'
  BY <1>5 DEF Connect, SaveUser, TakeHandle, history
<1>6. ASSUME NEW a \in Actors, Awaited(a) PROVE ClientInv'
  BY <1>6 DEF Awaited, Aborted, history
<1>7. ASSUME NEW a \in Actors, StartSession(a) PROVE ClientInv'
  BY <1>7 DEF StartSession, history
<1>8. ASSUME NEW a \in Actors,
             Register(a) \/ DropClient(a) \/ BlankCredentials(a)
             \/ ClearQueue(a)
      PROVE  ClientInv'
  BY <1>8 DEF Register, DropClient, BlankCredentials, ClearQueue, Leave,
              history
<1>9. CASE Restart
  BY <1>9 DEF Restart
<1> QED
  BY <1>1, <1>2, <1>3, <1>4, <1>5, <1>6, <1>7, <1>8, <1>9 DEF Next, Step

\* However session changes overlap, the bridge never shows a client with no
\* event loop behind it once they are over (login, logout, spawn_user).
THEOREM ClientsAreAlive == Spec => []NoDeadClient
<1>1. Init => ClientInv
  BY DEF Init, ClientInv
<1>2. ClientInv => NoDeadClient
  BY DEF ClientInv, NoDeadClient, Quiet, Idle
<1> QED
  BY <1>1, <1>2, ClientNext, TypeCorrect, PTL DEF Spec
-----------------------------------------------------------------------------
(* Session changes that neither overlap nor stop half-way.                 *)

\* The credentials a task carries: a session start has some, a logout and an
\* idle task have none.
MineInv ==
    \A a \in Actors :
        /\ pc[a] \in {"idle", "drop", "blank", "clear"} => mine[a] = Blank
        /\ pc[a] \in {"connect", "save", "start", "register"}
              => mine[a] # Blank

\* Without overlap at most one task is at work.
AloneInv ==
    ~overlapped =>
        \A a, b \in Actors : ~Idle(a) /\ ~Idle(b) => a = b

\* Nothing is half done: store, client map and event loop agree.
Settled ==
    /\ clients = token
    /\ handle = NoLoop <=> token = Blank
    /\ loops = {handle} \ {NoLoop}
    /\ handle # NoLoop => cred[handle] = token

\* What is true of the session when the one task at work is at a step.
Stage(a) ==
    /\ pc[a] = "connect" =>
         IF a = Boot
           THEN mine[a] = token /\ handle = NoLoop /\ loops = {}
           ELSE Settled
    /\ pc[a] = "save" => a # Boot /\ Settled
    /\ pc[a] = "take" =>
         /\ loops = {handle} \ {NoLoop}
         /\ mine[a] \in {Blank, token}
    /\ pc[a] = "await" =>
         /\ handle = NoLoop /\ loops = {held[a]}
         /\ mine[a] \in {Blank, token}
    /\ pc[a] = "start" =>
         handle = NoLoop /\ loops = {} /\ mine[a] = token
    /\ pc[a] = "register" =>
         /\ handle = NoLoop /\ loops = {held[a]}
         /\ mine[a] = token /\ clients = token
         /\ cred[held[a]] = token
    /\ pc[a] \in {"drop", "blank", "clear"} =>
         /\ handle = NoLoop /\ loops = {}
         /\ pc[a] # "drop" => clients = Blank
         /\ pc[a] = "clear" => token = Blank

StageInv ==
    ~overlapped /\ ~cut =>
        /\ Quiet => Settled
        /\ \A a \in Actors : Stage(a)

LEMMA MineNext == TypeOK /\ MineInv /\ [Next]_vars => MineInv'
<1> SUFFICES ASSUME TypeOK, MineInv, [Next]_vars PROVE MineInv'
  OBVIOUS
<1> USE SessionAssumption
  DEF TypeOK, ScalarsOK, TasksOK, MineInv, Goto, Blank, NoLoop
<1>1. CASE UNCHANGED vars
  BY <1>1 DEF vars, tasks
<1>2. ASSUME NEW h \in Handlers, Login(h) PROVE MineInv'
  BY <1>2 DEF Login, Serve, Actors
<1>3. ASSUME NEW h \in Handlers, Logout(h) PROVE MineInv'
  BY <1>3 DEF Logout, Serve, Actors
<1>4. ASSUME NEW h \in Handlers, Cancel(h) PROVE MineInv'
  BY <1>4 DEF Cancel, Leave, Actors
<1>5. ASSUME NEW a \in Actors, ConnectFails(a) PROVE MineInv'
  BY <1>5 DEF ConnectFails, Leave, tasks
<1>6. ASSUME NEW a \in Actors, SaveUserFails(a) \/ BlankFails(a)
      PROVE  MineInv'
  <2>1. Leave(a)
    BY <1>6 DEF SaveUserFails, BlankFails
  <2> QED
    BY <2>1 DEF Leave
<1>7. ASSUME NEW a \in Actors, Connect(a) \/ SaveUser(a) PROVE MineInv'
  BY <1>7 DEF Connect, SaveUser
<1>8. ASSUME NEW a \in Actors, TakeHandle(a) PROVE MineInv'
  BY <1>8 DEF TakeHandle, Aborted
<1>9. ASSUME NEW a \in Actors, Awaited(a) PROVE MineInv'
  BY <1>9 DEF Awaited, Aborted
<1>10. ASSUME NEW a \in Actors, StartSession(a) PROVE MineInv'
  BY <1>10 DEF StartSession
<1>11. ASSUME NEW a \in Actors,
              DropClient(a) \/ BlankCredentials(a) \/ Register(a)
              \/ ClearQueue(a)
       PROVE  MineInv'
  BY <1>11 DEF DropClient, BlankCredentials, Register, ClearQueue, Leave
<1>12. CASE Restart
  BY <1>12 DEF Restart, BootStep, BootCred
<1> QED
  BY <1>1, <1>2, <1>3, <1>4, <1>5, <1>6, <1>7, <1>8, <1>9, <1>10, <1>11,
     <1>12
  DEF Next, Step

\* A task that is at work stays the only one; a request that begins next to
\* another sets overlapped.
LEMMA AloneNext == TypeOK /\ AloneInv /\ [Next]_vars => AloneInv'
<1> SUFFICES ASSUME TypeOK, AloneInv, [Next]_vars PROVE AloneInv'
  OBVIOUS
<1> USE DEF TypeOK, TasksOK, AloneInv, Idle, Goto
<1>1. CASE UNCHANGED vars
  BY <1>1 DEF vars, tasks, history
<1>2. ASSUME NEW h \in Handlers, Login(h) \/ Logout(h) PROVE AloneInv'
  BY <1>2 DEF Login, Logout, Serve, Actors, Quiet
<1>3. ASSUME NEW h \in Handlers, Cancel(h) PROVE AloneInv'
  BY <1>3 DEF Cancel, Leave, Actors
<1>4. ASSUME NEW a \in Actors,
             ConnectFails(a) \/ SaveUserFails(a) \/ BlankFails(a)
      PROVE  AloneInv'
  BY <1>4 DEF ConnectFails, SaveUserFails, BlankFails, Leave, tasks, history
<1>5. ASSUME NEW a \in Actors, Step(a) PROVE AloneInv'
  BY <1>5
  DEF Step, Connect, SaveUser, TakeHandle, Awaited, StartSession, Register,
      DropClient, BlankCredentials, ClearQueue, Leave, history
<1>6. CASE Restart
  BY <1>6 DEF Restart, BootStep
<1> QED
  BY <1>1, <1>2, <1>3, <1>4, <1>5, <1>6 DEF Next

\* The one task at work decides whether the session is in order: every other
\* task is idle and claims nothing.
LEMMA StageNext ==
    TypeOK /\ MineInv /\ AloneInv /\ StageInv /\ [Next]_vars => StageInv'
<1> SUFFICES ASSUME TypeOK, MineInv, AloneInv, StageInv, [Next]_vars,
                    ~overlapped', ~cut'
             PROVE  (Quiet => Settled)' /\ \A a \in Actors : Stage(a)'
  BY DEF StageInv
<1> USE SessionAssumption DEF TypeOK, ScalarsOK, TasksOK, Blank, NoLoop
<1>t. pc' \in [Actors -> Steps]
  BY TasksNext DEF TasksOK
\* The claim follows from what one task reaches.
<1>o. ASSUME NEW a \in Actors,
             \A b \in Actors \ {a} : pc'[b] = "idle",
             Stage(a)', pc'[a] = "idle" => Settled'
      PROVE  (Quiet => Settled)' /\ \A b \in Actors : Stage(b)'
  <2>1. ASSUME NEW b \in Actors, b # a PROVE Stage(b)'
    BY <1>o, <2>1 DEF Stage
  <2>2. (Quiet => Settled)'
    BY <1>o DEF Quiet, Idle
  <2> QED
    BY <1>o, <2>1, <2>2
\* A task that takes a step is the only one at work before and after it.
<1>a. ASSUME NEW a \in Actors, ~overlapped, pc[a] # "idle",
             NEW s \in Steps, pc' = [pc EXCEPT ![a] = s]
      PROVE  \A b \in Actors \ {a} : pc'[b] = "idle"
  BY <1>a DEF AloneInv, Idle
<1>s. ASSUME NEW a \in Actors, ~overlapped, ~cut PROVE Stage(a)
  BY <1>s DEF StageInv
<1>1. CASE UNCHANGED vars
  BY <1>1, <1>s
  DEF vars, tasks, history, StageInv, Quiet, Idle, Settled, Stage
<1>2. ASSUME NEW h \in Handlers, Login(h) \/ Logout(h)
      PROVE  (Quiet => Settled)' /\ \A a \in Actors : Stage(a)'
  <2>1. h \in Actors /\ h # Boot
    BY DEF Actors
  <2>2. Quiet /\ ~overlapped /\ ~cut
    <3>1. overlapped' = (overlapped \/ ~Quiet) /\ cut' = cut
      BY <1>2, Zenon DEF Login, Logout, Serve
    <3> QED
      BY <3>1, Zenon
  <2>3. Settled
    BY <2>2 DEF StageInv
  <2>4. \A b \in Actors \ {h} : pc'[b] = "idle"
    BY <1>2, <2>1, <2>2 DEF Login, Logout, Goto, Quiet, Idle
  <2>5. Settled'
    BY <1>2, <2>3 DEF Login, Logout, Serve, Settled
  <2>6. CASE Login(h)
    <3>1. pc'[h] = "connect"
      BY <2>6, <2>1 DEF Login, Goto
    <3> QED
      BY <3>1, <2>1, <2>4, <2>5, <1>o DEF Stage
  <2>7. CASE Logout(h)
    <3>1. pc'[h] = "take"
      BY <2>7, <2>1 DEF Logout, Goto
    <3>2. mine'[h] = Blank
      BY <2>7, <2>1, <2>2 DEF Logout, MineInv, Quiet, Idle
    <3> QED
      BY <3>1, <3>2, <2>1, <2>4, <2>5, <1>o DEF Stage, Settled
  <2> QED
    BY <1>2, <2>6, <2>7
<1>3. ASSUME NEW h \in Handlers, Cancel(h)
      PROVE  (Quiet => Settled)' /\ \A a \in Actors : Stage(a)'
  BY <1>3 DEF Cancel
<1>4. ASSUME NEW a \in Actors, ConnectFails(a)
      PROVE  (Quiet => Settled)' /\ \A b \in Actors : Stage(b)'
  <2>0. ~overlapped /\ ~cut
    BY <1>4 DEF ConnectFails, history
  <2>1. CASE a = Boot
    BY <1>4, <2>0, <2>1
    DEF ConnectFails, tasks, StageInv, Quiet, Idle, Settled, Stage
  <2>2. CASE a # Boot
    <3>1. Leave(a)
      BY <1>4, <2>2 DEF ConnectFails
    <3>2. pc' = [pc EXCEPT ![a] = "idle"] /\ "idle" \in Steps
      BY <3>1 DEF Leave, Goto, Steps
    <3>3. Settled
      BY <1>4, <2>0, <2>2, <1>s DEF ConnectFails, Stage
    <3>4. Settled'
      BY <1>4, <3>3 DEF ConnectFails, Settled
    <3>5. \A b \in Actors \ {a} : pc'[b] = "idle"
      BY <1>4, <2>0, <3>2, <1>a DEF ConnectFails
    <3>6. Stage(a)'
      BY <3>2 DEF Stage
    <3> QED
      BY <3>4, <3>5, <3>6, <1>o
  <2> QED
    BY <2>1, <2>2
<1>5. ASSUME NEW a \in Actors, SaveUserFails(a)
      PROVE  (Quiet => Settled)' /\ \A b \in Actors : Stage(b)'
  <2>1. /\ ~overlapped /\ ~cut /\ pc[a] = "save"
        /\ pc' = [pc EXCEPT ![a] = "idle"] /\ "idle" \in Steps
    BY <1>5 DEF SaveUserFails, history, Leave, Goto, Steps
  <2>2. Settled'
    BY <1>5, <2>1, <1>s DEF SaveUserFails, Stage, Settled
  <2>3. Stage(a)'
    BY <2>1 DEF Stage
  <2> QED
    BY <2>1, <2>2, <2>3, <1>a, <1>o
<1>6. ASSUME NEW a \in Actors, BlankFails(a)
      PROVE  (Quiet => Settled)' /\ \A b \in Actors : Stage(b)'
  BY <1>6 DEF BlankFails
<1>7. ASSUME NEW a \in Actors, Connect(a)
      PROVE  (Quiet => Settled)' /\ \A b \in Actors : Stage(b)'
  <2>1. ~overlapped /\ ~cut /\ pc[a] = "connect"
    BY <1>7 DEF Connect, history
  <2>2. CASE a = Boot
    <3>1. pc' = [pc EXCEPT ![a] = "take"] /\ "take" \in Steps
      BY <1>7, <2>2 DEF Connect, Goto, Steps
    <3>2. Stage(a)'
      BY <1>7, <2>1, <2>2, <3>1, <1>s DEF Connect, Stage
    <3> QED
      BY <2>1, <3>1, <3>2, <1>a, <1>o
  <2>3. CASE a # Boot
    <3>1. pc' = [pc EXCEPT ![a] = "save"] /\ "save" \in Steps
      BY <1>7, <2>3 DEF Connect, Goto, Steps
    <3>2. Settled'
      BY <1>7, <2>1, <2>3, <1>s DEF Connect, Stage, Settled
    <3>3. Stage(a)'
      BY <2>3, <3>1, <3>2 DEF Stage
    <3> QED
      BY <2>1, <3>1, <3>3, <1>a, <1>o
  <2> QED
    BY <2>2, <2>3
<1>8. ASSUME NEW a \in Actors, SaveUser(a)
      PROVE  (Quiet => Settled)' /\ \A b \in Actors : Stage(b)'
  <2>1. /\ ~overlapped /\ ~cut /\ pc[a] = "save"
        /\ pc' = [pc EXCEPT ![a] = "take"] /\ "take" \in Steps
    BY <1>8 DEF SaveUser, history, Leave, Goto, Steps
  <2>2. Stage(a)'
    BY <1>8, <2>1, <1>s DEF SaveUser, Stage, Settled
  <2> QED
    BY <2>1, <2>2, <1>a, <1>o
<1>9. ASSUME NEW a \in Actors, TakeHandle(a)
      PROVE  (Quiet => Settled)' /\ \A b \in Actors : Stage(b)'
  <2>1. ~overlapped /\ ~cut /\ pc[a] = "take"
    BY <1>9 DEF TakeHandle, history
  <2>2. CASE handle # NoLoop
    <3>1. pc' = [pc EXCEPT ![a] = "await"] /\ "await" \in Steps
      BY <1>9, <2>2 DEF TakeHandle, Goto, Steps
    <3>2. Stage(a)'
      BY <1>9, <2>1, <2>2, <3>1, <1>s DEF TakeHandle, Stage
    <3> QED
      BY <2>1, <3>1, <3>2, <1>a, <1>o
  <2>3. CASE handle = NoLoop /\ mine[a] = Blank
    <3>1. pc' = [pc EXCEPT ![a] = "drop"] /\ "drop" \in Steps
      BY <1>9, <2>3 DEF TakeHandle, Aborted, Goto, Steps
    <3>2. Stage(a)'
      BY <1>9, <2>1, <2>3, <3>1, <1>s DEF TakeHandle, Stage
    <3> QED
      BY <2>1, <3>1, <3>2, <1>a, <1>o
  <2>4. CASE handle = NoLoop /\ mine[a] # Blank
    <3>1. pc' = [pc EXCEPT ![a] = "start"] /\ "start" \in Steps
      BY <1>9, <2>4 DEF TakeHandle, Aborted, Goto, Steps
    <3>2. Stage(a)'
      BY <1>9, <2>1, <2>4, <3>1, <1>s DEF TakeHandle, Stage
    <3> QED
      BY <2>1, <3>1, <3>2, <1>a, <1>o
  <2> QED
    BY <2>2, <2>3, <2>4
<1>10. ASSUME NEW a \in Actors, Awaited(a)
      PROVE  (Quiet => Settled)' /\ \A b \in Actors : Stage(b)'
  <2>1. ~overlapped /\ ~cut /\ pc[a] = "await"
    BY <1>10 DEF Awaited, history
  <2>2. CASE mine[a] = Blank
    <3>1. pc' = [pc EXCEPT ![a] = "drop"] /\ "drop" \in Steps
      BY <1>10, <2>2 DEF Awaited, Aborted, Goto, Steps
    <3>2. Stage(a)'
      BY <1>10, <2>1, <2>2, <3>1, <1>s DEF Awaited, Stage
    <3> QED
      BY <2>1, <3>1, <3>2, <1>a, <1>o
  <2>3. CASE mine[a] # Blank
    <3>1. pc' = [pc EXCEPT ![a] = "start"] /\ "start" \in Steps
      BY <1>10, <2>3 DEF Awaited, Aborted, Goto, Steps
    <3>2. Stage(a)'
      BY <1>10, <2>1, <2>3, <3>1, <1>s DEF Awaited, Stage
    <3> QED
      BY <2>1, <3>1, <3>2, <1>a, <1>o
  <2> QED
    BY <2>2, <2>3
<1>11. ASSUME NEW a \in Actors, StartSession(a)
      PROVE  (Quiet => Settled)' /\ \A b \in Actors : Stage(b)'
  <2>1. /\ ~overlapped /\ ~cut /\ pc[a] = "start"
        /\ pc' = [pc EXCEPT ![a] = "register"] /\ "register" \in Steps
    BY <1>11 DEF StartSession, history, Leave, Goto, Steps
  <2>2. /\ handle = NoLoop /\ loops = {} /\ mine[a] = token
        /\ mine[a] # Blank
    BY <2>1, <1>s DEF Stage, MineInv
  <2>3. spawned + 1 \in 1..MaxLoops
    BY <1>11 DEF StartSession
  <2>4. held'[a] = spawned + 1 /\ cred'[spawned + 1] = token
    BY <1>11, <2>2, <2>3 DEF StartSession
  <2>5. /\ handle' = NoLoop /\ loops' = {held'[a]} /\ mine'[a] = token'
        /\ clients' = token' /\ cred'[held'[a]] = token'
    BY <1>11, <2>2, <2>4 DEF StartSession
  <2>6. pc'[a] = "register"
    BY <2>1
  <2>7. Stage(a)'
    BY <2>5, <2>6 DEF Stage
  <2> QED
    BY <2>1, <2>6, <2>7, <1>a, <1>o
<1>12. ASSUME NEW a \in Actors, Register(a)
      PROVE  (Quiet => Settled)' /\ \A b \in Actors : Stage(b)'
  <2>1. /\ ~overlapped /\ ~cut /\ pc[a] = "register"
        /\ pc' = [pc EXCEPT ![a] = "idle"] /\ "idle" \in Steps
    BY <1>12 DEF Register, history, Leave, Goto, Steps
  <2>2. Settled'
    BY <1>12, <2>1, <1>s
    DEF Register, Stage, Settled, MineInv, HandsOK
  <2>3. Stage(a)'
    BY <2>1 DEF Stage
  <2> QED
    BY <2>1, <2>2, <2>3, <1>a, <1>o
<1>13. ASSUME NEW a \in Actors, DropClient(a)
      PROVE  (Quiet => Settled)' /\ \A b \in Actors : Stage(b)'
  <2>1. /\ ~overlapped /\ ~cut /\ pc[a] = "drop"
        /\ pc' = [pc EXCEPT ![a] = "blank"] /\ "blank" \in Steps
    BY <1>13 DEF DropClient, history, Leave, Goto, Steps
  <2>2. Stage(a)'
    BY <1>13, <2>1, <1>s DEF DropClient, Stage
  <2> QED
    BY <2>1, <2>2, <1>a, <1>o
<1>14. ASSUME NEW a \in Actors, BlankCredentials(a)
      PROVE  (Quiet => Settled)' /\ \A b \in Actors : Stage(b)'
  <2>1. /\ ~overlapped /\ ~cut /\ pc[a] = "blank"
        /\ pc' = [pc EXCEPT ![a] = "clear"] /\ "clear" \in Steps
    BY <1>14 DEF BlankCredentials, history, Leave, Goto, Steps
  <2>2. Stage(a)'
    BY <1>14, <2>1, <1>s DEF BlankCredentials, Stage
  <2> QED
    BY <2>1, <2>2, <1>a, <1>o
<1>15. ASSUME NEW a \in Actors, ClearQueue(a)
      PROVE  (Quiet => Settled)' /\ \A b \in Actors : Stage(b)'
  <2>1. /\ ~overlapped /\ ~cut /\ pc[a] = "clear"
        /\ pc' = [pc EXCEPT ![a] = "idle"] /\ "idle" \in Steps
    BY <1>15 DEF ClearQueue, history, Leave, Goto, Steps
  <2>2. Settled'
    BY <1>15, <2>1, <1>s
    DEF ClearQueue, Stage, Settled, MineInv, HandsOK
  <2>3. Stage(a)'
    BY <2>1 DEF Stage
  <2> QED
    BY <2>1, <2>2, <2>3, <1>a, <1>o
<1>16. CASE Restart
  <2>0. Boot \in Actors
    BY DEF Actors
  <2>1. /\ \A b \in Actors \ {Boot} : pc'[b] = "idle"
        /\ pc'[Boot] = (IF token = Blank THEN "idle" ELSE "connect")
        /\ mine'[Boot] = token
    BY <1>16, <2>0 DEF Restart, BootStep, BootCred
  <2>2. /\ handle' = NoLoop /\ loops' = {} /\ clients' = Blank
        /\ token' = token
    BY <1>16 DEF Restart
  <2>3. Stage(Boot)'
    BY <2>1, <2>2 DEF Stage
  <2>4. pc'[Boot] = "idle" => Settled'
    BY <2>1, <2>2 DEF Settled
  <2> QED
    BY <2>0, <2>1, <2>3, <2>4, <1>o
<1> QED
  BY <1>1, <1>2, <1>3, <1>4, <1>5, <1>6, <1>7, <1>8, <1>9, <1>10, <1>11,
     <1>12, <1>13, <1>14, <1>15, <1>16
  DEF Next, Step

\* A loop runs at a time, as long as session changes neither overlap nor stop
\* half-way: at every step of the one task at work loops is a singleton or
\* empty (login, abort_poller, start_session).
LEMMA OneLoop ==
    TypeOK /\ AloneInv /\ StageInv /\ ~overlapped /\ ~cut
        => loops = {} \/ \E l \in 1..MaxLoops : loops = {l}
<1> SUFFICES ASSUME TypeOK, AloneInv, StageInv, ~overlapped, ~cut
             PROVE  loops = {} \/ \E l \in 1..MaxLoops : loops = {l}
  OBVIOUS
<1> USE DEF TypeOK, ScalarsOK, TasksOK, Blank, NoLoop
<1>1. loops = {handle} \ {NoLoop}
        => loops = {} \/ \E l \in 1..MaxLoops : loops = {l}
  BY SessionAssumption
<1>2. CASE Quiet
  BY <1>1, <1>2 DEF StageInv, Settled
<1>3. ASSUME NEW a \in Actors, pc[a] # "idle"
      PROVE  loops = {} \/ \E l \in 1..MaxLoops : loops = {l}
  <2>1. Stage(a) /\ pc[a] \in Steps
    BY DEF StageInv
  <2>2. CASE pc[a] \in {"await", "register"}
    BY <2>1, <2>2, SessionAssumption DEF Stage, HandsOK
  <2>3. CASE pc[a] \notin {"await", "register"}
    BY <1>1, <1>3, <2>1, <2>3 DEF Stage, Settled, Steps
  <2> QED
    BY <2>2, <2>3
<1> QED
  BY <1>2, <1>3 DEF Quiet, Idle

LEMMA OrderInit == Init => MineInv /\ AloneInv /\ StageInv
<1> SUFFICES ASSUME Init PROVE MineInv /\ AloneInv /\ StageInv
  OBVIOUS
<1>1. /\ \A a \in Actors : pc[a] = "idle" /\ mine[a] = Blank
      /\ token = Blank /\ clients = Blank /\ handle = NoLoop /\ loops = {}
  BY DEF Init, BootStep, BootCred, Blank
<1>2. MineInv /\ AloneInv
  BY <1>1 DEF MineInv, AloneInv, Idle
<1>3. Settled
  BY <1>1 DEF Settled, Blank, NoLoop
<1>4. \A a \in Actors : Stage(a)
  BY <1>1 DEF Stage
<1> QED
  BY <1>2, <1>3, <1>4 DEF StageInv

LEMMA Orderly == Spec => [](MineInv /\ AloneInv /\ StageInv)
<1>1. TypeOK /\ (MineInv /\ AloneInv /\ StageInv) /\ [Next]_vars
        => (MineInv /\ AloneInv /\ StageInv)'
  BY MineNext, AloneNext, StageNext
<1> QED
  BY <1>1, OrderInit, TypeCorrect, PTL DEF Spec

\* Re-login cancels the old event loop before it spawns a new one: as long as
\* session changes neither overlap nor stop half-way, no two loops poll for
\* the user (login, spawn_user, abort_poller).
THEOREM PollerIsSingle == Spec => []SinglePoller
<1>1. TypeOK /\ AloneInv /\ StageInv => SinglePoller
  <2> SUFFICES ASSUME TypeOK, AloneInv, StageInv, ~overlapped, ~cut
               PROVE  Cardinality(loops) <= 1
    BY DEF SinglePoller
  <2>1. CASE loops = {}
    BY <2>1, FS_EmptySet
  <2>2. CASE \E l \in 1..MaxLoops : loops = {l}
    BY <2>2, FS_Singleton
  <2> QED
    BY <2>1, <2>2, OneLoop
<1> QED
  BY <1>1, Orderly, TypeCorrect, PTL

\* Once every session change is over, under the same condition, the store,
\* the client map and the event loop agree (login, spawn_user, logout).
THEOREM SessionsAgree == Spec => []SessionConsistent
<1>1. StageInv => SessionConsistent
  BY DEF StageInv, Settled, SessionConsistent
<1> QED
  BY <1>1, Orderly, PTL
=============================================================================
