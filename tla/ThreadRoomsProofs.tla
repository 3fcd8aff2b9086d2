------------------------- MODULE ThreadRoomsProofs --------------------------
(***************************************************************************)
(* Proofs about ThreadRooms, for any number of tasks, emails, threads and  *)
(* faults.                                                                 *)
(***************************************************************************)
EXTENDS ThreadRooms, FiniteSetTheorems, TLAPS

-----------------------------------------------------------------------------
(* The invariants.                                                         *)

\* A room created and not mapped yet.
Holding(w) == job[w] # None /\ Orphaned(w)

\* Between the second look at the thread and save_thread_mapping_atomic.
Critical(w) == Holding(w) \/ pc[w] = "create"

\* A task that creates has the lock it creates under.
GuardInv ==
    \A w \in Tasks :
        /\ pc[w] = "acquired" \/ Critical(w) => Thread(w) \in guards[w]
        /\ pc[w] \in {"spaceAcquired", "spaceSave"} => Space \in guards[w]

HeldRoomInv == \A w \in Tasks : Holding(w) => room[w] # None

\* A thread is about to get a room.
Creating(t) == \E w \in Tasks : pc[w] = "create" /\ Thread(w) = t

\* A thread without a room, mapped or in hand, has none that is not
\* accounted for; and so has one that is about to get a room, whatever the
\* outbound worker mapped.
RoomInv ==
    \A t \in Threads :
        /\ made[t] <= 1 + orphans[t] + unbridged[t]
        /\ \/ thread_mapping[t] # None /\ ~Creating(t)
           \/ \E w \in Tasks : Holding(w) /\ Thread(w) = t
           \/ made[t] <= orphans[t] + unbridged[t]

\* A room mapped behind the back of the task that creates another is the
\* worker's, and has not been counted as a move yet.
MoveInv ==
    \A t \in Threads :
        /\ moves[t] <= freshMaps[t]
        /\ \A w \in Tasks :
              Critical(w) /\ Thread(w) = t /\ thread_mapping[t] # None
                  => moves[t] < freshMaps[t]

SpaceInv ==
    /\ spaces <= 1 + spaceOrphans
    /\ \/ space
       \/ \E w \in Tasks : pc[w] = "spaceSave"
       \/ spaces <= spaceOrphans

\* The task that took the email up first.
First(w, e) == job[w] = e /\ w \notin late

FirstInv ==
    \A e \in Emails : \A w, x \in Tasks : First(w, e) /\ First(x, e) => w = x

\* An email that is not recorded, and not just posted by its first task, has
\* no post that is not accounted for.
PostInv ==
    \A e \in Emails :
        /\ posts[e] <= 1 + slips[e] + repeats[e]
        /\ \A w \in Tasks : First(w, e) =>
              Unrecorded(w) \/ posts[e] <= slips[e] + repeats[e]
        /\ \/ e \in message_mapping
           \/ \E w \in Tasks : First(w, e)
           \/ posts[e] <= slips[e] + repeats[e]

Inv == /\ CreationExclusive /\ GuardInv /\ HeldRoomInv /\ RoomInv
       /\ MoveInv /\ SpaceInv /\ FirstInv /\ PostInv

-----------------------------------------------------------------------------
(* Types.                                                                  *)

LEMMA TypeInit == Init => TypeOK
<1> USE RoomAssumption
<1>1. Init => StoreOK
  BY DEF Init, StoreOK
<1>2. Init => space \in BOOLEAN
  BY DEF Init
<1>3. Init => TasksOK
  BY DEF Init, TasksOK, Steps, SpaceSteps
<1>4. Init => ServerOK /\ HistoryOK
  BY DEF Init, ServerOK, HistoryOK
<1> QED
  BY <1>1, <1>2, <1>3, <1>4 DEF TypeOK

LEMMA StoreNext ==
    StoreOK /\ TasksOK /\ ServerOK /\ HeldRoomInv /\ [Next]_vars => StoreOK'
<1> SUFFICES ASSUME StoreOK, TasksOK, ServerOK, HeldRoomInv, [Next]_vars
             PROVE  StoreOK'
  OBVIOUS
<1> USE RoomAssumption DEF StoreOK, TasksOK, ServerOK, HeldRoomInv, Holding,
                           Orphaned, Thread, Rooms, Keys, SpaceSteps, store,
                           tasks, server, closing, history, tallies, aside
<1>1. CASE UNCHANGED vars
  BY <1>1 DEF vars
<1>2. ASSUME NEW w \in Tasks, NEW e \in Emails, Begin(w, e) PROVE StoreOK'
  BY <1>2 DEF Begin
<1>3. ASSUME NEW w \in Tasks, BeginRepair(w) PROVE StoreOK'
  BY <1>3 DEF BeginRepair
<1>4. ASSUME NEW w \in Tasks, LookupThread(w) PROVE StoreOK'
  BY <1>4 DEF LookupThread, GetThreadInfo
<1>5. ASSUME NEW w \in Tasks, AcquireThread(w) PROVE StoreOK'
  BY <1>5 DEF AcquireThread, TryAcquire
<1>6. ASSUME NEW w \in Tasks, Recheck(w) PROVE StoreOK'
  BY <1>6 DEF Recheck, GetThreadInfo
<1>7. ASSUME NEW w \in Tasks, CreateRoom(w) PROVE StoreOK'
  BY <1>7 DEF CreateRoom
<1>8. ASSUME NEW w \in Tasks, BindGhost(w) PROVE StoreOK'
  BY <1>8 DEF BindGhost
<1>9. ASSUME NEW w \in Tasks, GetSpace(w) PROVE StoreOK'
  BY <1>9 DEF GetSpace, LeaveSpace
<1>10. ASSUME NEW w \in Tasks, AcquireSpace(w) PROVE StoreOK'
  BY <1>10 DEF AcquireSpace, TryAcquire
<1>11. ASSUME NEW w \in Tasks, CreateSpace(w) PROVE StoreOK'
  BY <1>11 DEF CreateSpace, LeaveSpace
<1>12. ASSUME NEW w \in Tasks, SaveSpace(w) PROVE StoreOK'
  BY <1>12 DEF SaveSpace, LeaveSpace
<1>13. ASSUME NEW w \in Tasks, PostFirst(w) PROVE StoreOK'
  BY <1>13 DEF PostFirst, Post
<1>14. ASSUME NEW w \in Tasks, PostReply(w) PROVE StoreOK'
  BY <1>14 DEF PostReply, Post
<1>15. ASSUME NEW w \in Tasks, SendRefused(w) PROVE StoreOK'
  BY <1>15 DEF SendRefused, EndEarly
<1>16. ASSUME NEW w \in Tasks, SaveThread(w) PROVE StoreOK'
  BY <1>16 DEF SaveThread, SaveMapping
<1>17. ASSUME NEW w \in Tasks, SaveMessage(w) PROVE StoreOK'
  BY <1>17 DEF SaveMessage
<1>18. ASSUME NEW w \in Tasks, Fail(w) PROVE StoreOK'
  BY <1>18 DEF Fail, EndEarly
<1>19. ASSUME NEW w \in Tasks, FailSpace(w) PROVE StoreOK'
  BY <1>19 DEF FailSpace, LeaveSpace, SpaceLost
<1>20. ASSUME NEW w \in Tasks, Abort(w) PROVE StoreOK'
  BY <1>20 DEF Abort, EndEarly, Unguarded, SpaceLost
<1>21. ASSUME NEW k \in Keys, Release(k) PROVE StoreOK'
  BY <1>21 DEF Release
<1>22. ASSUME NEW k \in Keys, ReleaseFails(k) PROVE StoreOK'
  BY <1>22 DEF ReleaseFails
<1>23. ASSUME NEW r \in ghost, UnbridgeGhost(r) PROVE StoreOK'
  BY <1>23 DEF UnbridgeGhost
<1>26. ASSUME NEW r \in unbridging, UnbridgeThreads(r) PROVE StoreOK'
  BY <1>26 DEF UnbridgeThreads
<1>27. ASSUME NEW w \in Tasks, NEW r \in Composed, Compose(w, r)
      PROVE  StoreOK'
  BY <1>27 DEF Compose
<1>28. ASSUME NEW r \in ghost, SubmitFresh(r) PROVE StoreOK'
  BY <1>28 DEF SubmitFresh
<1>29. CASE MapFresh
  BY <1>29 DEF MapFresh, SaveMapping
<1>24. ASSUME NEW r \in leaving, LeaveRoom(r) PROVE StoreOK'
  BY <1>24 DEF LeaveRoom
<1>25. CASE Restart
  BY <1>25 DEF Restart
<1> QED
  BY <1>1, <1>2, <1>3, <1>4, <1>5, <1>6, <1>7, <1>8, <1>9, <1>10, <1>11,
     <1>12, <1>13, <1>14, <1>15, <1>16, <1>17, <1>18, <1>19, <1>20, <1>21,
     <1>22, <1>23, <1>24, <1>25, <1>26, <1>27, <1>28, <1>29
  DEF Next, Step

\* The room a task creates is a room.
LEMMA CreatedRoom ==
    ASSUME TasksOK, ServerOK, NEW w \in Tasks, CreateRoom(w)
    PROVE  /\ Thread(w) \in Threads
           /\ room' = [room EXCEPT ![w] =
                          <<Thread(w), made[Thread(w)] + 1>>]
           /\ <<Thread(w), made[Thread(w)] + 1>> \in Rooms
<1>1. Thread(w) \in Threads
  BY RoomAssumption DEF CreateRoom, TasksOK, Thread, SpaceSteps
<1>2. made[Thread(w)] + 1 \in Nat \ {0}
  BY <1>1 DEF ServerOK
<1> QED
  BY <1>1, <1>2 DEF CreateRoom, Rooms

LEMMA TasksNext ==
    StoreOK /\ TasksOK /\ ServerOK /\ [Next]_vars => TasksOK'
<1> SUFFICES ASSUME StoreOK, TasksOK, ServerOK, [Next]_vars
             PROVE  TasksOK'
  OBVIOUS
<1> USE RoomAssumption DEF StoreOK, TasksOK, ServerOK, Steps, Thread, Keys,
                           SpaceSteps, Leave, Goto, Repairing, Working,
                           store, tasks, server, closing, history, tallies,
                           aside
<1>1. CASE UNCHANGED vars
  BY <1>1 DEF vars
<1>2. ASSUME NEW w \in Tasks, NEW e \in Emails, Begin(w, e) PROVE TasksOK'
  BY <1>2 DEF Begin
<1>3. ASSUME NEW w \in Tasks, BeginRepair(w) PROVE TasksOK'
  BY <1>3 DEF BeginRepair
<1>4. ASSUME NEW w \in Tasks, LookupThread(w) PROVE TasksOK'
  BY <1>4 DEF LookupThread, GetThreadInfo
<1>5. ASSUME NEW w \in Tasks, AcquireThread(w) PROVE TasksOK'
  BY <1>5 DEF AcquireThread, TryAcquire
<1>6. ASSUME NEW w \in Tasks, Recheck(w) PROVE TasksOK'
  BY <1>6 DEF Recheck, GetThreadInfo
<1>7. ASSUME NEW w \in Tasks, CreateRoom(w) PROVE TasksOK'
  <2>1. room' \in [Tasks -> Rooms \cup {None}]
    BY <1>7, CreatedRoom
  <2> QED
    BY <1>7, <2>1 DEF CreateRoom
<1>8. ASSUME NEW w \in Tasks, BindGhost(w) PROVE TasksOK'
  BY <1>8 DEF BindGhost
<1>9. ASSUME NEW w \in Tasks, GetSpace(w) PROVE TasksOK'
  BY <1>9 DEF GetSpace, LeaveSpace
<1>10. ASSUME NEW w \in Tasks, AcquireSpace(w) PROVE TasksOK'
  BY <1>10 DEF AcquireSpace, TryAcquire
<1>11. ASSUME NEW w \in Tasks, CreateSpace(w) PROVE TasksOK'
  BY <1>11 DEF CreateSpace, LeaveSpace
<1>12. ASSUME NEW w \in Tasks, SaveSpace(w) PROVE TasksOK'
  BY <1>12 DEF SaveSpace, LeaveSpace
<1>13. ASSUME NEW w \in Tasks, PostFirst(w) PROVE TasksOK'
  BY <1>13 DEF PostFirst, Post
<1>14. ASSUME NEW w \in Tasks, PostReply(w) PROVE TasksOK'
  BY <1>14 DEF PostReply, Post
<1>15. ASSUME NEW w \in Tasks, SendRefused(w) PROVE TasksOK'
  BY <1>15 DEF SendRefused, EndEarly
<1>16. ASSUME NEW w \in Tasks, SaveThread(w) PROVE TasksOK'
  BY <1>16 DEF SaveThread, SaveMapping
<1>17. ASSUME NEW w \in Tasks, SaveMessage(w) PROVE TasksOK'
  BY <1>17 DEF SaveMessage
<1>18. ASSUME NEW w \in Tasks, Fail(w) PROVE TasksOK'
  BY <1>18 DEF Fail, EndEarly
<1>19. ASSUME NEW w \in Tasks, FailSpace(w) PROVE TasksOK'
  BY <1>19 DEF FailSpace, LeaveSpace, SpaceLost
<1>20. ASSUME NEW w \in Tasks, Abort(w) PROVE TasksOK'
  BY <1>20 DEF Abort, EndEarly, Unguarded, SpaceLost
<1>21. ASSUME NEW k \in Keys, Release(k) PROVE TasksOK'
  BY <1>21 DEF Release
<1>22. ASSUME NEW k \in Keys, ReleaseFails(k) PROVE TasksOK'
  BY <1>22 DEF ReleaseFails
<1>23. ASSUME NEW r \in ghost, UnbridgeGhost(r) PROVE TasksOK'
  BY <1>23 DEF UnbridgeGhost
<1>26. ASSUME NEW r \in unbridging, UnbridgeThreads(r) PROVE TasksOK'
  BY <1>26 DEF UnbridgeThreads
<1>27. ASSUME NEW w \in Tasks, NEW r \in Composed, Compose(w, r)
      PROVE  TasksOK'
  BY <1>27 DEF Compose
<1>28. ASSUME NEW r \in ghost, SubmitFresh(r) PROVE TasksOK'
  BY <1>28 DEF SubmitFresh
<1>29. CASE MapFresh
  BY <1>29 DEF MapFresh, SaveMapping
<1>24. ASSUME NEW r \in leaving, LeaveRoom(r) PROVE TasksOK'
  BY <1>24 DEF LeaveRoom
<1>25. CASE Restart
  BY <1>25 DEF Restart
<1> QED
  BY <1>1, <1>2, <1>3, <1>4, <1>5, <1>6, <1>7, <1>8, <1>9, <1>10, <1>11,
     <1>12, <1>13, <1>14, <1>15, <1>16, <1>17, <1>18, <1>19, <1>20, <1>21,
     <1>22, <1>23, <1>24, <1>25, <1>26, <1>27, <1>28, <1>29
  DEF Next, Step

LEMMA ServerNext ==
    StoreOK /\ TasksOK /\ ServerOK /\ [Next]_vars => ServerOK'
<1> SUFFICES ASSUME StoreOK, TasksOK, ServerOK, [Next]_vars
             PROVE  ServerOK'
  OBVIOUS
<1> USE RoomAssumption DEF StoreOK, TasksOK, ServerOK, Thread, SpaceSteps,
                           store, tasks, server, closing, history, tallies,
                           aside
<1>1. CASE UNCHANGED vars
  BY <1>1 DEF vars
<1>2. ASSUME NEW w \in Tasks, NEW e \in Emails, Begin(w, e) PROVE ServerOK'
  BY <1>2 DEF Begin
<1>3. ASSUME NEW w \in Tasks, BeginRepair(w) PROVE ServerOK'
  BY <1>3 DEF BeginRepair
<1>4. ASSUME NEW w \in Tasks, LookupThread(w) PROVE ServerOK'
  BY <1>4 DEF LookupThread, GetThreadInfo
<1>5. ASSUME NEW w \in Tasks, AcquireThread(w) PROVE ServerOK'
  BY <1>5 DEF AcquireThread, TryAcquire
<1>6. ASSUME NEW w \in Tasks, Recheck(w) PROVE ServerOK'
  BY <1>6 DEF Recheck, GetThreadInfo
<1>7. ASSUME NEW w \in Tasks, CreateRoom(w) PROVE ServerOK'
  BY <1>7 DEF CreateRoom
<1>8. ASSUME NEW w \in Tasks, BindGhost(w) PROVE ServerOK'
  BY <1>8 DEF BindGhost
<1>9. ASSUME NEW w \in Tasks, GetSpace(w) PROVE ServerOK'
  BY <1>9 DEF GetSpace, LeaveSpace
<1>10. ASSUME NEW w \in Tasks, AcquireSpace(w) PROVE ServerOK'
  BY <1>10 DEF AcquireSpace, TryAcquire
<1>11. ASSUME NEW w \in Tasks, CreateSpace(w) PROVE ServerOK'
  BY <1>11 DEF CreateSpace, LeaveSpace
<1>12. ASSUME NEW w \in Tasks, SaveSpace(w) PROVE ServerOK'
  BY <1>12 DEF SaveSpace, LeaveSpace
<1>13. ASSUME NEW w \in Tasks, PostFirst(w) PROVE ServerOK'
  BY <1>13 DEF PostFirst, Post
<1>14. ASSUME NEW w \in Tasks, PostReply(w) PROVE ServerOK'
  BY <1>14 DEF PostReply, Post
<1>15. ASSUME NEW w \in Tasks, SendRefused(w) PROVE ServerOK'
  BY <1>15 DEF SendRefused, EndEarly
<1>16. ASSUME NEW w \in Tasks, SaveThread(w) PROVE ServerOK'
  BY <1>16 DEF SaveThread, SaveMapping
<1>17. ASSUME NEW w \in Tasks, SaveMessage(w) PROVE ServerOK'
  BY <1>17 DEF SaveMessage
<1>18. ASSUME NEW w \in Tasks, Fail(w) PROVE ServerOK'
  BY <1>18 DEF Fail, EndEarly
<1>19. ASSUME NEW w \in Tasks, FailSpace(w) PROVE ServerOK'
  BY <1>19 DEF FailSpace, LeaveSpace, SpaceLost
<1>20. ASSUME NEW w \in Tasks, Abort(w) PROVE ServerOK'
  BY <1>20 DEF Abort, EndEarly, Unguarded, SpaceLost
<1>21. ASSUME NEW k \in Keys, Release(k) PROVE ServerOK'
  BY <1>21 DEF Release
<1>22. ASSUME NEW k \in Keys, ReleaseFails(k) PROVE ServerOK'
  BY <1>22 DEF ReleaseFails
<1>23. ASSUME NEW r \in ghost, UnbridgeGhost(r) PROVE ServerOK'
  BY <1>23 DEF UnbridgeGhost
<1>26. ASSUME NEW r \in unbridging, UnbridgeThreads(r) PROVE ServerOK'
  BY <1>26 DEF UnbridgeThreads
<1>27. ASSUME NEW w \in Tasks, NEW r \in Composed, Compose(w, r)
      PROVE  ServerOK'
  BY <1>27 DEF Compose
<1>28. ASSUME NEW r \in ghost, SubmitFresh(r) PROVE ServerOK'
  BY <1>28 DEF SubmitFresh
<1>29. CASE MapFresh
  BY <1>29 DEF MapFresh, SaveMapping
<1>24. ASSUME NEW r \in leaving, LeaveRoom(r) PROVE ServerOK'
  BY <1>24 DEF LeaveRoom
<1>25. CASE Restart
  BY <1>25 DEF Restart
<1> QED
  BY <1>1, <1>2, <1>3, <1>4, <1>5, <1>6, <1>7, <1>8, <1>9, <1>10, <1>11,
     <1>12, <1>13, <1>14, <1>15, <1>16, <1>17, <1>18, <1>19, <1>20, <1>21,
     <1>22, <1>23, <1>24, <1>25, <1>26, <1>27, <1>28, <1>29
  DEF Next, Step

\* The tasks with some property can be counted.
LEMMA TaskCount ==
    ASSUME NEW S \in SUBSET Tasks
    PROVE  Cardinality(S) \in Nat /\ (S # {} => Cardinality(S) >= 1)
<1>1. IsFiniteSet(S)
  BY RoomAssumption, FS_Subset
<1>2. Cardinality(S) \in Nat
  BY <1>1, FS_CardinalityType
<1>3. Cardinality(S) = 0 <=> S = {}
  BY <1>1, FS_EmptySet
<1> QED
  BY <1>2, <1>3

LEMMA UnguardedKeys ==
    ASSUME TasksOK, NEW w \in Tasks PROVE Unguarded(w) \subseteq Keys
<1>1. pc[w] = "acquired" => Thread(w) \in Keys
  BY RoomAssumption DEF TasksOK, Thread, Keys, SpaceSteps
<1> QED
  BY <1>1 DEF Unguarded, Keys

LEMMA HistoryNext ==
    StoreOK /\ TasksOK /\ HistoryOK /\ [Next]_vars => HistoryOK'
<1> SUFFICES ASSUME StoreOK, TasksOK, HistoryOK, [Next]_vars
             PROVE  HistoryOK'
  OBVIOUS
<1> USE RoomAssumption DEF StoreOK, TasksOK, HistoryOK, Fault, Thread,
                           SpaceSteps, Orphaned, Unrecorded, Leave, Goto,
                           Repairing, Working, store, tasks, server, closing,
                           history, tallies, aside
<1>1. CASE UNCHANGED vars
  BY <1>1 DEF vars
<1>2. ASSUME NEW w \in Tasks, NEW e \in Emails, Begin(w, e) PROVE HistoryOK'
  BY <1>2 DEF Begin
<1>3. ASSUME NEW w \in Tasks, BeginRepair(w) PROVE HistoryOK'
  BY <1>3 DEF BeginRepair
<1>4. ASSUME NEW w \in Tasks, LookupThread(w) PROVE HistoryOK'
  BY <1>4 DEF LookupThread, GetThreadInfo
<1>5. ASSUME NEW w \in Tasks, AcquireThread(w) PROVE HistoryOK'
  BY <1>5 DEF AcquireThread, TryAcquire
<1>6. ASSUME NEW w \in Tasks, Recheck(w) PROVE HistoryOK'
  BY <1>6 DEF Recheck, GetThreadInfo
<1>7. ASSUME NEW w \in Tasks, CreateRoom(w) PROVE HistoryOK'
  BY <1>7 DEF CreateRoom
<1>8. ASSUME NEW w \in Tasks, BindGhost(w) PROVE HistoryOK'
  BY <1>8 DEF BindGhost
<1>9. ASSUME NEW w \in Tasks, GetSpace(w) PROVE HistoryOK'
  BY <1>9 DEF GetSpace, LeaveSpace
<1>10. ASSUME NEW w \in Tasks, AcquireSpace(w) PROVE HistoryOK'
  BY <1>10 DEF AcquireSpace, TryAcquire
<1>11. ASSUME NEW w \in Tasks, CreateSpace(w) PROVE HistoryOK'
  BY <1>11 DEF CreateSpace, LeaveSpace
<1>12. ASSUME NEW w \in Tasks, SaveSpace(w) PROVE HistoryOK'
  BY <1>12 DEF SaveSpace, LeaveSpace
<1>13. ASSUME NEW w \in Tasks, PostFirst(w) PROVE HistoryOK'
  BY <1>13 DEF PostFirst, Post
<1>14. ASSUME NEW w \in Tasks, PostReply(w) PROVE HistoryOK'
  BY <1>14 DEF PostReply, Post
<1>15. ASSUME NEW w \in Tasks, SendRefused(w) PROVE HistoryOK'
  BY <1>15 DEF SendRefused, EndEarly
<1>16. ASSUME NEW w \in Tasks, SaveThread(w) PROVE HistoryOK'
  BY <1>16 DEF SaveThread, SaveMapping
<1>17. ASSUME NEW w \in Tasks, SaveMessage(w) PROVE HistoryOK'
  BY <1>17 DEF SaveMessage
<1>18. ASSUME NEW w \in Tasks, Fail(w) PROVE HistoryOK'
  BY <1>18 DEF Fail, EndEarly
<1>19. ASSUME NEW w \in Tasks, FailSpace(w) PROVE HistoryOK'
  BY <1>19 DEF FailSpace, LeaveSpace, SpaceLost
<1>20. ASSUME NEW w \in Tasks, Abort(w) PROVE HistoryOK'
  <2>1. PICK K \in {{}, Unguarded(w)} :
               EndEarly(w, K) /\ leaked' = leaked \cup K
    BY <1>20 DEF Abort
  <2>2. leaked' \subseteq Keys
    BY <2>1, UnguardedKeys
  <2> QED
    BY <1>20, <2>1, <2>2 DEF Abort, EndEarly, SpaceLost
<1>21. ASSUME NEW k \in Keys, Release(k) PROVE HistoryOK'
  BY <1>21 DEF Release
<1>22. ASSUME NEW k \in Keys, ReleaseFails(k) PROVE HistoryOK'
  BY <1>22 DEF ReleaseFails
<1>23. ASSUME NEW r \in ghost, UnbridgeGhost(r) PROVE HistoryOK'
  BY <1>23 DEF UnbridgeGhost
<1>26. ASSUME NEW r \in unbridging, UnbridgeThreads(r) PROVE HistoryOK'
  BY <1>26 DEF UnbridgeThreads
<1>27. ASSUME NEW w \in Tasks, NEW r \in Composed, Compose(w, r)
      PROVE  HistoryOK'
  BY <1>27 DEF Compose
<1>28. ASSUME NEW r \in ghost, SubmitFresh(r) PROVE HistoryOK'
  BY <1>28 DEF SubmitFresh
<1>29. CASE MapFresh
  BY <1>29 DEF MapFresh, SaveMapping
<1>24. ASSUME NEW r \in leaving, LeaveRoom(r) PROVE HistoryOK'
  BY <1>24 DEF LeaveRoom
<1>25. CASE Restart
  <2>1. orphans' \in [Threads -> Nat]
    <3> DEFINE S(t) == {w \in Tasks : job[w] # None /\ Thread(w) = t
                                        /\ Orphaned(w)}
    <3>1. \A t \in Threads : Cardinality(S(t)) \in Nat
      BY TaskCount
    <3>2. orphans' = [t \in Threads |-> orphans[t] + Cardinality(S(t))]
      BY <1>25 DEF Restart
    <3> HIDE DEF S
    <3> QED
      BY <3>1, <3>2
  <2>2. slips' \in [Emails -> Nat]
    <3> DEFINE S(e) == {w \in Tasks : job[w] = e /\ Unrecorded(w)}
    <3>1. \A e \in Emails : Cardinality(S(e)) \in Nat
      BY TaskCount
    <3>2. slips' = [e \in Emails |-> slips[e] + Cardinality(S(e))]
      BY <1>25 DEF Restart
    <3> HIDE DEF S
    <3> QED
      BY <3>1, <3>2
  <2>3. spaceOrphans' \in Nat
    <3>1. Cardinality({w \in Tasks : pc[w] = "spaceSave"}) \in Nat
      BY TaskCount
    <3> QED
      BY <1>25, <3>1 DEF Restart
  <2> QED
    BY <1>25, <2>1, <2>2, <2>3 DEF Restart
<1> QED
  BY <1>1, <1>2, <1>3, <1>4, <1>5, <1>6, <1>7, <1>8, <1>9, <1>10, <1>11,
     <1>12, <1>13, <1>14, <1>15, <1>16, <1>17, <1>18, <1>19, <1>20, <1>21,
     <1>22, <1>23, <1>24, <1>25, <1>26, <1>27, <1>28, <1>29
  DEF Next, Step

-----------------------------------------------------------------------------
(* Locks.                                                                  *)

LEMMA LockNext ==
      /\ StoreOK /\ TasksOK /\ HistoryOK /\ GuardInv /\ CreationExclusive
      /\ [Next]_vars
    => CreationExclusive'
<1> SUFFICES ASSUME StoreOK, TasksOK, HistoryOK, GuardInv,
                    CreationExclusive, [Next]_vars
             PROVE  CreationExclusive'
  OBVIOUS
<1> USE RoomAssumption DEF StoreOK, TasksOK, HistoryOK, GuardInv,
                           CreationExclusive, Thread, Keys, SpaceSteps,
                           Leave, Goto, Repairing, Working, store, tasks,
                           server, closing, history, tallies, aside
<1>0. ASSUME NEW w \in Tasks, LeaveSpace(w), UNCHANGED <<locks, leaked>>
      PROVE  CreationExclusive'
  <2>1. PICK D \in SUBSET guards[w] :
               /\ guards' = [guards EXCEPT ![w] = @ \ D]
               /\ releasing' = releasing \cup D
    <3>1. CASE Repairing(w)
      <4>1. /\ guards' = [guards EXCEPT ![w] = @ \ guards[w]]
            /\ releasing' = releasing \cup guards[w]
        BY <1>0, <3>1 DEF LeaveSpace
      <4> QED
        BY <4>1
    <3>2. CASE ~Repairing(w)
      <4>1. /\ guards' = [guards EXCEPT ![w] = @ \ (guards[w] \cap {Space})]
            /\ releasing' = releasing \cup (guards[w] \cap {Space})
        BY <1>0, <3>2 DEF LeaveSpace
      <4> QED
        BY <4>1
    <3> QED
      BY <3>1, <3>2
  <2>2. UNCHANGED <<locks, leaked>>
    BY <1>0
  <2> QED
    BY <2>1, <2>2
<1>1. CASE UNCHANGED vars
  BY <1>1 DEF vars
<1>2. ASSUME NEW w \in Tasks, NEW e \in Emails, Begin(w, e)
      PROVE  CreationExclusive'
  BY <1>2 DEF Begin
<1>3. ASSUME NEW w \in Tasks, BeginRepair(w) PROVE CreationExclusive'
  BY <1>3 DEF BeginRepair
<1>4. ASSUME NEW w \in Tasks, LookupThread(w) PROVE CreationExclusive'
  BY <1>4 DEF LookupThread, GetThreadInfo
<1>5. ASSUME NEW w \in Tasks, AcquireThread(w) PROVE CreationExclusive'
  BY <1>5 DEF AcquireThread, TryAcquire
<1>6. ASSUME NEW w \in Tasks, Recheck(w) PROVE CreationExclusive'
  BY <1>6 DEF Recheck, GetThreadInfo
<1>7. ASSUME NEW w \in Tasks, CreateRoom(w) PROVE CreationExclusive'
  BY <1>7 DEF CreateRoom
<1>8. ASSUME NEW w \in Tasks, BindGhost(w) PROVE CreationExclusive'
  BY <1>8 DEF BindGhost
<1>9. ASSUME NEW w \in Tasks, GetSpace(w) PROVE CreationExclusive'
  BY <1>9 DEF GetSpace, LeaveSpace
<1>10. ASSUME NEW w \in Tasks, AcquireSpace(w) PROVE CreationExclusive'
  BY <1>10 DEF AcquireSpace, TryAcquire
<1>11. ASSUME NEW w \in Tasks, CreateSpace(w) PROVE CreationExclusive'
  BY <1>11 DEF CreateSpace, LeaveSpace
<1>12. ASSUME NEW w \in Tasks, SaveSpace(w) PROVE CreationExclusive'
  <2>1. LeaveSpace(w) /\ UNCHANGED <<locks, leaked>>
    BY <1>12 DEF SaveSpace
  <2> QED
    BY <2>1, <1>0
<1>13. ASSUME NEW w \in Tasks, PostFirst(w) PROVE CreationExclusive'
  BY <1>13 DEF PostFirst, Post
<1>14. ASSUME NEW w \in Tasks, PostReply(w) PROVE CreationExclusive'
  BY <1>14 DEF PostReply, Post
<1>15. ASSUME NEW w \in Tasks, SendRefused(w) PROVE CreationExclusive'
  BY <1>15 DEF SendRefused, EndEarly
<1>16. ASSUME NEW w \in Tasks, SaveThread(w) PROVE CreationExclusive'
  BY <1>16 DEF SaveThread, SaveMapping
<1>17. ASSUME NEW w \in Tasks, SaveMessage(w) PROVE CreationExclusive'
  BY <1>17 DEF SaveMessage
<1>18. ASSUME NEW w \in Tasks, Fail(w) PROVE CreationExclusive'
  BY <1>18 DEF Fail, EndEarly
<1>19. ASSUME NEW w \in Tasks, FailSpace(w) PROVE CreationExclusive'
  <2>1. LeaveSpace(w) /\ UNCHANGED <<locks, leaked>>
    BY <1>19 DEF FailSpace
  <2> QED
    BY <2>1, <1>0
<1>20. ASSUME NEW w \in Tasks, Abort(w) PROVE CreationExclusive'
  BY <1>20 DEF Abort, EndEarly, Unguarded, SpaceLost
<1>21. ASSUME NEW k \in Keys, Release(k) PROVE CreationExclusive'
  BY <1>21 DEF Release
<1>22. ASSUME NEW k \in Keys, ReleaseFails(k) PROVE CreationExclusive'
  BY <1>22 DEF ReleaseFails
<1>23. ASSUME NEW r \in ghost, UnbridgeGhost(r) PROVE CreationExclusive'
  BY <1>23 DEF UnbridgeGhost
<1>26. ASSUME NEW r \in unbridging, UnbridgeThreads(r)
      PROVE  CreationExclusive'
  BY <1>26 DEF UnbridgeThreads
<1>27. ASSUME NEW w \in Tasks, NEW r \in Composed, Compose(w, r)
      PROVE  CreationExclusive'
  BY <1>27 DEF Compose
<1>28. ASSUME NEW r \in ghost, SubmitFresh(r) PROVE CreationExclusive'
  BY <1>28 DEF SubmitFresh
<1>29. CASE MapFresh
  BY <1>29 DEF MapFresh, SaveMapping
<1>24. ASSUME NEW r \in leaving, LeaveRoom(r) PROVE CreationExclusive'
  BY <1>24 DEF LeaveRoom
<1>25. CASE Restart
  BY <1>25 DEF Restart
<1> QED
  BY <1>1, <1>2, <1>3, <1>4, <1>5, <1>6, <1>7, <1>8, <1>9, <1>10, <1>11,
     <1>12, <1>13, <1>14, <1>15, <1>16, <1>17, <1>18, <1>19, <1>20, <1>21,
     <1>22, <1>23, <1>24, <1>25, <1>26, <1>27, <1>28, <1>29
  DEF Next, Step

LEMMA GuardNext ==
    StoreOK /\ TasksOK /\ GuardInv /\ [Next]_vars => GuardInv'
<1> SUFFICES ASSUME StoreOK, TasksOK, GuardInv, [Next]_vars
             PROVE  GuardInv'
  OBVIOUS
<1> USE RoomAssumption DEF StoreOK, TasksOK, GuardInv, Critical, Holding,
                           Orphaned, Thread, Keys, SpaceSteps, Leave, Goto,
                           Repairing, Working, store, tasks, server, closing,
                           history, tallies, aside
<1>1. CASE UNCHANGED vars
  BY <1>1 DEF vars
<1>2. ASSUME NEW w \in Tasks, NEW e \in Emails, Begin(w, e) PROVE GuardInv'
  BY <1>2 DEF Begin
<1>3. ASSUME NEW w \in Tasks, BeginRepair(w) PROVE GuardInv'
  BY <1>3 DEF BeginRepair
<1>4. ASSUME NEW w \in Tasks, LookupThread(w) PROVE GuardInv'
  BY <1>4 DEF LookupThread, GetThreadInfo
<1>5. ASSUME NEW w \in Tasks, AcquireThread(w) PROVE GuardInv'
  BY <1>5 DEF AcquireThread, TryAcquire
<1>6. ASSUME NEW w \in Tasks, Recheck(w) PROVE GuardInv'
  BY <1>6 DEF Recheck, GetThreadInfo
<1>7. ASSUME NEW w \in Tasks, CreateRoom(w) PROVE GuardInv'
  BY <1>7 DEF CreateRoom
<1>8. ASSUME NEW w \in Tasks, BindGhost(w) PROVE GuardInv'
  BY <1>8 DEF BindGhost
<1>9. ASSUME NEW w \in Tasks, GetSpace(w) PROVE GuardInv'
  BY <1>9 DEF GetSpace, LeaveSpace
<1>10. ASSUME NEW w \in Tasks, AcquireSpace(w) PROVE GuardInv'
  BY <1>10 DEF AcquireSpace, TryAcquire
<1>11. ASSUME NEW w \in Tasks, CreateSpace(w) PROVE GuardInv'
  BY <1>11 DEF CreateSpace, LeaveSpace
<1>12. ASSUME NEW w \in Tasks, SaveSpace(w) PROVE GuardInv'
  BY <1>12 DEF SaveSpace, LeaveSpace
<1>13. ASSUME NEW w \in Tasks, PostFirst(w) PROVE GuardInv'
  BY <1>13 DEF PostFirst, Post
<1>14. ASSUME NEW w \in Tasks, PostReply(w) PROVE GuardInv'
  BY <1>14 DEF PostReply, Post
<1>15. ASSUME NEW w \in Tasks, SendRefused(w) PROVE GuardInv'
  BY <1>15 DEF SendRefused, EndEarly
<1>16. ASSUME NEW w \in Tasks, SaveThread(w) PROVE GuardInv'
  BY <1>16 DEF SaveThread, SaveMapping
<1>17. ASSUME NEW w \in Tasks, SaveMessage(w) PROVE GuardInv'
  BY <1>17 DEF SaveMessage
<1>18. ASSUME NEW w \in Tasks, Fail(w) PROVE GuardInv'
  BY <1>18 DEF Fail, EndEarly
<1>19. ASSUME NEW w \in Tasks, FailSpace(w) PROVE GuardInv'
  BY <1>19 DEF FailSpace, LeaveSpace, SpaceLost
<1>20. ASSUME NEW w \in Tasks, Abort(w) PROVE GuardInv'
  BY <1>20 DEF Abort, EndEarly, Unguarded, SpaceLost
<1>21. ASSUME NEW k \in Keys, Release(k) PROVE GuardInv'
  BY <1>21 DEF Release
<1>22. ASSUME NEW k \in Keys, ReleaseFails(k) PROVE GuardInv'
  BY <1>22 DEF ReleaseFails
<1>23. ASSUME NEW r \in ghost, UnbridgeGhost(r) PROVE GuardInv'
  BY <1>23 DEF UnbridgeGhost
<1>26. ASSUME NEW r \in unbridging, UnbridgeThreads(r) PROVE GuardInv'
  BY <1>26 DEF UnbridgeThreads
<1>27. ASSUME NEW w \in Tasks, NEW r \in Composed, Compose(w, r)
      PROVE  GuardInv'
  BY <1>27 DEF Compose
<1>28. ASSUME NEW r \in ghost, SubmitFresh(r) PROVE GuardInv'
  BY <1>28 DEF SubmitFresh
<1>29. CASE MapFresh
  BY <1>29 DEF MapFresh, SaveMapping
<1>24. ASSUME NEW r \in leaving, LeaveRoom(r) PROVE GuardInv'
  BY <1>24 DEF LeaveRoom
<1>25. CASE Restart
  BY <1>25 DEF Restart
<1> QED
  BY <1>1, <1>2, <1>3, <1>4, <1>5, <1>6, <1>7, <1>8, <1>9, <1>10, <1>11,
     <1>12, <1>13, <1>14, <1>15, <1>16, <1>17, <1>18, <1>19, <1>20, <1>21,
     <1>22, <1>23, <1>24, <1>25, <1>26, <1>27, <1>28, <1>29
  DEF Next, Step

LEMMA HeldRoomNext ==
    TasksOK /\ ServerOK /\ HeldRoomInv /\ [Next]_vars => HeldRoomInv'
<1> SUFFICES ASSUME TasksOK, ServerOK, HeldRoomInv, [Next]_vars
             PROVE  HeldRoomInv'
  OBVIOUS
<1> USE RoomAssumption DEF TasksOK, ServerOK, HeldRoomInv, Holding, Orphaned,
                           Thread, SpaceSteps, Leave, Goto, Repairing,
                           Working, store, tasks, server, closing, history,
                           tallies, aside
<1>1. CASE UNCHANGED vars
  BY <1>1 DEF vars
<1>2. ASSUME NEW w \in Tasks, NEW e \in Emails, Begin(w, e) PROVE HeldRoomInv'
  BY <1>2 DEF Begin
<1>3. ASSUME NEW w \in Tasks, BeginRepair(w) PROVE HeldRoomInv'
  BY <1>3 DEF BeginRepair
<1>4. ASSUME NEW w \in Tasks, LookupThread(w) PROVE HeldRoomInv'
  BY <1>4 DEF LookupThread, GetThreadInfo
<1>5. ASSUME NEW w \in Tasks, AcquireThread(w) PROVE HeldRoomInv'
  BY <1>5 DEF AcquireThread, TryAcquire
<1>6. ASSUME NEW w \in Tasks, Recheck(w) PROVE HeldRoomInv'
  BY <1>6 DEF Recheck, GetThreadInfo
<1>7. ASSUME NEW w \in Tasks, CreateRoom(w) PROVE HeldRoomInv'
  <2> DEFINE r == <<Thread(w), made[Thread(w)] + 1>>
  <2>0. room' = [room EXCEPT ![w] = r] /\ r # None
    BY <1>7, CreatedRoom
  <2>1. room'[w] # None
    BY <2>0
  <2>2. \A x \in Tasks : x # w => room'[x] = room[x]
    BY <2>0
  <2> QED
    BY <1>7, <2>1, <2>2 DEF CreateRoom
<1>8. ASSUME NEW w \in Tasks, BindGhost(w) PROVE HeldRoomInv'
  BY <1>8 DEF BindGhost
<1>9. ASSUME NEW w \in Tasks, GetSpace(w) PROVE HeldRoomInv'
  BY <1>9 DEF GetSpace, LeaveSpace
<1>10. ASSUME NEW w \in Tasks, AcquireSpace(w) PROVE HeldRoomInv'
  BY <1>10 DEF AcquireSpace, TryAcquire
<1>11. ASSUME NEW w \in Tasks, CreateSpace(w) PROVE HeldRoomInv'
  BY <1>11 DEF CreateSpace, LeaveSpace
<1>12. ASSUME NEW w \in Tasks, SaveSpace(w) PROVE HeldRoomInv'
  BY <1>12 DEF SaveSpace, LeaveSpace
<1>13. ASSUME NEW w \in Tasks, PostFirst(w) PROVE HeldRoomInv'
  BY <1>13 DEF PostFirst, Post
<1>14. ASSUME NEW w \in Tasks, PostReply(w) PROVE HeldRoomInv'
  BY <1>14 DEF PostReply, Post
<1>15. ASSUME NEW w \in Tasks, SendRefused(w) PROVE HeldRoomInv'
  BY <1>15 DEF SendRefused, EndEarly
<1>16. ASSUME NEW w \in Tasks, SaveThread(w) PROVE HeldRoomInv'
  BY <1>16 DEF SaveThread, SaveMapping
<1>17. ASSUME NEW w \in Tasks, SaveMessage(w) PROVE HeldRoomInv'
  BY <1>17 DEF SaveMessage
<1>18. ASSUME NEW w \in Tasks, Fail(w) PROVE HeldRoomInv'
  BY <1>18 DEF Fail, EndEarly
<1>19. ASSUME NEW w \in Tasks, FailSpace(w) PROVE HeldRoomInv'
  BY <1>19 DEF FailSpace, LeaveSpace, SpaceLost
<1>20. ASSUME NEW w \in Tasks, Abort(w) PROVE HeldRoomInv'
  BY <1>20 DEF Abort, EndEarly, Unguarded, SpaceLost
<1>21. ASSUME NEW k \in Keys, Release(k) PROVE HeldRoomInv'
  BY <1>21 DEF Release
<1>22. ASSUME NEW k \in Keys, ReleaseFails(k) PROVE HeldRoomInv'
  BY <1>22 DEF ReleaseFails
<1>23. ASSUME NEW r \in ghost, UnbridgeGhost(r) PROVE HeldRoomInv'
  BY <1>23 DEF UnbridgeGhost
<1>26. ASSUME NEW r \in unbridging, UnbridgeThreads(r) PROVE HeldRoomInv'
  BY <1>26 DEF UnbridgeThreads
<1>27. ASSUME NEW w \in Tasks, NEW r \in Composed, Compose(w, r)
      PROVE  HeldRoomInv'
  BY <1>27 DEF Compose
<1>28. ASSUME NEW r \in ghost, SubmitFresh(r) PROVE HeldRoomInv'
  BY <1>28 DEF SubmitFresh
<1>29. CASE MapFresh
  BY <1>29 DEF MapFresh, SaveMapping
<1>24. ASSUME NEW r \in leaving, LeaveRoom(r) PROVE HeldRoomInv'
  BY <1>24 DEF LeaveRoom
<1>25. CASE Restart
  BY <1>25 DEF Restart
<1> QED
  BY <1>1, <1>2, <1>3, <1>4, <1>5, <1>6, <1>7, <1>8, <1>9, <1>10, <1>11,
     <1>12, <1>13, <1>14, <1>15, <1>16, <1>17, <1>18, <1>19, <1>20, <1>21,
     <1>22, <1>23, <1>24, <1>25, <1>26, <1>27, <1>28, <1>29
  DEF Next, Step

-----------------------------------------------------------------------------
(* Rooms, spaces and posts.                                                *)

LEMMA RoomNext ==
      /\ TypeOK /\ CreationExclusive /\ GuardInv /\ HeldRoomInv /\ RoomInv
      /\ [Next]_vars
    => RoomInv'
<1> SUFFICES ASSUME TypeOK, CreationExclusive, GuardInv,
                    HeldRoomInv, RoomInv, [Next]_vars
             PROVE  RoomInv'
  OBVIOUS
<1> USE RoomAssumption DEF TypeOK, StoreOK, TasksOK, ServerOK, HistoryOK,
                           GuardInv, HeldRoomInv, RoomInv, Creating,
                           Critical, Holding, Orphaned, CreationExclusive,
                           Thread, Keys, SpaceSteps, Leave, Goto, Repairing,
                           Working, store, tasks, server, closing, history,
                           tallies, aside
<1>0. ASSUME NEW w \in Tasks, NEW K, EndEarly(w, K),
             UNCHANGED <<thread_mapping, made, unbridged>>
      PROVE  RoomInv'
  BY <1>0 DEF EndEarly
<1>1. CASE UNCHANGED vars
  BY <1>1 DEF vars
<1>2. ASSUME NEW w \in Tasks, NEW e \in Emails, Begin(w, e) PROVE RoomInv'
  BY <1>2 DEF Begin
<1>3. ASSUME NEW w \in Tasks, BeginRepair(w) PROVE RoomInv'
  BY <1>3 DEF BeginRepair
<1>4. ASSUME NEW w \in Tasks, LookupThread(w) PROVE RoomInv'
  BY <1>4 DEF LookupThread, GetThreadInfo
<1>5. ASSUME NEW w \in Tasks, AcquireThread(w) PROVE RoomInv'
  BY <1>5 DEF AcquireThread, TryAcquire
<1>6. ASSUME NEW w \in Tasks, Recheck(w) PROVE RoomInv'
  BY <1>6 DEF Recheck, GetThreadInfo
<1>7. ASSUME NEW w \in Tasks, CreateRoom(w) PROVE RoomInv'
  <2> DEFINE t == Thread(w)
  <2>1. t \in Threads
    BY <1>7, CreatedRoom
  <2>2. Creating(t)
    BY <1>7 DEF CreateRoom
  <2>3. ~\E x \in Tasks : Holding(x) /\ Thread(x) = t
    BY <1>7 DEF CreateRoom
  <2>4. made[t] <= orphans[t] + unbridged[t]
    BY <2>1, <2>2, <2>3
  <2>5. /\ made' = [made EXCEPT ![t] = @ + 1]
        /\ pc' = [pc EXCEPT ![w] = "bind"]
        /\ UNCHANGED <<thread_mapping, orphans, unbridged, job>>
    BY <1>7 DEF CreateRoom
  <2>6. made'[t] <= 1 + orphans'[t] + unbridged'[t]
    BY <2>1, <2>4, <2>5
  <2>7. Holding(w)' /\ Thread(w)' = t
    BY <1>7, <2>5 DEF CreateRoom
  <2>8. ASSUME NEW u \in Threads, u # t
        PROVE  /\ made'[u] = made[u]
               /\ Creating(u)' => Creating(u)
               /\ (\E x \in Tasks : Holding(x) /\ Thread(x) = u)
                      => (\E x \in Tasks : Holding(x) /\ Thread(x) = u)'
    BY <2>5, <2>8
  <2> QED
    BY <2>5, <2>6, <2>7, <2>8
<1>8. ASSUME NEW w \in Tasks, BindGhost(w) PROVE RoomInv'
  BY <1>8 DEF BindGhost
<1>9. ASSUME NEW w \in Tasks, GetSpace(w) PROVE RoomInv'
  BY <1>9 DEF GetSpace, LeaveSpace
<1>10. ASSUME NEW w \in Tasks, AcquireSpace(w) PROVE RoomInv'
  BY <1>10 DEF AcquireSpace, TryAcquire
<1>11. ASSUME NEW w \in Tasks, CreateSpace(w) PROVE RoomInv'
  BY <1>11 DEF CreateSpace, LeaveSpace
<1>12. ASSUME NEW w \in Tasks, SaveSpace(w) PROVE RoomInv'
  BY <1>12 DEF SaveSpace, LeaveSpace
<1>13. ASSUME NEW w \in Tasks, PostFirst(w) PROVE RoomInv'
  BY <1>13 DEF PostFirst, Post
<1>14. ASSUME NEW w \in Tasks, PostReply(w) PROVE RoomInv'
  BY <1>14 DEF PostReply, Post
<1>15. ASSUME NEW w \in Tasks, SendRefused(w) PROVE RoomInv'
  BY <1>15, <1>0 DEF SendRefused
<1>16. ASSUME NEW w \in Tasks, SaveThread(w) PROVE RoomInv'
  BY <1>16 DEF SaveThread, SaveMapping
<1>17. ASSUME NEW w \in Tasks, SaveMessage(w) PROVE RoomInv'
  BY <1>17 DEF SaveMessage
<1>18. ASSUME NEW w \in Tasks, Fail(w) PROVE RoomInv'
  BY <1>18, <1>0 DEF Fail
<1>19. ASSUME NEW w \in Tasks, FailSpace(w) PROVE RoomInv'
  BY <1>19 DEF FailSpace, LeaveSpace, SpaceLost
<1>20. ASSUME NEW w \in Tasks, Abort(w) PROVE RoomInv'
  BY <1>20, <1>0 DEF Abort
<1>21. ASSUME NEW k \in Keys, Release(k) PROVE RoomInv'
  BY <1>21 DEF Release
<1>22. ASSUME NEW k \in Keys, ReleaseFails(k) PROVE RoomInv'
  BY <1>22 DEF ReleaseFails
<1>23. ASSUME NEW r \in ghost, UnbridgeGhost(r) PROVE RoomInv'
  BY <1>23 DEF UnbridgeGhost
<1>26. ASSUME NEW r \in unbridging, UnbridgeThreads(r) PROVE RoomInv'
  BY <1>26 DEF UnbridgeThreads
<1>27. ASSUME NEW w \in Tasks, NEW r \in Composed, Compose(w, r)
      PROVE  RoomInv'
  BY <1>27 DEF Compose
<1>28. ASSUME NEW r \in ghost, SubmitFresh(r) PROVE RoomInv'
  BY <1>28 DEF SubmitFresh
<1>29. CASE MapFresh
  BY <1>29 DEF MapFresh, SaveMapping
<1>24. ASSUME NEW r \in leaving, LeaveRoom(r) PROVE RoomInv'
  BY <1>24 DEF LeaveRoom
<1>25. CASE Restart
  <2> SUFFICES ASSUME NEW t \in Threads
               PROVE  /\ made[t] <= 1 + orphans'[t] + unbridged[t]
                      /\ \/ thread_mapping[t] # None
                         \/ made[t] <= orphans'[t] + unbridged[t]
    BY <1>25 DEF Restart
  <2> DEFINE S == {w \in Tasks : job[w] # None /\ Thread(w) = t
                                   /\ Orphaned(w)}
  <2>1. orphans'[t] = orphans[t] + Cardinality(S)
    BY <1>25 DEF Restart
  <2>2. Cardinality(S) \in Nat /\ (S # {} => Cardinality(S) >= 1)
    BY TaskCount
  <2>3. /\ made[t] <= 1 + orphans[t] + unbridged[t]
        /\ \/ thread_mapping[t] # None
           \/ S # {}
           \/ made[t] <= orphans[t] + unbridged[t]
    BY DEF RoomInv, Holding
  <2>4. {made[t], orphans[t], unbridged[t]} \subseteq Nat
    BY DEF TypeOK, ServerOK, HistoryOK
  <2> HIDE DEF S
  <2> QED
    BY <2>1, <2>2, <2>3, <2>4
<1> QED
  BY <1>1, <1>2, <1>3, <1>4, <1>5, <1>6, <1>7, <1>8, <1>9, <1>10, <1>11,
     <1>12, <1>13, <1>14, <1>15, <1>16, <1>17, <1>18, <1>19, <1>20, <1>21,
     <1>22, <1>23, <1>24, <1>25, <1>26, <1>27, <1>28, <1>29
  DEF Next, Step

LEMMA MoveNext ==
      /\ TypeOK /\ CreationExclusive /\ GuardInv /\ MoveInv /\ [Next]_vars
    => MoveInv'
<1> SUFFICES ASSUME TypeOK, CreationExclusive, GuardInv, MoveInv,
                    [Next]_vars
             PROVE  MoveInv'
  OBVIOUS
<1> USE RoomAssumption DEF TypeOK, StoreOK, TasksOK, ServerOK, HistoryOK,
                           GuardInv, MoveInv, Critical, Holding, Orphaned,
                           CreationExclusive, Thread, Keys, SpaceSteps,
                           Leave, Goto, Repairing, Working, store, tasks,
                           server, closing, history, tallies, aside
<1>1. CASE UNCHANGED vars
  BY <1>1 DEF vars
<1>2. ASSUME NEW w \in Tasks, NEW e \in Emails, Begin(w, e) PROVE MoveInv'
  BY <1>2 DEF Begin
<1>3. ASSUME NEW w \in Tasks, BeginRepair(w) PROVE MoveInv'
  BY <1>3 DEF BeginRepair
<1>4. ASSUME NEW w \in Tasks, LookupThread(w) PROVE MoveInv'
  BY <1>4 DEF LookupThread, GetThreadInfo
<1>5. ASSUME NEW w \in Tasks, AcquireThread(w) PROVE MoveInv'
  BY <1>5 DEF AcquireThread, TryAcquire
<1>6. ASSUME NEW w \in Tasks, Recheck(w) PROVE MoveInv'
  BY <1>6 DEF Recheck, GetThreadInfo
<1>7. ASSUME NEW w \in Tasks, CreateRoom(w) PROVE MoveInv'
  BY <1>7 DEF CreateRoom
<1>8. ASSUME NEW w \in Tasks, BindGhost(w) PROVE MoveInv'
  BY <1>8 DEF BindGhost
<1>9. ASSUME NEW w \in Tasks, GetSpace(w) PROVE MoveInv'
  BY <1>9 DEF GetSpace, LeaveSpace
<1>10. ASSUME NEW w \in Tasks, AcquireSpace(w) PROVE MoveInv'
  BY <1>10 DEF AcquireSpace, TryAcquire
<1>11. ASSUME NEW w \in Tasks, CreateSpace(w) PROVE MoveInv'
  BY <1>11 DEF CreateSpace, LeaveSpace
<1>12. ASSUME NEW w \in Tasks, SaveSpace(w) PROVE MoveInv'
  BY <1>12 DEF SaveSpace, LeaveSpace
<1>13. ASSUME NEW w \in Tasks, PostFirst(w) PROVE MoveInv'
  BY <1>13 DEF PostFirst, Post
<1>14. ASSUME NEW w \in Tasks, PostReply(w) PROVE MoveInv'
  BY <1>14 DEF PostReply, Post
<1>15. ASSUME NEW w \in Tasks, SendRefused(w) PROVE MoveInv'
  BY <1>15 DEF SendRefused, EndEarly
<1>16. ASSUME NEW w \in Tasks, SaveThread(w) PROVE MoveInv'
  BY <1>16 DEF SaveThread, SaveMapping
<1>17. ASSUME NEW w \in Tasks, SaveMessage(w) PROVE MoveInv'
  BY <1>17 DEF SaveMessage
<1>18. ASSUME NEW w \in Tasks, Fail(w) PROVE MoveInv'
  BY <1>18 DEF Fail, EndEarly
<1>19. ASSUME NEW w \in Tasks, FailSpace(w) PROVE MoveInv'
  BY <1>19 DEF FailSpace, LeaveSpace, SpaceLost
<1>20. ASSUME NEW w \in Tasks, Abort(w) PROVE MoveInv'
  BY <1>20 DEF Abort, EndEarly, Unguarded, SpaceLost
<1>21. ASSUME NEW k \in Keys, Release(k) PROVE MoveInv'
  BY <1>21 DEF Release
<1>22. ASSUME NEW k \in Keys, ReleaseFails(k) PROVE MoveInv'
  BY <1>22 DEF ReleaseFails
<1>23. ASSUME NEW r \in ghost, UnbridgeGhost(r) PROVE MoveInv'
  BY <1>23 DEF UnbridgeGhost
<1>26. ASSUME NEW r \in unbridging, UnbridgeThreads(r) PROVE MoveInv'
  BY <1>26 DEF UnbridgeThreads
<1>27. ASSUME NEW w \in Tasks, NEW r \in Composed, Compose(w, r)
      PROVE  MoveInv'
  BY <1>27 DEF Compose
<1>28. ASSUME NEW r \in ghost, SubmitFresh(r) PROVE MoveInv'
  BY <1>28 DEF SubmitFresh
<1>29. CASE MapFresh
  BY <1>29 DEF MapFresh, SaveMapping
<1>24. ASSUME NEW r \in leaving, LeaveRoom(r) PROVE MoveInv'
  BY <1>24 DEF LeaveRoom
<1>25. CASE Restart
  BY <1>25 DEF Restart
<1> QED
  BY <1>1, <1>2, <1>3, <1>4, <1>5, <1>6, <1>7, <1>8, <1>9, <1>10, <1>11,
     <1>12, <1>13, <1>14, <1>15, <1>16, <1>17, <1>18, <1>19, <1>20, <1>21,
     <1>22, <1>23, <1>24, <1>25, <1>26, <1>27, <1>28, <1>29
  DEF Next, Step

LEMMA SpaceNext ==
      /\ TypeOK /\ CreationExclusive /\ GuardInv /\ SpaceInv /\ [Next]_vars
    => SpaceInv'
<1> SUFFICES ASSUME TypeOK, CreationExclusive, GuardInv, SpaceInv,
                    [Next]_vars
             PROVE  SpaceInv'
  OBVIOUS
<1> USE RoomAssumption DEF TypeOK, TasksOK, ServerOK, HistoryOK, GuardInv,
                           SpaceInv, CreationExclusive, Thread, Keys,
                           SpaceSteps, Leave, Goto, Repairing, Working,
                           store, tasks, server, closing, history, tallies,
                           aside
<1>1. CASE UNCHANGED vars
  BY <1>1 DEF vars
<1>2. ASSUME NEW w \in Tasks, NEW e \in Emails, Begin(w, e) PROVE SpaceInv'
  BY <1>2 DEF Begin
<1>3. ASSUME NEW w \in Tasks, BeginRepair(w) PROVE SpaceInv'
  BY <1>3 DEF BeginRepair
<1>4. ASSUME NEW w \in Tasks, LookupThread(w) PROVE SpaceInv'
  BY <1>4 DEF LookupThread, GetThreadInfo
<1>5. ASSUME NEW w \in Tasks, AcquireThread(w) PROVE SpaceInv'
  BY <1>5 DEF AcquireThread, TryAcquire
<1>6. ASSUME NEW w \in Tasks, Recheck(w) PROVE SpaceInv'
  BY <1>6 DEF Recheck, GetThreadInfo
<1>7. ASSUME NEW w \in Tasks, CreateRoom(w) PROVE SpaceInv'
  BY <1>7 DEF CreateRoom
<1>8. ASSUME NEW w \in Tasks, BindGhost(w) PROVE SpaceInv'
  BY <1>8 DEF BindGhost
<1>9. ASSUME NEW w \in Tasks, GetSpace(w) PROVE SpaceInv'
  BY <1>9 DEF GetSpace, LeaveSpace
<1>10. ASSUME NEW w \in Tasks, AcquireSpace(w) PROVE SpaceInv'
  BY <1>10 DEF AcquireSpace, TryAcquire
<1>11. ASSUME NEW w \in Tasks, CreateSpace(w) PROVE SpaceInv'
  BY <1>11 DEF CreateSpace, LeaveSpace
<1>12. ASSUME NEW w \in Tasks, SaveSpace(w) PROVE SpaceInv'
  BY <1>12 DEF SaveSpace, LeaveSpace
<1>13. ASSUME NEW w \in Tasks, PostFirst(w) PROVE SpaceInv'
  BY <1>13 DEF PostFirst, Post
<1>14. ASSUME NEW w \in Tasks, PostReply(w) PROVE SpaceInv'
  BY <1>14 DEF PostReply, Post
<1>15. ASSUME NEW w \in Tasks, SendRefused(w) PROVE SpaceInv'
  BY <1>15 DEF SendRefused, EndEarly
<1>16. ASSUME NEW w \in Tasks, SaveThread(w) PROVE SpaceInv'
  BY <1>16 DEF SaveThread, SaveMapping
<1>17. ASSUME NEW w \in Tasks, SaveMessage(w) PROVE SpaceInv'
  BY <1>17 DEF SaveMessage
<1>18. ASSUME NEW w \in Tasks, Fail(w) PROVE SpaceInv'
  BY <1>18 DEF Fail, EndEarly
<1>19. ASSUME NEW w \in Tasks, FailSpace(w) PROVE SpaceInv'
  BY <1>19 DEF FailSpace, LeaveSpace, SpaceLost
<1>20. ASSUME NEW w \in Tasks, Abort(w) PROVE SpaceInv'
  BY <1>20 DEF Abort, EndEarly, Unguarded, SpaceLost
<1>21. ASSUME NEW k \in Keys, Release(k) PROVE SpaceInv'
  BY <1>21 DEF Release
<1>22. ASSUME NEW k \in Keys, ReleaseFails(k) PROVE SpaceInv'
  BY <1>22 DEF ReleaseFails
<1>23. ASSUME NEW r \in ghost, UnbridgeGhost(r) PROVE SpaceInv'
  BY <1>23 DEF UnbridgeGhost
<1>26. ASSUME NEW r \in unbridging, UnbridgeThreads(r) PROVE SpaceInv'
  BY <1>26 DEF UnbridgeThreads
<1>27. ASSUME NEW w \in Tasks, NEW r \in Composed, Compose(w, r)
      PROVE  SpaceInv'
  BY <1>27 DEF Compose
<1>28. ASSUME NEW r \in ghost, SubmitFresh(r) PROVE SpaceInv'
  BY <1>28 DEF SubmitFresh
<1>29. CASE MapFresh
  BY <1>29 DEF MapFresh, SaveMapping
<1>24. ASSUME NEW r \in leaving, LeaveRoom(r) PROVE SpaceInv'
  BY <1>24 DEF LeaveRoom
<1>25. CASE Restart
  <2> DEFINE S == {w \in Tasks : pc[w] = "spaceSave"}
  <2>1. UNCHANGED <<space, spaces>>
        /\ spaceOrphans' = spaceOrphans + Cardinality(S)
    BY <1>25 DEF Restart
  <2>2. Cardinality(S) \in Nat /\ (S # {} => Cardinality(S) >= 1)
    BY TaskCount
  <2>3. /\ spaces <= 1 + spaceOrphans
        /\ space \/ S # {} \/ spaces <= spaceOrphans
    BY DEF SpaceInv
  <2>4. spaces \in Nat /\ spaceOrphans \in Nat
    BY DEF TypeOK, ServerOK, HistoryOK
  <2>5. /\ spaces' <= 1 + spaceOrphans'
        /\ space' \/ spaces' <= spaceOrphans'
    <3> HIDE DEF S
    <3> QED
      BY <2>1, <2>2, <2>3, <2>4
  <2> QED
    BY <2>5 DEF SpaceInv
<1> QED
  BY <1>1, <1>2, <1>3, <1>4, <1>5, <1>6, <1>7, <1>8, <1>9, <1>10, <1>11,
     <1>12, <1>13, <1>14, <1>15, <1>16, <1>17, <1>18, <1>19, <1>20, <1>21,
     <1>22, <1>23, <1>24, <1>25, <1>26, <1>27, <1>28, <1>29
  DEF Next, Step

LEMMA FirstNext ==
    TypeOK /\ FirstInv /\ [Next]_vars => FirstInv'
<1> SUFFICES ASSUME TypeOK, FirstInv, [Next]_vars
             PROVE  FirstInv'
  OBVIOUS
<1> USE RoomAssumption DEF TypeOK, TasksOK, HistoryOK, FirstInv, First,
                           SpaceSteps, Leave, Goto, Repairing, Working,
                           store, tasks, server, closing, history, tallies,
                           aside
<1>1. CASE UNCHANGED vars
  BY <1>1 DEF vars
<1>2. ASSUME NEW w \in Tasks, NEW e \in Emails, Begin(w, e) PROVE FirstInv'
  BY <1>2 DEF Begin
<1>3. ASSUME NEW w \in Tasks, BeginRepair(w) PROVE FirstInv'
  BY <1>3 DEF BeginRepair
<1>4. ASSUME NEW w \in Tasks, LookupThread(w) PROVE FirstInv'
  BY <1>4 DEF LookupThread, GetThreadInfo
<1>5. ASSUME NEW w \in Tasks, AcquireThread(w) PROVE FirstInv'
  BY <1>5 DEF AcquireThread, TryAcquire
<1>6. ASSUME NEW w \in Tasks, Recheck(w) PROVE FirstInv'
  BY <1>6 DEF Recheck, GetThreadInfo
<1>7. ASSUME NEW w \in Tasks, CreateRoom(w) PROVE FirstInv'
  BY <1>7 DEF CreateRoom
<1>8. ASSUME NEW w \in Tasks, BindGhost(w) PROVE FirstInv'
  BY <1>8 DEF BindGhost
<1>9. ASSUME NEW w \in Tasks, GetSpace(w) PROVE FirstInv'
  BY <1>9 DEF GetSpace, LeaveSpace
<1>10. ASSUME NEW w \in Tasks, AcquireSpace(w) PROVE FirstInv'
  BY <1>10 DEF AcquireSpace, TryAcquire
<1>11. ASSUME NEW w \in Tasks, CreateSpace(w) PROVE FirstInv'
  BY <1>11 DEF CreateSpace, LeaveSpace
<1>12. ASSUME NEW w \in Tasks, SaveSpace(w) PROVE FirstInv'
  BY <1>12 DEF SaveSpace, LeaveSpace
<1>13. ASSUME NEW w \in Tasks, PostFirst(w) PROVE FirstInv'
  BY <1>13 DEF PostFirst, Post
<1>14. ASSUME NEW w \in Tasks, PostReply(w) PROVE FirstInv'
  BY <1>14 DEF PostReply, Post
<1>15. ASSUME NEW w \in Tasks, SendRefused(w) PROVE FirstInv'
  BY <1>15 DEF SendRefused, EndEarly
<1>16. ASSUME NEW w \in Tasks, SaveThread(w) PROVE FirstInv'
  BY <1>16 DEF SaveThread, SaveMapping
<1>17. ASSUME NEW w \in Tasks, SaveMessage(w) PROVE FirstInv'
  BY <1>17 DEF SaveMessage
<1>18. ASSUME NEW w \in Tasks, Fail(w) PROVE FirstInv'
  BY <1>18 DEF Fail, EndEarly
<1>19. ASSUME NEW w \in Tasks, FailSpace(w) PROVE FirstInv'
  BY <1>19 DEF FailSpace, LeaveSpace, SpaceLost
<1>20. ASSUME NEW w \in Tasks, Abort(w) PROVE FirstInv'
  BY <1>20 DEF Abort, EndEarly, Unguarded, SpaceLost
<1>21. ASSUME NEW k \in Keys, Release(k) PROVE FirstInv'
  BY <1>21 DEF Release
<1>22. ASSUME NEW k \in Keys, ReleaseFails(k) PROVE FirstInv'
  BY <1>22 DEF ReleaseFails
<1>23. ASSUME NEW r \in ghost, UnbridgeGhost(r) PROVE FirstInv'
  BY <1>23 DEF UnbridgeGhost
<1>26. ASSUME NEW r \in unbridging, UnbridgeThreads(r) PROVE FirstInv'
  BY <1>26 DEF UnbridgeThreads
<1>27. ASSUME NEW w \in Tasks, NEW r \in Composed, Compose(w, r)
      PROVE  FirstInv'
  BY <1>27 DEF Compose
<1>28. ASSUME NEW r \in ghost, SubmitFresh(r) PROVE FirstInv'
  BY <1>28 DEF SubmitFresh
<1>29. CASE MapFresh
  BY <1>29 DEF MapFresh, SaveMapping
<1>24. ASSUME NEW r \in leaving, LeaveRoom(r) PROVE FirstInv'
  BY <1>24 DEF LeaveRoom
<1>25. CASE Restart
  BY <1>25 DEF Restart
<1> QED
  BY <1>1, <1>2, <1>3, <1>4, <1>5, <1>6, <1>7, <1>8, <1>9, <1>10, <1>11,
     <1>12, <1>13, <1>14, <1>15, <1>16, <1>17, <1>18, <1>19, <1>20, <1>21,
     <1>22, <1>23, <1>24, <1>25, <1>26, <1>27, <1>28, <1>29
  DEF Next, Step

LEMMA PostNext ==
    TypeOK /\ FirstInv /\ PostInv /\ [Next]_vars => PostInv'
<1> SUFFICES ASSUME TypeOK, FirstInv, PostInv, [Next]_vars
             PROVE  PostInv'
  OBVIOUS
<1> USE RoomAssumption DEF TypeOK, StoreOK, TasksOK, ServerOK, HistoryOK,
                           FirstInv, First, PostInv, Unrecorded, SpaceSteps,
                           Leave, Goto, Repairing, Working, store, tasks,
                           server, closing, history, tallies, aside
<1>1. CASE UNCHANGED vars
  BY <1>1 DEF vars
<1>2. ASSUME NEW w \in Tasks, NEW e \in Emails, Begin(w, e) PROVE PostInv'
  BY <1>2 DEF Begin
<1>3. ASSUME NEW w \in Tasks, BeginRepair(w) PROVE PostInv'
  BY <1>3 DEF BeginRepair
<1>4. ASSUME NEW w \in Tasks, LookupThread(w) PROVE PostInv'
  BY <1>4 DEF LookupThread, GetThreadInfo
<1>5. ASSUME NEW w \in Tasks, AcquireThread(w) PROVE PostInv'
  BY <1>5 DEF AcquireThread, TryAcquire
<1>6. ASSUME NEW w \in Tasks, Recheck(w) PROVE PostInv'
  BY <1>6 DEF Recheck, GetThreadInfo
<1>7. ASSUME NEW w \in Tasks, CreateRoom(w) PROVE PostInv'
  BY <1>7 DEF CreateRoom
<1>8. ASSUME NEW w \in Tasks, BindGhost(w) PROVE PostInv'
  BY <1>8 DEF BindGhost
<1>9. ASSUME NEW w \in Tasks, GetSpace(w) PROVE PostInv'
  BY <1>9 DEF GetSpace, LeaveSpace
<1>10. ASSUME NEW w \in Tasks, AcquireSpace(w) PROVE PostInv'
  BY <1>10 DEF AcquireSpace, TryAcquire
<1>11. ASSUME NEW w \in Tasks, CreateSpace(w) PROVE PostInv'
  <2>1. /\ pc[w] = "spaceAcquired"
        /\ UNCHANGED <<message_mapping, posts, slips, repeats>>
    BY <1>11 DEF CreateSpace
  <2>2. CASE ~space
    BY <1>11, <2>1, <2>2 DEF CreateSpace
  <2>3. CASE space /\ Repairing(w)
    BY <1>11, <2>1, <2>3 DEF CreateSpace, LeaveSpace
  <2>4. CASE space /\ ~Repairing(w)
    BY <1>11, <2>1, <2>4 DEF CreateSpace, LeaveSpace
  <2> QED
    BY <2>2, <2>3, <2>4
<1>12. ASSUME NEW w \in Tasks, SaveSpace(w) PROVE PostInv'
  <2>1. LeaveSpace(w) /\ UNCHANGED <<message_mapping, posts, slips, repeats>>
    BY <1>12 DEF SaveSpace
  <2>2. pc[w] = "spaceSave"
    BY <1>12 DEF SaveSpace
  <2>3. CASE Repairing(w)
    BY <2>1, <2>2, <2>3 DEF LeaveSpace
  <2>4. CASE ~Repairing(w)
    BY <2>1, <2>2, <2>4 DEF LeaveSpace
  <2> QED
    BY <2>3, <2>4
<1>13. ASSUME NEW w \in Tasks, PostFirst(w) PROVE PostInv'
  BY <1>13 DEF PostFirst, Post
<1>14. ASSUME NEW w \in Tasks, PostReply(w) PROVE PostInv'
  BY <1>14 DEF PostReply, Post
<1>15. ASSUME NEW w \in Tasks, SendRefused(w) PROVE PostInv'
  BY <1>15 DEF SendRefused, EndEarly
<1>16. ASSUME NEW w \in Tasks, SaveThread(w) PROVE PostInv'
  BY <1>16 DEF SaveThread, SaveMapping
<1>17. ASSUME NEW w \in Tasks, SaveMessage(w) PROVE PostInv'
  BY <1>17 DEF SaveMessage
<1>18. ASSUME NEW w \in Tasks, Fail(w) PROVE PostInv'
  BY <1>18 DEF Fail, EndEarly
<1>19. ASSUME NEW w \in Tasks, FailSpace(w) PROVE PostInv'
  BY <1>19 DEF FailSpace, LeaveSpace, SpaceLost
<1>20. ASSUME NEW w \in Tasks, Abort(w) PROVE PostInv'
  BY <1>20 DEF Abort, EndEarly, Unguarded, SpaceLost
<1>21. ASSUME NEW k \in Keys, Release(k) PROVE PostInv'
  BY <1>21 DEF Release
<1>22. ASSUME NEW k \in Keys, ReleaseFails(k) PROVE PostInv'
  BY <1>22 DEF ReleaseFails
<1>23. ASSUME NEW r \in ghost, UnbridgeGhost(r) PROVE PostInv'
  BY <1>23 DEF UnbridgeGhost
<1>26. ASSUME NEW r \in unbridging, UnbridgeThreads(r) PROVE PostInv'
  BY <1>26 DEF UnbridgeThreads
<1>27. ASSUME NEW w \in Tasks, NEW r \in Composed, Compose(w, r)
      PROVE  PostInv'
  BY <1>27 DEF Compose
<1>28. ASSUME NEW r \in ghost, SubmitFresh(r) PROVE PostInv'
  BY <1>28 DEF SubmitFresh
<1>29. CASE MapFresh
  BY <1>29 DEF MapFresh, SaveMapping
<1>24. ASSUME NEW r \in leaving, LeaveRoom(r) PROVE PostInv'
  BY <1>24 DEF LeaveRoom
<1>25. CASE Restart
  <2> SUFFICES ASSUME NEW e \in Emails
               PROVE  /\ posts[e] <= 1 + slips'[e] + repeats[e]
                      /\ \/ e \in message_mapping
                         \/ posts[e] <= slips'[e] + repeats[e]
    BY <1>25, RoomAssumption DEF Restart
  <2> DEFINE S == {w \in Tasks : job[w] = e /\ Unrecorded(w)}
  <2>1. slips'[e] = slips[e] + Cardinality(S)
    BY <1>25 DEF Restart
  <2>2. Cardinality(S) \in Nat /\ (S # {} => Cardinality(S) >= 1)
    BY TaskCount
  <2>3. /\ posts[e] <= 1 + slips[e] + repeats[e]
        /\ \/ e \in message_mapping
           \/ S # {}
           \/ posts[e] <= slips[e] + repeats[e]
    BY DEF PostInv, First
  <2>4. {posts[e], slips[e], repeats[e]} \subseteq Nat
    BY DEF TypeOK, ServerOK, HistoryOK
  <2> HIDE DEF S
  <2> QED
    BY <2>1, <2>2, <2>3, <2>4
<1> QED
  BY <1>1, <1>2, <1>3, <1>4, <1>5, <1>6, <1>7, <1>8, <1>9, <1>10, <1>11,
     <1>12, <1>13, <1>14, <1>15, <1>16, <1>17, <1>18, <1>19, <1>20, <1>21,
     <1>22, <1>23, <1>24, <1>25, <1>26, <1>27, <1>28, <1>29
  DEF Next, Step

-----------------------------------------------------------------------------
(* The theorems.                                                           *)

LEMMA SpaceTypeNext == space \in BOOLEAN /\ [Next]_vars => space' \in BOOLEAN
<1> SUFFICES ASSUME space \in BOOLEAN, [Next]_vars
             PROVE  space' \in BOOLEAN
  OBVIOUS
<1> USE DEF store
<1>1. CASE UNCHANGED vars
  BY <1>1 DEF vars
<1>2. ASSUME NEW w \in Tasks, NEW e \in Emails, Begin(w, e)
      PROVE  space' \in BOOLEAN
  BY <1>2 DEF Begin
<1>3. ASSUME NEW w \in Tasks, BeginRepair(w) PROVE space' \in BOOLEAN
  BY <1>3 DEF BeginRepair
<1>4. ASSUME NEW w \in Tasks, LookupThread(w) PROVE space' \in BOOLEAN
  BY <1>4 DEF LookupThread, GetThreadInfo
<1>5. ASSUME NEW w \in Tasks, AcquireThread(w) PROVE space' \in BOOLEAN
  BY <1>5 DEF AcquireThread, TryAcquire
<1>6. ASSUME NEW w \in Tasks, Recheck(w) PROVE space' \in BOOLEAN
  BY <1>6 DEF Recheck, GetThreadInfo
<1>7. ASSUME NEW w \in Tasks, CreateRoom(w) PROVE space' \in BOOLEAN
  BY <1>7 DEF CreateRoom
<1>8. ASSUME NEW w \in Tasks, BindGhost(w) PROVE space' \in BOOLEAN
  BY <1>8 DEF BindGhost
<1>9. ASSUME NEW w \in Tasks, GetSpace(w) PROVE space' \in BOOLEAN
  BY <1>9 DEF GetSpace, LeaveSpace
<1>10. ASSUME NEW w \in Tasks, AcquireSpace(w) PROVE space' \in BOOLEAN
  BY <1>10 DEF AcquireSpace, TryAcquire
<1>11. ASSUME NEW w \in Tasks, CreateSpace(w) PROVE space' \in BOOLEAN
  BY <1>11 DEF CreateSpace, LeaveSpace
<1>12. ASSUME NEW w \in Tasks, SaveSpace(w) PROVE space' \in BOOLEAN
  BY <1>12 DEF SaveSpace, LeaveSpace
<1>13. ASSUME NEW w \in Tasks, PostFirst(w) PROVE space' \in BOOLEAN
  BY <1>13 DEF PostFirst, Post
<1>14. ASSUME NEW w \in Tasks, PostReply(w) PROVE space' \in BOOLEAN
  BY <1>14 DEF PostReply, Post
<1>15. ASSUME NEW w \in Tasks, SendRefused(w) PROVE space' \in BOOLEAN
  BY <1>15 DEF SendRefused, EndEarly
<1>16. ASSUME NEW w \in Tasks, SaveThread(w) PROVE space' \in BOOLEAN
  BY <1>16 DEF SaveThread, SaveMapping
<1>17. ASSUME NEW w \in Tasks, SaveMessage(w) PROVE space' \in BOOLEAN
  BY <1>17 DEF SaveMessage
<1>18. ASSUME NEW w \in Tasks, Fail(w) PROVE space' \in BOOLEAN
  BY <1>18 DEF Fail, EndEarly
<1>19. ASSUME NEW w \in Tasks, FailSpace(w) PROVE space' \in BOOLEAN
  BY <1>19 DEF FailSpace, LeaveSpace, SpaceLost
<1>20. ASSUME NEW w \in Tasks, Abort(w) PROVE space' \in BOOLEAN
  BY <1>20 DEF Abort, EndEarly, Unguarded, SpaceLost
<1>21. ASSUME NEW k \in Keys, Release(k) PROVE space' \in BOOLEAN
  BY <1>21 DEF Release
<1>22. ASSUME NEW k \in Keys, ReleaseFails(k) PROVE space' \in BOOLEAN
  BY <1>22 DEF ReleaseFails
<1>23. ASSUME NEW r \in ghost, UnbridgeGhost(r) PROVE space' \in BOOLEAN
  BY <1>23 DEF UnbridgeGhost
<1>26. ASSUME NEW r \in unbridging, UnbridgeThreads(r)
      PROVE  space' \in BOOLEAN
  BY <1>26 DEF UnbridgeThreads
<1>27. ASSUME NEW w \in Tasks, NEW r \in Composed, Compose(w, r)
      PROVE  space' \in BOOLEAN
  BY <1>27 DEF Compose
<1>28. ASSUME NEW r \in ghost, SubmitFresh(r) PROVE space' \in BOOLEAN
  BY <1>28 DEF SubmitFresh
<1>29. CASE MapFresh
  BY <1>29 DEF MapFresh, SaveMapping
<1>24. ASSUME NEW r \in leaving, LeaveRoom(r) PROVE space' \in BOOLEAN
  BY <1>24 DEF LeaveRoom
<1>25. CASE Restart
  BY <1>25 DEF Restart
<1> QED
  BY <1>1, <1>2, <1>3, <1>4, <1>5, <1>6, <1>7, <1>8, <1>9, <1>10, <1>11,
     <1>12, <1>13, <1>14, <1>15, <1>16, <1>17, <1>18, <1>19, <1>20, <1>21,
     <1>22, <1>23, <1>24, <1>25, <1>26, <1>27, <1>28, <1>29
  DEF Next, Step

LEMMA InvInit == Init => Inv
<1> SUFFICES ASSUME Init PROVE Inv
  OBVIOUS
<1>1. /\ \A w \in Tasks : pc[w] = "idle" /\ job[w] = None /\ guards[w] = {}
      /\ locks = {} /\ releasing = {} /\ leaked = {}
  BY DEF Init
<1>2. CreationExclusive
  BY <1>1 DEF CreationExclusive
<1>3. GuardInv /\ HeldRoomInv
  BY <1>1
  DEF GuardInv, HeldRoomInv, Critical, Holding
<1>4. RoomInv /\ SpaceInv
  BY DEF Init, RoomInv, SpaceInv
<1>5. FirstInv /\ PostInv
  BY <1>1, RoomAssumption DEF Init, FirstInv, PostInv, First
<1>6. MoveInv
  BY <1>1 DEF Init, MoveInv, Critical, Holding
<1> QED
  BY <1>2, <1>3, <1>4, <1>5, <1>6 DEF Inv

LEMMA Invariance == Spec => [](TypeOK /\ Inv)
<1>1. Init => TypeOK /\ Inv
  BY TypeInit, InvInit
<1>2. TypeOK /\ Inv /\ [Next]_vars => TypeOK'
  BY StoreNext, SpaceTypeNext, TasksNext, ServerNext, HistoryNext
  DEF TypeOK, Inv
<1>3. TypeOK /\ Inv /\ [Next]_vars => Inv'
  BY LockNext, GuardNext, HeldRoomNext, RoomNext, MoveNext,
     SpaceNext, FirstNext, PostNext
  DEF TypeOK, Inv
<1> QED
  BY <1>1, <1>2, <1>3, PTL DEF Spec

\* Every reachable state of process_email and its tasks is well typed.
THEOREM TypeCorrect == Spec => []TypeOK
<1> QED
  BY Invariance, PTL

\* A row of room_creation_locks has one owner, a task, a release under way
\* or nobody, for any number of tasks and faults: two tasks never create
\* under the same key.
THEOREM LocksAreExclusive == Spec => []CreationExclusive
<1>1. Inv => CreationExclusive
  BY DEF Inv
<1> QED
  BY <1>1, Invariance, PTL

\* A thread gets a second room, and a user a second space, only after the
\* first was unbridged or lost in a failure (process_new_thread,
\* ensure_email_space).
THEOREM RoomsAreFew == Spec => []OneRoomPerThread
<1>1. Inv => OneRoomPerThread
  BY DEF Inv, RoomInv, SpaceInv, OneRoomPerThread
<1> QED
  BY <1>1, Invariance, PTL

\* An email is posted once, and once more for every post whose record was
\* lost and for every task that took it up while another had it in hand
\* (process_email).
THEOREM PostsAreFew == Spec => []PostBound
<1>1. Inv => PostBound
  BY DEF Inv, PostInv, PostBound
<1> QED
  BY <1>1, Invariance, PTL

\* A thread moves to another room only by a fresh mail the outbound worker
\* mapped, once for each, for any number of tasks, fresh mails and faults:
\* under the creation lock and the second look nothing else makes the INSERT
\* OR REPLACE of save_thread_mapping_atomic replace a room.
THEOREM RoomsStay == Spec => []RoomsAreKept
<1>1. Inv => RoomsAreKept
  BY DEF Inv, MoveInv, RoomsAreKept
<1> QED
  BY <1>1, Invariance, PTL

=============================================================================
