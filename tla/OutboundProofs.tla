--------------------------- MODULE OutboundProofs ---------------------------
(***************************************************************************)
(* Proofs about OutboundQueue, for every set of messages, rooms and users  *)
(* and every value of the bounds.                                          *)
(*                                                                         *)
(* The inductive invariant is a conjunction of parts, each preserved by    *)
(* every step given the parts before it:                                   *)
(*   TypeOK     the types;                                                 *)
(*   WorkerInv  what the worker holds, and what is true of a message that  *)
(*              was never queued;                                          *)
(*   CopyInv    how copies relate to slips, before and after the server    *)
(*              accepted a submission;                                     *)
(*   HoldInv    the worker never holds a held message, and its snapshot is *)
(*              no older than the last edit made during the hold;          *)
(*   MarkInv    what the worker knows when it shows a final mark;          *)
(*   AttemptInv how attempts relate to retry_count and its snapshot.       *)
(***************************************************************************)
EXTENDS OutboundQueue, TLAPS

\* The worker is between taking a message up and recording the outcome.
Trying == {"lookup", "purge", "submit", "reply", "map", "remove",
           "unresolved", "discard"}

\* The worker is updating the reactions of a resolved message.
Settling == {"take", "settle", "react"}

\* The mail server has accepted m and the store does not know it yet.
Accepted(m) ==
    /\ cur = m
    /\ wpc \in {"map", "remove"} \/ (wpc = "reply" /\ reply = "created")

Pristine(m) ==
    /\ m \notin queue /\ m \notin batch /\ m \notin held /\ cur # m
    /\ copies[m] = 0 /\ slips[m] = 0 /\ attempts[m] = 0
    /\ body[m] = 0 /\ heldEdit[m] = 0 /\ retry_count[m] = 0
    /\ bodies[m] = {}

WorkerInv ==
    /\ wpc = "sleep" => batch = {}
    /\ cur \notin batch
    /\ \A m \in Msgs : fate[m] = {} => Pristine(m)

CopyInv ==
    \A m \in Msgs :
        /\ slips[m] <= copies[m] /\ copies[m] <= slips[m] + 1
        /\ (m \in queue \/ InHand(m)) /\ ~Accepted(m) => copies[m] <= slips[m]
        /\ Accepted(m) => copies[m] > slips[m]

HoldInv ==
    \A m \in Msgs :
        /\ m \in held => /\ m \notin batch /\ cur # m
                         /\ copies[m] = 0 /\ bodies[m] = {}
        /\ "cancelledHeld" \in fate[m] => /\ m \notin queue /\ m \notin batch
                                          /\ cur # m /\ copies[m] = 0
        /\ heldEdit[m] <= body[m]
        /\ m \in batch \/ cur = m => heldEdit[m] <= snapBody[m]
        /\ \A b \in bodies[m] : b >= heldEdit[m]

MarkInv ==
    /\ VerifiedMark
    /\ mark # "held"
    /\ wpc \in Settling /\ mark = "sent" => copies[cur] > 0

AttemptInv ==
    \A m \in Msgs :
        /\ attempts[m] <= MaxAttempts + faults
        /\ "gaveUp" \in fate[m] => attempts[m] >= MaxAttempts
        /\ retry_count[m] < MaxAttempts /\ snapRetry[m] < MaxAttempts
        /\ m \in queue => attempts[m] >= retry_count[m]
        /\ m \in queue /\ ~(cur = m /\ wpc \in Trying)
              => attempts[m] <= retry_count[m] + faults
        /\ m \in batch => /\ attempts[m] <= snapRetry[m] + faults
                          /\ attempts[m] >= snapRetry[m]
        /\ m \in queue /\ (m \in batch \/ (cur = m /\ wpc \in Trying))
              => snapRetry[m] = retry_count[m]
        /\ cur = m /\ wpc \in Trying
              => /\ attempts[m] <= snapRetry[m] + 1 + faults
                 /\ attempts[m] >= snapRetry[m] + 1
        /\ cur = m /\ wpc = "discard" => attempts[m] >= MaxAttempts

-----------------------------------------------------------------------------
\* The initial state satisfies every part.
LEMMA InitInv ==
    Init => /\ TypeOK /\ WorkerInv /\ CopyInv /\ HoldInv /\ MarkInv
            /\ NothingVanishes /\ AttemptInv
  <1> SUFFICES ASSUME Init
               PROVE  /\ TypeOK /\ WorkerInv /\ CopyInv /\ HoldInv /\ MarkInv
                      /\ NothingVanishes /\ AttemptInv
    OBVIOUS
  <1> USE ConstantsAssumption DEF Init, Zeros
  <1>1. TypeOK
    BY DEF TypeOK, HandlerSteps, WorkerSteps, Replies, Marks, Fates
  <1>2. WorkerInv
    BY DEF WorkerInv, Pristine
  <1>3. CopyInv
    BY DEF CopyInv, InHand, Accepted
  <1>4. HoldInv
    BY DEF HoldInv
  <1>5. MarkInv
    BY DEF MarkInv, VerifiedMark, Settling
  <1>6. NothingVanishes
    BY DEF NothingVanishes
  <1>7. AttemptInv
    BY DEF AttemptInv, Trying
  <1> QED
    BY <1>1, <1>2, <1>3, <1>4, <1>5, <1>6, <1>7

\* No step of handler, worker, detached task, clock or crash breaks the types.
LEMMA NextType ==
    TypeOK /\ [Next]_vars => TypeOK'
  <1> SUFFICES ASSUME TypeOK, [Next]_vars
               PROVE  TypeOK'
    OBVIOUS
  <1> USE ConstantsAssumption
      DEF TypeOK, HandlerSteps, WorkerSteps, Replies, Marks, Fates, columns,
          snap, store, memory, handler, worker, world, history, Fault,
          NoFault
  <1>1. ASSUME NEW e \in Msgs, SendMessage(e) PROVE TypeOK'
    BY <1>1 DEF SendMessage, EnqueueHeldSend, ResolveThreadContext, AddFate
  <1>2. ASSUME NEW e \in Msgs, CancelSend(e) PROVE TypeOK'
    BY <1>2 DEF CancelSend, AddFate
  <1>3. ASSUME NEW e \in Msgs, EditQueued(e) PROVE TypeOK'
    BY <1>3 DEF EditQueued
  <1>4. CASE PostHeld
    BY <1>4 DEF PostHeld
  <1>5. CASE SaveHeldKey
    BY <1>5 DEF SaveHeldKey
  <1>6. ASSUME NEW u \in Users, BeginLogout(u) PROVE TypeOK'
    BY <1>6 DEF BeginLogout
  <1>7. ASSUME NEW u \in Users, SaveLogin(u) PROVE TypeOK'
    BY <1>7 DEF SaveLogin
  <1>8. CASE BlankToken
    BY <1>8 DEF BlankToken
  <1>9. CASE ClearQueue
    BY <1>9 DEF ClearQueue, AddFate
  <1>10. CASE StartSession
    BY <1>10 DEF StartSession
  <1>11. CASE FetchPending
    BY <1>11 DEF FetchPending, Eligible
  <1>12. CASE BatchDone
    BY <1>12 DEF BatchDone, Zeros
  <1>13. ASSUME NEW e \in Msgs, TakeUp(e) PROVE TypeOK'
    BY <1>13 DEF TakeUp
  <1>14. CASE LookupRoom
    BY <1>14 DEF LookupRoom
  <1>15. CASE PurgeRow
    BY <1>15 DEF PurgeRow, AddFate
  <1>16. CASE SubmitBatch
    BY <1>16 DEF SubmitBatch
  <1>17. CASE ReadReply
    BY <1>17 DEF ReadReply, Verified
  <1>18. CASE LoseReply
    BY <1>18 DEF LoseReply
  <1>19. CASE MapThread
    BY <1>19 DEF MapThread
  <1>20. CASE RemoveSubmitted
    BY <1>20 DEF RemoveSubmitted
  <1>21. CASE AgeRetry
    BY <1>21 DEF AgeRetry
  <1>22. CASE PostGiveUp
    BY <1>22 DEF PostGiveUp
  <1>23. CASE DiscardRow
    BY <1>23 DEF DiscardRow, AddFate
  <1>24. CASE TakeHeld
    BY <1>24 DEF TakeHeld
  <1>25. CASE SettleHeld
    BY <1>25 DEF SettleHeld
  <1>26. CASE React
    BY <1>26 DEF React
  <1>27. ASSUME NEW u \in Users, Reconnect(u) PROVE TypeOK'
    BY <1>27 DEF Reconnect
  <1>28. ASSUME NEW r \in Rooms, UnbridgeGhost(r) PROVE TypeOK'
    BY <1>28 DEF UnbridgeGhost
  <1>29. ASSUME NEW r \in Rooms, UnbridgeThreads(r) PROVE TypeOK'
    BY <1>29 DEF UnbridgeThreads
  <1>34. ASSUME NEW r \in Rooms, BeginThreadAction(r) PROVE TypeOK'
    BY <1>34 DEF BeginThreadAction
  <1>30. ASSUME NEW e \in Msgs, HoldExpires(e) PROVE TypeOK'
    BY <1>30 DEF HoldExpires
  <1>31. ASSUME NEW e \in Msgs, BackoffElapses(e) PROVE TypeOK'
    BY <1>31 DEF BackoffElapses
  <1>32. CASE Crash
    BY <1>32 DEF Crash, Zeros
  <1>33. CASE UNCHANGED vars
    BY <1>33 DEF vars
  <1> QED
    BY <1>1, <1>2, <1>3, <1>4, <1>5, <1>6, <1>7, <1>8, <1>9, <1>10, <1>11,
       <1>12, <1>13, <1>14, <1>15, <1>16, <1>17, <1>18, <1>19, <1>20, <1>21,
       <1>22, <1>23, <1>24, <1>25, <1>26, <1>27, <1>28, <1>29, <1>30, <1>31,
       <1>32, <1>33, <1>34
    DEF Next, HandlerStep, WorkerStep, DetachedStep, TimePasses

\* What the worker holds stays consistent, and nothing touches a message that
\* was never queued.
LEMMA NextWorker ==
    TypeOK /\ WorkerInv /\ [Next]_vars => WorkerInv'
  <1> SUFFICES ASSUME TypeOK, WorkerInv, [Next]_vars
               PROVE  WorkerInv'
    OBVIOUS
  <1> USE ConstantsAssumption
      DEF TypeOK, WorkerInv, Pristine, WorkerSteps, columns, snap, store,
          memory, handler, worker, world, history, Fault, NoFault
  <1>1. ASSUME NEW e \in Msgs, SendMessage(e) PROVE WorkerInv'
    BY <1>1 DEF SendMessage, EnqueueHeldSend, ResolveThreadContext, AddFate
  <1>2. ASSUME NEW e \in Msgs, CancelSend(e) PROVE WorkerInv'
    BY <1>2 DEF CancelSend, AddFate
  <1>3. ASSUME NEW e \in Msgs, EditQueued(e) PROVE WorkerInv'
    BY <1>3 DEF EditQueued
  <1>4. CASE PostHeld
    BY <1>4 DEF PostHeld
  <1>5. CASE SaveHeldKey
    BY <1>5 DEF SaveHeldKey
  <1>6. ASSUME NEW u \in Users, BeginLogout(u) PROVE WorkerInv'
    BY <1>6 DEF BeginLogout
  <1>7. ASSUME NEW u \in Users, SaveLogin(u) PROVE WorkerInv'
    BY <1>7 DEF SaveLogin
  <1>8. CASE BlankToken
    BY <1>8 DEF BlankToken
  <1>9. CASE ClearQueue
    BY <1>9 DEF ClearQueue, AddFate
  <1>10. CASE StartSession
    BY <1>10 DEF StartSession
  <1>11. CASE FetchPending
    BY <1>11 DEF FetchPending, Eligible
  <1>12. CASE BatchDone
    BY <1>12 DEF BatchDone, Zeros
  <1>13. ASSUME NEW e \in Msgs, TakeUp(e) PROVE WorkerInv'
    BY <1>13 DEF TakeUp
  <1>14. CASE LookupRoom
    BY <1>14 DEF LookupRoom
  <1>15. CASE PurgeRow
    BY <1>15 DEF PurgeRow, AddFate
  <1>16. CASE SubmitBatch
    BY <1>16 DEF SubmitBatch
  <1>17. CASE ReadReply
    BY <1>17 DEF ReadReply, Verified
  <1>18. CASE LoseReply
    BY <1>18 DEF LoseReply
  <1>19. CASE MapThread
    BY <1>19 DEF MapThread
  <1>20. CASE RemoveSubmitted
    BY <1>20 DEF RemoveSubmitted
  <1>21. CASE AgeRetry
    BY <1>21 DEF AgeRetry
  <1>22. CASE PostGiveUp
    BY <1>22 DEF PostGiveUp
  <1>23. CASE DiscardRow
    BY <1>23 DEF DiscardRow, AddFate
  <1>24. CASE TakeHeld
    BY <1>24 DEF TakeHeld
  <1>25. CASE SettleHeld
    BY <1>25 DEF SettleHeld
  <1>26. CASE React
    BY <1>26 DEF React
  <1>27. ASSUME NEW u \in Users, Reconnect(u) PROVE WorkerInv'
    BY <1>27 DEF Reconnect
  <1>28. ASSUME NEW r \in Rooms, UnbridgeGhost(r) PROVE WorkerInv'
    BY <1>28 DEF UnbridgeGhost
  <1>29. ASSUME NEW r \in Rooms, UnbridgeThreads(r) PROVE WorkerInv'
    BY <1>29 DEF UnbridgeThreads
  <1>34. ASSUME NEW r \in Rooms, BeginThreadAction(r) PROVE WorkerInv'
    BY <1>34 DEF BeginThreadAction
  <1>30. ASSUME NEW e \in Msgs, HoldExpires(e) PROVE WorkerInv'
    BY <1>30 DEF HoldExpires
  <1>31. ASSUME NEW e \in Msgs, BackoffElapses(e) PROVE WorkerInv'
    BY <1>31 DEF BackoffElapses
  <1>32. CASE Crash
    BY <1>32 DEF Crash, Zeros
  <1>33. CASE UNCHANGED vars
    BY <1>33 DEF vars
  <1> QED
    BY <1>1, <1>2, <1>3, <1>4, <1>5, <1>6, <1>7, <1>8, <1>9, <1>10, <1>11,
       <1>12, <1>13, <1>14, <1>15, <1>16, <1>17, <1>18, <1>19, <1>20, <1>21,
       <1>22, <1>23, <1>24, <1>25, <1>26, <1>27, <1>28, <1>29, <1>30, <1>31,
       <1>32, <1>33, <1>34
    DEF Next, HandlerStep, WorkerStep, DetachedStep, TimePasses

\* Each accepted submission is matched by a removal or by a slip before the
\* message can be submitted again.
LEMMA NextCopy ==
    TypeOK /\ WorkerInv /\ CopyInv /\ [Next]_vars => CopyInv'
  <1> SUFFICES ASSUME TypeOK, WorkerInv, CopyInv, [Next]_vars
               PROVE  CopyInv'
    OBVIOUS
  <1> USE ConstantsAssumption
      DEF TypeOK, WorkerInv, Pristine, CopyInv, InHand, Accepted,
          WorkerSteps, Replies, columns, snap, store, memory, handler,
          worker, world, history, Fault, NoFault
  <1>1. ASSUME NEW e \in Msgs, SendMessage(e) PROVE CopyInv'
    BY <1>1 DEF SendMessage, EnqueueHeldSend, ResolveThreadContext, AddFate
  <1>2. ASSUME NEW e \in Msgs, CancelSend(e) PROVE CopyInv'
    BY <1>2 DEF CancelSend, AddFate
  <1>3. ASSUME NEW e \in Msgs, EditQueued(e) PROVE CopyInv'
    BY <1>3 DEF EditQueued
  <1>4. CASE PostHeld
    BY <1>4 DEF PostHeld
  <1>5. CASE SaveHeldKey
    BY <1>5 DEF SaveHeldKey
  <1>6. ASSUME NEW u \in Users, BeginLogout(u) PROVE CopyInv'
    BY <1>6 DEF BeginLogout
  <1>7. ASSUME NEW u \in Users, SaveLogin(u) PROVE CopyInv'
    BY <1>7 DEF SaveLogin
  <1>8. CASE BlankToken
    BY <1>8 DEF BlankToken
  <1>9. CASE ClearQueue
    BY <1>9 DEF ClearQueue, AddFate
  <1>10. CASE StartSession
    BY <1>10 DEF StartSession
  <1>11. CASE FetchPending
    BY <1>11 DEF FetchPending, Eligible
  <1>12. CASE BatchDone
    BY <1>12 DEF BatchDone, Zeros
  <1>13. ASSUME NEW e \in Msgs, TakeUp(e) PROVE CopyInv'
    BY <1>13 DEF TakeUp
  <1>14. CASE LookupRoom
    BY <1>14 DEF LookupRoom
  <1>15. CASE PurgeRow
    BY <1>15 DEF PurgeRow, AddFate
  <1>16. CASE SubmitBatch
    <2> SUFFICES ASSUME NEW m \in Msgs PROVE CopyInv!(m)'
      BY DEF CopyInv
    <2>1. CASE reply' = "created" /\ cur = m
      <3>1. wpc = "submit" /\ wpc' = "reply" /\ cur' = m /\ slips' = slips
        BY <1>16, <2>1 DEF SubmitBatch
      <3>2. copies[m] = slips[m]
        BY <2>1, <3>1
      <3>3. copies'[m] = copies[m] + 1
        BY <1>16, <2>1 DEF SubmitBatch
      <3> QED
        BY <2>1, <3>1, <3>2, <3>3
    <2>2. CASE cur # m
      BY <1>16, <2>2 DEF SubmitBatch
    <2>3. CASE reply' # "created" /\ cur = m
      <3>1. copies' = copies /\ wpc' = "reply" /\ reply' # "created"
        BY <1>16, <2>3 DEF SubmitBatch
      <3> QED
        BY <1>16, <2>3, <3>1 DEF SubmitBatch
    <2> QED
      BY <2>1, <2>2, <2>3
  <1>17. CASE ReadReply
    BY <1>17 DEF ReadReply, Verified
  <1>18. CASE LoseReply
    BY <1>18 DEF LoseReply
  <1>19. CASE MapThread
    BY <1>19 DEF MapThread
  <1>20. CASE RemoveSubmitted
    BY <1>20 DEF RemoveSubmitted
  <1>21. CASE AgeRetry
    BY <1>21 DEF AgeRetry
  <1>22. CASE PostGiveUp
    BY <1>22 DEF PostGiveUp
  <1>23. CASE DiscardRow
    BY <1>23 DEF DiscardRow, AddFate
  <1>24. CASE TakeHeld
    BY <1>24 DEF TakeHeld
  <1>25. CASE SettleHeld
    BY <1>25 DEF SettleHeld
  <1>26. CASE React
    BY <1>26 DEF React
  <1>27. ASSUME NEW u \in Users, Reconnect(u) PROVE CopyInv'
    BY <1>27 DEF Reconnect
  <1>28. ASSUME NEW r \in Rooms, UnbridgeGhost(r) PROVE CopyInv'
    BY <1>28 DEF UnbridgeGhost
  <1>29. ASSUME NEW r \in Rooms, UnbridgeThreads(r) PROVE CopyInv'
    BY <1>29 DEF UnbridgeThreads
  <1>34. ASSUME NEW r \in Rooms, BeginThreadAction(r) PROVE CopyInv'
    BY <1>34 DEF BeginThreadAction
  <1>30. ASSUME NEW e \in Msgs, HoldExpires(e) PROVE CopyInv'
    BY <1>30 DEF HoldExpires
  <1>31. ASSUME NEW e \in Msgs, BackoffElapses(e) PROVE CopyInv'
    BY <1>31 DEF BackoffElapses
  <1>32. CASE Crash
    BY <1>32 DEF Crash, Zeros
  <1>33. CASE UNCHANGED vars
    BY <1>33 DEF vars
  <1> QED
    BY <1>1, <1>2, <1>3, <1>4, <1>5, <1>6, <1>7, <1>8, <1>9, <1>10, <1>11,
       <1>12, <1>13, <1>14, <1>15, <1>16, <1>17, <1>18, <1>19, <1>20, <1>21,
       <1>22, <1>23, <1>24, <1>25, <1>26, <1>27, <1>28, <1>29, <1>30, <1>31,
       <1>32, <1>33, <1>34
    DEF Next, HandlerStep, WorkerStep, DetachedStep, TimePasses

\* The hold keeps a message away from the worker.
LEMMA NextHold ==
    TypeOK /\ WorkerInv /\ HoldInv /\ [Next]_vars => HoldInv'
  <1> SUFFICES ASSUME TypeOK, WorkerInv, HoldInv, [Next]_vars
               PROVE  HoldInv'
    OBVIOUS
  <1> USE ConstantsAssumption
      DEF TypeOK, WorkerInv, Pristine, HoldInv, WorkerSteps, columns, snap,
          store, memory, handler, worker, world, history, Fault, NoFault
  <1>1. ASSUME NEW e \in Msgs, SendMessage(e) PROVE HoldInv'
    BY <1>1 DEF SendMessage, EnqueueHeldSend, ResolveThreadContext, AddFate
  <1>2. ASSUME NEW e \in Msgs, CancelSend(e) PROVE HoldInv'
    BY <1>2 DEF CancelSend, AddFate
  <1>3. ASSUME NEW e \in Msgs, EditQueued(e) PROVE HoldInv'
    BY <1>3 DEF EditQueued
  <1>4. CASE PostHeld
    BY <1>4 DEF PostHeld
  <1>5. CASE SaveHeldKey
    BY <1>5 DEF SaveHeldKey
  <1>6. ASSUME NEW u \in Users, BeginLogout(u) PROVE HoldInv'
    BY <1>6 DEF BeginLogout
  <1>7. ASSUME NEW u \in Users, SaveLogin(u) PROVE HoldInv'
    BY <1>7 DEF SaveLogin
  <1>8. CASE BlankToken
    BY <1>8 DEF BlankToken
  <1>9. CASE ClearQueue
    BY <1>9 DEF ClearQueue, AddFate
  <1>10. CASE StartSession
    BY <1>10 DEF StartSession
  <1>11. CASE FetchPending
    BY <1>11 DEF FetchPending, Eligible
  <1>12. CASE BatchDone
    BY <1>12 DEF BatchDone, Zeros
  <1>13. ASSUME NEW e \in Msgs, TakeUp(e) PROVE HoldInv'
    BY <1>13 DEF TakeUp
  <1>14. CASE LookupRoom
    BY <1>14 DEF LookupRoom
  <1>15. CASE PurgeRow
    BY <1>15 DEF PurgeRow, AddFate
  <1>16. CASE SubmitBatch
    BY <1>16 DEF SubmitBatch
  <1>17. CASE ReadReply
    BY <1>17 DEF ReadReply, Verified
  <1>18. CASE LoseReply
    BY <1>18 DEF LoseReply
  <1>19. CASE MapThread
    BY <1>19 DEF MapThread
  <1>20. CASE RemoveSubmitted
    BY <1>20 DEF RemoveSubmitted
  <1>21. CASE AgeRetry
    BY <1>21 DEF AgeRetry
  <1>22. CASE PostGiveUp
    BY <1>22 DEF PostGiveUp
  <1>23. CASE DiscardRow
    BY <1>23 DEF DiscardRow, AddFate
  <1>24. CASE TakeHeld
    BY <1>24 DEF TakeHeld
  <1>25. CASE SettleHeld
    BY <1>25 DEF SettleHeld
  <1>26. CASE React
    BY <1>26 DEF React
  <1>27. ASSUME NEW u \in Users, Reconnect(u) PROVE HoldInv'
    BY <1>27 DEF Reconnect
  <1>28. ASSUME NEW r \in Rooms, UnbridgeGhost(r) PROVE HoldInv'
    BY <1>28 DEF UnbridgeGhost
  <1>29. ASSUME NEW r \in Rooms, UnbridgeThreads(r) PROVE HoldInv'
    BY <1>29 DEF UnbridgeThreads
  <1>34. ASSUME NEW r \in Rooms, BeginThreadAction(r) PROVE HoldInv'
    BY <1>34 DEF BeginThreadAction
  <1>30. ASSUME NEW e \in Msgs, HoldExpires(e) PROVE HoldInv'
    BY <1>30 DEF HoldExpires
  <1>31. ASSUME NEW e \in Msgs, BackoffElapses(e) PROVE HoldInv'
    BY <1>31 DEF BackoffElapses
  <1>32. CASE Crash
    BY <1>32 DEF Crash, Zeros
  <1>33. CASE UNCHANGED vars
    BY <1>33 DEF vars
  <1> QED
    BY <1>1, <1>2, <1>3, <1>4, <1>5, <1>6, <1>7, <1>8, <1>9, <1>10, <1>11,
       <1>12, <1>13, <1>14, <1>15, <1>16, <1>17, <1>18, <1>19, <1>20, <1>21,
       <1>22, <1>23, <1>24, <1>25, <1>26, <1>27, <1>28, <1>29, <1>30, <1>31,
       <1>32, <1>33, <1>34
    DEF Next, HandlerStep, WorkerStep, DetachedStep, TimePasses

\* The success mark is only ever shown after an accepted submission.
LEMMA NextMark ==
    TypeOK /\ CopyInv /\ MarkInv /\ [Next]_vars => MarkInv'
  <1> SUFFICES ASSUME TypeOK, CopyInv, MarkInv, [Next]_vars
               PROVE  MarkInv'
    OBVIOUS
  <1> USE ConstantsAssumption
      DEF TypeOK, CopyInv, Accepted, MarkInv, VerifiedMark, Settling,
          WorkerSteps, Marks, columns, snap, store, memory, handler, worker,
          world, history, Fault, NoFault
  <1>1. ASSUME NEW e \in Msgs, SendMessage(e) PROVE MarkInv'
    BY <1>1 DEF SendMessage, EnqueueHeldSend, ResolveThreadContext, AddFate
  <1>2. ASSUME NEW e \in Msgs, CancelSend(e) PROVE MarkInv'
    BY <1>2 DEF CancelSend, AddFate
  <1>3. ASSUME NEW e \in Msgs, EditQueued(e) PROVE MarkInv'
    BY <1>3 DEF EditQueued
  <1>4. CASE PostHeld
    BY <1>4 DEF PostHeld
  <1>5. CASE SaveHeldKey
    BY <1>5 DEF SaveHeldKey
  <1>6. ASSUME NEW u \in Users, BeginLogout(u) PROVE MarkInv'
    BY <1>6 DEF BeginLogout
  <1>7. ASSUME NEW u \in Users, SaveLogin(u) PROVE MarkInv'
    BY <1>7 DEF SaveLogin
  <1>8. CASE BlankToken
    BY <1>8 DEF BlankToken
  <1>9. CASE ClearQueue
    BY <1>9 DEF ClearQueue, AddFate
  <1>10. CASE StartSession
    BY <1>10 DEF StartSession
  <1>11. CASE FetchPending
    BY <1>11 DEF FetchPending, Eligible
  <1>12. CASE BatchDone
    BY <1>12 DEF BatchDone, Zeros
  <1>13. ASSUME NEW e \in Msgs, TakeUp(e) PROVE MarkInv'
    BY <1>13 DEF TakeUp
  <1>14. CASE LookupRoom
    BY <1>14 DEF LookupRoom
  <1>15. CASE PurgeRow
    BY <1>15 DEF PurgeRow, AddFate
  <1>16. CASE SubmitBatch
    BY <1>16 DEF SubmitBatch
  <1>17. CASE ReadReply
    BY <1>17 DEF ReadReply, Verified
  <1>18. CASE LoseReply
    BY <1>18 DEF LoseReply
  <1>19. CASE MapThread
    BY <1>19 DEF MapThread
  <1>20. CASE RemoveSubmitted
    BY <1>20 DEF RemoveSubmitted
  <1>21. CASE AgeRetry
    BY <1>21 DEF AgeRetry
  <1>22. CASE PostGiveUp
    BY <1>22 DEF PostGiveUp
  <1>23. CASE DiscardRow
    BY <1>23 DEF DiscardRow, AddFate
  <1>24. CASE TakeHeld
    BY <1>24 DEF TakeHeld
  <1>25. CASE SettleHeld
    BY <1>25 DEF SettleHeld
  <1>26. CASE React
    BY <1>26 DEF React
  <1>27. ASSUME NEW u \in Users, Reconnect(u) PROVE MarkInv'
    BY <1>27 DEF Reconnect
  <1>28. ASSUME NEW r \in Rooms, UnbridgeGhost(r) PROVE MarkInv'
    BY <1>28 DEF UnbridgeGhost
  <1>29. ASSUME NEW r \in Rooms, UnbridgeThreads(r) PROVE MarkInv'
    BY <1>29 DEF UnbridgeThreads
  <1>34. ASSUME NEW r \in Rooms, BeginThreadAction(r) PROVE MarkInv'
    BY <1>34 DEF BeginThreadAction
  <1>30. ASSUME NEW e \in Msgs, HoldExpires(e) PROVE MarkInv'
    BY <1>30 DEF HoldExpires
  <1>31. ASSUME NEW e \in Msgs, BackoffElapses(e) PROVE MarkInv'
    BY <1>31 DEF BackoffElapses
  <1>32. CASE Crash
    BY <1>32 DEF Crash, Zeros
  <1>33. CASE UNCHANGED vars
    BY <1>33 DEF vars
  <1> QED
    BY <1>1, <1>2, <1>3, <1>4, <1>5, <1>6, <1>7, <1>8, <1>9, <1>10, <1>11,
       <1>12, <1>13, <1>14, <1>15, <1>16, <1>17, <1>18, <1>19, <1>20, <1>21,
       <1>22, <1>23, <1>24, <1>25, <1>26, <1>27, <1>28, <1>29, <1>30, <1>31,
       <1>32, <1>33, <1>34
    DEF Next, HandlerStep, WorkerStep, DetachedStep, TimePasses

\* Only an accepted, cancelled, abandoned, purged or given-up message loses
\* its row.
LEMMA NextVanish ==
    TypeOK /\ CopyInv /\ NothingVanishes /\ [Next]_vars => NothingVanishes'
  <1> SUFFICES ASSUME TypeOK, CopyInv, NothingVanishes, [Next]_vars
               PROVE  NothingVanishes'
    OBVIOUS
  <1> USE ConstantsAssumption
      DEF TypeOK, CopyInv, Accepted, NothingVanishes, WorkerSteps, columns,
          snap, store, memory, handler, worker, world, history, Fault,
          NoFault
  <1>1. ASSUME NEW e \in Msgs, SendMessage(e) PROVE NothingVanishes'
    BY <1>1 DEF SendMessage, EnqueueHeldSend, ResolveThreadContext, AddFate
  <1>2. ASSUME NEW e \in Msgs, CancelSend(e) PROVE NothingVanishes'
    <2> SUFFICES ASSUME NEW m \in Msgs, fate'[m] # {}, m \notin queue'
                 PROVE  copies'[m] > 0 \/ \E f \in fate'[m] : f # "enqueued"
      BY DEF NothingVanishes
    <2>1. CASE m = e
      <3>1. (IF m \in held THEN "cancelledHeld" ELSE "cancelledLate")
                \in fate'[m]
        BY <1>2, <2>1 DEF CancelSend, AddFate
      <3> QED
        BY <3>1
    <2>2. CASE ~(m = e)
      <3>1. fate'[m] = fate[m] /\ m \notin queue /\ copies' = copies
        BY <1>2, <2>2 DEF CancelSend, AddFate
      <3> QED
        BY <3>1
    <2> QED
      BY <2>1, <2>2
  <1>3. ASSUME NEW e \in Msgs, EditQueued(e) PROVE NothingVanishes'
    BY <1>3 DEF EditQueued
  <1>4. CASE PostHeld
    BY <1>4 DEF PostHeld
  <1>5. CASE SaveHeldKey
    BY <1>5 DEF SaveHeldKey
  <1>6. ASSUME NEW u \in Users, BeginLogout(u) PROVE NothingVanishes'
    BY <1>6 DEF BeginLogout
  <1>7. ASSUME NEW u \in Users, SaveLogin(u) PROVE NothingVanishes'
    BY <1>7 DEF SaveLogin
  <1>8. CASE BlankToken
    BY <1>8 DEF BlankToken
  <1>9. CASE ClearQueue
    <2> SUFFICES ASSUME NEW m \in Msgs, fate'[m] # {}, m \notin queue'
                 PROVE  copies'[m] > 0 \/ \E f \in fate'[m] : f # "enqueued"
      BY DEF NothingVanishes
    <2>1. CASE m \in queue
      <3>1. "abandoned" \in fate'[m]
        BY <1>9, <2>1 DEF ClearQueue, AddFate
      <3> QED
        BY <3>1
    <2>2. CASE ~(m \in queue)
      <3>1. fate'[m] = fate[m] /\ m \notin queue /\ copies' = copies
        BY <1>9, <2>2 DEF ClearQueue, AddFate
      <3> QED
        BY <3>1
    <2> QED
      BY <2>1, <2>2
  <1>10. CASE StartSession
    BY <1>10 DEF StartSession
  <1>11. CASE FetchPending
    BY <1>11 DEF FetchPending, Eligible
  <1>12. CASE BatchDone
    BY <1>12 DEF BatchDone, Zeros
  <1>13. ASSUME NEW e \in Msgs, TakeUp(e) PROVE NothingVanishes'
    BY <1>13 DEF TakeUp
  <1>14. CASE LookupRoom
    BY <1>14 DEF LookupRoom
  <1>15. CASE PurgeRow
    <2> SUFFICES ASSUME NEW m \in Msgs, fate'[m] # {}, m \notin queue'
                 PROVE  copies'[m] > 0 \/ \E f \in fate'[m] : f # "enqueued"
      BY DEF NothingVanishes
    <2>1. CASE "purged" \in fate'[m]
      BY <2>1
    <2>2. CASE "purged" \notin fate'[m]
      <3>1. fate'[m] = fate[m] /\ m \notin queue /\ copies' = copies
        BY <1>15, <2>2 DEF PurgeRow, AddFate
      <3> QED
        BY <3>1
    <2> QED
      BY <2>1, <2>2
  <1>16. CASE SubmitBatch
    BY <1>16 DEF SubmitBatch
  <1>17. CASE ReadReply
    BY <1>17 DEF ReadReply, Verified
  <1>18. CASE LoseReply
    BY <1>18 DEF LoseReply
  <1>19. CASE MapThread
    BY <1>19 DEF MapThread
  <1>20. CASE RemoveSubmitted
    BY <1>20 DEF RemoveSubmitted
  <1>21. CASE AgeRetry
    BY <1>21 DEF AgeRetry
  <1>22. CASE PostGiveUp
    BY <1>22 DEF PostGiveUp
  <1>23. CASE DiscardRow
    <2> SUFFICES ASSUME NEW m \in Msgs, fate'[m] # {}, m \notin queue'
                 PROVE  copies'[m] > 0 \/ \E f \in fate'[m] : f # "enqueued"
      BY DEF NothingVanishes
    <2>1. CASE m = cur
      <3>1. "gaveUp" \in fate'[m]
        BY <1>23, <2>1 DEF DiscardRow, AddFate
      <3> QED
        BY <3>1
    <2>2. CASE ~(m = cur)
      <3>1. fate'[m] = fate[m] /\ m \notin queue /\ copies' = copies
        BY <1>23, <2>2 DEF DiscardRow, AddFate
      <3> QED
        BY <3>1
    <2> QED
      BY <2>1, <2>2
  <1>24. CASE TakeHeld
    BY <1>24 DEF TakeHeld
  <1>25. CASE SettleHeld
    BY <1>25 DEF SettleHeld
  <1>26. CASE React
    BY <1>26 DEF React
  <1>27. ASSUME NEW u \in Users, Reconnect(u) PROVE NothingVanishes'
    BY <1>27 DEF Reconnect
  <1>28. ASSUME NEW r \in Rooms, UnbridgeGhost(r) PROVE NothingVanishes'
    BY <1>28 DEF UnbridgeGhost
  <1>29. ASSUME NEW r \in Rooms, UnbridgeThreads(r) PROVE NothingVanishes'
    BY <1>29 DEF UnbridgeThreads
  <1>34. ASSUME NEW r \in Rooms, BeginThreadAction(r) PROVE NothingVanishes'
    BY <1>34 DEF BeginThreadAction
  <1>30. ASSUME NEW e \in Msgs, HoldExpires(e) PROVE NothingVanishes'
    BY <1>30 DEF HoldExpires
  <1>31. ASSUME NEW e \in Msgs, BackoffElapses(e) PROVE NothingVanishes'
    BY <1>31 DEF BackoffElapses
  <1>32. CASE Crash
    BY <1>32 DEF Crash, Zeros
  <1>33. CASE UNCHANGED vars
    BY <1>33 DEF vars
  <1> QED
    BY <1>1, <1>2, <1>3, <1>4, <1>5, <1>6, <1>7, <1>8, <1>9, <1>10, <1>11,
       <1>12, <1>13, <1>14, <1>15, <1>16, <1>17, <1>18, <1>19, <1>20, <1>21,
       <1>22, <1>23, <1>24, <1>25, <1>26, <1>27, <1>28, <1>29, <1>30, <1>31,
       <1>32, <1>33, <1>34
    DEF Next, HandlerStep, WorkerStep, DetachedStep, TimePasses

\* retry_count keeps step with the attempts, up to one fault each.
LEMMA NextAttempt ==
    TypeOK /\ WorkerInv /\ AttemptInv /\ [Next]_vars => AttemptInv'
  <1> SUFFICES ASSUME TypeOK, WorkerInv, AttemptInv, [Next]_vars
               PROVE  AttemptInv'
    OBVIOUS
  <1> USE ConstantsAssumption
      DEF TypeOK, WorkerInv, Pristine, AttemptInv, Trying, WorkerSteps,
          columns, snap, store, memory, handler, worker, world, history,
          Fault, NoFault
  <1>1. ASSUME NEW e \in Msgs, SendMessage(e) PROVE AttemptInv'
    BY <1>1 DEF SendMessage, EnqueueHeldSend, ResolveThreadContext, AddFate
  <1>2. ASSUME NEW e \in Msgs, CancelSend(e) PROVE AttemptInv'
    BY <1>2 DEF CancelSend, AddFate
  <1>3. ASSUME NEW e \in Msgs, EditQueued(e) PROVE AttemptInv'
    BY <1>3 DEF EditQueued
  <1>4. CASE PostHeld
    BY <1>4 DEF PostHeld
  <1>5. CASE SaveHeldKey
    BY <1>5 DEF SaveHeldKey
  <1>6. ASSUME NEW u \in Users, BeginLogout(u) PROVE AttemptInv'
    BY <1>6 DEF BeginLogout
  <1>7. ASSUME NEW u \in Users, SaveLogin(u) PROVE AttemptInv'
    BY <1>7 DEF SaveLogin
  <1>8. CASE BlankToken
    BY <1>8 DEF BlankToken
  <1>9. CASE ClearQueue
    BY <1>9 DEF ClearQueue, AddFate
  <1>10. CASE StartSession
    BY <1>10 DEF StartSession
  <1>11. CASE FetchPending
    BY <1>11 DEF FetchPending, Eligible
  <1>12. CASE BatchDone
    BY <1>12 DEF BatchDone, Zeros
  <1>13. ASSUME NEW e \in Msgs, TakeUp(e) PROVE AttemptInv'
    BY <1>13 DEF TakeUp
  <1>14. CASE LookupRoom
    BY <1>14 DEF LookupRoom
  <1>15. CASE PurgeRow
    BY <1>15 DEF PurgeRow, AddFate
  <1>16. CASE SubmitBatch
    BY <1>16 DEF SubmitBatch
  <1>17. CASE ReadReply
    BY <1>17 DEF ReadReply, Verified
  <1>18. CASE LoseReply
    BY <1>18 DEF LoseReply
  <1>19. CASE MapThread
    BY <1>19 DEF MapThread
  <1>20. CASE RemoveSubmitted
    BY <1>20 DEF RemoveSubmitted
  <1>21. CASE AgeRetry
    BY <1>21 DEF AgeRetry
  <1>22. CASE PostGiveUp
    BY <1>22 DEF PostGiveUp
  <1>23. CASE DiscardRow
    BY <1>23 DEF DiscardRow, AddFate
  <1>24. CASE TakeHeld
    BY <1>24 DEF TakeHeld
  <1>25. CASE SettleHeld
    BY <1>25 DEF SettleHeld
  <1>26. CASE React
    BY <1>26 DEF React
  <1>27. ASSUME NEW u \in Users, Reconnect(u) PROVE AttemptInv'
    BY <1>27 DEF Reconnect
  <1>28. ASSUME NEW r \in Rooms, UnbridgeGhost(r) PROVE AttemptInv'
    BY <1>28 DEF UnbridgeGhost
  <1>29. ASSUME NEW r \in Rooms, UnbridgeThreads(r) PROVE AttemptInv'
    BY <1>29 DEF UnbridgeThreads
  <1>34. ASSUME NEW r \in Rooms, BeginThreadAction(r) PROVE AttemptInv'
    BY <1>34 DEF BeginThreadAction
  <1>30. ASSUME NEW e \in Msgs, HoldExpires(e) PROVE AttemptInv'
    BY <1>30 DEF HoldExpires
  <1>31. ASSUME NEW e \in Msgs, BackoffElapses(e) PROVE AttemptInv'
    BY <1>31 DEF BackoffElapses
  <1>32. CASE Crash
    BY <1>32 DEF Crash, Zeros
  <1>33. CASE UNCHANGED vars
    BY <1>33 DEF vars
  <1> QED
    BY <1>1, <1>2, <1>3, <1>4, <1>5, <1>6, <1>7, <1>8, <1>9, <1>10, <1>11,
       <1>12, <1>13, <1>14, <1>15, <1>16, <1>17, <1>18, <1>19, <1>20, <1>21,
       <1>22, <1>23, <1>24, <1>25, <1>26, <1>27, <1>28, <1>29, <1>30, <1>31,
       <1>32, <1>33, <1>34
    DEF Next, HandlerStep, WorkerStep, DetachedStep, TimePasses

-----------------------------------------------------------------------------
\* Type correctness of the outbound path.
THEOREM TypeCorrect == Spec => []TypeOK
  BY InitInv, NextType, PTL DEF Spec

\* Every part of the inductive invariant holds in every reachable state.
LEMMA Invariance ==
    Spec => [](/\ TypeOK /\ WorkerInv /\ CopyInv /\ HoldInv /\ MarkInv
               /\ NothingVanishes /\ AttemptInv)
  BY InitInv, NextType, NextWorker, NextCopy, NextHold, NextMark, NextVanish,
     NextAttempt, PTL DEF Spec

\* A message is mailed at most once, plus once for each slip.
THEOREM MailedOncePlusSlips == Spec => []DeliveryBound
  <1>1. CopyInv => DeliveryBound
    BY DEF CopyInv, DeliveryBound
  <1> QED
    BY <1>1, Invariance, PTL

\* A message redacted within its hold is never submitted, and an edit made
\* within the hold is in everything that is submitted.
THEOREM HoldIsHonoured == Spec => []HeldHonoured
  <1>1. HoldInv => HeldHonoured
    BY DEF HoldInv, HeldHonoured
  <1> QED
    BY <1>1, Invariance, PTL

\* The check mark means the mail server accepted the submission.
THEOREM CheckMarkVerified == Spec => []VerifiedMark
  <1>1. MarkInv => VerifiedMark
    BY DEF MarkInv
  <1> QED
    BY <1>1, Invariance, PTL

\* No message leaves the queue without one of the five outcomes.
THEOREM NoMessageVanishes == Spec => []NothingVanishes
  BY Invariance, PTL

\* The worker makes MaxAttempts attempts, no more (but for faults) and no
\* fewer before giving up, and strands no row at the cap.
THEOREM AttemptsCapped == Spec => []AttemptCap
  <1>1. AttemptInv => AttemptCap
    BY DEF AttemptInv, AttemptCap
  <1> QED
    BY <1>1, Invariance, PTL

-----------------------------------------------------------------------------
(* The outbound path implements the abstract Outbox (the safety part).  A  *)
(* step is an Accept (SendMessage), a Deliver (SubmitBatch, when the       *)
(* server accepts) or a quiet step, which maps to a Settle.                *)

Open(m) == m \in queue \/ InHand(m)

\* A step that mails nothing, accepts and opens no message, and loses the
\* outcome of at most the submission in the worker's hands.
Quiet ==
    /\ copies' = copies
    /\ \A m \in Msgs : fate'[m] = {} <=> fate[m] = {}
    /\ \A m \in Msgs : Open(m)' => Open(m)
    /\ \/ slips' = slips
       \/ /\ cur \in Msgs /\ copies[cur] > slips[cur]
          /\ slips' = [slips EXCEPT ![cur] = @ + 1]

\* A quiet step is a Settle of the messages it closes and the slip it makes.
LEMMA QuietSettles ==
    ASSUME TypeOK, TypeOK', Quiet PROVE Abstract!Next
  <1> DEFINE closed == {m \in Msgs : stage[m] = "open" /\ stage'[m] = "closed"}
             slipped == {m \in Msgs : slips'[m] # slips[m]}
  <1>1. \A m \in closed : stage[m] = "open"
    OBVIOUS
  <1>2. \A m, n \in slipped : m = n
    BY DEF Quiet, TypeOK
  <1>3. \A m \in slipped : copies[m] > slips[m]
    BY DEF Quiet, TypeOK
  <1>4. ASSUME NEW m \in Msgs
        PROVE stage'[m] = IF m \in closed THEN "closed" ELSE stage[m]
    <2>1. fate'[m] = {} <=> fate[m] = {}
      BY DEF Quiet
    <2>2. Open(m)' => Open(m)
      BY DEF Quiet
    <2> QED
      BY <2>1, <2>2 DEF stage, Open
  <1>5. stage' = [m \in Msgs |-> IF m \in closed THEN "closed" ELSE stage[m]]
    <2>1. stage' = [m \in Msgs |-> stage'[m]]
      BY DEF stage
    <2> QED
      BY <1>4, <2>1
  <1>6. ASSUME NEW m \in Msgs
        PROVE slips'[m] = IF m \in slipped THEN slips[m] + 1 ELSE slips[m]
    BY DEF Quiet, TypeOK
  <1>7. slips' = [m \in Msgs |-> IF m \in slipped THEN slips[m] + 1
                                                    ELSE slips[m]]
    <2>1. slips' = [m \in Msgs |-> slips'[m]]
      BY DEF TypeOK
    <2> QED
      BY <1>6, <2>1
  <1>8. copies' = copies
    BY DEF Quiet
  <1>9. Abstract!Settle(closed, slipped)
    BY <1>1, <1>2, <1>3, <1>5, <1>7, <1>8 DEF Abstract!Settle
  <1>10. closed \in SUBSET Msgs /\ slipped \in SUBSET Msgs
    OBVIOUS
  <1> HIDE DEF closed, slipped
  <1> QED
    BY <1>9, <1>10 DEF Abstract!Next

\* Every step other than a send or a submission is quiet.
LEMMA OthersQuiet ==
    ASSUME TypeOK, WorkerInv, CopyInv, Next,
           ~\E m \in Msgs : SendMessage(m),
           ~SubmitBatch
    PROVE  Quiet
  <1> USE ConstantsAssumption
      DEF TypeOK, WorkerInv, CopyInv, Pristine, Accepted, InHand, Open,
          Quiet, WorkerSteps, Replies, columns, snap, store, memory, handler,
          worker, world, history, Fault, NoFault
  <1>1. ASSUME NEW e \in Msgs, CancelSend(e) PROVE Quiet
    BY <1>1 DEF CancelSend, AddFate
  <1>2. ASSUME NEW e \in Msgs, EditQueued(e) PROVE Quiet
    BY <1>2 DEF EditQueued
  <1>3. CASE PostHeld
    BY <1>3 DEF PostHeld
  <1>4. CASE SaveHeldKey
    BY <1>4 DEF SaveHeldKey
  <1>5. ASSUME NEW u \in Users, BeginLogout(u) PROVE Quiet
    BY <1>5 DEF BeginLogout
  <1>6. ASSUME NEW u \in Users, SaveLogin(u) PROVE Quiet
    BY <1>6 DEF SaveLogin
  <1>7. CASE BlankToken
    BY <1>7 DEF BlankToken
  <1>8. CASE ClearQueue
    BY <1>8 DEF ClearQueue, AddFate
  <1>9. CASE StartSession
    BY <1>9 DEF StartSession
  <1>10. CASE FetchPending
    BY <1>10 DEF FetchPending, Eligible
  <1>11. CASE BatchDone
    BY <1>11 DEF BatchDone
  <1>12. ASSUME NEW e \in Msgs, TakeUp(e) PROVE Quiet
    BY <1>12 DEF TakeUp
  <1>13. CASE LookupRoom
    BY <1>13 DEF LookupRoom
  <1>14. CASE PurgeRow
    BY <1>14 DEF PurgeRow, AddFate
  <1>15. CASE ReadReply
    BY <1>15 DEF ReadReply, Verified
  <1>16. CASE LoseReply
    BY <1>16 DEF LoseReply
  <1>17. CASE MapThread
    BY <1>17 DEF MapThread
  <1>18. CASE RemoveSubmitted
    BY <1>18 DEF RemoveSubmitted
  <1>19. CASE AgeRetry
    BY <1>19 DEF AgeRetry
  <1>20. CASE PostGiveUp
    BY <1>20 DEF PostGiveUp
  <1>21. CASE DiscardRow
    BY <1>21 DEF DiscardRow, AddFate
  <1>22. CASE TakeHeld
    BY <1>22 DEF TakeHeld
  <1>23. CASE SettleHeld
    BY <1>23 DEF SettleHeld
  <1>24. CASE React
    BY <1>24 DEF React
  <1>25. ASSUME NEW u \in Users, Reconnect(u) PROVE Quiet
    BY <1>25 DEF Reconnect
  <1>26. ASSUME NEW r \in Rooms, UnbridgeGhost(r) PROVE Quiet
    BY <1>26 DEF UnbridgeGhost
  <1>27. ASSUME NEW r \in Rooms, UnbridgeThreads(r) PROVE Quiet
    BY <1>27 DEF UnbridgeThreads
  <1>31. ASSUME NEW r \in Rooms, BeginThreadAction(r) PROVE Quiet
    BY <1>31 DEF BeginThreadAction
  <1>28. ASSUME NEW e \in Msgs, HoldExpires(e) PROVE Quiet
    BY <1>28 DEF HoldExpires
  <1>29. ASSUME NEW e \in Msgs, BackoffElapses(e) PROVE Quiet
    BY <1>29 DEF BackoffElapses
  <1>30. CASE Crash
    BY <1>30 DEF Crash
  <1> QED
    BY <1>1, <1>2, <1>3, <1>4, <1>5, <1>6, <1>7, <1>8, <1>9, <1>10, <1>11,
       <1>12, <1>13, <1>14, <1>15, <1>16, <1>17, <1>18, <1>19, <1>20,
       <1>21, <1>22, <1>23, <1>24, <1>25, <1>26, <1>27, <1>28, <1>29, <1>30,
       <1>31
    DEF Next, HandlerStep, WorkerStep, DetachedStep, TimePasses

\* A message entering the queue is an Accept.
LEMMA SendAccepts ==
    ASSUME TypeOK, TypeOK', WorkerInv, NEW e \in Msgs, SendMessage(e)
    PROVE  Abstract!Accept(e)
  <1>1. stage[e] = "new"
    BY DEF stage, SendMessage, EnqueueHeldSend
  <1>2. copies' = copies /\ slips' = slips
    BY DEF SendMessage, EnqueueHeldSend, ResolveThreadContext, world
  <1>3. ASSUME NEW m \in Msgs
        PROVE stage'[m] = IF m = e THEN "open" ELSE stage[m]
    <2>1. CASE m = e
      <3>1. fate'[e] # {} /\ e \in queue'
        BY DEF SendMessage, EnqueueHeldSend, AddFate, TypeOK
      <3> QED
        BY <2>1, <3>1 DEF stage
    <2>2. CASE m # e
      <3>1. fate'[m] = fate[m] /\ (m \in queue' <=> m \in queue)
        BY <2>2 DEF SendMessage, EnqueueHeldSend, ResolveThreadContext, AddFate
      <3>2. InHand(m)' <=> InHand(m)
        BY DEF SendMessage, EnqueueHeldSend, worker, InHand
      <3> QED
        BY <2>2, <3>1, <3>2 DEF stage
    <2> QED
      BY <2>1, <2>2
  <1>4. stage' = [stage EXCEPT ![e] = "open"]
    <2>1. /\ stage' = [m \in Msgs |-> stage'[m]]
          /\ stage = [m \in Msgs |-> stage[m]]
      BY DEF stage
    <2> HIDE DEF stage
    <2> QED
      BY <1>3, <2>1
  <1> QED
    BY <1>1, <1>2, <1>4 DEF Abstract!Accept

\* A submission is a Deliver of the message in hand, or changes nothing.
LEMMA SubmitDelivers ==
    ASSUME TypeOK, TypeOK', WorkerInv, CopyInv, SubmitBatch
    PROVE  Abstract!Deliver(cur) \/ UNCHANGED Abstract!vars
  <1>1. cur \in Msgs /\ wpc = "submit" /\ wpc' = "reply" /\ cur' = cur
    BY DEF SubmitBatch, TypeOK
  <1>2. stage' = stage
    <2>1. ASSUME NEW m \in Msgs PROVE InHand(m)' <=> InHand(m)
      BY <1>1 DEF SubmitBatch, InHand
    <2>2. fate' = fate /\ queue' = queue
      BY DEF SubmitBatch, store, history
    <2> QED
      BY <2>1, <2>2 DEF stage
  <1>3. slips' = slips
    BY DEF SubmitBatch, history
  <1>4. CASE reply' = "created"
    <2>1. fate[cur] # {}
      BY <1>1 DEF WorkerInv, Pristine
    <2>2. stage[cur] = "open"
      BY <1>1, <2>1 DEF stage, InHand
    <2>3. copies[cur] <= slips[cur]
      BY <1>1 DEF CopyInv, InHand, Accepted
    <2>4. copies' = [copies EXCEPT ![cur] = @ + 1]
      BY <1>4 DEF SubmitBatch
    <2> QED
      BY <1>2, <1>3, <2>2, <2>3, <2>4 DEF Abstract!Deliver
  <1>5. CASE reply' # "created"
    <2>1. copies' = copies
      BY <1>5 DEF SubmitBatch
    <2> QED
      BY <1>2, <1>3, <2>1 DEF Abstract!vars
  <1> QED
    BY <1>4, <1>5

\* The initial states of the queue are initial states of the outbox.
LEMMA InitRefines == Init => Abstract!Init
  BY DEF Init, Abstract!Init, stage, Zeros

\* Every step of the queue is a step of the outbox, or stutters.
LEMMA StepRefines ==
    ASSUME TypeOK, TypeOK', WorkerInv, CopyInv, [Next]_vars
    PROVE  [Abstract!Next]_(Abstract!vars)
  <1>1. CASE UNCHANGED vars
    <2>1. UNCHANGED <<fate, queue, batch, cur, wpc, copies, slips>>
      BY <1>1 DEF vars, store, worker, world, history
    <2>2. stage' = stage
      BY <2>1 DEF stage, InHand
    <2> QED
      BY <2>1, <2>2 DEF Abstract!vars
  <1>2. ASSUME NEW e \in Msgs, SendMessage(e) PROVE Abstract!Next
    BY <1>2, SendAccepts DEF Abstract!Next
  <1>3. CASE SubmitBatch
    <2>1. cur \in Msgs
      BY <1>3 DEF SubmitBatch, TypeOK
    <2> QED
      BY <1>3, <2>1, SubmitDelivers DEF Abstract!Next
  <1>4. CASE Next /\ ~SubmitBatch /\ ~\E m \in Msgs : SendMessage(m)
    BY <1>4, OthersQuiet, QuietSettles
  <1> QED
    BY <1>1, <1>2, <1>3, <1>4

\* The outbound path implements the abstract outbox: mail leaves only for an
\* accepted, still open message, once and once more per slip, and a closed
\* message is never mailed again.
THEOREM OutboxRefinement == Spec => ImplementsOutbox
  <1>1. TypeOK /\ TypeOK' /\ WorkerInv /\ CopyInv /\ [Next]_vars
           => [Abstract!Next]_(Abstract!vars)
    BY StepRefines
  <1> QED
    BY <1>1, InitRefines, Invariance, PTL
    DEF Spec, ImplementsOutbox, Abstract!Spec
=============================================================================
