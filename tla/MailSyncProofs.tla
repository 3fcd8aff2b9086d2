--------------------------- MODULE MailSyncProofs ---------------------------
(***************************************************************************)
(* Proofs about MailSync: for any mailbox, sync_limit, window and number   *)
(* of commands, ticks and faults, no mail is passed over.                  *)
(***************************************************************************)
EXTENDS MailSync, FiniteSetTheorems, TLAPS

-----------------------------------------------------------------------------
(* The invariants.                                                         *)

Closed == bridged \cup Excused

\* A mail the bridge still owes.
Open == Live \ Closed

\* The walk will come to the mail.
Ahead(e) ==
    backfill_position # NoToken /\ Place(e) >= backfill_position

\* Mails arrive in their order, and go, or are in hand, after they came.
OrderInv ==
    /\ \A x, y \in Mails : x < y /\ born[y] # 0 => born[x] # 0
    /\ \A e \in Mails : died[e] # 0 \/ e \in batch => born[e] # 0

\* No token is ahead of the log; what is known to be gone is.
LogInv ==
    /\ changes # NoToken => changes <= log
    /\ \A p \in Pollers :
           next[p] <= log /\ (cur[p] # NoToken => cur[p] <= log)
    /\ \A e \in destroyed_emails : died[e] # 0

\* The walk has a position, or a bootstrap is about to give it one.
Started == backfill_position # NoToken \/ \E p \in Pollers : pc[p] = "register"

\* Mail below the anchor is excused, and so is all mail while a position is
\* without its anchor.
AnchorInv ==
    /\ ~Windowed => floor = 0 /\ backfill_cutoff = NoToken
    /\ backfill_cutoff # NoToken =>
           \A e \in Mails : e < backfill_cutoff => e \in outside
    /\ Windowed /\ Started /\ backfill_cutoff = NoToken => outside = Mails

Walking == bpc \in {"query", "process", "save", "finish"}

\* The first page is the bootstrap's: no walk begins before its end.
PositionInv ==
    /\ backfill_position # NoToken => backfill_position >= SyncLimit
    /\ Walking => backfill_position # NoToken /\ pos >= SyncLimit

\* A walk that has come to n with the mails of B in hand owes none of the
\* mails between the first page and n, those to arrive included.
Passed(n, B) ==
    \A e \in Mails \ (Closed \cup B) :
        died[e] = 0 /\ e >= Cutoff => Place(e) < SyncLimit \/ Place(e) >= n

WalkInv ==
    /\ backfill_position # NoToken => Passed(backfill_position, {})
    /\ bpc = "query" => Passed(pos, {})
    /\ bpc = "process" => Passed(pos + Cardinality(batch), batch)
    /\ bpc = "save" => Passed(pos + Cardinality(batch), {})

\* Once the last page is read, only the first page and the batch in hand are
\* owed.
Last(B) == \A e \in Open \ B : e >= Cutoff => Place(e) < SyncLimit

LastInv ==
    /\ bpc = "process" /\ Cardinality(batch) < SyncLimit => Last(batch)
    /\ bpc = "finish" => Last({})

\* Until a bootstrap registers its position, what is not on the first page
\* is behind it, the mails to arrive included.
RegisterInv ==
    \A p \in Pollers, e \in Mails \ Closed :
        pc[p] = "register" /\ died[e] = 0 /\ e >= Cutoff
            => e \in ids[p] \/ Place(e) >= SyncLimit

\* NoMailPassed, and the same of the token that each poll has in hand.
TokenInv ==
    \A e \in Open : changes = NoToken \/ born[e] > changes \/ Ahead(e)

PollInv ==
    \A p \in Pollers, e \in Open :
        /\ pc[p] = "changes" /\ cur[p] # NoToken
               => born[e] > cur[p] \/ Ahead(e)
        /\ pc[p] = "state" => e \in ids[p] \/ Ahead(e)
        /\ pc[p] = "process"
               => e \in ids[p] \/ born[e] > next[p] \/ Ahead(e)
        /\ pc[p] = "save" => born[e] > next[p] \/ Ahead(e)

Inv == /\ OrderInv /\ LogInv /\ AnchorInv /\ PositionInv
       /\ WalkInv /\ LastInv /\ RegisterInv /\ TokenInv /\ PollInv

-----------------------------------------------------------------------------
(* Counting the elements of a set below a number.                          *)

Count(S, e) == Cardinality({x \in S : x < e})

LEMMA CountType ==
    ASSUME NEW S \in SUBSET Nat, IsFiniteSet(S), NEW e \in Nat
    PROVE  /\ IsFiniteSet({x \in S : x < e})
           /\ Count(S, e) \in Nat /\ Count(S, e) <= Cardinality(S)
           /\ e \in S => Count(S, e) < Cardinality(S)
<1> DEFINE B == {x \in S : x < e}
<1>1. IsFiniteSet(B) /\ Cardinality(B) <= Cardinality(S)
      /\ (Cardinality(S) = Cardinality(B) => S = B)
  BY FS_Subset
<1>2. Cardinality(B) \in Nat /\ Cardinality(S) \in Nat
  BY <1>1, FS_CardinalityType
<1>3. e \in S => S # B
  OBVIOUS
<1> QED
  BY <1>1, <1>2, <1>3 DEF Count

LEMMA CountGrows ==
    ASSUME NEW S \in SUBSET Nat, IsFiniteSet(S), NEW x \in S, NEW y \in Nat,
           x < y
    PROVE  Count(S, x) < Count(S, y)
<1> DEFINE A == {z \in S : z < x}
           B == {z \in S : z < y}
<1>1. IsFiniteSet(B) /\ Cardinality(B) \in Nat
  BY CountType DEF Count
<1>2. A \in SUBSET B /\ A # B
  <2>1. \A z \in S : z < x => z < y
    OBVIOUS
  <2>2. x \in B /\ x \notin A
    OBVIOUS
  <2> QED
    BY <2>1, <2>2
<1>3. Cardinality(A) <= Cardinality(B)
      /\ (Cardinality(B) = Cardinality(A) => B = A)
  <2> HIDE DEF A, B
  <2> QED
    BY <1>1, <1>2, FS_Subset
<1>4. Cardinality(A) \in Nat
  BY CountType DEF Count
<1> QED
  BY <1>1, <1>2, <1>3, <1>4 DEF Count

LEMMA CountDiffers ==
    ASSUME NEW S \in SUBSET Nat, IsFiniteSet(S), NEW x \in S, NEW y \in S,
           Count(S, x) = Count(S, y)
    PROVE  x = y
<1> SUFFICES ASSUME x # y PROVE FALSE
  OBVIOUS
<1>1. Count(S, x) \in Nat
  BY CountType
<1>2. x < y \/ y < x
  OBVIOUS
<1>3. Count(S, x) < Count(S, y) \/ Count(S, y) < Count(S, x)
  BY <1>2, CountGrows
<1> QED
  BY <1>1, <1>3

LEMMA CountSpan ==
    ASSUME NEW S \in SUBSET Nat, IsFiniteSet(S), NEW B \in SUBSET S,
           NEW a \in Nat, NEW b \in Nat, a <= b,
           \A x \in B : a <= Count(S, x) /\ Count(S, x) < b
    PROVE  IsFiniteSet(B) /\ Cardinality(B) \in Nat
           /\ Cardinality(B) <= b - a
<1> DEFINE f == [x \in B |-> Count(S, x)]
<1>1. \A x \in B : f[x] \in a..(b - 1)
  <2>1. \A x \in B : Count(S, x) \in Nat
    BY CountType
  <2> QED
    BY <2>1
<1>2. \A x, y \in B : f[x] = f[y] => x = y
  BY CountDiffers
<1>3. f \in Injection(B, a..(b - 1))
  BY <1>1, <1>2 DEF Injection, IsInjective
<1>4. IsFiniteSet(a..(b - 1)) /\ Cardinality(a..(b - 1)) = b - a
  <2>1. a \in Int /\ b - 1 \in Int
    OBVIOUS
  <2>2. IsFiniteSet(a..(b - 1))
        /\ Cardinality(a..(b - 1)) = IF a > b - 1 THEN 0 ELSE b - 1 - a + 1
    BY <2>1, FS_Interval
  <2> QED
    BY <2>2
<1>5. Cardinality(B) <= Cardinality(a..(b - 1)) /\ IsFiniteSet(B)
  BY <1>3, <1>4, FS_Injection
<1> QED
  BY <1>4, <1>5, FS_CardinalityType

LEMMA CountFull ==
    ASSUME NEW S \in SUBSET Nat, IsFiniteSet(S), NEW a \in Nat, NEW b \in Nat,
           a <= b, NEW e \in S, Count(S, e) >= b
    PROVE  Cardinality({x \in S : a <= Count(S, x) /\ Count(S, x) < b}) = b - a
<1> DEFINE n == Cardinality(S)
           f == [x \in S |-> Count(S, x)]
           B == {x \in S : a <= Count(S, x) /\ Count(S, x) < b}
           g == [x \in B |-> Count(S, x)]
<1>a. \A x \in S : Count(S, x) \in Nat /\ Count(S, x) < n
  BY CountType
<1>1. n \in Nat /\ b < n
  <2>1. n \in Nat
    BY FS_CardinalityType
  <2> QED
    BY <1>a, <2>1
<1>2. \A x \in S : f[x] \in 0..(n - 1)
  BY <1>a, <1>1
<1>3. \A x, y \in S : f[x] = f[y] => x = y
  BY CountDiffers
<1>4. f \in Injection(S, 0..(n - 1))
  BY <1>2, <1>3 DEF Injection, IsInjective
<1>5. IsFiniteSet(0..(n - 1)) /\ Cardinality(0..(n - 1)) = n
  <2>1. 0 \in Int /\ n - 1 \in Int
    BY <1>1
  <2>2. IsFiniteSet(0..(n - 1))
        /\ Cardinality(0..(n - 1)) = IF 0 > n - 1 THEN 0 ELSE n - 1 - 0 + 1
    BY <2>1, FS_Interval
  <2> QED
    BY <1>1, <2>2
<1>6. f \in Surjection(S, 0..(n - 1))
  BY <1>4, <1>5, FS_Injection
<1>7. \A i \in a..(b - 1) : \E x \in B : g[x] = i
  <2> SUFFICES ASSUME NEW i \in a..(b - 1) PROVE \E x \in B : g[x] = i
    OBVIOUS
  <2>1. i \in 0..(n - 1)
    BY <1>1
  <2>2. PICK x \in S : f[x] = i
    BY <1>6, <2>1 DEF Surjection
  <2> QED
    BY <2>2
<1>8. \A x \in B : g[x] \in a..(b - 1)
  BY <1>a
<1>9. g \in Surjection(B, a..(b - 1))
  BY <1>7, <1>8 DEF Surjection
<1>10. IsFiniteSet(B) /\ Cardinality(B) \in Nat /\ Cardinality(B) <= b - a
  BY CountSpan
<1>11. Cardinality(a..(b - 1)) = b - a
  <2>1. a \in Int /\ b - 1 \in Int
    OBVIOUS
  <2>2. IsFiniteSet(a..(b - 1))
        /\ Cardinality(a..(b - 1)) = IF a > b - 1 THEN 0 ELSE b - 1 - a + 1
    BY <2>1, FS_Interval
  <2> QED
    BY <2>2
<1>12. Cardinality(a..(b - 1)) <= Cardinality(B)
  BY <1>9, <1>10, FS_Surjection
<1> QED
  BY <1>10, <1>11, <1>12
-----------------------------------------------------------------------------
(* Types.                                                                  *)

LEMMA TypeInit == Init => TypeOK
<1> USE SyncAssumption
<1>1. Init => ServerOK /\ StoreOK
  BY DEF Init, ServerOK, StoreOK, Mails
<1>2. Init => PushOK
  BY DEF Init, PushOK
<1>3. Init => PollsOK
  BY DEF Init, PollsOK
<1>4. Init => initial \in BOOLEAN /\ stranded \in BOOLEAN
  BY Zenon DEF Init
<1>5. Init => WalkOK /\ HistoryOK
  BY <1>4 DEF Init, WalkOK, HistoryOK
<1> QED
  BY <1>1, <1>2, <1>3, <1>5 DEF TypeOK

\* A set of mails can be counted.
LEMMA MailCount ==
    ASSUME NEW S \in SUBSET Mails
    PROVE  IsFiniteSet(S) /\ Cardinality(S) \in Nat /\ S \in SUBSET Nat
           /\ (Cardinality(S) = 0 <=> S = {})
<1>1. IsFiniteSet(Mails) /\ Mails \subseteq Nat
  BY SyncAssumption, FS_Interval DEF Mails
<1>2. IsFiniteSet(S)
  BY <1>1, FS_Subset
<1> QED
  BY <1>1, <1>2, FS_CardinalityType, FS_EmptySet

LEMMA ServerNext ==
    ServerOK /\ [Next]_vars => ServerOK'
<1> SUFFICES ASSUME ServerOK, [Next]_vars
             PROVE  ServerOK'
  OBVIOUS
<1> USE SyncAssumption DEF ServerOK, server, state, push, poll, walk,
                           excuses
<1>1. CASE UNCHANGED vars
  BY <1>1 DEF vars
<1>2. ASSUME NEW e \in Mails, Arrive(e) PROVE ServerOK'
  BY <1>2 DEF Arrive
<1>3. ASSUME NEW d \in Mails, Destroy(d) PROVE ServerOK'
  BY <1>3 DEF Destroy
<1>4. CASE Tick
  BY <1>4 DEF Tick
<1>5. CASE Subscribe
  BY <1>5 DEF Subscribe
<1>6. CASE Push
  BY <1>6 DEF Push
<1>7. CASE StreamEnds
  BY <1>7 DEF StreamEnds
<1>8. CASE Heartbeat
  BY <1>8 DEF Heartbeat
<1>9. CASE DebouncedPoll
  BY <1>9 DEF DebouncedPoll, ReadToken
<1>10. ASSUME NEW p \in Commands, PollNow(p) PROVE ServerOK'
  BY <1>10 DEF PollNow, ReadToken
<1>11. ASSUME NEW p \in Pollers, GetChanges(p) PROVE ServerOK'
  BY <1>11 DEF GetChanges, PollFrame
<1>12. ASSUME NEW p \in Pollers, Bootstrap(p) PROVE ServerOK'
  BY <1>12 DEF Bootstrap, ResolveCutoff, PollFrame
<1>28. ASSUME NEW p \in Pollers, RegisterPosition(p) PROVE ServerOK'
  BY <1>28 DEF RegisterPosition, PollFrame
<1>13. ASSUME NEW p \in Pollers, BootstrapState(p) PROVE ServerOK'
  BY <1>13 DEF BootstrapState, PollFrame
<1>14. ASSUME NEW p \in Pollers, ProcessPage(p) PROVE ServerOK'
  BY <1>14 DEF ProcessPage, ProcessEmails, PollFrame
<1>15. ASSUME NEW p \in Pollers, SaveToken(p) PROVE ServerOK'
  BY <1>15 DEF SaveToken, PollFrame
<1>16. ASSUME NEW p \in Pollers, CannotCalculateChanges(p) PROVE ServerOK'
  BY <1>16 DEF CannotCalculateChanges, PollFrame
<1>17. ASSUME NEW p \in Pollers, PollFails(p) PROVE ServerOK'
  BY <1>17 DEF PollFails
<1>18. CASE CheckInitial
  BY <1>18 DEF CheckInitial, BackfillFrame
<1>19. CASE ReadPosition
  BY <1>19 DEF ReadPosition, BackfillFrame
<1>20. CASE QueryBatch
  BY <1>20 DEF QueryBatch, ResolveCutoff, BackfillFrame
<1>21. CASE ProcessBatch
  BY <1>21 DEF ProcessBatch, ProcessEmails, BackfillFrame
<1>22. CASE SavePosition
  BY <1>22 DEF SavePosition, BackfillFrame
<1>23. CASE DropPosition
  BY <1>23 DEF DropPosition, BackfillFrame
<1>27. CASE DropAnchor
  BY <1>27 DEF DropAnchor, BackfillFrame
<1>24. CASE ReadFails
  BY <1>24 DEF ReadFails, BackfillFrame
<1>25. CASE BackfillFails
  BY <1>25 DEF BackfillFails, BackfillFrame
<1>26. CASE NewSession
  BY <1>26 DEF NewSession
<1> QED
  BY <1>1, <1>2, <1>3, <1>4, <1>5, <1>6, <1>7, <1>8, <1>9, <1>10, <1>11,
     <1>12, <1>13, <1>14, <1>15, <1>16, <1>17, <1>18, <1>19, <1>20, <1>21,
     <1>22, <1>23, <1>24, <1>25, <1>26, <1>27, <1>28
  DEF Next, MailServer, PollStep, BackfillStep

LEMMA StoreNext ==
    ServerOK /\ StoreOK /\ PollsOK /\ WalkOK /\ [Next]_vars => StoreOK'
<1> SUFFICES ASSUME ServerOK, StoreOK, PollsOK, WalkOK, [Next]_vars
             PROVE  StoreOK'
  OBVIOUS
<1> USE SyncAssumption DEF ServerOK, StoreOK, PollsOK, WalkOK, Live,
                           Arrived, server, state, push, poll, walk, excuses
<1>1. CASE UNCHANGED vars
  BY <1>1 DEF vars
<1>2. ASSUME NEW e \in Mails, Arrive(e) PROVE StoreOK'
  BY <1>2 DEF Arrive
<1>3. ASSUME NEW d \in Mails, Destroy(d) PROVE StoreOK'
  BY <1>3 DEF Destroy
<1>4. CASE Tick
  BY <1>4 DEF Tick
<1>5. CASE Subscribe
  BY <1>5 DEF Subscribe
<1>6. CASE Push
  BY <1>6 DEF Push
<1>7. CASE StreamEnds
  BY <1>7 DEF StreamEnds
<1>8. CASE Heartbeat
  BY <1>8 DEF Heartbeat
<1>9. CASE DebouncedPoll
  BY <1>9 DEF DebouncedPoll, ReadToken
<1>10. ASSUME NEW p \in Commands, PollNow(p) PROVE StoreOK'
  BY <1>10 DEF PollNow, ReadToken
<1>11. ASSUME NEW p \in Pollers, GetChanges(p) PROVE StoreOK'
  BY <1>11 DEF GetChanges, PollFrame
<1>12. ASSUME NEW p \in Pollers, Bootstrap(p) PROVE StoreOK'
  BY <1>12 DEF Bootstrap, ResolveCutoff, PollFrame
<1>28. ASSUME NEW p \in Pollers, RegisterPosition(p) PROVE StoreOK'
  BY <1>28 DEF RegisterPosition, PollFrame
<1>13. ASSUME NEW p \in Pollers, BootstrapState(p) PROVE StoreOK'
  BY <1>13 DEF BootstrapState, PollFrame
<1>14. ASSUME NEW p \in Pollers, ProcessPage(p) PROVE StoreOK'
  BY <1>14 DEF ProcessPage, ProcessEmails, PollFrame
<1>15. ASSUME NEW p \in Pollers, SaveToken(p) PROVE StoreOK'
  BY <1>15 DEF SaveToken, PollFrame
<1>16. ASSUME NEW p \in Pollers, CannotCalculateChanges(p) PROVE StoreOK'
  BY <1>16 DEF CannotCalculateChanges, PollFrame
<1>17. ASSUME NEW p \in Pollers, PollFails(p) PROVE StoreOK'
  BY <1>17 DEF PollFails
<1>18. CASE CheckInitial
  BY <1>18 DEF CheckInitial, BackfillFrame
<1>19. CASE ReadPosition
  BY <1>19 DEF ReadPosition, BackfillFrame
<1>20. CASE QueryBatch
  BY <1>20 DEF QueryBatch, ResolveCutoff, BackfillFrame
<1>21. CASE ProcessBatch
  BY <1>21 DEF ProcessBatch, ProcessEmails, BackfillFrame
<1>22. CASE SavePosition
  BY <1>22, MailCount DEF SavePosition, BackfillFrame
<1>23. CASE DropPosition
  BY <1>23 DEF DropPosition, BackfillFrame
<1>27. CASE DropAnchor
  BY <1>27 DEF DropAnchor, BackfillFrame
<1>24. CASE ReadFails
  BY <1>24 DEF ReadFails, BackfillFrame
<1>25. CASE BackfillFails
  BY <1>25 DEF BackfillFails, BackfillFrame
<1>26. CASE NewSession
  BY <1>26 DEF NewSession
<1> QED
  BY <1>1, <1>2, <1>3, <1>4, <1>5, <1>6, <1>7, <1>8, <1>9, <1>10, <1>11,
     <1>12, <1>13, <1>14, <1>15, <1>16, <1>17, <1>18, <1>19, <1>20, <1>21,
     <1>22, <1>23, <1>24, <1>25, <1>26, <1>27, <1>28
  DEF Next, MailServer, PollStep, BackfillStep

LEMMA PushNext ==
    PushOK /\ [Next]_vars => PushOK'
<1> SUFFICES ASSUME PushOK, [Next]_vars
             PROVE  PushOK'
  OBVIOUS
<1> USE SyncAssumption DEF PushOK, server, state, push, poll, walk, excuses
<1>1. CASE UNCHANGED vars
  BY <1>1 DEF vars
<1>2. ASSUME NEW e \in Mails, Arrive(e) PROVE PushOK'
  BY <1>2 DEF Arrive
<1>3. ASSUME NEW d \in Mails, Destroy(d) PROVE PushOK'
  BY <1>3 DEF Destroy
<1>4. CASE Tick
  BY <1>4 DEF Tick
<1>5. CASE Subscribe
  BY <1>5 DEF Subscribe
<1>6. CASE Push
  BY <1>6 DEF Push
<1>7. CASE StreamEnds
  BY <1>7 DEF StreamEnds
<1>8. CASE Heartbeat
  BY <1>8 DEF Heartbeat
<1>9. CASE DebouncedPoll
  BY <1>9 DEF DebouncedPoll, ReadToken
<1>10. ASSUME NEW p \in Commands, PollNow(p) PROVE PushOK'
  BY <1>10 DEF PollNow, ReadToken
<1>11. ASSUME NEW p \in Pollers, GetChanges(p) PROVE PushOK'
  BY <1>11 DEF GetChanges, PollFrame
<1>12. ASSUME NEW p \in Pollers, Bootstrap(p) PROVE PushOK'
  BY <1>12 DEF Bootstrap, ResolveCutoff, PollFrame
<1>28. ASSUME NEW p \in Pollers, RegisterPosition(p) PROVE PushOK'
  BY <1>28 DEF RegisterPosition, PollFrame
<1>13. ASSUME NEW p \in Pollers, BootstrapState(p) PROVE PushOK'
  BY <1>13 DEF BootstrapState, PollFrame
<1>14. ASSUME NEW p \in Pollers, ProcessPage(p) PROVE PushOK'
  BY <1>14 DEF ProcessPage, ProcessEmails, PollFrame
<1>15. ASSUME NEW p \in Pollers, SaveToken(p) PROVE PushOK'
  BY <1>15 DEF SaveToken, PollFrame
<1>16. ASSUME NEW p \in Pollers, CannotCalculateChanges(p) PROVE PushOK'
  BY <1>16 DEF CannotCalculateChanges, PollFrame
<1>17. ASSUME NEW p \in Pollers, PollFails(p) PROVE PushOK'
  BY <1>17 DEF PollFails
<1>18. CASE CheckInitial
  BY <1>18 DEF CheckInitial, BackfillFrame
<1>19. CASE ReadPosition
  BY <1>19 DEF ReadPosition, BackfillFrame
<1>20. CASE QueryBatch
  BY <1>20 DEF QueryBatch, ResolveCutoff, BackfillFrame
<1>21. CASE ProcessBatch
  BY <1>21 DEF ProcessBatch, ProcessEmails, BackfillFrame
<1>22. CASE SavePosition
  BY <1>22 DEF SavePosition, BackfillFrame
<1>23. CASE DropPosition
  BY <1>23 DEF DropPosition, BackfillFrame
<1>27. CASE DropAnchor
  BY <1>27 DEF DropAnchor, BackfillFrame
<1>24. CASE ReadFails
  BY <1>24 DEF ReadFails, BackfillFrame
<1>25. CASE BackfillFails
  BY <1>25 DEF BackfillFails, BackfillFrame
<1>26. CASE NewSession
  BY <1>26 DEF NewSession
<1> QED
  BY <1>1, <1>2, <1>3, <1>4, <1>5, <1>6, <1>7, <1>8, <1>9, <1>10, <1>11,
     <1>12, <1>13, <1>14, <1>15, <1>16, <1>17, <1>18, <1>19, <1>20, <1>21,
     <1>22, <1>23, <1>24, <1>25, <1>26, <1>27, <1>28
  DEF Next, MailServer, PollStep, BackfillStep

LEMMA PollsNext ==
    ServerOK /\ StoreOK /\ PollsOK /\ [Next]_vars => PollsOK'
<1> SUFFICES ASSUME ServerOK, StoreOK, PollsOK, [Next]_vars
             PROVE  PollsOK'
  OBVIOUS
<1> USE SyncAssumption DEF ServerOK, StoreOK, PollsOK, Pollers, Live,
                           Arrived, Page, InWindow, server, state, push,
                           poll, walk, excuses
<1>1. CASE UNCHANGED vars
  BY <1>1 DEF vars
<1>2. ASSUME NEW e \in Mails, Arrive(e) PROVE PollsOK'
  BY <1>2 DEF Arrive
<1>3. ASSUME NEW d \in Mails, Destroy(d) PROVE PollsOK'
  BY <1>3 DEF Destroy
<1>4. CASE Tick
  BY <1>4 DEF Tick
<1>5. CASE Subscribe
  BY <1>5 DEF Subscribe
<1>6. CASE Push
  BY <1>6 DEF Push
<1>7. CASE StreamEnds
  BY <1>7 DEF StreamEnds
<1>8. CASE Heartbeat
  BY <1>8 DEF Heartbeat
<1>9. CASE DebouncedPoll
  BY <1>9 DEF DebouncedPoll, ReadToken
<1>10. ASSUME NEW p \in Commands, PollNow(p) PROVE PollsOK'
  BY <1>10 DEF PollNow, ReadToken
<1>11. ASSUME NEW p \in Pollers, GetChanges(p) PROVE PollsOK'
  BY <1>11 DEF GetChanges, PollFrame
<1>12. ASSUME NEW p \in Pollers, Bootstrap(p) PROVE PollsOK'
  BY <1>12 DEF Bootstrap, ResolveCutoff, PollFrame
<1>28. ASSUME NEW p \in Pollers, RegisterPosition(p) PROVE PollsOK'
  BY <1>28 DEF RegisterPosition, PollFrame
<1>13. ASSUME NEW p \in Pollers, BootstrapState(p) PROVE PollsOK'
  BY <1>13 DEF BootstrapState, PollFrame
<1>14. ASSUME NEW p \in Pollers, ProcessPage(p) PROVE PollsOK'
  BY <1>14 DEF ProcessPage, ProcessEmails, PollFrame
<1>15. ASSUME NEW p \in Pollers, SaveToken(p) PROVE PollsOK'
  BY <1>15 DEF SaveToken, PollFrame
<1>16. ASSUME NEW p \in Pollers, CannotCalculateChanges(p) PROVE PollsOK'
  BY <1>16 DEF CannotCalculateChanges, PollFrame
<1>17. ASSUME NEW p \in Pollers, PollFails(p) PROVE PollsOK'
  BY <1>17 DEF PollFails
<1>18. CASE CheckInitial
  BY <1>18 DEF CheckInitial, BackfillFrame
<1>19. CASE ReadPosition
  BY <1>19 DEF ReadPosition, BackfillFrame
<1>20. CASE QueryBatch
  BY <1>20 DEF QueryBatch, ResolveCutoff, BackfillFrame
<1>21. CASE ProcessBatch
  BY <1>21 DEF ProcessBatch, ProcessEmails, BackfillFrame
<1>22. CASE SavePosition
  BY <1>22 DEF SavePosition, BackfillFrame
<1>23. CASE DropPosition
  BY <1>23 DEF DropPosition, BackfillFrame
<1>27. CASE DropAnchor
  BY <1>27 DEF DropAnchor, BackfillFrame
<1>24. CASE ReadFails
  BY <1>24 DEF ReadFails, BackfillFrame
<1>25. CASE BackfillFails
  BY <1>25 DEF BackfillFails, BackfillFrame
<1>26. CASE NewSession
  BY <1>26 DEF NewSession
<1> QED
  BY <1>1, <1>2, <1>3, <1>4, <1>5, <1>6, <1>7, <1>8, <1>9, <1>10, <1>11,
     <1>12, <1>13, <1>14, <1>15, <1>16, <1>17, <1>18, <1>19, <1>20, <1>21,
     <1>22, <1>23, <1>24, <1>25, <1>26, <1>27, <1>28
  DEF Next, MailServer, PollStep, BackfillStep

LEMMA WalkTypeNext ==
    StoreOK /\ WalkOK /\ [Next]_vars => WalkOK'
<1> SUFFICES ASSUME StoreOK, WalkOK, [Next]_vars
             PROVE  WalkOK'
  OBVIOUS
<1> USE SyncAssumption DEF StoreOK, WalkOK, Live, Arrived, Page, InWindow,
                           server, state, push, poll, walk, excuses
<1>1. CASE UNCHANGED vars
  BY <1>1 DEF vars
<1>2. ASSUME NEW e \in Mails, Arrive(e) PROVE WalkOK'
  BY <1>2 DEF Arrive
<1>3. ASSUME NEW d \in Mails, Destroy(d) PROVE WalkOK'
  BY <1>3 DEF Destroy
<1>4. CASE Tick
  BY <1>4 DEF Tick
<1>5. CASE Subscribe
  BY <1>5 DEF Subscribe
<1>6. CASE Push
  BY <1>6 DEF Push
<1>7. CASE StreamEnds
  BY <1>7 DEF StreamEnds
<1>8. CASE Heartbeat
  BY <1>8 DEF Heartbeat
<1>9. CASE DebouncedPoll
  BY <1>9 DEF DebouncedPoll, ReadToken
<1>10. ASSUME NEW p \in Commands, PollNow(p) PROVE WalkOK'
  BY <1>10 DEF PollNow, ReadToken
<1>11. ASSUME NEW p \in Pollers, GetChanges(p) PROVE WalkOK'
  BY <1>11 DEF GetChanges, PollFrame
<1>12. ASSUME NEW p \in Pollers, Bootstrap(p) PROVE WalkOK'
  BY <1>12 DEF Bootstrap, ResolveCutoff, PollFrame
<1>28. ASSUME NEW p \in Pollers, RegisterPosition(p) PROVE WalkOK'
  BY <1>28 DEF RegisterPosition, PollFrame
<1>13. ASSUME NEW p \in Pollers, BootstrapState(p) PROVE WalkOK'
  BY <1>13 DEF BootstrapState, PollFrame
<1>14. ASSUME NEW p \in Pollers, ProcessPage(p) PROVE WalkOK'
  BY <1>14 DEF ProcessPage, ProcessEmails, PollFrame
<1>15. ASSUME NEW p \in Pollers, SaveToken(p) PROVE WalkOK'
  BY <1>15 DEF SaveToken, PollFrame
<1>16. ASSUME NEW p \in Pollers, CannotCalculateChanges(p) PROVE WalkOK'
  BY <1>16 DEF CannotCalculateChanges, PollFrame
<1>17. ASSUME NEW p \in Pollers, PollFails(p) PROVE WalkOK'
  BY <1>17 DEF PollFails
<1>18. CASE CheckInitial
  BY <1>18 DEF CheckInitial, BackfillFrame
<1>19. CASE ReadPosition
  BY <1>19 DEF ReadPosition, BackfillFrame
<1>20. CASE QueryBatch
  BY <1>20 DEF QueryBatch, ResolveCutoff, BackfillFrame
<1>21. CASE ProcessBatch
  BY <1>21 DEF ProcessBatch, ProcessEmails, BackfillFrame
<1>22. CASE SavePosition
  BY <1>22 DEF SavePosition, BackfillFrame
<1>23. CASE DropPosition
  BY <1>23 DEF DropPosition, BackfillFrame
<1>27. CASE DropAnchor
  BY <1>27 DEF DropAnchor, BackfillFrame
<1>24. CASE ReadFails
  BY <1>24 DEF ReadFails, BackfillFrame
<1>25. CASE BackfillFails
  BY <1>25 DEF BackfillFails, BackfillFrame
<1>26. CASE NewSession
  BY <1>26 DEF NewSession
<1> QED
  BY <1>1, <1>2, <1>3, <1>4, <1>5, <1>6, <1>7, <1>8, <1>9, <1>10, <1>11,
     <1>12, <1>13, <1>14, <1>15, <1>16, <1>17, <1>18, <1>19, <1>20, <1>21,
     <1>22, <1>23, <1>24, <1>25, <1>26, <1>27, <1>28
  DEF Next, MailServer, PollStep, BackfillStep

LEMMA HistoryNext ==
    PollsOK /\ WalkOK /\ HistoryOK /\ [Next]_vars => HistoryOK'
<1> SUFFICES ASSUME PollsOK, WalkOK, HistoryOK, [Next]_vars
             PROVE  HistoryOK'
  OBVIOUS
<1> USE SyncAssumption DEF PollsOK, WalkOK, HistoryOK, Faults, Fault, Live,
                           Arrived, InWindow, Queue, MovedUp, server, state,
                           push, poll, walk, excuses
<1>1. CASE UNCHANGED vars
  BY <1>1 DEF vars
<1>2. ASSUME NEW e \in Mails, Arrive(e) PROVE HistoryOK'
  BY <1>2 DEF Arrive
<1>3. ASSUME NEW d \in Mails, Destroy(d) PROVE HistoryOK'
  BY <1>3 DEF Destroy
<1>4. CASE Tick
  BY <1>4 DEF Tick
<1>5. CASE Subscribe
  BY <1>5 DEF Subscribe
<1>6. CASE Push
  BY <1>6 DEF Push
<1>7. CASE StreamEnds
  BY <1>7 DEF StreamEnds
<1>8. CASE Heartbeat
  BY <1>8 DEF Heartbeat
<1>9. CASE DebouncedPoll
  BY <1>9 DEF DebouncedPoll, ReadToken
<1>10. ASSUME NEW p \in Commands, PollNow(p) PROVE HistoryOK'
  BY <1>10 DEF PollNow, ReadToken
<1>11. ASSUME NEW p \in Pollers, GetChanges(p) PROVE HistoryOK'
  BY <1>11 DEF GetChanges, PollFrame
<1>12. ASSUME NEW p \in Pollers, Bootstrap(p) PROVE HistoryOK'
  <2>1. outside' \subseteq Mails
    BY <1>12 DEF Bootstrap, ResolveCutoff
  <2> QED
    BY <1>12, <2>1 DEF Bootstrap
<1>28. ASSUME NEW p \in Pollers, RegisterPosition(p) PROVE HistoryOK'
  <2>1. \/ stranded' = (stranded \/ bpc \in {"anchor", "done"})
        \/ UNCHANGED stranded
    BY <1>28 DEF RegisterPosition
  <2>2. stranded' \in BOOLEAN
    BY <2>1, Zenon
  <2>3. failed' \subseteq Mails
    BY <1>28 DEF RegisterPosition
  <2> QED
    BY <1>28, <2>2, <2>3 DEF RegisterPosition
<1>13. ASSUME NEW p \in Pollers, BootstrapState(p) PROVE HistoryOK'
  BY <1>13 DEF BootstrapState, PollFrame
<1>14. ASSUME NEW p \in Pollers, ProcessPage(p) PROVE HistoryOK'
  BY <1>14 DEF ProcessPage, ProcessEmails, PollFrame
<1>15. ASSUME NEW p \in Pollers, SaveToken(p) PROVE HistoryOK'
  BY <1>15 DEF SaveToken, PollFrame
<1>16. ASSUME NEW p \in Pollers, CannotCalculateChanges(p) PROVE HistoryOK'
  BY <1>16 DEF CannotCalculateChanges, PollFrame
<1>17. ASSUME NEW p \in Pollers, PollFails(p) PROVE HistoryOK'
  BY <1>17 DEF PollFails
<1>18. CASE CheckInitial
  BY <1>18 DEF CheckInitial, BackfillFrame
<1>19. CASE ReadPosition
  BY <1>19 DEF ReadPosition, BackfillFrame
<1>20. CASE QueryBatch
  BY <1>20 DEF QueryBatch, ResolveCutoff, BackfillFrame
<1>21. CASE ProcessBatch
  BY <1>21 DEF ProcessBatch, ProcessEmails, BackfillFrame
<1>22. CASE SavePosition
  BY <1>22 DEF SavePosition, BackfillFrame
<1>23. CASE DropPosition
  BY <1>23 DEF DropPosition, BackfillFrame
<1>27. CASE DropAnchor
  BY <1>27 DEF DropAnchor, BackfillFrame
<1>24. CASE ReadFails
  BY <1>24 DEF ReadFails, BackfillFrame
<1>25. CASE BackfillFails
  BY <1>25 DEF BackfillFails, BackfillFrame
<1>26. CASE NewSession
  <2>1. stranded' \in BOOLEAN
    BY <1>26, Zenon DEF NewSession
  <2> QED
    BY <1>26, <2>1 DEF NewSession
<1> QED
  BY <1>1, <1>2, <1>3, <1>4, <1>5, <1>6, <1>7, <1>8, <1>9, <1>10, <1>11,
     <1>12, <1>13, <1>14, <1>15, <1>16, <1>17, <1>18, <1>19, <1>20, <1>21,
     <1>22, <1>23, <1>24, <1>25, <1>26, <1>27, <1>28
  DEF Next, MailServer, PollStep, BackfillStep

-----------------------------------------------------------------------------
(* Order, tokens, anchor and position.                                     *)

LEMMA OrderNext ==
    ServerOK /\ WalkOK /\ OrderInv /\ [Next]_vars => OrderInv'
<1> SUFFICES ASSUME ServerOK, WalkOK, OrderInv, [Next]_vars
             PROVE  OrderInv'
  OBVIOUS
<1> USE SyncAssumption DEF ServerOK, WalkOK, OrderInv, Mails, server, state,
                           push, poll, walk, excuses
<1>1. CASE UNCHANGED vars
  BY <1>1 DEF vars
<1>2. ASSUME NEW e \in Mails, Arrive(e) PROVE OrderInv'
  <2>1. /\ \A x \in Mails \ {e} : born'[x] = born[x]
        /\ born'[e] # 0 /\ UNCHANGED <<died, batch>>
    BY <1>2 DEF Arrive
  <2>2. \A x \in Mails : x < e => born[x] # 0
    BY <1>2 DEF Arrive
  <2>3. \A x \in Mails : born[x] # 0 => born'[x] # 0
    BY <1>2 DEF Arrive
  <2>4. \A x, y \in Mails : x < y /\ born'[y] # 0 => born'[x] # 0
    BY <2>1, <2>2, <2>3
  <2>5. \A x \in Mails : died'[x] # 0 \/ x \in batch' => born'[x] # 0
    BY <2>1, <2>3
  <2> QED
    BY <2>4, <2>5
<1>3. ASSUME NEW d \in Mails, Destroy(d) PROVE OrderInv'
  BY <1>3 DEF Destroy, Live, Arrived
<1>4. CASE Tick
  BY <1>4 DEF Tick
<1>5. CASE Subscribe
  BY <1>5 DEF Subscribe
<1>6. CASE Push
  BY <1>6 DEF Push
<1>7. CASE StreamEnds
  BY <1>7 DEF StreamEnds
<1>8. CASE Heartbeat
  BY <1>8 DEF Heartbeat
<1>9. CASE DebouncedPoll
  BY <1>9 DEF DebouncedPoll, ReadToken
<1>10. ASSUME NEW p \in Commands, PollNow(p) PROVE OrderInv'
  BY <1>10 DEF PollNow, ReadToken
<1>11. ASSUME NEW p \in Pollers, GetChanges(p) PROVE OrderInv'
  BY <1>11 DEF GetChanges, PollFrame
<1>12. ASSUME NEW p \in Pollers, Bootstrap(p) PROVE OrderInv'
  BY <1>12 DEF Bootstrap, ResolveCutoff, PollFrame
<1>28. ASSUME NEW p \in Pollers, RegisterPosition(p) PROVE OrderInv'
  BY <1>28 DEF RegisterPosition, PollFrame
<1>13. ASSUME NEW p \in Pollers, BootstrapState(p) PROVE OrderInv'
  BY <1>13 DEF BootstrapState, PollFrame
<1>14. ASSUME NEW p \in Pollers, ProcessPage(p) PROVE OrderInv'
  BY <1>14 DEF ProcessPage, ProcessEmails, PollFrame
<1>15. ASSUME NEW p \in Pollers, SaveToken(p) PROVE OrderInv'
  BY <1>15 DEF SaveToken, PollFrame
<1>16. ASSUME NEW p \in Pollers, CannotCalculateChanges(p) PROVE OrderInv'
  BY <1>16 DEF CannotCalculateChanges, PollFrame
<1>17. ASSUME NEW p \in Pollers, PollFails(p) PROVE OrderInv'
  BY <1>17 DEF PollFails
<1>18. CASE CheckInitial
  BY <1>18 DEF CheckInitial, BackfillFrame
<1>19. CASE ReadPosition
  BY <1>19 DEF ReadPosition, BackfillFrame
<1>20. CASE QueryBatch
  BY <1>20 DEF QueryBatch, BackfillFrame, Page, InWindow, Live, Arrived
<1>21. CASE ProcessBatch
  BY <1>21 DEF ProcessBatch, ProcessEmails, BackfillFrame
<1>22. CASE SavePosition
  BY <1>22 DEF SavePosition, BackfillFrame
<1>23. CASE DropPosition
  BY <1>23 DEF DropPosition, BackfillFrame
<1>27. CASE DropAnchor
  BY <1>27 DEF DropAnchor, BackfillFrame
<1>24. CASE ReadFails
  BY <1>24 DEF ReadFails, BackfillFrame
<1>25. CASE BackfillFails
  BY <1>25 DEF BackfillFails, BackfillFrame
<1>26. CASE NewSession
  BY <1>26 DEF NewSession
<1> QED
  BY <1>1, <1>2, <1>3, <1>4, <1>5, <1>6, <1>7, <1>8, <1>9, <1>10, <1>11,
     <1>12, <1>13, <1>14, <1>15, <1>16, <1>17, <1>18, <1>19, <1>20, <1>21,
     <1>22, <1>23, <1>24, <1>25, <1>26, <1>27, <1>28
  DEF Next, MailServer, PollStep, BackfillStep

LEMMA LogNext ==
    ServerOK /\ StoreOK /\ PollsOK /\ LogInv /\ [Next]_vars => LogInv'
<1> SUFFICES ASSUME ServerOK, StoreOK, PollsOK, LogInv, [Next]_vars
             PROVE  LogInv'
  OBVIOUS
<1> USE SyncAssumption DEF ServerOK, StoreOK, PollsOK, LogInv, Pollers,
                           server, state, push, poll, walk, excuses
<1>1. CASE UNCHANGED vars
  BY <1>1 DEF vars
<1>2. ASSUME NEW e \in Mails, Arrive(e) PROVE LogInv'
  BY <1>2 DEF Arrive
<1>3. ASSUME NEW d \in Mails, Destroy(d) PROVE LogInv'
  BY <1>3 DEF Destroy
<1>4. CASE Tick
  BY <1>4 DEF Tick
<1>5. CASE Subscribe
  BY <1>5 DEF Subscribe
<1>6. CASE Push
  BY <1>6 DEF Push
<1>7. CASE StreamEnds
  BY <1>7 DEF StreamEnds
<1>8. CASE Heartbeat
  BY <1>8 DEF Heartbeat
<1>9. CASE DebouncedPoll
  BY <1>9 DEF DebouncedPoll, ReadToken
<1>10. ASSUME NEW p \in Commands, PollNow(p) PROVE LogInv'
  BY <1>10 DEF PollNow, ReadToken
<1>11. ASSUME NEW p \in Pollers, GetChanges(p) PROVE LogInv'
  BY <1>11 DEF GetChanges, PollFrame
<1>12. ASSUME NEW p \in Pollers, Bootstrap(p) PROVE LogInv'
  BY <1>12 DEF Bootstrap, ResolveCutoff, PollFrame
<1>28. ASSUME NEW p \in Pollers, RegisterPosition(p) PROVE LogInv'
  BY <1>28 DEF RegisterPosition, PollFrame
<1>13. ASSUME NEW p \in Pollers, BootstrapState(p) PROVE LogInv'
  BY <1>13 DEF BootstrapState, PollFrame
<1>14. ASSUME NEW p \in Pollers, ProcessPage(p) PROVE LogInv'
  BY <1>14 DEF ProcessPage, ProcessEmails, PollFrame
<1>15. ASSUME NEW p \in Pollers, SaveToken(p) PROVE LogInv'
  BY <1>15 DEF SaveToken, PollFrame
<1>16. ASSUME NEW p \in Pollers, CannotCalculateChanges(p) PROVE LogInv'
  BY <1>16 DEF CannotCalculateChanges, PollFrame
<1>17. ASSUME NEW p \in Pollers, PollFails(p) PROVE LogInv'
  BY <1>17 DEF PollFails
<1>18. CASE CheckInitial
  BY <1>18 DEF CheckInitial, BackfillFrame
<1>19. CASE ReadPosition
  BY <1>19 DEF ReadPosition, BackfillFrame
<1>20. CASE QueryBatch
  BY <1>20 DEF QueryBatch, ResolveCutoff, BackfillFrame
<1>21. CASE ProcessBatch
  BY <1>21 DEF ProcessBatch, ProcessEmails, BackfillFrame
<1>22. CASE SavePosition
  BY <1>22 DEF SavePosition, BackfillFrame
<1>23. CASE DropPosition
  BY <1>23 DEF DropPosition, BackfillFrame
<1>27. CASE DropAnchor
  BY <1>27 DEF DropAnchor, BackfillFrame
<1>24. CASE ReadFails
  BY <1>24 DEF ReadFails, BackfillFrame
<1>25. CASE BackfillFails
  BY <1>25 DEF BackfillFails, BackfillFrame
<1>26. CASE NewSession
  BY <1>26 DEF NewSession
<1> QED
  BY <1>1, <1>2, <1>3, <1>4, <1>5, <1>6, <1>7, <1>8, <1>9, <1>10, <1>11,
     <1>12, <1>13, <1>14, <1>15, <1>16, <1>17, <1>18, <1>19, <1>20, <1>21,
     <1>22, <1>23, <1>24, <1>25, <1>26, <1>27, <1>28
  DEF Next, MailServer, PollStep, BackfillStep

LEMMA AnchorNext ==
    ServerOK /\ StoreOK /\ PositionInv /\ AnchorInv /\ [Next]_vars
        => AnchorInv'
<1> SUFFICES ASSUME ServerOK, StoreOK, PositionInv, AnchorInv, [Next]_vars
             PROVE  AnchorInv'
  OBVIOUS
<1> USE SyncAssumption DEF ServerOK, StoreOK, AnchorInv, PositionInv, Started,
                           WalkedTo, Walking, server, state, push, poll, walk,
                           excuses
<1>1. CASE UNCHANGED vars
  BY <1>1 DEF vars
<1>2. ASSUME NEW e \in Mails, Arrive(e) PROVE AnchorInv'
  BY <1>2 DEF Arrive
<1>3. ASSUME NEW d \in Mails, Destroy(d) PROVE AnchorInv'
  BY <1>3 DEF Destroy
<1>4. CASE Tick
  BY <1>4 DEF Tick
<1>5. CASE Subscribe
  BY <1>5 DEF Subscribe
<1>6. CASE Push
  BY <1>6 DEF Push
<1>7. CASE StreamEnds
  BY <1>7 DEF StreamEnds
<1>8. CASE Heartbeat
  BY <1>8 DEF Heartbeat
<1>9. CASE DebouncedPoll
  BY <1>9 DEF DebouncedPoll, ReadToken
<1>10. ASSUME NEW p \in Commands, PollNow(p) PROVE AnchorInv'
  BY <1>10 DEF PollNow, ReadToken
<1>11. ASSUME NEW p \in Pollers, GetChanges(p) PROVE AnchorInv'
  BY <1>11 DEF GetChanges, PollFrame
<1>12. ASSUME NEW p \in Pollers, Bootstrap(p) PROVE AnchorInv'
  BY <1>12 DEF Bootstrap, ResolveCutoff, PollFrame
<1>28. ASSUME NEW p \in Pollers, RegisterPosition(p) PROVE AnchorInv'
  BY <1>28 DEF RegisterPosition, PollFrame
<1>13. ASSUME NEW p \in Pollers, BootstrapState(p) PROVE AnchorInv'
  BY <1>13 DEF BootstrapState, PollFrame
<1>14. ASSUME NEW p \in Pollers, ProcessPage(p) PROVE AnchorInv'
  BY <1>14 DEF ProcessPage, ProcessEmails, PollFrame
<1>15. ASSUME NEW p \in Pollers, SaveToken(p) PROVE AnchorInv'
  BY <1>15 DEF SaveToken, PollFrame
<1>16. ASSUME NEW p \in Pollers, CannotCalculateChanges(p) PROVE AnchorInv'
  BY <1>16 DEF CannotCalculateChanges, PollFrame
<1>17. ASSUME NEW p \in Pollers, PollFails(p) PROVE AnchorInv'
  BY <1>17 DEF PollFails
<1>18. CASE CheckInitial
  BY <1>18 DEF CheckInitial, BackfillFrame
<1>19. CASE ReadPosition
  BY <1>19 DEF ReadPosition, BackfillFrame
<1>20. CASE QueryBatch
  BY <1>20 DEF QueryBatch, ResolveCutoff, BackfillFrame
<1>21. CASE ProcessBatch
  BY <1>21 DEF ProcessBatch, ProcessEmails, BackfillFrame
<1>22. CASE SavePosition
  BY <1>22 DEF SavePosition, BackfillFrame
<1>23. CASE DropPosition
  BY <1>23 DEF DropPosition, BackfillFrame
<1>27. CASE DropAnchor
  BY <1>27 DEF DropAnchor, BackfillFrame
<1>24. CASE ReadFails
  BY <1>24 DEF ReadFails, BackfillFrame
<1>25. CASE BackfillFails
  BY <1>25 DEF BackfillFails, BackfillFrame
<1>26. CASE NewSession
  BY <1>26 DEF NewSession
<1> QED
  BY <1>1, <1>2, <1>3, <1>4, <1>5, <1>6, <1>7, <1>8, <1>9, <1>10, <1>11,
     <1>12, <1>13, <1>14, <1>15, <1>16, <1>17, <1>18, <1>19, <1>20, <1>21,
     <1>22, <1>23, <1>24, <1>25, <1>26, <1>27, <1>28
  DEF Next, MailServer, PollStep, BackfillStep

LEMMA PositionNext ==
    StoreOK /\ WalkOK /\ PositionInv /\ [Next]_vars => PositionInv'
<1> SUFFICES ASSUME StoreOK, WalkOK, PositionInv, [Next]_vars
             PROVE  PositionInv'
  OBVIOUS
<1> USE SyncAssumption DEF StoreOK, WalkOK, PositionInv, Walking, server,
                           state, push, poll, walk, excuses
<1>1. CASE UNCHANGED vars
  BY <1>1 DEF vars
<1>2. ASSUME NEW e \in Mails, Arrive(e) PROVE PositionInv'
  BY <1>2 DEF Arrive
<1>3. ASSUME NEW d \in Mails, Destroy(d) PROVE PositionInv'
  BY <1>3 DEF Destroy
<1>4. CASE Tick
  BY <1>4 DEF Tick
<1>5. CASE Subscribe
  BY <1>5 DEF Subscribe
<1>6. CASE Push
  BY <1>6 DEF Push
<1>7. CASE StreamEnds
  BY <1>7 DEF StreamEnds
<1>8. CASE Heartbeat
  BY <1>8 DEF Heartbeat
<1>9. CASE DebouncedPoll
  BY <1>9 DEF DebouncedPoll, ReadToken
<1>10. ASSUME NEW p \in Commands, PollNow(p) PROVE PositionInv'
  BY <1>10 DEF PollNow, ReadToken
<1>11. ASSUME NEW p \in Pollers, GetChanges(p) PROVE PositionInv'
  BY <1>11 DEF GetChanges, PollFrame
<1>12. ASSUME NEW p \in Pollers, Bootstrap(p) PROVE PositionInv'
  BY <1>12 DEF Bootstrap, ResolveCutoff, PollFrame
<1>28. ASSUME NEW p \in Pollers, RegisterPosition(p) PROVE PositionInv'
  BY <1>28 DEF RegisterPosition, PollFrame
<1>13. ASSUME NEW p \in Pollers, BootstrapState(p) PROVE PositionInv'
  BY <1>13 DEF BootstrapState, PollFrame
<1>14. ASSUME NEW p \in Pollers, ProcessPage(p) PROVE PositionInv'
  BY <1>14 DEF ProcessPage, ProcessEmails, PollFrame
<1>15. ASSUME NEW p \in Pollers, SaveToken(p) PROVE PositionInv'
  BY <1>15 DEF SaveToken, PollFrame
<1>16. ASSUME NEW p \in Pollers, CannotCalculateChanges(p) PROVE PositionInv'
  BY <1>16 DEF CannotCalculateChanges, PollFrame
<1>17. ASSUME NEW p \in Pollers, PollFails(p) PROVE PositionInv'
  BY <1>17 DEF PollFails
<1>18. CASE CheckInitial
  BY <1>18 DEF CheckInitial, BackfillFrame
<1>19. CASE ReadPosition
  BY <1>19 DEF ReadPosition, BackfillFrame
<1>20. CASE QueryBatch
  BY <1>20 DEF QueryBatch, ResolveCutoff, BackfillFrame
<1>21. CASE ProcessBatch
  BY <1>21 DEF ProcessBatch, ProcessEmails, BackfillFrame
<1>22. CASE SavePosition
  BY <1>22, MailCount DEF SavePosition, BackfillFrame
<1>23. CASE DropPosition
  BY <1>23 DEF DropPosition, BackfillFrame
<1>27. CASE DropAnchor
  BY <1>27 DEF DropAnchor, BackfillFrame
<1>24. CASE ReadFails
  BY <1>24 DEF ReadFails, BackfillFrame
<1>25. CASE BackfillFails
  BY <1>25 DEF BackfillFails, BackfillFrame
<1>26. CASE NewSession
  BY <1>26 DEF NewSession
<1> QED
  BY <1>1, <1>2, <1>3, <1>4, <1>5, <1>6, <1>7, <1>8, <1>9, <1>10, <1>11,
     <1>12, <1>13, <1>14, <1>15, <1>16, <1>17, <1>18, <1>19, <1>20, <1>21,
     <1>22, <1>23, <1>24, <1>25, <1>26, <1>27, <1>28
  DEF Next, MailServer, PollStep, BackfillStep

-----------------------------------------------------------------------------
(* Places and pages.                                                       *)

LEMMA PlaceType == \A e \in Mails : Place(e) \in Nat
<1>1. \A e \in Mails : {x \in Queue : x < e} \in SUBSET Mails
  BY DEF Queue
<1> QED
  BY <1>1, MailCount DEF Place

\* Place counts the mails to arrive too, Email/query cannot; no matter.
LEMMA RankIsPlace ==
    ASSUME OrderInv, NEW e \in Live PROVE Rank(e, Cutoff) = Place(e)
<1>1. \A x \in Mails : x < e => born[x] # 0
  BY DEF OrderInv, Live, Arrived
<1>2. {x \in InWindow(Cutoff) : x < e} = {x \in Queue : x < e}
  BY <1>1 DEF Queue, InWindow, Live, Arrived
<1> QED
  BY <1>2 DEF Rank, Place

\* A page holds what Email/query has from its position on, up to the limit;
\* the mails to arrive come after it.
PageOK(p, c) ==
    LET n == Cardinality(Page(p, c)) IN
    /\ n \in Nat /\ n <= SyncLimit
    /\ n = 0 <=> Page(p, c) = {}
    /\ \A e \in Live : e >= c /\ Place(e) >= p /\ e \notin Page(p, c)
           => n = SyncLimit /\ Place(e) >= p + SyncLimit
    /\ \A e \in Mails : born[e] = 0 /\ Place(e) >= p => Place(e) >= p + n

LEMMA PageFacts ==
    ASSUME OrderInv, NEW p \in Nat PROVE PageOK(p, Cutoff)
<1> DEFINE S == InWindow(Cutoff)
           n == Cardinality(Page(p, Cutoff))
           B == {x \in S : p <= Count(S, x) /\ Count(S, x) < p + SyncLimit}
<1>1. S \in SUBSET Mails /\ S \in SUBSET Nat /\ IsFiniteSet(S)
      /\ Cardinality(S) \in Nat
  <2>1. S \in SUBSET Mails
    BY DEF InWindow, Live, Arrived
  <2> QED
    BY <2>1, MailCount
<1>2. \A e : Rank(e, Cutoff) = Count(S, e)
  BY DEF Rank, Count
<1>3. \A e \in S : Count(S, e) \in Nat /\ Count(S, e) < Cardinality(S)
  <2> HIDE DEF S
  <2> QED
    BY <1>1, CountType
<1>4. \A e \in S : Place(e) = Count(S, e)
  BY <1>2, RankIsPlace DEF InWindow
<1>5. Page(p, Cutoff) = B
  BY <1>2, <1>3, SyncAssumption DEF Page
<1>6. n \in Nat /\ n <= SyncLimit /\ (n = 0 <=> B = {})
  <2>1. B \in SUBSET Mails /\ B \in SUBSET S
    BY <1>1
  <2>2. n \in Nat /\ (n = 0 <=> B = {})
    BY <1>5, <2>1, MailCount
  <2>3. Cardinality(B) <= (p + SyncLimit) - p
    <3> HIDE DEF S
    <3> QED
      BY <1>1, <2>1, CountSpan, SyncAssumption
  <2> QED
    BY <1>5, <2>2, <2>3, SyncAssumption
<1>7. ASSUME NEW e \in Live, e >= Cutoff, Place(e) >= p, e \notin B
      PROVE  n = SyncLimit /\ Place(e) >= p + SyncLimit
  <2>1. e \in S
    BY <1>7 DEF InWindow
  <2>2. Count(S, e) >= p + SyncLimit
    BY <1>3, <1>4, <1>7, <2>1, SyncAssumption
  <2>3. Cardinality(B) = (p + SyncLimit) - p
    <3> HIDE DEF S
    <3> QED
      BY <1>1, <2>1, <2>2, CountFull, SyncAssumption
  <2> QED
    BY <1>4, <1>5, <2>1, <2>2, <2>3, SyncAssumption
<1>8. ASSUME NEW e \in Mails, born[e] = 0, Place(e) >= p
      PROVE  Place(e) >= p + n
  <2>1. \A x \in S : x < e
    BY <1>8 DEF InWindow, Live, Arrived, OrderInv, Mails
  <2>2. S \in SUBSET {x \in Queue : x < e}
    BY <2>1 DEF InWindow, Live, Arrived, Queue
  <2>3. Cardinality(S) <= Place(e)
    <3>1. IsFiniteSet({x \in Queue : x < e})
      BY MailCount DEF Queue
    <3> HIDE DEF S
    <3> QED
      BY <2>2, <3>1, FS_Subset DEF Place
  <2>4. CASE Cardinality(S) < p
    <3>1. B = {}
      BY <1>1, <1>3, <2>4
    <3> QED
      BY <1>6, <1>8, <3>1
  <2>5. CASE Cardinality(S) >= p
    <3>1. \A x \in B : p <= Count(S, x) /\ Count(S, x) < Cardinality(S)
      BY <1>3
    <3>2. Cardinality(B) <= Cardinality(S) - p
      <4> HIDE DEF S
      <4> QED
        BY <1>1, <2>5, <3>1, CountSpan
    <3>3. Place(e) \in Nat
      BY PlaceType
    <3> QED
      BY <1>1, <1>5, <1>6, <2>3, <3>2, <3>3
  <2> QED
    BY <1>1, <2>4, <2>5
<1> QED
  BY <1>5, <1>6, <1>7, <1>8 DEF PageOK

-----------------------------------------------------------------------------
(* What a step does to the places.                                         *)

\* A mail that is still owed after a step was owed, or to arrive, before it;
\* its place goes down at most, and never below where the walk has come to.
Steady ==
    \A e \in Mails \ Closed' :
        died'[e] = 0 =>
            /\ e \notin Closed /\ died[e] = 0
            /\ (Started' \/ Walking') /\ e >= Cutoff' =>
                   /\ e >= Cutoff
                   /\ Place(e)' \in Nat /\ Place(e)' <= Place(e)
                   /\ \A n \in WalkedTo : Place(e) >= n => Place(e)' >= n

\* A step that moves neither mails nor window.
LEMMA PlaceKept ==
    ASSUME UNCHANGED <<born, died, Cutoff>>
    PROVE  \A e \in Mails : Place(e)' = Place(e)
<1>1. Queue' = Queue
  BY DEF Queue, Live, Arrived
<1> QED
  BY <1>1 DEF Place

LEMMA SteadyKept ==
    ASSUME UNCHANGED <<died, Cutoff>>, Closed \subseteq Closed',
           \A e \in Mails : Place(e)' = Place(e)
    PROVE  Steady
<1>1. \A e \in Mails : Place(e) \in Nat
  BY PlaceType
<1> QED
  BY <1>1 DEF Steady

\* The window is the anchored one, or everything is excused.
LEMMA ResolveKeeps ==
    ASSUME ServerOK, StoreOK, AnchorInv, UNCHANGED floor, NEW c \in 0..floor,
           NEW n \in 0..1, ResolveCutoff(c, n)
    PROVE  \/ outside' = Mails
           \/ /\ c = Cutoff /\ Cutoff' = Cutoff /\ outside \subseteq outside'
              /\ \A e \in Mails : e < c => e \in outside'
  BY SyncAssumption
  DEF ServerOK, StoreOK, AnchorInv, ResolveCutoff, Cutoff, Mails

LEMMA SteadyNext ==
      /\ ServerOK /\ StoreOK /\ WalkOK /\ OrderInv /\ AnchorInv /\ PositionInv
      /\ [Next]_vars
    => Steady
<1> SUFFICES ASSUME ServerOK, StoreOK, WalkOK, OrderInv, AnchorInv,
                    PositionInv, [Next]_vars
             PROVE  Steady
  OBVIOUS
<1> USE DEF server, state, push, poll, walk, excuses
<1>1. CASE UNCHANGED vars
  <2>1. UNCHANGED <<born, died, Cutoff>> /\ Closed \subseteq Closed'
    BY <1>1 DEF vars, Cutoff, Closed, Excused
  <2> QED
    BY <2>1, PlaceKept, SteadyKept

<1>2. ASSUME NEW e \in Mails, Arrive(e) PROVE Steady
  <2>1. UNCHANGED <<died, Cutoff>> /\ Closed \subseteq Closed'
    BY <1>2 DEF Arrive, Cutoff, Closed, Excused
  <2>2. Queue' = Queue
    <3>1. \A x \in Mails : x \in Live' \/ born'[x] = 0
                             <=> x \in Live \/ born[x] = 0
      BY <1>2 DEF Arrive, Live, Arrived, ServerOK, OrderInv
    <3> QED
      BY <2>1, <3>1 DEF Queue
  <2>3. \A x \in Mails : Place(x)' = Place(x)
    BY <2>2 DEF Place
  <2> QED
    BY <2>1, <2>3, SteadyKept
<1>3. ASSUME NEW d \in Mails, Destroy(d) PROVE Steady
  <2>1. UNCHANGED <<born, Cutoff>> /\ Closed \subseteq Closed'
    BY <1>3 DEF Destroy, Cutoff, Closed, Excused
  <2>2. d \in Live /\ MovedUp(d) \subseteq Closed'
    BY <1>3 DEF Destroy, Closed, Excused
  <2>3. died'[d] # 0 /\ \A x \in Mails \ {d} : died'[x] = died[x]
    BY <1>3 DEF Destroy, ServerOK
  <2>4. Queue' = Queue \ {d}
    <3>1. Live' = Live \ {d}
      <4>1. born' = born
        BY <2>1
      <4> QED
        BY <2>3, <4>1 DEF Live, Arrived
    <3>2. born[d] # 0
      BY <2>2 DEF Live, Arrived
    <3> QED
      BY <2>1, <3>1, <3>2 DEF Queue
  <2>5. ASSUME NEW e \in Mails \ Closed', died'[e] = 0, e >= Cutoff
        PROVE  /\ Place(e)' \in Nat /\ Place(e)' <= Place(e)
               /\ \A n \in WalkedTo : Place(e) >= n => Place(e)' >= n
    <3> DEFINE B == {x \in Queue : x < e}
    <3>1. IsFiniteSet(B) /\ Place(e) = Cardinality(B)
          /\ Cardinality(B) \in Nat
      BY MailCount DEF Queue, Place
    <3>2. Place(e)' = Cardinality(B \ {d})
      <4>1. {x \in Queue' : x < e} = B \ {d}
        BY <2>4
      <4> QED
        BY <4>1 DEF Place
    <3>3. IsFiniteSet(B \ {d})
          /\ Cardinality(B \ {d}) = IF d \in B THEN Cardinality(B) - 1
                                    ELSE Cardinality(B)
      BY <3>1, FS_RemoveElement
    <3>4. Cardinality(B \ {d}) \in Nat
      BY <3>3, FS_CardinalityType
    <3>5. WalkedTo \subseteq Nat
      BY MailCount, SyncAssumption DEF WalkedTo, StoreOK, WalkOK
    <3>6. d \in B => Place(e) \notin WalkedTo
      <4>1. died[e] = 0
        BY <2>3, <2>5
      <4>2. e \in Queue
        BY <2>5, <4>1 DEF Queue, Live, Arrived
      <4>3. e \notin MovedUp(d)
        BY <2>2
      <4>4. d \in B => d >= Cutoff /\ d < e
        BY DEF Queue
      <4> QED
        BY <4>2, <4>3, <4>4 DEF MovedUp
    <3> HIDE DEF B
    <3>7. CASE d \in B
      BY <3>1, <3>2, <3>3, <3>4, <3>5, <3>6, <3>7
    <3>8. CASE d \notin B
      BY <3>1, <3>2, <3>3, <3>8
    <3> QED
      BY <3>7, <3>8
  <2>6. \A e \in Mails : died'[e] = 0 => died[e] = 0
    BY <2>3
  <2> QED
    BY <2>1, <2>5, <2>6 DEF Steady
<1>4. CASE Tick
  <2>1. UNCHANGED <<born, died, backfill_position, backfill_cutoff, pc, bpc>>
        /\ UNCHANGED <<Closed, outside>>
    BY <1>4 DEF Tick, Closed, Excused
  <2>2. CASE backfill_cutoff # NoToken
    <3>1. UNCHANGED Cutoff
      BY <2>1, <2>2 DEF Cutoff
    <3> QED
      BY <2>1, <3>1, PlaceKept, SteadyKept
  <2>3. CASE outside = Mails
    BY <2>1, <2>3 DEF Steady, Closed, Excused
  <2>4. CASE ~Started
    BY <2>1, <2>4 DEF Steady, Started, Walking, PositionInv
  <2> QED
    BY <1>4, <2>2, <2>3, <2>4 DEF Tick, AnchorInv
<1>5. CASE Subscribe
  <2>1. UNCHANGED <<born, died, Cutoff>> /\ Closed \subseteq Closed'
    BY <1>5
    DEF Subscribe, Cutoff, Closed, Excused
  <2> QED
    BY <2>1, PlaceKept, SteadyKept
<1>6. CASE Push
  <2>1. UNCHANGED <<born, died, Cutoff>> /\ Closed \subseteq Closed'
    BY <1>6
    DEF Push, Cutoff, Closed, Excused
  <2> QED
    BY <2>1, PlaceKept, SteadyKept
<1>7. CASE StreamEnds
  <2>1. UNCHANGED <<born, died, Cutoff>> /\ Closed \subseteq Closed'
    BY <1>7
    DEF StreamEnds, Cutoff, Closed, Excused
  <2> QED
    BY <2>1, PlaceKept, SteadyKept
<1>8. CASE Heartbeat
  <2>1. UNCHANGED <<born, died, Cutoff>> /\ Closed \subseteq Closed'
    BY <1>8
    DEF Heartbeat, Cutoff, Closed, Excused
  <2> QED
    BY <2>1, PlaceKept, SteadyKept
<1>9. CASE DebouncedPoll
  <2>1. UNCHANGED <<born, died, Cutoff>> /\ Closed \subseteq Closed'
    BY <1>9
    DEF DebouncedPoll, ReadToken, Cutoff, Closed, Excused
  <2> QED
    BY <2>1, PlaceKept, SteadyKept
<1>10. ASSUME NEW p \in Commands, PollNow(p) PROVE Steady
  <2>1. UNCHANGED <<born, died, Cutoff>> /\ Closed \subseteq Closed'
    BY <1>10
    DEF PollNow, ReadToken, Cutoff, Closed, Excused
  <2> QED
    BY <2>1, PlaceKept, SteadyKept
<1>11. ASSUME NEW p \in Pollers, GetChanges(p) PROVE Steady
  <2>1. UNCHANGED <<born, died, Cutoff>> /\ Closed \subseteq Closed'
    BY <1>11
    DEF GetChanges, PollFrame, Cutoff, Closed, Excused
  <2> QED
    BY <2>1, PlaceKept, SteadyKept
<1>12. ASSUME NEW p \in Pollers, Bootstrap(p) PROVE Steady
  <2>1. PICK c \in 0..floor, m \in 0..1 : ResolveCutoff(c, m)
    BY <1>12 DEF Bootstrap
  <2>2. UNCHANGED <<born, died, floor, bridged, shifted, gap>>
        /\ failed \subseteq failed'
    BY <1>12 DEF Bootstrap, PollFrame
  <2>3. CASE outside' = Mails
    BY <2>3 DEF Steady, Closed, Excused
  <2>4. CASE UNCHANGED Cutoff /\ outside \subseteq outside'
    <3>1. Closed \subseteq Closed'
      BY <2>2, <2>4 DEF Closed, Excused
    <3> QED
      BY <2>2, <2>4, <3>1, PlaceKept, SteadyKept
  <2> QED
    BY <2>1, <2>2, <2>3, <2>4, ResolveKeeps
<1>28. ASSUME NEW p \in Pollers, RegisterPosition(p) PROVE Steady
  <2>1. UNCHANGED <<born, died, Cutoff>> /\ Closed \subseteq Closed'
    BY <1>28
    DEF RegisterPosition, PollFrame, Cutoff, Closed, Excused
  <2> QED
    BY <2>1, PlaceKept, SteadyKept
<1>13. ASSUME NEW p \in Pollers, BootstrapState(p) PROVE Steady
  <2>1. UNCHANGED <<born, died, Cutoff>> /\ Closed \subseteq Closed'
    BY <1>13
    DEF BootstrapState, PollFrame, Cutoff, Closed, Excused
  <2> QED
    BY <2>1, PlaceKept, SteadyKept
<1>14. ASSUME NEW p \in Pollers, ProcessPage(p) PROVE Steady
  <2>1. UNCHANGED <<born, died, Cutoff>> /\ Closed \subseteq Closed'
    BY <1>14
    DEF ProcessPage, ProcessEmails, PollFrame, Cutoff, Closed, Excused
  <2> QED
    BY <2>1, PlaceKept, SteadyKept
<1>15. ASSUME NEW p \in Pollers, SaveToken(p) PROVE Steady
  <2>1. UNCHANGED <<born, died, Cutoff>> /\ Closed \subseteq Closed'
    BY <1>15
    DEF SaveToken, PollFrame, Cutoff, Closed, Excused
  <2> QED
    BY <2>1, PlaceKept, SteadyKept
<1>16. ASSUME NEW p \in Pollers, CannotCalculateChanges(p) PROVE Steady
  <2>1. UNCHANGED <<born, died, Cutoff>> /\ Closed \subseteq Closed'
    BY <1>16
    DEF CannotCalculateChanges, PollFrame, Cutoff, Closed, Excused
  <2> QED
    BY <2>1, PlaceKept, SteadyKept
<1>17. ASSUME NEW p \in Pollers, PollFails(p) PROVE Steady
  <2>1. UNCHANGED <<born, died, Cutoff>> /\ Closed \subseteq Closed'
    BY <1>17
    DEF PollFails, Cutoff, Closed, Excused
  <2> QED
    BY <2>1, PlaceKept, SteadyKept
<1>18. CASE CheckInitial
  <2>1. UNCHANGED <<born, died, Cutoff>> /\ Closed \subseteq Closed'
    BY <1>18
    DEF CheckInitial, BackfillFrame, Cutoff, Closed, Excused
  <2> QED
    BY <2>1, PlaceKept, SteadyKept
<1>19. CASE ReadPosition
  <2>1. UNCHANGED <<born, died, Cutoff>> /\ Closed \subseteq Closed'
    BY <1>19
    DEF ReadPosition, BackfillFrame, Cutoff, Closed, Excused
  <2> QED
    BY <2>1, PlaceKept, SteadyKept
<1>20. CASE QueryBatch
  <2>1. PICK c \in 0..floor, m \in 0..1 : ResolveCutoff(c, m)
    BY <1>20 DEF QueryBatch
  <2>2. UNCHANGED <<born, died, floor, bridged, shifted, gap>>
        /\ failed \subseteq failed'
    BY <1>20 DEF QueryBatch, BackfillFrame
  <2>3. CASE outside' = Mails
    BY <2>3 DEF Steady, Closed, Excused
  <2>4. CASE UNCHANGED Cutoff /\ outside \subseteq outside'
    <3>1. Closed \subseteq Closed'
      BY <2>2, <2>4 DEF Closed, Excused
    <3> QED
      BY <2>2, <2>4, <3>1, PlaceKept, SteadyKept
  <2> QED
    BY <2>1, <2>2, <2>3, <2>4, ResolveKeeps
<1>21. CASE ProcessBatch
  <2>1. UNCHANGED <<born, died, Cutoff>> /\ Closed \subseteq Closed'
    BY <1>21
    DEF ProcessBatch, ProcessEmails, BackfillFrame, Cutoff, Closed, Excused
  <2> QED
    BY <2>1, PlaceKept, SteadyKept
<1>22. CASE SavePosition
  <2>1. UNCHANGED <<born, died, Cutoff>> /\ Closed \subseteq Closed'
    BY <1>22
    DEF SavePosition, BackfillFrame, Cutoff, Closed, Excused
  <2> QED
    BY <2>1, PlaceKept, SteadyKept
<1>23. CASE DropPosition
  <2>1. UNCHANGED <<born, died, floor, bridged, failed, shifted, gap, outside,
                    backfill_cutoff>>
        /\ bpc' = "anchor"
    BY <1>23 DEF DropPosition, BackfillFrame
  <2>2. Closed' = Closed /\ UNCHANGED Cutoff
    BY <2>1 DEF Closed, Excused, Cutoff
  <2> QED
    BY <2>1, <2>2, PlaceKept, SteadyKept
<1>27. CASE DropAnchor
  <2>1. UNCHANGED <<born, died, floor, bridged, failed, shifted, gap,
                    backfill_position, pc>>
        /\ bpc' = "done"
    BY <1>27 DEF DropAnchor, BackfillFrame
  <2>2. CASE outside' = Mails
    BY <2>2 DEF Steady, Closed, Excused
  <2>3. CASE outside' = outside /\ ~Started
    <3>1. Closed' = Closed /\ ~Started'
      BY <2>1, <2>3 DEF Closed, Excused, Started
    <3> QED
      BY <2>1, <2>3, <3>1 DEF Steady, Walking
  <2>4. CASE outside' = outside /\ UNCHANGED backfill_cutoff
    <3>1. Closed' = Closed /\ UNCHANGED Cutoff
      BY <2>1, <2>4 DEF Closed, Excused, Cutoff
    <3> QED
      BY <2>1, <3>1, PlaceKept, SteadyKept
  <2> QED
    BY <1>27, <2>1, <2>2, <2>3, <2>4
    DEF DropAnchor, AnchorInv, WalkedTo, Started
<1>24. CASE ReadFails
  <2>1. UNCHANGED <<born, died, Cutoff>> /\ Closed \subseteq Closed'
    BY <1>24
    DEF ReadFails, BackfillFrame, Cutoff, Closed, Excused
  <2> QED
    BY <2>1, PlaceKept, SteadyKept
<1>25. CASE BackfillFails
  <2>1. UNCHANGED <<born, died, Cutoff>> /\ Closed \subseteq Closed'
    BY <1>25
    DEF BackfillFails, BackfillFrame, Cutoff, Closed, Excused
  <2> QED
    BY <2>1, PlaceKept, SteadyKept
<1>26. CASE NewSession
  <2>1. UNCHANGED <<born, died, Cutoff>> /\ Closed \subseteq Closed'
    BY <1>26
    DEF NewSession, Cutoff, Closed, Excused
  <2> QED
    BY <2>1, PlaceKept, SteadyKept
<1> QED
  BY <1>1, <1>2, <1>3, <1>4, <1>5, <1>6, <1>7, <1>8, <1>9, <1>10, <1>11,
     <1>12, <1>13, <1>14, <1>15, <1>16, <1>17, <1>18, <1>19, <1>20, <1>21,
     <1>22, <1>23, <1>24, <1>25, <1>26, <1>27, <1>28
  DEF Next, MailServer, PollStep, BackfillStep

-----------------------------------------------------------------------------
(* The walk.                                                               *)

Counted == Cardinality(batch) \in Nat /\ \A e \in Mails : Place(e) \in Nat

LEMMA CountedNow == WalkOK => Counted
  BY MailCount, PlaceType DEF WalkOK, Counted

\* The mails that are owed while there is a position are inside the window.
WindowInv ==
    Started => \A e \in Mails \ Closed : e >= Cutoff

LEMMA WindowNow == ServerOK /\ StoreOK /\ AnchorInv => WindowInv
  BY SyncAssumption
  DEF ServerOK, StoreOK, AnchorInv, WindowInv, Cutoff, Closed, Excused, Mails

LEMMA WalkNext ==
      /\ ServerOK /\ StoreOK /\ WalkOK /\ OrderInv /\ LogInv /\ AnchorInv
      /\ PositionInv /\ Counted /\ Steady /\ WalkInv /\ [Next]_vars
    => WalkInv'
<1> SUFFICES ASSUME ServerOK, StoreOK, WalkOK, OrderInv, LogInv, AnchorInv,
                    PositionInv, Counted, Steady, WalkInv, [Next]_vars
             PROVE  WalkInv'
  OBVIOUS
<1> USE SyncAssumption DEF StoreOK, WalkOK, PositionInv, Counted, Steady,
                           WalkedTo, Started, Walking, WalkInv, Passed, server,
                           state, push, poll, walk, excuses
<1>1. CASE UNCHANGED vars
  BY <1>1 DEF vars
<1>2. ASSUME NEW e \in Mails, Arrive(e) PROVE WalkInv'
  BY <1>2 DEF Arrive
<1>3. ASSUME NEW d \in Mails, Destroy(d) PROVE WalkInv'
  BY <1>3 DEF Destroy
<1>4. CASE Tick
  BY <1>4 DEF Tick
<1>5. CASE Subscribe
  BY <1>5 DEF Subscribe
<1>6. CASE Push
  BY <1>6 DEF Push
<1>7. CASE StreamEnds
  BY <1>7 DEF StreamEnds
<1>8. CASE Heartbeat
  BY <1>8 DEF Heartbeat
<1>9. CASE DebouncedPoll
  BY <1>9 DEF DebouncedPoll, ReadToken
<1>10. ASSUME NEW p \in Commands, PollNow(p) PROVE WalkInv'
  BY <1>10 DEF PollNow, ReadToken
<1>11. ASSUME NEW p \in Pollers, GetChanges(p) PROVE WalkInv'
  BY <1>11 DEF GetChanges, PollFrame
<1>12. ASSUME NEW p \in Pollers, Bootstrap(p) PROVE WalkInv'
  BY <1>12 DEF Bootstrap, ResolveCutoff, PollFrame
<1>28. ASSUME NEW p \in Pollers, RegisterPosition(p) PROVE WalkInv'
  BY <1>28 DEF RegisterPosition, PollFrame
<1>13. ASSUME NEW p \in Pollers, BootstrapState(p) PROVE WalkInv'
  BY <1>13 DEF BootstrapState, PollFrame
<1>14. ASSUME NEW p \in Pollers, ProcessPage(p) PROVE WalkInv'
  BY <1>14 DEF ProcessPage, ProcessEmails, PollFrame
<1>15. ASSUME NEW p \in Pollers, SaveToken(p) PROVE WalkInv'
  BY <1>15 DEF SaveToken, PollFrame
<1>16. ASSUME NEW p \in Pollers, CannotCalculateChanges(p) PROVE WalkInv'
  BY <1>16 DEF CannotCalculateChanges, PollFrame
<1>17. ASSUME NEW p \in Pollers, PollFails(p) PROVE WalkInv'
  BY <1>17 DEF PollFails
<1>18. CASE CheckInitial
  BY <1>18 DEF CheckInitial, BackfillFrame
<1>19. CASE ReadPosition
  BY <1>19 DEF ReadPosition, BackfillFrame
<1>20. CASE QueryBatch
  <2>1. PICK c \in 0..floor, n \in 0..1 :
               /\ ResolveCutoff(c, n)
               /\ batch' = Page(pos, c)
               /\ bpc' = IF Page(pos, c) = {} THEN "finish" ELSE "process"
    BY <1>20 DEF QueryBatch
  <2>2. UNCHANGED <<born, died, floor, backfill_position, pos>>
        /\ bpc = "query"
    BY <1>20 DEF QueryBatch, BackfillFrame
  <2>3. CASE outside' = Mails
    BY <2>3 DEF Closed, Excused, Open
  <2>4. CASE c = Cutoff /\ UNCHANGED Cutoff
    <3>1. PageOK(pos, Cutoff)
      BY PageFacts DEF WalkOK
    <3>2. UNCHANGED <<Live, Queue>>
      BY <2>2, <2>4 DEF Live, Arrived, Queue
    <3>3. \A e \in Mails : Place(e)' = Place(e)
      BY <3>2 DEF Place
    <3> QED
      BY <2>1, <2>2, <2>4, <3>1, <3>2, <3>3 DEF PageOK, Live, Arrived
  <2> QED
    BY <2>1, <2>2, <2>3, <2>4, ResolveKeeps
<1>21. CASE ProcessBatch
  BY <1>21 DEF ProcessBatch, ProcessEmails, BackfillFrame, LogInv, OrderInv,
             Live, Arrived, Closed, Excused
<1>22. CASE SavePosition
  BY <1>22 DEF SavePosition, BackfillFrame
<1>23. CASE DropPosition
  BY <1>23 DEF DropPosition, BackfillFrame
<1>27. CASE DropAnchor
  BY <1>27 DEF DropAnchor, BackfillFrame
<1>24. CASE ReadFails
  BY <1>24 DEF ReadFails, BackfillFrame
<1>25. CASE BackfillFails
  BY <1>25 DEF BackfillFails, BackfillFrame
<1>26. CASE NewSession
  BY <1>26 DEF NewSession
<1> QED
  BY <1>1, <1>2, <1>3, <1>4, <1>5, <1>6, <1>7, <1>8, <1>9, <1>10, <1>11,
     <1>12, <1>13, <1>14, <1>15, <1>16, <1>17, <1>18, <1>19, <1>20, <1>21,
     <1>22, <1>23, <1>24, <1>25, <1>26, <1>27, <1>28
  DEF Next, MailServer, PollStep, BackfillStep

LEMMA LastNext ==
      /\ ServerOK /\ StoreOK /\ WalkOK /\ OrderInv /\ LogInv /\ AnchorInv
      /\ PositionInv /\ Counted /\ Steady /\ WalkInv /\ LastInv /\ [Next]_vars
    => LastInv'
<1> SUFFICES ASSUME ServerOK, StoreOK, WalkOK, OrderInv, LogInv, AnchorInv,
                    PositionInv, Counted, Steady, WalkInv, LastInv,
                    [Next]_vars
             PROVE  LastInv'
  OBVIOUS
<1> USE SyncAssumption DEF StoreOK, WalkOK, PositionInv, Counted, Steady,
                           Started, Walking, WalkInv, Passed, LastInv, Last,
                           Open, Live, Arrived, server, state, push, poll,
                           walk, excuses
<1>1. CASE UNCHANGED vars
  BY <1>1 DEF vars
<1>2. ASSUME NEW e \in Mails, Arrive(e) PROVE LastInv'
  BY <1>2 DEF Arrive, Closing, ServerOK, Closed, Excused
<1>3. ASSUME NEW d \in Mails, Destroy(d) PROVE LastInv'
  BY <1>3 DEF Destroy
<1>4. CASE Tick
  BY <1>4 DEF Tick
<1>5. CASE Subscribe
  BY <1>5 DEF Subscribe
<1>6. CASE Push
  BY <1>6 DEF Push
<1>7. CASE StreamEnds
  BY <1>7 DEF StreamEnds
<1>8. CASE Heartbeat
  BY <1>8 DEF Heartbeat
<1>9. CASE DebouncedPoll
  BY <1>9 DEF DebouncedPoll, ReadToken
<1>10. ASSUME NEW p \in Commands, PollNow(p) PROVE LastInv'
  BY <1>10 DEF PollNow, ReadToken
<1>11. ASSUME NEW p \in Pollers, GetChanges(p) PROVE LastInv'
  BY <1>11 DEF GetChanges, PollFrame
<1>12. ASSUME NEW p \in Pollers, Bootstrap(p) PROVE LastInv'
  BY <1>12 DEF Bootstrap, ResolveCutoff, PollFrame
<1>28. ASSUME NEW p \in Pollers, RegisterPosition(p) PROVE LastInv'
  BY <1>28 DEF RegisterPosition, PollFrame
<1>13. ASSUME NEW p \in Pollers, BootstrapState(p) PROVE LastInv'
  BY <1>13 DEF BootstrapState, PollFrame
<1>14. ASSUME NEW p \in Pollers, ProcessPage(p) PROVE LastInv'
  BY <1>14 DEF ProcessPage, ProcessEmails, PollFrame
<1>15. ASSUME NEW p \in Pollers, SaveToken(p) PROVE LastInv'
  BY <1>15 DEF SaveToken, PollFrame
<1>16. ASSUME NEW p \in Pollers, CannotCalculateChanges(p) PROVE LastInv'
  BY <1>16 DEF CannotCalculateChanges, PollFrame
<1>17. ASSUME NEW p \in Pollers, PollFails(p) PROVE LastInv'
  BY <1>17 DEF PollFails
<1>18. CASE CheckInitial
  BY <1>18 DEF CheckInitial, BackfillFrame
<1>19. CASE ReadPosition
  BY <1>19 DEF ReadPosition, BackfillFrame
<1>20. CASE QueryBatch
  <2>1. PICK c \in 0..floor, n \in 0..1 :
               /\ ResolveCutoff(c, n)
               /\ batch' = Page(pos, c)
               /\ bpc' = IF Page(pos, c) = {} THEN "finish" ELSE "process"
    BY <1>20 DEF QueryBatch
  <2>2. UNCHANGED <<born, died, floor, backfill_position, pos>>
        /\ bpc = "query"
    BY <1>20 DEF QueryBatch, BackfillFrame
  <2>3. CASE outside' = Mails
    BY <2>3 DEF Closed, Excused, Open
  <2>4. CASE c = Cutoff /\ UNCHANGED Cutoff
    <3>1. PageOK(pos, Cutoff)
      BY PageFacts DEF WalkOK
    <3>2. UNCHANGED <<Live, Queue>>
      BY <2>2, <2>4 DEF Live, Arrived, Queue
    <3>3. \A e \in Mails : Place(e)' = Place(e)
      BY <3>2 DEF Place
    <3> QED
      BY <2>1, <2>2, <2>4, <3>1, <3>2, <3>3 DEF PageOK, Live, Arrived
  <2> QED
    BY <2>1, <2>2, <2>3, <2>4, ResolveKeeps
<1>21. CASE ProcessBatch
  BY <1>21 DEF ProcessBatch, ProcessEmails, BackfillFrame, LogInv, OrderInv,
             Live, Arrived, Closed, Excused
<1>22. CASE SavePosition
  BY <1>22 DEF SavePosition, BackfillFrame
<1>23. CASE DropPosition
  BY <1>23 DEF DropPosition, BackfillFrame
<1>27. CASE DropAnchor
  BY <1>27 DEF DropAnchor, BackfillFrame
<1>24. CASE ReadFails
  BY <1>24 DEF ReadFails, BackfillFrame
<1>25. CASE BackfillFails
  BY <1>25 DEF BackfillFails, BackfillFrame
<1>26. CASE NewSession
  BY <1>26 DEF NewSession
<1> QED
  BY <1>1, <1>2, <1>3, <1>4, <1>5, <1>6, <1>7, <1>8, <1>9, <1>10, <1>11,
     <1>12, <1>13, <1>14, <1>15, <1>16, <1>17, <1>18, <1>19, <1>20, <1>21,
     <1>22, <1>23, <1>24, <1>25, <1>26, <1>27, <1>28
  DEF Next, MailServer, PollStep, BackfillStep

LEMMA RegisterNext ==
      /\ ServerOK /\ StoreOK /\ PollsOK /\ OrderInv /\ AnchorInv /\ Steady
      /\ RegisterInv /\ [Next]_vars
    => RegisterInv'
<1> SUFFICES ASSUME ServerOK, StoreOK, PollsOK, OrderInv, AnchorInv, Steady,
                    RegisterInv, [Next]_vars,
                    NEW q \in Pollers, NEW e \in Mails \ Closed',
                    pc'[q] = "register", died'[e] = 0, e >= Cutoff'
             PROVE  e \in ids'[q] \/ Place(e)' >= SyncLimit
  BY DEF RegisterInv
<1> USE SyncAssumption DEF PollsOK, server, state, push, poll, walk, excuses
<1>1. /\ e \in Mails \ Closed /\ died[e] = 0 /\ e >= Cutoff
      /\ \A n \in WalkedTo : Place(e) >= n => Place(e)' >= n
  BY DEF Steady, Started
<1>2. SUFFICES ASSUME pc[q] # "register" \/ ids'[q] # ids[q]
               PROVE  e \in ids'[q] \/ Place(e)' >= SyncLimit
  BY <1>1 DEF RegisterInv, WalkedTo
<1>3. CASE Bootstrap(q)
  <2>1. PICK c \in 0..floor, m \in 0..1 :
               /\ ResolveCutoff(c, m)
               /\ ids' = [ids EXCEPT ![q] = Page(0, c)]
               /\ pc' = [pc EXCEPT ![q] =
                      IF Cardinality(Page(0, c)) = SyncLimit THEN "register"
                      ELSE "state"]
    BY <1>3 DEF Bootstrap
  <2>2. UNCHANGED <<born, died, floor>>
    BY <1>3 DEF Bootstrap, PollFrame
  <2>3. outside' # Mails
    BY DEF Closed, Excused
  <2>4. c = Cutoff /\ UNCHANGED Cutoff
    BY <2>1, <2>2, <2>3, ResolveKeeps
  <2>5. Place(e)' = Place(e) /\ Place(e) \in Nat
    BY <2>2, <2>4, PlaceKept, PlaceType
  <2>6. ids'[q] = Page(0, c) /\ Cardinality(Page(0, c)) = SyncLimit
    BY <2>1
  <2>7. PageOK(0, c)
    BY <2>4, PageFacts
  <2>8. born[e] = 0 \/ e \in Live
    BY <1>1 DEF Live, Arrived
  <2> QED
    BY <1>1, <2>4, <2>5, <2>6, <2>7, <2>8 DEF PageOK
<1>4. ASSUME NEW p \in Pollers,
             \/ GetChanges(p) \/ RegisterPosition(p) \/ BootstrapState(p)
             \/ ProcessPage(p) \/ SaveToken(p) \/ CannotCalculateChanges(p)
             \/ PollFails(p) \/ (Bootstrap(p) /\ p # q)
      PROVE  FALSE
  BY <1>2, <1>4 DEF GetChanges, RegisterPosition, BootstrapState,
             ProcessPage, SaveToken, CannotCalculateChanges, PollFails,
             Bootstrap
<1>5. ~(DebouncedPoll \/ \E p \in Commands : PollNow(p))
  BY <1>2 DEF DebouncedPoll, PollNow, ReadToken
<1>6. ~(MailServer \/ Subscribe \/ Push \/ StreamEnds \/ Heartbeat)
  BY <1>2 DEF MailServer, Arrive, Destroy, Tick, Subscribe, Push, StreamEnds,
              Heartbeat
<1>7. ~(BackfillStep \/ ReadFails \/ BackfillFails \/ NewSession)
  BY <1>2 DEF BackfillStep, BackfillFrame, CheckInitial, ReadPosition,
              QueryBatch, ProcessBatch, SavePosition, DropPosition,
              DropAnchor, ReadFails, BackfillFails, NewSession
<1>8. ~UNCHANGED vars
  BY <1>2 DEF vars
<1> QED
  BY <1>3, <1>4, <1>5, <1>6, <1>7, <1>8 DEF Next, PollStep

-----------------------------------------------------------------------------
(* The tokens.                                                             *)

\* A mail that is owed after a step was owed before it, and stays ahead of
\* the walk if it was; or it has just arrived, and not between the page and
\* the state of a bootstrap.
Owed ==
    \A e \in Open' :
        /\ born'[e] \in Nat
        /\ \/ e \in Open /\ born'[e] = born[e] /\ (Ahead(e) => Ahead(e)')
           \/ born'[e] > log /\ \A p \in Pollers : pc[p] # "state"

LEMMA OwedNext ==
      /\ ServerOK /\ ServerOK' /\ StoreOK /\ WalkOK /\ PositionInv /\ Counted
      /\ Steady /\ WalkInv /\ LastInv /\ WindowInv /\ WindowInv'
      /\ [Next]_vars
    => Owed
<1> SUFFICES ASSUME ServerOK, ServerOK', StoreOK, WalkOK, PositionInv,
                    Counted, Steady, WalkInv, LastInv, WindowInv,
                    WindowInv', [Next]_vars
             PROVE  Owed
  OBVIOUS
<1> USE SyncAssumption DEF ServerOK, StoreOK, WalkOK, PositionInv, Counted,
                           Steady, WindowInv, WalkedTo, Started, Walking,
                           Owed, Open,
                           Ahead, Live, Arrived, server, state, push, poll,
                           walk, excuses
<1>1. CASE UNCHANGED vars
  BY <1>1 DEF vars
<1>2. ASSUME NEW e \in Mails, Arrive(e) PROVE Owed
  BY <1>2 DEF Arrive, Closing, ServerOK, Closed, Excused
<1>3. ASSUME NEW d \in Mails, Destroy(d) PROVE Owed
  BY <1>3 DEF Destroy
<1>4. CASE Tick
  BY <1>4 DEF Tick
<1>5. CASE Subscribe
  BY <1>5 DEF Subscribe
<1>6. CASE Push
  BY <1>6 DEF Push
<1>7. CASE StreamEnds
  BY <1>7 DEF StreamEnds
<1>8. CASE Heartbeat
  BY <1>8 DEF Heartbeat
<1>9. CASE DebouncedPoll
  BY <1>9 DEF DebouncedPoll, ReadToken
<1>10. ASSUME NEW p \in Commands, PollNow(p) PROVE Owed
  BY <1>10 DEF PollNow, ReadToken
<1>11. ASSUME NEW p \in Pollers, GetChanges(p) PROVE Owed
  BY <1>11 DEF GetChanges, PollFrame
<1>12. ASSUME NEW p \in Pollers, Bootstrap(p) PROVE Owed
  BY <1>12 DEF Bootstrap, ResolveCutoff, PollFrame
<1>28. ASSUME NEW p \in Pollers, RegisterPosition(p) PROVE Owed
  BY <1>28 DEF RegisterPosition, PollFrame
<1>13. ASSUME NEW p \in Pollers, BootstrapState(p) PROVE Owed
  BY <1>13 DEF BootstrapState, PollFrame
<1>14. ASSUME NEW p \in Pollers, ProcessPage(p) PROVE Owed
  BY <1>14 DEF ProcessPage, ProcessEmails, PollFrame
<1>15. ASSUME NEW p \in Pollers, SaveToken(p) PROVE Owed
  BY <1>15 DEF SaveToken, PollFrame
<1>16. ASSUME NEW p \in Pollers, CannotCalculateChanges(p) PROVE Owed
  BY <1>16 DEF CannotCalculateChanges, PollFrame
<1>17. ASSUME NEW p \in Pollers, PollFails(p) PROVE Owed
  BY <1>17 DEF PollFails
<1>18. CASE CheckInitial
  BY <1>18 DEF CheckInitial, BackfillFrame
<1>19. CASE ReadPosition
  BY <1>19 DEF ReadPosition, BackfillFrame
<1>20. CASE QueryBatch
  BY <1>20 DEF QueryBatch, ResolveCutoff, BackfillFrame
<1>21. CASE ProcessBatch
  BY <1>21 DEF ProcessBatch, ProcessEmails, BackfillFrame
<1>22. CASE SavePosition
  BY <1>22 DEF SavePosition, BackfillFrame, WalkInv, Passed
<1>23. CASE DropPosition
  BY <1>23 DEF DropPosition, BackfillFrame, LastInv, Last
<1>27. CASE DropAnchor
  BY <1>27 DEF DropAnchor, BackfillFrame, LastInv, Last
<1>24. CASE ReadFails
  BY <1>24 DEF ReadFails, BackfillFrame
<1>25. CASE BackfillFails
  BY <1>25 DEF BackfillFails, BackfillFrame
<1>26. CASE NewSession
  BY <1>26 DEF NewSession
<1> QED
  BY <1>1, <1>2, <1>3, <1>4, <1>5, <1>6, <1>7, <1>8, <1>9, <1>10, <1>11,
     <1>12, <1>13, <1>14, <1>15, <1>16, <1>17, <1>18, <1>19, <1>20, <1>21,
     <1>22, <1>23, <1>24, <1>25, <1>26, <1>27, <1>28
  DEF Next, MailServer, PollStep, BackfillStep

LEMMA TokenNext ==
    ServerOK /\ StoreOK /\ PollsOK /\ LogInv /\ Owed /\ PollInv
    /\ TokenInv /\ [Next]_vars
        => TokenInv'
<1> SUFFICES ASSUME ServerOK, StoreOK, PollsOK, LogInv, Owed, PollInv,
                    TokenInv, [Next]_vars
             PROVE  TokenInv'
  OBVIOUS
<1> USE SyncAssumption DEF ServerOK, StoreOK, PollsOK, LogInv, Owed,
                           PollInv, TokenInv, server, state, push, poll,
                           walk, excuses
<1>1. CASE UNCHANGED vars
  BY <1>1 DEF vars
<1>2. ASSUME NEW e \in Mails, Arrive(e) PROVE TokenInv'
  BY <1>2 DEF Arrive
<1>3. ASSUME NEW d \in Mails, Destroy(d) PROVE TokenInv'
  BY <1>3 DEF Destroy
<1>4. CASE Tick
  BY <1>4 DEF Tick
<1>5. CASE Subscribe
  BY <1>5 DEF Subscribe
<1>6. CASE Push
  BY <1>6 DEF Push
<1>7. CASE StreamEnds
  BY <1>7 DEF StreamEnds
<1>8. CASE Heartbeat
  BY <1>8 DEF Heartbeat
<1>9. CASE DebouncedPoll
  BY <1>9 DEF DebouncedPoll, ReadToken
<1>10. ASSUME NEW p \in Commands, PollNow(p) PROVE TokenInv'
  BY <1>10 DEF PollNow, ReadToken
<1>11. ASSUME NEW p \in Pollers, GetChanges(p) PROVE TokenInv'
  BY <1>11 DEF GetChanges, PollFrame
<1>12. ASSUME NEW p \in Pollers, Bootstrap(p) PROVE TokenInv'
  BY <1>12 DEF Bootstrap, ResolveCutoff, PollFrame
<1>28. ASSUME NEW p \in Pollers, RegisterPosition(p) PROVE TokenInv'
  BY <1>28 DEF RegisterPosition, PollFrame
<1>13. ASSUME NEW p \in Pollers, BootstrapState(p) PROVE TokenInv'
  BY <1>13 DEF BootstrapState, PollFrame
<1>14. ASSUME NEW p \in Pollers, ProcessPage(p) PROVE TokenInv'
  BY <1>14 DEF ProcessPage, ProcessEmails, PollFrame
<1>15. ASSUME NEW p \in Pollers, SaveToken(p) PROVE TokenInv'
  BY <1>15 DEF SaveToken, PollFrame
<1>16. ASSUME NEW p \in Pollers, CannotCalculateChanges(p) PROVE TokenInv'
  BY <1>16 DEF CannotCalculateChanges, PollFrame
<1>17. ASSUME NEW p \in Pollers, PollFails(p) PROVE TokenInv'
  BY <1>17 DEF PollFails
<1>18. CASE CheckInitial
  BY <1>18 DEF CheckInitial, BackfillFrame
<1>19. CASE ReadPosition
  BY <1>19 DEF ReadPosition, BackfillFrame
<1>20. CASE QueryBatch
  BY <1>20 DEF QueryBatch, ResolveCutoff, BackfillFrame
<1>21. CASE ProcessBatch
  BY <1>21 DEF ProcessBatch, ProcessEmails, BackfillFrame
<1>22. CASE SavePosition
  BY <1>22 DEF SavePosition, BackfillFrame
<1>23. CASE DropPosition
  BY <1>23 DEF DropPosition, BackfillFrame
<1>27. CASE DropAnchor
  BY <1>27 DEF DropAnchor, BackfillFrame
<1>24. CASE ReadFails
  BY <1>24 DEF ReadFails, BackfillFrame
<1>25. CASE BackfillFails
  BY <1>25 DEF BackfillFails, BackfillFrame
<1>26. CASE NewSession
  BY <1>26 DEF NewSession
<1> QED
  BY <1>1, <1>2, <1>3, <1>4, <1>5, <1>6, <1>7, <1>8, <1>9, <1>10, <1>11,
     <1>12, <1>13, <1>14, <1>15, <1>16, <1>17, <1>18, <1>19, <1>20, <1>21,
     <1>22, <1>23, <1>24, <1>25, <1>26, <1>27, <1>28
  DEF Next, MailServer, PollStep, BackfillStep

LEMMA PollNext ==
      /\ ServerOK /\ StoreOK /\ PollsOK /\ OrderInv /\ LogInv /\ AnchorInv
      /\ WindowInv /\ RegisterInv /\ Owed /\ TokenInv /\ PollInv
      /\ [Next]_vars
    => PollInv'
<1> SUFFICES ASSUME ServerOK, StoreOK, PollsOK, OrderInv, LogInv, AnchorInv,
                    WindowInv, RegisterInv, Owed, TokenInv, PollInv,
                    [Next]_vars
             PROVE  PollInv'
  OBVIOUS
<1> USE SyncAssumption DEF ServerOK, StoreOK, PollsOK, LogInv, Owed,
                           PollInv, Pollers, server, state, push, poll,
                           walk, excuses
<1>1. CASE UNCHANGED vars
  BY <1>1 DEF vars
<1>2. ASSUME NEW e \in Mails, Arrive(e) PROVE PollInv'
  BY <1>2 DEF Arrive
<1>3. ASSUME NEW d \in Mails, Destroy(d) PROVE PollInv'
  BY <1>3 DEF Destroy
<1>4. CASE Tick
  BY <1>4 DEF Tick
<1>5. CASE Subscribe
  BY <1>5 DEF Subscribe
<1>6. CASE Push
  BY <1>6 DEF Push
<1>7. CASE StreamEnds
  BY <1>7 DEF StreamEnds
<1>8. CASE Heartbeat
  BY <1>8 DEF Heartbeat
<1>9. CASE DebouncedPoll
  BY <1>9 DEF DebouncedPoll, ReadToken, TokenInv
<1>10. ASSUME NEW p \in Commands, PollNow(p) PROVE PollInv'
  BY <1>10 DEF PollNow, ReadToken, TokenInv
<1>11. ASSUME NEW p \in Pollers, GetChanges(p) PROVE PollInv'
  <2>1. PICK n \in cur[p]..log :
               /\ next' = [next EXCEPT ![p] = n]
               /\ ids' = [ids EXCEPT ![p] =
                      {e \in Mails : born[e] > cur[p] /\ born[e] <= n}]
    BY <1>11 DEF GetChanges
  <2>2. /\ pc[p] = "changes" /\ cur[p] # NoToken
        /\ pc' = [pc EXCEPT ![p] = "process"]
        /\ UNCHANGED <<cur, born>> /\ n \in Nat
    BY <1>11 DEF GetChanges, PollFrame
  <2>3. \A e \in Open' : e \in Mails
    BY DEF Open, Live, Arrived
  <2>4. ASSUME NEW e \in Open'
        PROVE  e \in ids'[p] \/ born'[e] > next'[p] \/ Ahead(e)'
    BY <2>1, <2>2, <2>3
  <2>5. ASSUME NEW q \in Pollers, q # p
        PROVE  /\ pc'[q] = pc[q] /\ cur'[q] = cur[q]
               /\ next'[q] = next[q] /\ ids'[q] = ids[q]
    BY <2>1, <2>2, <2>5
  <2>6. pc'[p] = "process"
    BY <2>2
  <2> QED
    BY <2>4, <2>5, <2>6
<1>12. ASSUME NEW p \in Pollers, Bootstrap(p) PROVE PollInv'
  <2>1. PICK c \in 0..floor, m \in 0..1 :
               /\ ResolveCutoff(c, m)
               /\ ids' = [ids EXCEPT ![p] = Page(0, c)]
               /\ pc' = [pc EXCEPT ![p] =
                      IF Cardinality(Page(0, c)) = SyncLimit THEN "register"
                      ELSE "state"]
    BY <1>12 DEF Bootstrap
  <2>2. UNCHANGED <<cur, next, born, died, floor>>
    BY <1>12 DEF Bootstrap, PollFrame
  <2>3. CASE outside' = Mails
    BY <2>3 DEF Open, Live, Arrived, Closed, Excused
  <2>4. CASE /\ c = Cutoff /\ Cutoff' = Cutoff
             /\ \A e \in Mails : e < c => e \in outside'
    <3>1. ASSUME NEW e \in Open', pc'[p] = "state" PROVE e \in ids'[p]
      <4>1. e \in Live /\ e \in Mails
        BY <2>2 DEF Open, Live, Arrived
      <4>2. e >= c
        BY <2>4, <4>1 DEF Mails, Open, Closed, Excused
      <4>3. PageOK(0, c) /\ Place(e) \in Nat
        BY <2>4, <4>1, PageFacts, PlaceType
      <4>4. Cardinality(Page(0, c)) # SyncLimit
        BY <2>1, <3>1
      <4> QED
        BY <2>1, <4>1, <4>2, <4>3, <4>4 DEF PageOK
    <3>2. ASSUME NEW q \in Pollers, q # p
          PROVE  /\ pc'[q] = pc[q] /\ cur'[q] = cur[q]
                 /\ next'[q] = next[q] /\ ids'[q] = ids[q]
      BY <2>1, <2>2, <3>2
    <3>3. pc'[p] \in {"register", "state"}
      BY <2>1
    <3> QED
      BY <3>1, <3>2, <3>3
  <2> QED
    BY <2>1, <2>2, <2>3, <2>4, ResolveKeeps
<1>28. ASSUME NEW p \in Pollers, RegisterPosition(p) PROVE PollInv'
  <2>1. /\ pc[p] = "register" /\ pc' = [pc EXCEPT ![p] = "state"]
        /\ UNCHANGED <<cur, next, ids, born, died, floor, bridged, shifted,
                       gap, outside, backfill_cutoff>>
        /\ failed \subseteq failed'
    BY <1>28 DEF RegisterPosition, PollFrame
  <2>2. ASSUME NEW e \in Open' PROVE e \in ids[p] \/ Ahead(e)'
    <3>1. e \in Live /\ e \in Mails /\ e \notin Closed
      BY <2>1 DEF Open, Live, Arrived, Closed, Excused
    <3>2. e >= Cutoff
      BY <2>1, <3>1 DEF WindowInv, Started
    <3>3. Place(e)' = Place(e)
      <4>1. UNCHANGED Cutoff
        BY <2>1 DEF Cutoff
      <4> QED
        BY <2>1, <3>1, <4>1, PlaceKept
    <3>4. e \in ids[p] \/ Place(e) >= SyncLimit
      BY <2>1, <3>1, <3>2 DEF RegisterInv, Live
    <3>5. CASE backfill_position' = SyncLimit
      BY <3>3, <3>4, <3>5 DEF Ahead
    <3>6. CASE failed' = failed \cup (InWindow(Cutoff) \ ids[p])
      BY <3>1, <3>2, <3>6 DEF Open, Closed, Excused, InWindow
    <3> QED
      BY <1>28, <3>5, <3>6 DEF RegisterPosition
  <2>3. ASSUME NEW q \in Pollers, q # p
        PROVE  /\ pc'[q] = pc[q] /\ cur'[q] = cur[q]
               /\ next'[q] = next[q] /\ ids'[q] = ids[q]
    BY <2>1, <2>3
  <2>4. pc'[p] = "state" /\ ids'[p] = ids[p]
    BY <2>1
  <2> QED
    BY <2>2, <2>3, <2>4
<1>13. ASSUME NEW p \in Pollers, BootstrapState(p) PROVE PollInv'
  BY <1>13 DEF BootstrapState, PollFrame
<1>14. ASSUME NEW p \in Pollers, ProcessPage(p) PROVE PollInv'
  <2>1. PICK F \in SUBSET ids[p] : ProcessEmails(ids[p], F)
    BY <1>14 DEF ProcessPage
  <2>2. /\ pc[p] = "process" /\ pc'[p] \in {"changes", "save"}
        /\ cur'[p] \in {next[p], NoToken} /\ UNCHANGED <<next, died>>
    BY <1>14 DEF ProcessPage, PollFrame
  <2>3. ASSUME NEW e \in Open' PROVE e \notin ids[p] \/ e \notin Open
    <3>1. e \notin bridged' /\ e \notin failed'
      BY DEF Open, Closed, Excused
    <3>2. e \in Open => e \in Live /\ e \notin destroyed_emails
      BY DEF Open, Live
    <3> QED
      BY <2>1, <3>1, <3>2 DEF ProcessEmails
  <2>4. ASSUME NEW q \in Pollers, q # p
        PROVE  /\ pc'[q] = pc[q] /\ cur'[q] = cur[q]
               /\ next'[q] = next[q] /\ ids'[q] = ids[q]
    BY <1>14, <2>4 DEF ProcessPage
  <2> QED
    BY <2>2, <2>3, <2>4
<1>15. ASSUME NEW p \in Pollers, SaveToken(p) PROVE PollInv'
  BY <1>15 DEF SaveToken, PollFrame
<1>16. ASSUME NEW p \in Pollers, CannotCalculateChanges(p) PROVE PollInv'
  BY <1>16 DEF CannotCalculateChanges, PollFrame
<1>17. ASSUME NEW p \in Pollers, PollFails(p) PROVE PollInv'
  BY <1>17 DEF PollFails
<1>18. CASE CheckInitial
  BY <1>18 DEF CheckInitial, BackfillFrame
<1>19. CASE ReadPosition
  BY <1>19 DEF ReadPosition, BackfillFrame
<1>20. CASE QueryBatch
  BY <1>20 DEF QueryBatch, ResolveCutoff, BackfillFrame
<1>21. CASE ProcessBatch
  BY <1>21 DEF ProcessBatch, ProcessEmails, BackfillFrame
<1>22. CASE SavePosition
  BY <1>22 DEF SavePosition, BackfillFrame
<1>23. CASE DropPosition
  BY <1>23 DEF DropPosition, BackfillFrame
<1>27. CASE DropAnchor
  BY <1>27 DEF DropAnchor, BackfillFrame
<1>24. CASE ReadFails
  BY <1>24 DEF ReadFails, BackfillFrame
<1>25. CASE BackfillFails
  BY <1>25 DEF BackfillFails, BackfillFrame
<1>26. CASE NewSession
  BY <1>26 DEF NewSession
<1> QED
  BY <1>1, <1>2, <1>3, <1>4, <1>5, <1>6, <1>7, <1>8, <1>9, <1>10, <1>11,
     <1>12, <1>13, <1>14, <1>15, <1>16, <1>17, <1>18, <1>19, <1>20, <1>21,
     <1>22, <1>23, <1>24, <1>25, <1>26, <1>27, <1>28
  DEF Next, MailServer, PollStep, BackfillStep

-----------------------------------------------------------------------------
(* The theorems.                                                           *)

LEMMA InvInit == Init => Inv
<1> SUFFICES ASSUME Init PROVE Inv
  OBVIOUS
<1> USE SyncAssumption
<1>1. OrderInv
  BY DEF Init, OrderInv, Mails
<1>2. LogInv
  BY DEF Init, LogInv
<1>3. AnchorInv /\ PositionInv
  BY DEF Init, AnchorInv, Started, PositionInv, Walking
<1>4. WalkInv /\ LastInv /\ RegisterInv
  BY DEF Init, WalkInv, LastInv, RegisterInv
<1>5. TokenInv /\ PollInv
  BY DEF Init, TokenInv, PollInv
<1> QED
  BY <1>1, <1>2, <1>3, <1>4, <1>5 DEF Inv

LEMMA TypeNext == TypeOK /\ [Next]_vars => TypeOK'
  BY ServerNext, StoreNext, PushNext, PollsNext, WalkTypeNext, HistoryNext
  DEF TypeOK

LEMMA InvNext == TypeOK /\ Inv /\ [Next]_vars => Inv'
<1> SUFFICES ASSUME TypeOK, Inv, [Next]_vars PROVE Inv'
  OBVIOUS
<1> USE DEF TypeOK, Inv
<1>1. OrderInv' /\ LogInv' /\ AnchorInv' /\ PositionInv'
  BY OrderNext, LogNext, AnchorNext, PositionNext
<1>2. Counted /\ Steady
  BY CountedNow, SteadyNext
<1>3. WalkInv' /\ LastInv' /\ RegisterInv'
  BY <1>2, WalkNext, LastNext, RegisterNext
<1>4. WindowInv
  BY WindowNow
<1>5. (ServerOK /\ StoreOK)'
  BY TypeNext
<1>6. WindowInv'
  <2>1. (ServerOK /\ StoreOK /\ AnchorInv => WindowInv)'
    BY WindowNow, PTL
  <2> QED
    BY <1>1, <1>5, <2>1
<1>7. Owed
  BY <1>2, <1>4, <1>5, <1>6, OwedNext
<1>8. TokenInv' /\ PollInv'
  BY <1>4, <1>7, TokenNext, PollNext
<1> QED
  BY <1>1, <1>3, <1>8

LEMMA Invariance == Spec => [](TypeOK /\ Inv)
<1> QED
  BY TypeInit, InvInit, TypeNext, InvNext, PTL DEF Spec

\* Every reachable state of the event loop, the polls and the walk is well
\* typed.
THEOREM TypeCorrect == Spec => []TypeOK
<1> QED
  BY Invariance, PTL

\* For any mailbox, page size, window, number of commands and faults: the
\* change token and the backfill position never both pass a mail that was
\* not bridged and has no excuse (sync_emails, backfill_batch).
THEOREM NoMailIsPassed == Spec => []NoMailPassed
<1>1. Inv => NoMailPassed
  BY RankIsPlace DEF Inv, TokenInv, Open, Closed, Ahead, NoMailPassed
<1> QED
  BY <1>1, Invariance, PTL

=============================================================================
