-------------------------- MODULE ReadStateProofs ---------------------------
(***************************************************************************)
(* Proofs about ReadState, for any number of polls, acts and faults.       *)
(***************************************************************************)
EXTENDS ReadState, TLAPS

-----------------------------------------------------------------------------
(* Types.                                                                  *)

LEMMA TypeInit == Init => TypeOK
<1> SUFFICES ASSUME Init PROVE TypeOK
  OBVIOUS
<1>1. BudgetOK
  BY ReadStateAssumption DEF Init, BudgetOK
<1>2. PollsOK
  BY DEF Init, PollSteps, PollsOK
<1>3. FlagsOK /\ LoopOK
  BY DEF Init, FlagsOK, LoopOK
<1> QED
  BY <1>1, <1>2, <1>3 DEF TypeOK

LEMMA FlagsNext == FlagsOK /\ PollsOK /\ [Next]_vars => FlagsOK'
<1> SUFFICES ASSUME FlagsOK, PollsOK, [Next]_vars PROVE FlagsOK'
  OBVIOUS
<1> USE DEF FlagsOK, mail, room, store, tasks, history
<1>1. CASE UNCHANGED vars
  BY <1>1 DEF vars
<1>2. CASE MailToggle
  <2>1. {seen', changed', coalesced'} \subseteq BOOLEAN
    BY <1>2, Zenon DEF MailToggle, SetSeen
  <2> QED
    BY <1>2, <2>1 DEF MailToggle
<1>3. CASE MatrixRead
  <2>1. {marked', flagged', coalesced'} \subseteq BOOLEAN
    BY <1>3, Zenon DEF MatrixRead, SetMarked
  <2> QED
    BY <1>3, <2>1 DEF MatrixRead
<1>4. CASE MatrixUnread
  <2>1. {marked', flagged', coalesced'} \subseteq BOOLEAN
    BY <1>4, Zenon DEF MatrixUnread, SetMarked
  <2> QED
    BY <1>4, <2>1 DEF MatrixUnread
<1>5. CASE LoginMatrix
  BY <1>5 DEF LoginMatrix
<1>6. CASE Fetch
  <2>1. {changed', polled', raced'} \subseteq BOOLEAN
    BY <1>6, Zenon DEF Fetch, FetchEmail
  <2> QED
    BY <1>6, <2>1 DEF Fetch, FetchEmail
<1>7. ASSUME NEW c \in Commands, SyncCommand(c) PROVE FlagsOK'
  <2>1. {changed', polled', raced'} \subseteq BOOLEAN
    BY <1>7, Zenon DEF SyncCommand, FetchEmail
  <2> QED
    BY <1>7, <2>1 DEF SyncCommand, FetchEmail
<1>8. ASSUME NEW p \in Pollers, Decide(p) PROVE FlagsOK'
  BY <1>8 DEF Decide
<1>9. ASSUME NEW p \in Pollers, SendReceipt(p) PROVE FlagsOK'
  BY <1>9 DEF SendReceipt
<1>10. ASSUME NEW p \in Pollers, Unmark(p) PROVE FlagsOK'
  <2>1. {marked', flagged', coalesced'} \subseteq BOOLEAN
    BY <1>10, Zenon DEF Unmark, SetMarked
  <2> QED
    BY <1>10, <2>1 DEF Unmark
<1>11. ASSUME NEW p \in Pollers, SaveSynced(p) PROVE FlagsOK'
  BY <1>11 DEF SaveSynced
<1>12. ASSUME NEW p \in Pollers, MarkRoom(p) PROVE FlagsOK'
  <2>1. {marked', flagged', coalesced'} \subseteq BOOLEAN
    BY <1>12, Zenon DEF MarkRoom, SetMarked
  <2> QED
    BY <1>12, <2>1 DEF MarkRoom
<1>13. ASSUME NEW p \in Pollers, DeleteSynced(p) PROVE FlagsOK'
  <2>1. read_synced' \in BOOLEAN
    BY <1>13, Zenon DEF DeleteSynced
  <2> QED
    BY <1>13, <2>1 DEF DeleteSynced
<1>14. ASSUME NEW p \in Pollers, UnmarkFails(p) PROVE FlagsOK'
  BY <1>14 DEF UnmarkFails
<1>15. ASSUME NEW p \in Pollers, PollFails(p) PROVE FlagsOK'
  BY <1>15 DEF PollFails
<1>16. CASE HandleReceipt
  <2>1. notice' \in BOOLEAN
    BY <1>16, Zenon DEF HandleReceipt
  <2>2. {seen', changed', coalesced'} \subseteq BOOLEAN
    BY <1>16, Zenon DEF HandleReceipt, SetSeen
  <2> QED
    BY <1>16, <2>1, <2>2 DEF HandleReceipt
<1>17. CASE HandleReceiptFails
  <2>1. notice' \in BOOLEAN
    BY <1>17, Zenon DEF HandleReceiptFails
  <2> QED
    BY <1>17, <2>1 DEF HandleReceiptFails
<1>18. CASE PuppetSync
  BY <1>18, Zenon DEF PuppetSync
<1>19. CASE Apply
  <2>1. SetSeen(FALSE) => {seen', changed', coalesced'} \subseteq BOOLEAN
    BY Zenon DEF SetSeen
  <2>2. marked_unread' \in BOOLEAN
    BY <1>19, Zenon DEF Apply
  <2>3. SetSeen(FALSE) \/ UNCHANGED <<mail, coalesced>>
    BY <1>19, Zenon DEF Apply
  <2>4. UNCHANGED <<room, puppet, read_synced, got, polled, reported, raced,
                    dropped>>
    BY <1>19, Zenon DEF Apply
  <2>5. CASE SetSeen(FALSE)
    BY <2>1, <2>2, <2>4, <2>5
  <2>6. CASE UNCHANGED <<mail, coalesced>>
    BY <2>2, <2>4, <2>6
  <2> QED
    BY <2>3, <2>5, <2>6
<1>20. CASE SaveGate
  BY <1>20 DEF SaveGate
<1>21. CASE LoopFails
  BY <1>21 DEF LoopFails
<1>22. CASE Restart
  BY <1>22, Zenon DEF Restart
<1> QED
  BY <1>1, <1>2, <1>3, <1>4, <1>5, <1>6, <1>7, <1>8, <1>9, <1>10, <1>11,
     <1>12, <1>13, <1>14, <1>15, <1>16, <1>17, <1>18, <1>19, <1>20, <1>21,
     <1>22, Zenon
  DEF Next, Poll, Puppet

LEMMA PollsNext == FlagsOK /\ PollsOK /\ [Next]_vars => PollsOK'
<1> SUFFICES ASSUME FlagsOK, PollsOK, [Next]_vars PROVE PollsOK'
  OBVIOUS
<1> USE DEF FlagsOK, PollsOK, PollSteps, Goto, Polling, Pollers, tasks
<1>1. CASE UNCHANGED vars
  BY <1>1 DEF vars
<1>2. CASE MailToggle
  BY <1>2 DEF MailToggle, SetSeen
<1>3. CASE MatrixRead
  BY <1>3 DEF MatrixRead, SetMarked
<1>4. CASE MatrixUnread
  BY <1>4 DEF MatrixUnread, SetMarked
<1>5. CASE LoginMatrix
  BY <1>5 DEF LoginMatrix
<1>6. CASE Fetch
  BY <1>6 DEF Fetch, FetchEmail
<1>7. ASSUME NEW c \in Commands, SyncCommand(c) PROVE PollsOK'
  BY <1>7 DEF SyncCommand, FetchEmail
<1>8. ASSUME NEW p \in Pollers, Decide(p) PROVE PollsOK'
  BY <1>8 DEF Decide
<1>9. ASSUME NEW p \in Pollers, SendReceipt(p) PROVE PollsOK'
  BY <1>9 DEF SendReceipt
<1>10. ASSUME NEW p \in Pollers, Unmark(p) PROVE PollsOK'
  BY <1>10 DEF Unmark, SetMarked
<1>11. ASSUME NEW p \in Pollers, SaveSynced(p) PROVE PollsOK'
  BY <1>11 DEF SaveSynced
<1>12. ASSUME NEW p \in Pollers, MarkRoom(p) PROVE PollsOK'
  BY <1>12 DEF MarkRoom, SetMarked
<1>13. ASSUME NEW p \in Pollers, DeleteSynced(p) PROVE PollsOK'
  BY <1>13 DEF DeleteSynced
<1>14. ASSUME NEW p \in Pollers, UnmarkFails(p) PROVE PollsOK'
  BY <1>14 DEF UnmarkFails
<1>15. ASSUME NEW p \in Pollers, PollFails(p) PROVE PollsOK'
  BY <1>15 DEF PollFails
<1>16. CASE HandleReceipt
  BY <1>16 DEF HandleReceipt, SetSeen
<1>17. CASE HandleReceiptFails
  BY <1>17 DEF HandleReceiptFails
<1>18. CASE PuppetSync
  BY <1>18 DEF PuppetSync
<1>19. CASE Apply
  BY <1>19 DEF Apply, SetSeen, unread_action
<1>20. CASE SaveGate
  BY <1>20 DEF SaveGate
<1>21. CASE LoopFails
  BY <1>21 DEF LoopFails
<1>22. CASE Restart
  BY <1>22 DEF Restart
<1> QED
  BY <1>1, <1>2, <1>3, <1>4, <1>5, <1>6, <1>7, <1>8, <1>9, <1>10, <1>11,
     <1>12, <1>13, <1>14, <1>15, <1>16, <1>17, <1>18, <1>19, <1>20, <1>21,
     <1>22
  DEF Next, Poll, Puppet

LEMMA LoopNext == FlagsOK /\ LoopOK /\ [Next]_vars => LoopOK'
<1> SUFFICES ASSUME FlagsOK, LoopOK, [Next]_vars PROVE LoopOK'
  OBVIOUS
<1> USE DEF FlagsOK, LoopOK, tasks
<1>1. CASE UNCHANGED vars
  BY <1>1 DEF vars
<1>2. CASE MailToggle
  BY <1>2 DEF MailToggle, SetSeen
<1>3. CASE MatrixRead
  BY <1>3 DEF MatrixRead, SetMarked
<1>4. CASE MatrixUnread
  BY <1>4 DEF MatrixUnread, SetMarked
<1>5. CASE LoginMatrix
  BY <1>5 DEF LoginMatrix
<1>6. CASE Fetch
  BY <1>6 DEF Fetch, FetchEmail
<1>7. ASSUME NEW c \in Commands, SyncCommand(c) PROVE LoopOK'
  BY <1>7 DEF SyncCommand, FetchEmail
<1>8. ASSUME NEW p \in Pollers, Decide(p) PROVE LoopOK'
  BY <1>8 DEF Decide
<1>9. ASSUME NEW p \in Pollers, SendReceipt(p) PROVE LoopOK'
  BY <1>9 DEF SendReceipt
<1>10. ASSUME NEW p \in Pollers, Unmark(p) PROVE LoopOK'
  BY <1>10 DEF Unmark, SetMarked
<1>11. ASSUME NEW p \in Pollers, SaveSynced(p) PROVE LoopOK'
  BY <1>11 DEF SaveSynced
<1>12. ASSUME NEW p \in Pollers, MarkRoom(p) PROVE LoopOK'
  BY <1>12 DEF MarkRoom, SetMarked
<1>13. ASSUME NEW p \in Pollers, DeleteSynced(p) PROVE LoopOK'
  BY <1>13 DEF DeleteSynced
<1>14. ASSUME NEW p \in Pollers, UnmarkFails(p) PROVE LoopOK'
  BY <1>14 DEF UnmarkFails
<1>15. ASSUME NEW p \in Pollers, PollFails(p) PROVE LoopOK'
  BY <1>15 DEF PollFails
<1>16. CASE HandleReceipt
  BY <1>16 DEF HandleReceipt, SetSeen
<1>17. CASE HandleReceiptFails
  BY <1>17 DEF HandleReceiptFails
<1>18. CASE PuppetSync
  BY <1>18 DEF PuppetSync
<1>19. CASE Apply
  BY <1>19 DEF Apply, SetSeen, unread_action
<1>20. CASE SaveGate
  BY <1>20 DEF SaveGate
<1>21. CASE LoopFails
  BY <1>21 DEF LoopFails
<1>22. CASE Restart
  BY <1>22 DEF Restart
<1> QED
  BY <1>1, <1>2, <1>3, <1>4, <1>5, <1>6, <1>7, <1>8, <1>9, <1>10, <1>11,
     <1>12, <1>13, <1>14, <1>15, <1>16, <1>17, <1>18, <1>19, <1>20, <1>21,
     <1>22
  DEF Next, Poll, Puppet

LEMMA BudgetNext == BudgetOK /\ [Next]_vars => BudgetOK'
<1> SUFFICES ASSUME BudgetOK, [Next]_vars PROVE BudgetOK'
  OBVIOUS
<1> USE ReadStateAssumption DEF BudgetOK, Act, Fault, budget
<1>1. CASE UNCHANGED vars
  BY <1>1 DEF vars
<1>2. CASE MailToggle
  BY <1>2 DEF MailToggle, SetSeen
<1>3. CASE MatrixRead
  BY <1>3 DEF MatrixRead, SetMarked
<1>4. CASE MatrixUnread
  BY <1>4 DEF MatrixUnread, SetMarked
<1>5. CASE LoginMatrix
  BY <1>5 DEF LoginMatrix
<1>6. CASE Fetch
  BY <1>6 DEF Fetch, FetchEmail
<1>7. ASSUME NEW c \in Commands, SyncCommand(c) PROVE BudgetOK'
  BY <1>7 DEF SyncCommand, FetchEmail
<1>8. ASSUME NEW p \in Pollers, Decide(p) PROVE BudgetOK'
  BY <1>8 DEF Decide
<1>9. ASSUME NEW p \in Pollers, SendReceipt(p) PROVE BudgetOK'
  BY <1>9 DEF SendReceipt
<1>10. ASSUME NEW p \in Pollers, Unmark(p) PROVE BudgetOK'
  BY <1>10 DEF Unmark, SetMarked
<1>11. ASSUME NEW p \in Pollers, SaveSynced(p) PROVE BudgetOK'
  BY <1>11 DEF SaveSynced
<1>12. ASSUME NEW p \in Pollers, MarkRoom(p) PROVE BudgetOK'
  BY <1>12 DEF MarkRoom, SetMarked
<1>13. ASSUME NEW p \in Pollers, DeleteSynced(p) PROVE BudgetOK'
  BY <1>13 DEF DeleteSynced
<1>14. ASSUME NEW p \in Pollers, UnmarkFails(p) PROVE BudgetOK'
  BY <1>14 DEF UnmarkFails
<1>15. ASSUME NEW p \in Pollers, PollFails(p) PROVE BudgetOK'
  BY <1>15 DEF PollFails
<1>16. CASE HandleReceipt
  BY <1>16 DEF HandleReceipt, SetSeen
<1>17. CASE HandleReceiptFails
  BY <1>17 DEF HandleReceiptFails
<1>18. CASE PuppetSync
  BY <1>18 DEF PuppetSync
<1>19. CASE Apply
  BY <1>19 DEF Apply, SetSeen, unread_action
<1>20. CASE SaveGate
  BY <1>20 DEF SaveGate
<1>21. CASE LoopFails
  BY <1>21 DEF LoopFails
<1>22. CASE Restart
  BY <1>22 DEF Restart
<1> QED
  BY <1>1, <1>2, <1>3, <1>4, <1>5, <1>6, <1>7, <1>8, <1>9, <1>10, <1>11,
     <1>12, <1>13, <1>14, <1>15, <1>16, <1>17, <1>18, <1>19, <1>20, <1>21,
     <1>22
  DEF Next, Poll, Puppet

LEMMA TypeNext == TypeOK /\ [Next]_vars => TypeOK'
BY FlagsNext, PollsNext, LoopNext, BudgetNext DEF TypeOK

\* Every reachable state of the read-state machinery is well typed, and a
\* task is on the branch of sync_read_state or sync_marked_unread that the
\* value it read calls for.
THEOREM TypeCorrect == Spec => []TypeOK
<1> QED
  BY TypeInit, TypeNext, PTL DEF Spec

-----------------------------------------------------------------------------
(* The inductive invariant of Agreement.                                   *)

\* What Agreement is about.
Tracked == ~raced /\ ~dropped /\ ~coalesced

\* The one poll at work has what was last heard; between polls the gate says
\* the same, and what has not been heard will be.
PollInv ==
    /\ \A p, q \in Pollers : Polling(p) /\ Polling(q) => p = q
    /\ \A p \in Pollers : Polling(p) => (snap[p] <=> polled)
    /\ (\A p \in Pollers : ~Polling(p)) => (read_synced <=> polled)
    /\ \A p \in Pollers :
          pc[p] \in {"receipt", "unmark", "synced"} => ~read_synced
    /\ \A p \in Pollers : pc[p] \in {"mark", "unsynced"} => read_synced
    /\ ~changed => (seen <=> polled)

\* The same for the flag and the puppet's loop.
FlagInv ==
    /\ puppet /\ ~flagged => (marked <=> reported)
    /\ loop = "sync" => (marked_unread <=> reported)
    /\ loop # "sync" => (got <=> reported)
    /\ loop = "save" => ~marked_unread

\* The gate is set after the receipt is sent.
ReceiptInv ==
    /\ read_synced => receipt
    /\ \A p \in Pollers : pc[p] \in {"unmark", "synced"} => receipt

\* A poll that will still clear, or set, the flag of the room.
WillUnmark ==
    ~read_synced
    /\ \E p \in Pollers : pc[p] \in {"decide", "receipt", "unmark"}
WillMark ==
    read_synced /\ \E p \in Pollers : pc[p] \in {"decide", "mark"}

\* Mail heard as read in a room that is marked unread: a poll will clear the
\* flag, or the puppet will hear of it and clear $seen.
ReadInv ==
    seen /\ polled /\ marked
        => WillUnmark \/ ~reported \/ (loop = "apply" /\ ~marked_unread)

\* Mail heard as unread in a room that looks read: a poll will set the flag,
\* or a receipt that will set $seen is on its way.
UnreadInv ==
    ~seen /\ ~polled /\ receipt /\ ~marked => WillMark \/ notice

MirrorInv ==
    Tracked => PollInv /\ FlagInv /\ ReceiptInv /\ ReadInv /\ UnreadInv

LEMMA PollInvNext ==
    TypeOK /\ Tracked /\ Tracked' /\ PollInv /\ [Next]_vars => PollInv'
<1> SUFFICES ASSUME TypeOK, Tracked, Tracked', PollInv, [Next]_vars
             PROVE  PollInv'
  OBVIOUS
<1> USE DEF TypeOK, FlagsOK, PollsOK, LoopOK, Tracked, PollInv,
    PollSteps, Goto, Polling, Pollers,
    mail, room, store, tasks, history
<1>1. CASE UNCHANGED vars
  BY <1>1 DEF vars
<1>2. CASE MailToggle
  BY <1>2 DEF MailToggle, SetSeen
<1>3. CASE MatrixRead
  BY <1>3 DEF MatrixRead, SetMarked
<1>4. CASE MatrixUnread
  BY <1>4 DEF MatrixUnread, SetMarked
<1>5. CASE LoginMatrix
  BY <1>5 DEF LoginMatrix
<1>6. CASE Fetch
  BY <1>6 DEF Fetch, FetchEmail
<1>7. ASSUME NEW c \in Commands, SyncCommand(c) PROVE PollInv'
  BY <1>7 DEF SyncCommand, FetchEmail
<1>8. ASSUME NEW p \in Pollers, Decide(p) PROVE PollInv'
  BY <1>8 DEF Decide
<1>9. ASSUME NEW p \in Pollers, SendReceipt(p) PROVE PollInv'
  BY <1>9 DEF SendReceipt
<1>10. ASSUME NEW p \in Pollers, Unmark(p) PROVE PollInv'
  BY <1>10 DEF Unmark, SetMarked
<1>11. ASSUME NEW p \in Pollers, SaveSynced(p) PROVE PollInv'
  BY <1>11 DEF SaveSynced
<1>12. ASSUME NEW p \in Pollers, MarkRoom(p) PROVE PollInv'
  BY <1>12 DEF MarkRoom, SetMarked
<1>13. ASSUME NEW p \in Pollers, DeleteSynced(p) PROVE PollInv'
  BY <1>13 DEF DeleteSynced
<1>14. ASSUME NEW p \in Pollers, UnmarkFails(p) PROVE PollInv'
  BY <1>14 DEF UnmarkFails
<1>15. ASSUME NEW p \in Pollers, PollFails(p) PROVE PollInv'
  BY <1>15 DEF PollFails
<1>16. CASE HandleReceipt
  BY <1>16 DEF HandleReceipt, SetSeen
<1>17. CASE HandleReceiptFails
  BY <1>17 DEF HandleReceiptFails
<1>18. CASE PuppetSync
  BY <1>18 DEF PuppetSync
<1>19. CASE Apply
  BY <1>19 DEF Apply, SetSeen, unread_action
<1>20. CASE SaveGate
  BY <1>20 DEF SaveGate
<1>21. CASE LoopFails
  BY <1>21 DEF LoopFails
<1>22. CASE Restart
  BY <1>22 DEF Restart
<1> QED
  BY <1>1, <1>2, <1>3, <1>4, <1>5, <1>6, <1>7, <1>8, <1>9, <1>10, <1>11,
     <1>12, <1>13, <1>14, <1>15, <1>16, <1>17, <1>18, <1>19, <1>20, <1>21,
     <1>22
  DEF Next, Poll, Puppet

LEMMA FlagInvNext ==
    TypeOK /\ Tracked /\ Tracked' /\ FlagInv /\ [Next]_vars => FlagInv'
<1> SUFFICES ASSUME TypeOK, Tracked, Tracked', FlagInv, [Next]_vars
             PROVE  FlagInv'
  OBVIOUS
<1> USE DEF TypeOK, FlagsOK, PollsOK, LoopOK, Tracked, FlagInv,
    mail, room, store, tasks,
    history
<1>1. CASE UNCHANGED vars
  BY <1>1 DEF vars
<1>2. CASE MailToggle
  BY <1>2 DEF MailToggle, SetSeen
<1>3. CASE MatrixRead
  BY <1>3 DEF MatrixRead, SetMarked
<1>4. CASE MatrixUnread
  BY <1>4 DEF MatrixUnread, SetMarked
<1>5. CASE LoginMatrix
  BY <1>5 DEF LoginMatrix
<1>6. CASE Fetch
  BY <1>6 DEF Fetch, FetchEmail
<1>7. ASSUME NEW c \in Commands, SyncCommand(c) PROVE FlagInv'
  BY <1>7 DEF SyncCommand, FetchEmail
<1>8. ASSUME NEW p \in Pollers, Decide(p) PROVE FlagInv'
  BY <1>8 DEF Decide
<1>9. ASSUME NEW p \in Pollers, SendReceipt(p) PROVE FlagInv'
  BY <1>9 DEF SendReceipt
<1>10. ASSUME NEW p \in Pollers, Unmark(p) PROVE FlagInv'
  BY <1>10 DEF Unmark, SetMarked
<1>11. ASSUME NEW p \in Pollers, SaveSynced(p) PROVE FlagInv'
  BY <1>11 DEF SaveSynced
<1>12. ASSUME NEW p \in Pollers, MarkRoom(p) PROVE FlagInv'
  BY <1>12 DEF MarkRoom, SetMarked
<1>13. ASSUME NEW p \in Pollers, DeleteSynced(p) PROVE FlagInv'
  BY <1>13 DEF DeleteSynced
<1>14. ASSUME NEW p \in Pollers, UnmarkFails(p) PROVE FlagInv'
  BY <1>14 DEF UnmarkFails
<1>15. ASSUME NEW p \in Pollers, PollFails(p) PROVE FlagInv'
  BY <1>15 DEF PollFails
<1>16. CASE HandleReceipt
  BY <1>16 DEF HandleReceipt, SetSeen
<1>17. CASE HandleReceiptFails
  BY <1>17 DEF HandleReceiptFails
<1>18. CASE PuppetSync
  BY <1>18 DEF PuppetSync
<1>19. CASE Apply
  BY <1>19 DEF Apply, SetSeen, unread_action
<1>20. CASE SaveGate
  BY <1>20 DEF SaveGate
<1>21. CASE LoopFails
  BY <1>21 DEF LoopFails
<1>22. CASE Restart
  BY <1>22 DEF Restart
<1> QED
  BY <1>1, <1>2, <1>3, <1>4, <1>5, <1>6, <1>7, <1>8, <1>9, <1>10, <1>11,
     <1>12, <1>13, <1>14, <1>15, <1>16, <1>17, <1>18, <1>19, <1>20, <1>21,
     <1>22
  DEF Next, Poll, Puppet

LEMMA ReceiptInvNext ==
    TypeOK /\ Tracked /\ Tracked' /\ ReceiptInv /\ [Next]_vars => ReceiptInv'
<1> SUFFICES ASSUME TypeOK, Tracked, Tracked', ReceiptInv, [Next]_vars
             PROVE  ReceiptInv'
  OBVIOUS
<1> USE DEF TypeOK, FlagsOK, PollsOK, LoopOK, Tracked, ReceiptInv,
    PollSteps, Goto, Pollers, mail, room, store, tasks,
    history
<1>1. CASE UNCHANGED vars
  BY <1>1 DEF vars
<1>2. CASE MailToggle
  BY <1>2 DEF MailToggle, SetSeen
<1>3. CASE MatrixRead
  BY <1>3 DEF MatrixRead, SetMarked
<1>4. CASE MatrixUnread
  BY <1>4 DEF MatrixUnread, SetMarked
<1>5. CASE LoginMatrix
  BY <1>5 DEF LoginMatrix
<1>6. CASE Fetch
  BY <1>6 DEF Fetch, FetchEmail
<1>7. ASSUME NEW c \in Commands, SyncCommand(c) PROVE ReceiptInv'
  BY <1>7 DEF SyncCommand, FetchEmail
<1>8. ASSUME NEW p \in Pollers, Decide(p) PROVE ReceiptInv'
  BY <1>8 DEF Decide
<1>9. ASSUME NEW p \in Pollers, SendReceipt(p) PROVE ReceiptInv'
  BY <1>9 DEF SendReceipt
<1>10. ASSUME NEW p \in Pollers, Unmark(p) PROVE ReceiptInv'
  BY <1>10 DEF Unmark, SetMarked
<1>11. ASSUME NEW p \in Pollers, SaveSynced(p) PROVE ReceiptInv'
  BY <1>11 DEF SaveSynced
<1>12. ASSUME NEW p \in Pollers, MarkRoom(p) PROVE ReceiptInv'
  BY <1>12 DEF MarkRoom, SetMarked
<1>13. ASSUME NEW p \in Pollers, DeleteSynced(p) PROVE ReceiptInv'
  BY <1>13 DEF DeleteSynced
<1>14. ASSUME NEW p \in Pollers, UnmarkFails(p) PROVE ReceiptInv'
  BY <1>14 DEF UnmarkFails
<1>15. ASSUME NEW p \in Pollers, PollFails(p) PROVE ReceiptInv'
  BY <1>15 DEF PollFails
<1>16. CASE HandleReceipt
  BY <1>16 DEF HandleReceipt, SetSeen
<1>17. CASE HandleReceiptFails
  BY <1>17 DEF HandleReceiptFails
<1>18. CASE PuppetSync
  BY <1>18 DEF PuppetSync
<1>19. CASE Apply
  BY <1>19 DEF Apply, SetSeen, unread_action
<1>20. CASE SaveGate
  BY <1>20 DEF SaveGate
<1>21. CASE LoopFails
  BY <1>21 DEF LoopFails
<1>22. CASE Restart
  BY <1>22 DEF Restart
<1> QED
  BY <1>1, <1>2, <1>3, <1>4, <1>5, <1>6, <1>7, <1>8, <1>9, <1>10, <1>11,
     <1>12, <1>13, <1>14, <1>15, <1>16, <1>17, <1>18, <1>19, <1>20, <1>21,
     <1>22
  DEF Next, Poll, Puppet

LEMMA ReadInvNext ==
      /\ TypeOK /\ Tracked /\ Tracked' /\ PollInv /\ FlagInv /\ ReadInv
      /\ [Next]_vars
    => ReadInv'
<1> SUFFICES ASSUME TypeOK, Tracked, Tracked', PollInv, FlagInv,
                    ReadInv, [Next]_vars
             PROVE  ReadInv'
  OBVIOUS
<1> USE DEF TypeOK, FlagsOK, PollsOK, LoopOK, Tracked, PollInv,
    FlagInv, ReadInv, WillUnmark, PollSteps, Goto, Polling, Pollers,
    mail, room, store, tasks, history
<1>1. CASE UNCHANGED vars
  BY <1>1 DEF vars
<1>2. CASE MailToggle
  BY <1>2 DEF MailToggle, SetSeen
<1>3. CASE MatrixRead
  BY <1>3 DEF MatrixRead, SetMarked
<1>4. CASE MatrixUnread
  BY <1>4 DEF MatrixUnread, SetMarked
<1>5. CASE LoginMatrix
  BY <1>5 DEF LoginMatrix
<1>6. CASE Fetch
  BY <1>6 DEF Fetch, FetchEmail
<1>7. ASSUME NEW c \in Commands, SyncCommand(c) PROVE ReadInv'
  BY <1>7 DEF SyncCommand, FetchEmail
<1>8. ASSUME NEW p \in Pollers, Decide(p) PROVE ReadInv'
  BY <1>8 DEF Decide
<1>9. ASSUME NEW p \in Pollers, SendReceipt(p) PROVE ReadInv'
  BY <1>9 DEF SendReceipt
<1>10. ASSUME NEW p \in Pollers, Unmark(p) PROVE ReadInv'
  BY <1>10 DEF Unmark, SetMarked
<1>11. ASSUME NEW p \in Pollers, SaveSynced(p) PROVE ReadInv'
  BY <1>11 DEF SaveSynced
<1>12. ASSUME NEW p \in Pollers, MarkRoom(p) PROVE ReadInv'
  BY <1>12 DEF MarkRoom, SetMarked
<1>13. ASSUME NEW p \in Pollers, DeleteSynced(p) PROVE ReadInv'
  BY <1>13 DEF DeleteSynced
<1>14. ASSUME NEW p \in Pollers, UnmarkFails(p) PROVE ReadInv'
  BY <1>14 DEF UnmarkFails
<1>15. ASSUME NEW p \in Pollers, PollFails(p) PROVE ReadInv'
  BY <1>15 DEF PollFails
<1>16. CASE HandleReceipt
  BY <1>16 DEF HandleReceipt, SetSeen
<1>17. CASE HandleReceiptFails
  BY <1>17 DEF HandleReceiptFails
<1>18. CASE PuppetSync
  BY <1>18 DEF PuppetSync
<1>19. CASE Apply
  BY <1>19 DEF Apply, SetSeen, unread_action
<1>20. CASE SaveGate
  BY <1>20 DEF SaveGate
<1>21. CASE LoopFails
  BY <1>21 DEF LoopFails
<1>22. CASE Restart
  BY <1>22 DEF Restart
<1> QED
  BY <1>1, <1>2, <1>3, <1>4, <1>5, <1>6, <1>7, <1>8, <1>9, <1>10, <1>11,
     <1>12, <1>13, <1>14, <1>15, <1>16, <1>17, <1>18, <1>19, <1>20, <1>21,
     <1>22
  DEF Next, Poll, Puppet

LEMMA UnreadInvNext ==
      /\ TypeOK /\ Tracked /\ Tracked' /\ PollInv /\ FlagInv /\ UnreadInv
      /\ [Next]_vars
    => UnreadInv'
<1> SUFFICES ASSUME TypeOK, Tracked, Tracked', PollInv, FlagInv,
                    UnreadInv, [Next]_vars
             PROVE  UnreadInv'
  OBVIOUS
<1> USE DEF TypeOK, FlagsOK, PollsOK, LoopOK, Tracked, PollInv,
    FlagInv, UnreadInv, WillMark, PollSteps, Goto, Polling, Pollers,
    mail, room, store, tasks, history
<1>1. CASE UNCHANGED vars
  BY <1>1 DEF vars
<1>2. CASE MailToggle
  BY <1>2 DEF MailToggle, SetSeen
<1>3. CASE MatrixRead
  BY <1>3 DEF MatrixRead, SetMarked
<1>4. CASE MatrixUnread
  BY <1>4 DEF MatrixUnread, SetMarked
<1>5. CASE LoginMatrix
  BY <1>5 DEF LoginMatrix
<1>6. CASE Fetch
  BY <1>6 DEF Fetch, FetchEmail
<1>7. ASSUME NEW c \in Commands, SyncCommand(c) PROVE UnreadInv'
  BY <1>7 DEF SyncCommand, FetchEmail
<1>8. ASSUME NEW p \in Pollers, Decide(p) PROVE UnreadInv'
  BY <1>8 DEF Decide
<1>9. ASSUME NEW p \in Pollers, SendReceipt(p) PROVE UnreadInv'
  BY <1>9 DEF SendReceipt
<1>10. ASSUME NEW p \in Pollers, Unmark(p) PROVE UnreadInv'
  BY <1>10 DEF Unmark, SetMarked
<1>11. ASSUME NEW p \in Pollers, SaveSynced(p) PROVE UnreadInv'
  BY <1>11 DEF SaveSynced
<1>12. ASSUME NEW p \in Pollers, MarkRoom(p) PROVE UnreadInv'
  BY <1>12 DEF MarkRoom, SetMarked
<1>13. ASSUME NEW p \in Pollers, DeleteSynced(p) PROVE UnreadInv'
  BY <1>13 DEF DeleteSynced
<1>14. ASSUME NEW p \in Pollers, UnmarkFails(p) PROVE UnreadInv'
  BY <1>14 DEF UnmarkFails
<1>15. ASSUME NEW p \in Pollers, PollFails(p) PROVE UnreadInv'
  BY <1>15 DEF PollFails
<1>16. CASE HandleReceipt
  BY <1>16 DEF HandleReceipt, SetSeen
<1>17. CASE HandleReceiptFails
  BY <1>17 DEF HandleReceiptFails
<1>18. CASE PuppetSync
  BY <1>18 DEF PuppetSync
<1>19. CASE Apply
  BY <1>19 DEF Apply, SetSeen, unread_action
<1>20. CASE SaveGate
  BY <1>20 DEF SaveGate
<1>21. CASE LoopFails
  BY <1>21 DEF LoopFails
<1>22. CASE Restart
  BY <1>22 DEF Restart
<1> QED
  BY <1>1, <1>2, <1>3, <1>4, <1>5, <1>6, <1>7, <1>8, <1>9, <1>10, <1>11,
     <1>12, <1>13, <1>14, <1>15, <1>16, <1>17, <1>18, <1>19, <1>20, <1>21,
     <1>22
  DEF Next, Poll, Puppet

LEMMA MirrorInit == Init => MirrorInv
<1> SUFFICES ASSUME Init PROVE MirrorInv
  OBVIOUS
<1>1. \A p \in Pollers : pc[p] = "idle"
  BY DEF Init
<1>2. PollInv /\ ReceiptInv
  BY <1>1 DEF Init, PollInv, ReceiptInv, Polling
<1>3. FlagInv /\ ReadInv /\ UnreadInv
  BY DEF Init, FlagInv, ReadInv, UnreadInv
<1> QED
  BY <1>2, <1>3 DEF MirrorInv

\* History does not end.
LEMMA TrackedBefore == FlagsOK /\ [Next]_vars /\ Tracked' => Tracked
<1> SUFFICES ASSUME FlagsOK, [Next]_vars, Tracked' PROVE Tracked
  OBVIOUS
<1> USE DEF Tracked, FlagsOK, history
<1>1. CASE UNCHANGED vars
  BY <1>1 DEF vars
<1>2. CASE MailToggle
  BY <1>2 DEF MailToggle, SetSeen
<1>3. CASE MatrixRead
  BY <1>3 DEF MatrixRead, SetMarked
<1>4. CASE MatrixUnread
  BY <1>4 DEF MatrixUnread, SetMarked
<1>5. CASE LoginMatrix
  BY <1>5 DEF LoginMatrix
<1>6. CASE Fetch
  BY <1>6 DEF Fetch, FetchEmail
<1>7. ASSUME NEW c \in Commands, SyncCommand(c) PROVE Tracked
  BY <1>7 DEF SyncCommand, FetchEmail
<1>8. ASSUME NEW p \in Pollers, Decide(p) PROVE Tracked
  BY <1>8 DEF Decide
<1>9. ASSUME NEW p \in Pollers, SendReceipt(p) PROVE Tracked
  BY <1>9 DEF SendReceipt
<1>10. ASSUME NEW p \in Pollers, Unmark(p) PROVE Tracked
  BY <1>10 DEF Unmark, SetMarked
<1>11. ASSUME NEW p \in Pollers, SaveSynced(p) PROVE Tracked
  BY <1>11 DEF SaveSynced
<1>12. ASSUME NEW p \in Pollers, MarkRoom(p) PROVE Tracked
  BY <1>12 DEF MarkRoom, SetMarked
<1>13. ASSUME NEW p \in Pollers, DeleteSynced(p) PROVE Tracked
  BY <1>13 DEF DeleteSynced
<1>14. ASSUME NEW p \in Pollers, UnmarkFails(p) PROVE Tracked
  BY <1>14 DEF UnmarkFails
<1>15. ASSUME NEW p \in Pollers, PollFails(p) PROVE Tracked
  BY <1>15 DEF PollFails
<1>16. CASE HandleReceipt
  BY <1>16 DEF HandleReceipt, SetSeen
<1>17. CASE HandleReceiptFails
  BY <1>17 DEF HandleReceiptFails
<1>18. CASE PuppetSync
  BY <1>18 DEF PuppetSync
<1>19. CASE Apply
  BY <1>19 DEF Apply, SetSeen, unread_action
<1>20. CASE SaveGate
  BY <1>20 DEF SaveGate
<1>21. CASE LoopFails
  BY <1>21 DEF LoopFails
<1>22. CASE Restart
  BY <1>22 DEF Restart
<1> QED
  BY <1>1, <1>2, <1>3, <1>4, <1>5, <1>6, <1>7, <1>8, <1>9, <1>10, <1>11,
     <1>12, <1>13, <1>14, <1>15, <1>16, <1>17, <1>18, <1>19, <1>20, <1>21,
     <1>22
  DEF Next, Poll, Puppet

LEMMA MirrorNext == TypeOK /\ MirrorInv /\ [Next]_vars => MirrorInv'
<1> SUFFICES ASSUME TypeOK, MirrorInv, [Next]_vars, Tracked'
             PROVE  (PollInv /\ FlagInv /\ ReceiptInv /\ ReadInv
                     /\ UnreadInv)'
  BY DEF MirrorInv
<1>1. Tracked
  BY TrackedBefore DEF TypeOK
<1>2. PollInv /\ FlagInv /\ ReceiptInv /\ ReadInv /\ UnreadInv
  BY <1>1 DEF MirrorInv
<1> QED
  BY <1>1, <1>2, PollInvNext, FlagInvNext, ReceiptInvNext, ReadInvNext,
     UnreadInvNext

LEMMA MirrorAgrees == TypeOK /\ MirrorInv => Agreement
<1> SUFFICES ASSUME TypeOK, MirrorInv, Quiet, Mirrored, ~coalesced
             PROVE  seen <=> ReadInMatrix
  BY DEF Agreement
<1>1. PollInv /\ FlagInv /\ ReceiptInv /\ ReadInv /\ UnreadInv
  BY DEF MirrorInv, Tracked, Mirrored
<1>2. \A p \in Pollers : pc[p] = "idle"
  BY DEF Quiet, Polling
<1>3. (seen <=> polled) /\ (read_synced <=> polled)
  BY <1>1, <1>2 DEF PollInv, Quiet, Polling
<1>4. marked <=> reported
  BY <1>1 DEF FlagInv, Quiet, Mirrored
<1>5. ~WillMark /\ ~WillUnmark
  BY <1>2 DEF WillMark, WillUnmark
<1>6. CASE seen
  BY <1>1, <1>3, <1>4, <1>5, <1>6
  DEF ReceiptInv, ReadInv, Quiet, ReadInMatrix
<1>7. CASE ~seen
  BY <1>1, <1>3, <1>5, <1>7 DEF UnreadInv, Quiet, ReadInMatrix
<1> QED
  BY <1>6, <1>7

\* The mail server's $seen and what Matrix shows agree whenever nothing is on
\* its way, for any number of polls, user actions, failed calls and restarts,
\* as long as every update was mirrored by one poll at a time and none
\* changed back unheard (sync_read_state, handle_receipt,
\* sync_marked_unread).
THEOREM SidesAgree == Spec => []Agreement
<1>1. Spec => [](TypeOK /\ MirrorInv)
  <2>1. Init => TypeOK /\ MirrorInv
    BY TypeInit, MirrorInit
  <2>2. TypeOK /\ MirrorInv /\ [Next]_vars => (TypeOK /\ MirrorInv)'
    BY TypeNext, MirrorNext
  <2> QED
    BY <2>1, <2>2, PTL DEF Spec
<1> QED
  BY <1>1, MirrorAgrees, PTL

=============================================================================
