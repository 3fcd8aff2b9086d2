------------------------- MODULE BotCommandsProofs --------------------------
(***************************************************************************)
(* Proofs about BotCommands, for any number of requests, messages, tokens  *)
(* and faults.                                                             *)
(***************************************************************************)
EXTENDS BotCommands, TLAPS

-----------------------------------------------------------------------------
(* Types.                                                                  *)

\* What a handler has in hand at each step.
HandInv ==
    \A s \in Slots :
        /\ pc[s] \in {"idle", "route", "logout", "act", "work"}
               => email[s] = Nothing
        /\ pc[s] = "redact" /\ email[s] = Nothing
               => msg[s] \in {"oneshot", "login_matrix"}
        /\ pc[s] = "store" => email[s] # Nothing
        /\ pc[s] \in {"user", "save", "ensure"} => tok[s] \in Tokens

\* A user without a permission entry is in no dialogue, and no command of
\* theirs is past the router.
PermitInv ==
    ~permitted =>
        /\ login_state.step = "none"
        /\ \A s \in Slots : pc[s] \in {"idle", "route"}

\* Without an overlap one request is at work, and the client a command looked
\* up is still there.
AloneInv ==
    ~upset => \A s \in Slots :
        /\ \A x \in Slots : pc[s] # "idle" /\ pc[x] # "idle" => s = x
        /\ pc[s] = "work" => session

\* Without a lost prompt the dialogue waits for what the bot asked for, if it
\* has not lapsed; and a password was typed when it was asked for.
PromptInv ==
    ~upset =>
        /\ login_state.step \in {"none", prompt}
        /\ ~lapsed => login_state.step = prompt
        /\ \A s \in Slots :
              pc[s] = "route" /\ msg[s] = "password" => prompt = "password"

\* The answers of a user who strayed from no prompt are where they belong.
AnswerInv ==
    ~upset /\ ~strayed =>
        /\ login_state.step \in {"password", "url"}
               => login_state.email = "email"
        /\ login_state.step = "url" => login_state.password = "password"
        /\ \A s \in Slots :
              /\ pc[s] = "route" /\ login_state.step # "none"
                     => msg[s] = login_state.step
              /\ pc[s] \in {"redact", "store"} /\ email[s] # Nothing
                     => email[s] = "email" /\ msg[s] = "password"
              /\ pc[s] = "attempt" => Genuine(s)

\* A password that is not redacted came after the dialogue had lapsed, or in
\* an overlap, or its redaction failed.
ExposedInv == exposed => lapsed \/ refused \/ upset

Inv ==
    /\ HandInv /\ PermitInv /\ AloneInv /\ PromptInv /\ AnswerInv
    /\ ExposedInv

LEMMA TypeInit == Init => TypeOK /\ HandInv
<1> SUFFICES ASSUME Init PROVE TypeOK /\ HandInv
  OBVIOUS
<1>1. FlagsOK
  BY DEF Init, FlagsOK
<1>2. DialogueOK
  BY DEF Init, DialogueOK, NoLogin, Kinds, Answers, Commands, Nothing
<1>3. PuppetOK /\ BudgetOK
  BY BotAssumption DEF Init, PuppetOK, BudgetOK, NoToken
<1>4. SlotsOK
  BY BotAssumption
  DEF Init, SlotsOK, Steps, Kinds, Answers, Commands, NoToken
<1>5. HandInv
  BY DEF Init, HandInv
<1> QED
  BY <1>1, <1>2, <1>3, <1>4, <1>5 DEF TypeOK

LEMMA FlagsNext ==
    FlagsOK /\ [Next]_vars => FlagsOK'
<1> SUFFICES ASSUME FlagsOK, [Next]_vars
             PROVE  FlagsOK'
  OBVIOUS
<1> USE DEF FlagsOK, dialogue, puppet, slots, history, budget
<1>1. CASE UNCHANGED vars
  BY <1>1 DEF vars
<1>2. ASSUME NEW s \in Slots, NEW k \in Kinds, Type(s, k) PROVE FlagsOK'
  BY <1>2 DEF Type
<1>3. ASSUME NEW t \in Tokens, Revoke(t) PROVE FlagsOK'
  BY <1>3 DEF Revoke
<1>4. CASE Expire
  BY <1>4 DEF Expire
<1>5. CASE Restart
  BY <1>5 DEF Restart
<1>6. ASSUME NEW s \in Slots, RouteCommand(s) PROVE FlagsOK'
  BY <1>6 DEF RouteCommand, CommandStep
<1>7. ASSUME NEW s \in Slots, RouteLogin(s) PROVE FlagsOK'
  BY <1>7 DEF RouteLogin, Ask
<1>8. ASSUME NEW s \in Slots, RouteNothing(s) PROVE FlagsOK'
  BY <1>8 DEF RouteNothing
<1>9. ASSUME NEW s \in Slots, TakeEmail(s) PROVE FlagsOK'
  BY <1>9 DEF TakeEmail, Ask
<1>10. ASSUME NEW s \in Slots, TakePassword(s) PROVE FlagsOK'
  BY <1>10 DEF TakePassword
<1>11. ASSUME NEW s \in Slots, TakeUrl(s) PROVE FlagsOK'
  BY <1>11 DEF TakeUrl
<1>12. ASSUME NEW s \in Slots, Redact(s) PROVE FlagsOK'
  BY <1>12 DEF Redact, Redacted
<1>13. ASSUME NEW s \in Slots, StorePassword(s) PROVE FlagsOK'
  BY <1>13 DEF StorePassword, Ask
<1>14. ASSUME NEW s \in Slots, LoginSucceeds(s) PROVE FlagsOK'
  BY <1>14 DEF LoginSucceeds
<1>15. ASSUME NEW s \in Slots, LoginFails(s) PROVE FlagsOK'
  BY <1>15 DEF LoginFails, Done
<1>16. ASSUME NEW s \in Slots, ClearLogin(s) PROVE FlagsOK'
  BY <1>16 DEF ClearLogin
<1>17. ASSUME NEW s \in Slots, AutoPuppet(s) PROVE FlagsOK'
  BY <1>17 DEF AutoPuppet, Done
<1>18. ASSUME NEW s \in Slots, Mint(s) PROVE FlagsOK'
  BY <1>18 DEF Mint
<1>19. ASSUME NEW s \in Slots, MintFails(s) PROVE FlagsOK'
  BY <1>19 DEF MintFails, Done
<1>20. ASSUME NEW s \in Slots, Whoami(s) PROVE FlagsOK'
  BY <1>20 DEF Whoami, Done
<1>21. ASSUME NEW s \in Slots, NeedUser(s) PROVE FlagsOK'
  BY <1>21 DEF NeedUser, Done
<1>22. ASSUME NEW s \in Slots, SaveToken(s) PROVE FlagsOK'
  BY <1>22 DEF SaveToken
<1>23. ASSUME NEW s \in Slots, SaveTokenFails(s) PROVE FlagsOK'
  BY <1>23 DEF SaveTokenFails, Done
<1>24. ASSUME NEW s \in Slots, EnsureRunning(s) PROVE FlagsOK'
  BY <1>24 DEF EnsureRunning, Done
<1>25. ASSUME NEW s \in Slots, Logout(s) PROVE FlagsOK'
  BY <1>25 DEF Logout, Done
<1>26. ASSUME NEW s \in Slots, ActLookup(s) PROVE FlagsOK'
  BY <1>26 DEF ActLookup
<1>27. ASSUME NEW s \in Slots, Act(s) PROVE FlagsOK'
  BY <1>27 DEF Act, Done
<1>28. ASSUME NEW t \in Tokens, LoopRejected(t) PROVE FlagsOK'
  BY <1>28 DEF LoopRejected
<1>29. CASE LoopRemoved
  BY <1>29 DEF LoopRemoved
<1> QED
  BY <1>1, <1>2, <1>3, <1>4, <1>5, <1>6, <1>7, <1>8, <1>9, <1>10, <1>11,
     <1>12, <1>13, <1>14, <1>15, <1>16, <1>17, <1>18, <1>19, <1>20, <1>21,
     <1>22, <1>23, <1>24, <1>25, <1>26, <1>27, <1>28, <1>29
  DEF Next, Handle, Route, Loop

LEMMA DialogueNext ==
    DialogueOK /\ SlotsOK /\ HandInv /\ [Next]_vars => DialogueOK'
<1> SUFFICES ASSUME DialogueOK, SlotsOK, HandInv, [Next]_vars
             PROVE  DialogueOK'
  OBVIOUS
<1> USE DEF DialogueOK, SlotsOK, HandInv, Kinds, Answers, Commands, Nothing,
            NoLogin, dialogue, puppet, slots, history, budget
<1>1. CASE UNCHANGED vars
  BY <1>1 DEF vars
<1>2. ASSUME NEW s \in Slots, NEW k \in Kinds, Type(s, k) PROVE DialogueOK'
  BY <1>2 DEF Type
<1>3. ASSUME NEW t \in Tokens, Revoke(t) PROVE DialogueOK'
  BY <1>3 DEF Revoke
<1>4. CASE Expire
  BY <1>4 DEF Expire
<1>5. CASE Restart
  BY <1>5 DEF Restart
<1>6. ASSUME NEW s \in Slots, RouteCommand(s) PROVE DialogueOK'
  BY <1>6 DEF RouteCommand, CommandStep
<1>7. ASSUME NEW s \in Slots, RouteLogin(s) PROVE DialogueOK'
  BY <1>7 DEF RouteLogin, Ask
<1>8. ASSUME NEW s \in Slots, RouteNothing(s) PROVE DialogueOK'
  BY <1>8 DEF RouteNothing
<1>9. ASSUME NEW s \in Slots, TakeEmail(s) PROVE DialogueOK'
  BY <1>9 DEF TakeEmail, Ask
<1>10. ASSUME NEW s \in Slots, TakePassword(s) PROVE DialogueOK'
  BY <1>10 DEF TakePassword
<1>11. ASSUME NEW s \in Slots, TakeUrl(s) PROVE DialogueOK'
  BY <1>11 DEF TakeUrl
<1>12. ASSUME NEW s \in Slots, Redact(s) PROVE DialogueOK'
  BY <1>12 DEF Redact
<1>13. ASSUME NEW s \in Slots, StorePassword(s) PROVE DialogueOK'
  BY <1>13 DEF StorePassword, Ask
<1>14. ASSUME NEW s \in Slots, LoginSucceeds(s) PROVE DialogueOK'
  BY <1>14 DEF LoginSucceeds
<1>15. ASSUME NEW s \in Slots, LoginFails(s) PROVE DialogueOK'
  BY <1>15 DEF LoginFails, Done
<1>16. ASSUME NEW s \in Slots, ClearLogin(s) PROVE DialogueOK'
  BY <1>16 DEF ClearLogin
<1>17. ASSUME NEW s \in Slots, AutoPuppet(s) PROVE DialogueOK'
  BY <1>17 DEF AutoPuppet, Done
<1>18. ASSUME NEW s \in Slots, Mint(s) PROVE DialogueOK'
  BY <1>18 DEF Mint
<1>19. ASSUME NEW s \in Slots, MintFails(s) PROVE DialogueOK'
  BY <1>19 DEF MintFails, Done
<1>20. ASSUME NEW s \in Slots, Whoami(s) PROVE DialogueOK'
  BY <1>20 DEF Whoami, Done
<1>21. ASSUME NEW s \in Slots, NeedUser(s) PROVE DialogueOK'
  BY <1>21 DEF NeedUser, Done
<1>22. ASSUME NEW s \in Slots, SaveToken(s) PROVE DialogueOK'
  BY <1>22 DEF SaveToken
<1>23. ASSUME NEW s \in Slots, SaveTokenFails(s) PROVE DialogueOK'
  BY <1>23 DEF SaveTokenFails, Done
<1>24. ASSUME NEW s \in Slots, EnsureRunning(s) PROVE DialogueOK'
  BY <1>24 DEF EnsureRunning, Done
<1>25. ASSUME NEW s \in Slots, Logout(s) PROVE DialogueOK'
  BY <1>25 DEF Logout, Done
<1>26. ASSUME NEW s \in Slots, ActLookup(s) PROVE DialogueOK'
  BY <1>26 DEF ActLookup
<1>27. ASSUME NEW s \in Slots, Act(s) PROVE DialogueOK'
  BY <1>27 DEF Act, Done
<1>28. ASSUME NEW t \in Tokens, LoopRejected(t) PROVE DialogueOK'
  BY <1>28 DEF LoopRejected
<1>29. CASE LoopRemoved
  BY <1>29 DEF LoopRemoved
<1> QED
  BY <1>1, <1>2, <1>3, <1>4, <1>5, <1>6, <1>7, <1>8, <1>9, <1>10, <1>11,
     <1>12, <1>13, <1>14, <1>15, <1>16, <1>17, <1>18, <1>19, <1>20, <1>21,
     <1>22, <1>23, <1>24, <1>25, <1>26, <1>27, <1>28, <1>29
  DEF Next, Handle, Route, Loop

LEMMA PuppetNext ==
    PuppetOK /\ SlotsOK /\ HandInv /\ [Next]_vars => PuppetOK'
<1> SUFFICES ASSUME PuppetOK, SlotsOK, HandInv, [Next]_vars
             PROVE  PuppetOK'
  OBVIOUS
<1> USE BotAssumption DEF PuppetOK, SlotsOK, HandInv, Tokens, NoToken,
                          dialogue, puppet, slots, history, budget
<1>1. CASE UNCHANGED vars
  BY <1>1 DEF vars
<1>2. ASSUME NEW s \in Slots, NEW k \in Kinds, Type(s, k) PROVE PuppetOK'
  <2>1. CASE k = "login_matrix"
    <3>1. issued' \in Tokens /\ issued' = issued + 1
      BY <1>2, <2>1 DEF Type
    <3>2. valid' = valid \cup {issued'}
      BY <1>2, <2>1 DEF Type
    <3> QED
      BY <1>2, <3>1, <3>2 DEF Type
  <2>2. CASE k # "login_matrix"
    BY <1>2, <2>2 DEF Type
  <2> QED
    BY <2>1, <2>2
<1>3. ASSUME NEW t \in Tokens, Revoke(t) PROVE PuppetOK'
  BY <1>3 DEF Revoke
<1>4. CASE Expire
  BY <1>4 DEF Expire
<1>5. CASE Restart
  BY <1>5 DEF Restart
<1>6. ASSUME NEW s \in Slots, RouteCommand(s) PROVE PuppetOK'
  BY <1>6 DEF RouteCommand, CommandStep
<1>7. ASSUME NEW s \in Slots, RouteLogin(s) PROVE PuppetOK'
  BY <1>7 DEF RouteLogin, Ask
<1>8. ASSUME NEW s \in Slots, RouteNothing(s) PROVE PuppetOK'
  BY <1>8 DEF RouteNothing
<1>9. ASSUME NEW s \in Slots, TakeEmail(s) PROVE PuppetOK'
  BY <1>9 DEF TakeEmail, Ask
<1>10. ASSUME NEW s \in Slots, TakePassword(s) PROVE PuppetOK'
  BY <1>10 DEF TakePassword
<1>11. ASSUME NEW s \in Slots, TakeUrl(s) PROVE PuppetOK'
  BY <1>11 DEF TakeUrl
<1>12. ASSUME NEW s \in Slots, Redact(s) PROVE PuppetOK'
  BY <1>12 DEF Redact
<1>13. ASSUME NEW s \in Slots, StorePassword(s) PROVE PuppetOK'
  BY <1>13 DEF StorePassword, Ask
<1>14. ASSUME NEW s \in Slots, LoginSucceeds(s) PROVE PuppetOK'
  BY <1>14 DEF LoginSucceeds
<1>15. ASSUME NEW s \in Slots, LoginFails(s) PROVE PuppetOK'
  BY <1>15 DEF LoginFails, Done
<1>16. ASSUME NEW s \in Slots, ClearLogin(s) PROVE PuppetOK'
  BY <1>16 DEF ClearLogin
<1>17. ASSUME NEW s \in Slots, AutoPuppet(s) PROVE PuppetOK'
  BY <1>17 DEF AutoPuppet, Done
<1>18. ASSUME NEW s \in Slots, Mint(s) PROVE PuppetOK'
  BY <1>18 DEF Mint
<1>19. ASSUME NEW s \in Slots, MintFails(s) PROVE PuppetOK'
  BY <1>19 DEF MintFails, Done
<1>20. ASSUME NEW s \in Slots, Whoami(s) PROVE PuppetOK'
  BY <1>20 DEF Whoami, Done
<1>21. ASSUME NEW s \in Slots, NeedUser(s) PROVE PuppetOK'
  BY <1>21 DEF NeedUser, Done
<1>22. ASSUME NEW s \in Slots, SaveToken(s) PROVE PuppetOK'
  BY <1>22 DEF SaveToken
<1>23. ASSUME NEW s \in Slots, SaveTokenFails(s) PROVE PuppetOK'
  BY <1>23 DEF SaveTokenFails, Done
<1>24. ASSUME NEW s \in Slots, EnsureRunning(s) PROVE PuppetOK'
  BY <1>24 DEF EnsureRunning, Done
<1>25. ASSUME NEW s \in Slots, Logout(s) PROVE PuppetOK'
  BY <1>25 DEF Logout, Done
<1>26. ASSUME NEW s \in Slots, ActLookup(s) PROVE PuppetOK'
  BY <1>26 DEF ActLookup
<1>27. ASSUME NEW s \in Slots, Act(s) PROVE PuppetOK'
  BY <1>27 DEF Act, Done
<1>28. ASSUME NEW t \in Tokens, LoopRejected(t) PROVE PuppetOK'
  BY <1>28 DEF LoopRejected
<1>29. CASE LoopRemoved
  BY <1>29 DEF LoopRemoved
<1> QED
  BY <1>1, <1>2, <1>3, <1>4, <1>5, <1>6, <1>7, <1>8, <1>9, <1>10, <1>11,
     <1>12, <1>13, <1>14, <1>15, <1>16, <1>17, <1>18, <1>19, <1>20, <1>21,
     <1>22, <1>23, <1>24, <1>25, <1>26, <1>27, <1>28, <1>29
  DEF Next, Handle, Route, Loop

LEMMA SlotsNext ==
    PuppetOK /\ SlotsOK /\ DialogueOK /\ [Next]_vars => SlotsOK'
<1> SUFFICES ASSUME PuppetOK, SlotsOK, DialogueOK, [Next]_vars
             PROVE  SlotsOK'
  OBVIOUS
<1> USE BotAssumption DEF PuppetOK, SlotsOK, DialogueOK, Goto, Steps, Kinds,
                          Answers, Commands, Nothing, NoToken, dialogue,
                          puppet, slots, history, budget
<1>1. CASE UNCHANGED vars
  BY <1>1 DEF vars
<1>2. ASSUME NEW s \in Slots, NEW k \in Kinds, Type(s, k) PROVE SlotsOK'
  BY <1>2 DEF Type
<1>3. ASSUME NEW t \in Tokens, Revoke(t) PROVE SlotsOK'
  BY <1>3 DEF Revoke
<1>4. CASE Expire
  BY <1>4 DEF Expire
<1>5. CASE Restart
  BY <1>5 DEF Restart
<1>6. ASSUME NEW s \in Slots, RouteCommand(s) PROVE SlotsOK'
  BY <1>6 DEF RouteCommand, CommandStep
<1>7. ASSUME NEW s \in Slots, RouteLogin(s) PROVE SlotsOK'
  BY <1>7 DEF RouteLogin, Ask
<1>8. ASSUME NEW s \in Slots, RouteNothing(s) PROVE SlotsOK'
  BY <1>8 DEF RouteNothing
<1>9. ASSUME NEW s \in Slots, TakeEmail(s) PROVE SlotsOK'
  BY <1>9 DEF TakeEmail, Ask
<1>10. ASSUME NEW s \in Slots, TakePassword(s) PROVE SlotsOK'
  BY <1>10 DEF TakePassword
<1>11. ASSUME NEW s \in Slots, TakeUrl(s) PROVE SlotsOK'
  BY <1>11 DEF TakeUrl
<1>12. ASSUME NEW s \in Slots, Redact(s) PROVE SlotsOK'
  BY <1>12 DEF Redact
<1>13. ASSUME NEW s \in Slots, StorePassword(s) PROVE SlotsOK'
  BY <1>13 DEF StorePassword, Ask
<1>14. ASSUME NEW s \in Slots, LoginSucceeds(s) PROVE SlotsOK'
  BY <1>14 DEF LoginSucceeds
<1>15. ASSUME NEW s \in Slots, LoginFails(s) PROVE SlotsOK'
  BY <1>15 DEF LoginFails, Done
<1>16. ASSUME NEW s \in Slots, ClearLogin(s) PROVE SlotsOK'
  BY <1>16 DEF ClearLogin
<1>17. ASSUME NEW s \in Slots, AutoPuppet(s) PROVE SlotsOK'
  BY <1>17 DEF AutoPuppet, Done
<1>18. ASSUME NEW s \in Slots, Mint(s) PROVE SlotsOK'
  BY <1>18 DEF Mint
<1>19. ASSUME NEW s \in Slots, MintFails(s) PROVE SlotsOK'
  BY <1>19 DEF MintFails, Done
<1>20. ASSUME NEW s \in Slots, Whoami(s) PROVE SlotsOK'
  BY <1>20 DEF Whoami, Done
<1>21. ASSUME NEW s \in Slots, NeedUser(s) PROVE SlotsOK'
  BY <1>21 DEF NeedUser, Done
<1>22. ASSUME NEW s \in Slots, SaveToken(s) PROVE SlotsOK'
  BY <1>22 DEF SaveToken
<1>23. ASSUME NEW s \in Slots, SaveTokenFails(s) PROVE SlotsOK'
  BY <1>23 DEF SaveTokenFails, Done
<1>24. ASSUME NEW s \in Slots, EnsureRunning(s) PROVE SlotsOK'
  BY <1>24 DEF EnsureRunning, Done
<1>25. ASSUME NEW s \in Slots, Logout(s) PROVE SlotsOK'
  BY <1>25 DEF Logout, Done
<1>26. ASSUME NEW s \in Slots, ActLookup(s) PROVE SlotsOK'
  BY <1>26 DEF ActLookup
<1>27. ASSUME NEW s \in Slots, Act(s) PROVE SlotsOK'
  BY <1>27 DEF Act, Done
<1>28. ASSUME NEW t \in Tokens, LoopRejected(t) PROVE SlotsOK'
  BY <1>28 DEF LoopRejected
<1>29. CASE LoopRemoved
  BY <1>29 DEF LoopRemoved
<1> QED
  BY <1>1, <1>2, <1>3, <1>4, <1>5, <1>6, <1>7, <1>8, <1>9, <1>10, <1>11,
     <1>12, <1>13, <1>14, <1>15, <1>16, <1>17, <1>18, <1>19, <1>20, <1>21,
     <1>22, <1>23, <1>24, <1>25, <1>26, <1>27, <1>28, <1>29
  DEF Next, Handle, Route, Loop

LEMMA BudgetNext ==
    BudgetOK /\ [Next]_vars => BudgetOK'
<1> SUFFICES ASSUME BudgetOK, [Next]_vars
             PROVE  BudgetOK'
  OBVIOUS
<1> USE BotAssumption DEF BudgetOK, Fault, dialogue, puppet, slots, history,
                          budget
<1>1. CASE UNCHANGED vars
  BY <1>1 DEF vars
<1>2. ASSUME NEW s \in Slots, NEW k \in Kinds, Type(s, k) PROVE BudgetOK'
  BY <1>2 DEF Type
<1>3. ASSUME NEW t \in Tokens, Revoke(t) PROVE BudgetOK'
  BY <1>3 DEF Revoke
<1>4. CASE Expire
  BY <1>4 DEF Expire
<1>5. CASE Restart
  BY <1>5 DEF Restart
<1>6. ASSUME NEW s \in Slots, RouteCommand(s) PROVE BudgetOK'
  BY <1>6 DEF RouteCommand, CommandStep
<1>7. ASSUME NEW s \in Slots, RouteLogin(s) PROVE BudgetOK'
  BY <1>7 DEF RouteLogin, Ask
<1>8. ASSUME NEW s \in Slots, RouteNothing(s) PROVE BudgetOK'
  BY <1>8 DEF RouteNothing
<1>9. ASSUME NEW s \in Slots, TakeEmail(s) PROVE BudgetOK'
  BY <1>9 DEF TakeEmail, Ask
<1>10. ASSUME NEW s \in Slots, TakePassword(s) PROVE BudgetOK'
  BY <1>10 DEF TakePassword
<1>11. ASSUME NEW s \in Slots, TakeUrl(s) PROVE BudgetOK'
  BY <1>11 DEF TakeUrl
<1>12. ASSUME NEW s \in Slots, Redact(s) PROVE BudgetOK'
  BY <1>12 DEF Redact, Redacted
<1>13. ASSUME NEW s \in Slots, StorePassword(s) PROVE BudgetOK'
  BY <1>13 DEF StorePassword, Ask
<1>14. ASSUME NEW s \in Slots, LoginSucceeds(s) PROVE BudgetOK'
  BY <1>14 DEF LoginSucceeds
<1>15. ASSUME NEW s \in Slots, LoginFails(s) PROVE BudgetOK'
  BY <1>15 DEF LoginFails, Done
<1>16. ASSUME NEW s \in Slots, ClearLogin(s) PROVE BudgetOK'
  BY <1>16 DEF ClearLogin
<1>17. ASSUME NEW s \in Slots, AutoPuppet(s) PROVE BudgetOK'
  BY <1>17 DEF AutoPuppet, Done
<1>18. ASSUME NEW s \in Slots, Mint(s) PROVE BudgetOK'
  BY <1>18 DEF Mint
<1>19. ASSUME NEW s \in Slots, MintFails(s) PROVE BudgetOK'
  BY <1>19 DEF MintFails, Done
<1>20. ASSUME NEW s \in Slots, Whoami(s) PROVE BudgetOK'
  BY <1>20 DEF Whoami, Done
<1>21. ASSUME NEW s \in Slots, NeedUser(s) PROVE BudgetOK'
  BY <1>21 DEF NeedUser, Done
<1>22. ASSUME NEW s \in Slots, SaveToken(s) PROVE BudgetOK'
  BY <1>22 DEF SaveToken
<1>23. ASSUME NEW s \in Slots, SaveTokenFails(s) PROVE BudgetOK'
  BY <1>23 DEF SaveTokenFails, Done
<1>24. ASSUME NEW s \in Slots, EnsureRunning(s) PROVE BudgetOK'
  BY <1>24 DEF EnsureRunning, Done
<1>25. ASSUME NEW s \in Slots, Logout(s) PROVE BudgetOK'
  BY <1>25 DEF Logout, Done
<1>26. ASSUME NEW s \in Slots, ActLookup(s) PROVE BudgetOK'
  BY <1>26 DEF ActLookup
<1>27. ASSUME NEW s \in Slots, Act(s) PROVE BudgetOK'
  BY <1>27 DEF Act, Done
<1>28. ASSUME NEW t \in Tokens, LoopRejected(t) PROVE BudgetOK'
  BY <1>28 DEF LoopRejected
<1>29. CASE LoopRemoved
  BY <1>29 DEF LoopRemoved
<1> QED
  BY <1>1, <1>2, <1>3, <1>4, <1>5, <1>6, <1>7, <1>8, <1>9, <1>10, <1>11,
     <1>12, <1>13, <1>14, <1>15, <1>16, <1>17, <1>18, <1>19, <1>20, <1>21,
     <1>22, <1>23, <1>24, <1>25, <1>26, <1>27, <1>28, <1>29
  DEF Next, Handle, Route, Loop

LEMMA HandNext ==
    TypeOK /\ HandInv /\ [Next]_vars => HandInv'
<1> SUFFICES ASSUME TypeOK, HandInv, [Next]_vars
             PROVE  HandInv'
  OBVIOUS
<1> USE BotAssumption DEF TypeOK, PuppetOK, SlotsOK, DialogueOK, HandInv,
                          Goto, Steps, Kinds, Answers, Commands, Nothing,
                          NoToken, Tokens, dialogue, puppet, slots, history,
                          budget
<1>1. CASE UNCHANGED vars
  BY <1>1 DEF vars
<1>2. ASSUME NEW s \in Slots, NEW k \in Kinds, Type(s, k) PROVE HandInv'
  BY <1>2 DEF Type
<1>3. ASSUME NEW t \in Tokens, Revoke(t) PROVE HandInv'
  BY <1>3 DEF Revoke
<1>4. CASE Expire
  BY <1>4 DEF Expire
<1>5. CASE Restart
  BY <1>5 DEF Restart
<1>6. ASSUME NEW s \in Slots, RouteCommand(s) PROVE HandInv'
  BY <1>6 DEF RouteCommand, CommandStep
<1>7. ASSUME NEW s \in Slots, RouteLogin(s) PROVE HandInv'
  BY <1>7 DEF RouteLogin, Ask
<1>8. ASSUME NEW s \in Slots, RouteNothing(s) PROVE HandInv'
  BY <1>8 DEF RouteNothing
<1>9. ASSUME NEW s \in Slots, TakeEmail(s) PROVE HandInv'
  BY <1>9 DEF TakeEmail, Ask
<1>10. ASSUME NEW s \in Slots, TakePassword(s) PROVE HandInv'
  BY <1>10 DEF TakePassword
<1>11. ASSUME NEW s \in Slots, TakeUrl(s) PROVE HandInv'
  BY <1>11 DEF TakeUrl
<1>12. ASSUME NEW s \in Slots, Redact(s) PROVE HandInv'
  BY <1>12 DEF Redact
<1>13. ASSUME NEW s \in Slots, StorePassword(s) PROVE HandInv'
  BY <1>13 DEF StorePassword, Ask
<1>14. ASSUME NEW s \in Slots, LoginSucceeds(s) PROVE HandInv'
  BY <1>14 DEF LoginSucceeds
<1>15. ASSUME NEW s \in Slots, LoginFails(s) PROVE HandInv'
  BY <1>15 DEF LoginFails, Done
<1>16. ASSUME NEW s \in Slots, ClearLogin(s) PROVE HandInv'
  BY <1>16 DEF ClearLogin
<1>17. ASSUME NEW s \in Slots, AutoPuppet(s) PROVE HandInv'
  BY <1>17 DEF AutoPuppet, Done
<1>18. ASSUME NEW s \in Slots, Mint(s) PROVE HandInv'
  BY <1>18 DEF Mint
<1>19. ASSUME NEW s \in Slots, MintFails(s) PROVE HandInv'
  BY <1>19 DEF MintFails, Done
<1>20. ASSUME NEW s \in Slots, Whoami(s) PROVE HandInv'
  BY <1>20 DEF Whoami, Done
<1>21. ASSUME NEW s \in Slots, NeedUser(s) PROVE HandInv'
  BY <1>21 DEF NeedUser, Done
<1>22. ASSUME NEW s \in Slots, SaveToken(s) PROVE HandInv'
  BY <1>22 DEF SaveToken
<1>23. ASSUME NEW s \in Slots, SaveTokenFails(s) PROVE HandInv'
  BY <1>23 DEF SaveTokenFails, Done
<1>24. ASSUME NEW s \in Slots, EnsureRunning(s) PROVE HandInv'
  BY <1>24 DEF EnsureRunning, Done
<1>25. ASSUME NEW s \in Slots, Logout(s) PROVE HandInv'
  BY <1>25 DEF Logout, Done
<1>26. ASSUME NEW s \in Slots, ActLookup(s) PROVE HandInv'
  BY <1>26 DEF ActLookup
<1>27. ASSUME NEW s \in Slots, Act(s) PROVE HandInv'
  BY <1>27 DEF Act, Done
<1>28. ASSUME NEW t \in Tokens, LoopRejected(t) PROVE HandInv'
  BY <1>28 DEF LoopRejected
<1>29. CASE LoopRemoved
  BY <1>29 DEF LoopRemoved
<1> QED
  BY <1>1, <1>2, <1>3, <1>4, <1>5, <1>6, <1>7, <1>8, <1>9, <1>10, <1>11,
     <1>12, <1>13, <1>14, <1>15, <1>16, <1>17, <1>18, <1>19, <1>20, <1>21,
     <1>22, <1>23, <1>24, <1>25, <1>26, <1>27, <1>28, <1>29
  DEF Next, Handle, Route, Loop

LEMMA TypeNext == TypeOK /\ HandInv /\ [Next]_vars => (TypeOK /\ HandInv)'
BY FlagsNext, DialogueNext, PuppetNext, SlotsNext, BudgetNext, HandNext
DEF TypeOK

\* Every reachable state of the login dialogue, the commands and the puppet
\* is well typed; StateStore holds exactly the answers its step is past.
THEOREM TypeCorrect == Spec => []TypeOK
<1> QED
  BY TypeInit, TypeNext, PTL DEF Spec

-----------------------------------------------------------------------------
(* Permission, requests, the dialogue.                                     *)

LEMMA PermitNext ==
    TypeOK /\ PermitInv /\ [Next]_vars => PermitInv'
<1> SUFFICES ASSUME TypeOK, PermitInv, [Next]_vars
             PROVE  PermitInv'
  OBVIOUS
<1> USE DEF TypeOK, FlagsOK, DialogueOK, SlotsOK, HandInv, PermitInv, Goto,
            NoLogin, dialogue, puppet, slots, history, budget
<1>1. CASE UNCHANGED vars
  BY <1>1 DEF vars
<1>2. ASSUME NEW s \in Slots, NEW k \in Kinds, Type(s, k) PROVE PermitInv'
  BY <1>2 DEF Type
<1>3. ASSUME NEW t \in Tokens, Revoke(t) PROVE PermitInv'
  BY <1>3 DEF Revoke
<1>4. CASE Expire
  BY <1>4 DEF Expire
<1>5. CASE Restart
  BY <1>5 DEF Restart
<1>6. ASSUME NEW s \in Slots, RouteCommand(s) PROVE PermitInv'
  BY <1>6 DEF RouteCommand, CommandStep
<1>7. ASSUME NEW s \in Slots, RouteLogin(s) PROVE PermitInv'
  BY <1>7 DEF RouteLogin, Ask
<1>8. ASSUME NEW s \in Slots, RouteNothing(s) PROVE PermitInv'
  BY <1>8 DEF RouteNothing
<1>9. ASSUME NEW s \in Slots, TakeEmail(s) PROVE PermitInv'
  BY <1>9 DEF TakeEmail, Ask
<1>10. ASSUME NEW s \in Slots, TakePassword(s) PROVE PermitInv'
  BY <1>10 DEF TakePassword
<1>11. ASSUME NEW s \in Slots, TakeUrl(s) PROVE PermitInv'
  BY <1>11 DEF TakeUrl
<1>12. ASSUME NEW s \in Slots, Redact(s) PROVE PermitInv'
  BY <1>12 DEF Redact
<1>13. ASSUME NEW s \in Slots, StorePassword(s) PROVE PermitInv'
  BY <1>13 DEF StorePassword, Ask
<1>14. ASSUME NEW s \in Slots, LoginSucceeds(s) PROVE PermitInv'
  BY <1>14 DEF LoginSucceeds
<1>15. ASSUME NEW s \in Slots, LoginFails(s) PROVE PermitInv'
  BY <1>15 DEF LoginFails, Done
<1>16. ASSUME NEW s \in Slots, ClearLogin(s) PROVE PermitInv'
  BY <1>16 DEF ClearLogin
<1>17. ASSUME NEW s \in Slots, AutoPuppet(s) PROVE PermitInv'
  BY <1>17 DEF AutoPuppet, Done
<1>18. ASSUME NEW s \in Slots, Mint(s) PROVE PermitInv'
  BY <1>18 DEF Mint
<1>19. ASSUME NEW s \in Slots, MintFails(s) PROVE PermitInv'
  BY <1>19 DEF MintFails, Done
<1>20. ASSUME NEW s \in Slots, Whoami(s) PROVE PermitInv'
  BY <1>20 DEF Whoami, Done
<1>21. ASSUME NEW s \in Slots, NeedUser(s) PROVE PermitInv'
  BY <1>21 DEF NeedUser, Done
<1>22. ASSUME NEW s \in Slots, SaveToken(s) PROVE PermitInv'
  BY <1>22 DEF SaveToken
<1>23. ASSUME NEW s \in Slots, SaveTokenFails(s) PROVE PermitInv'
  BY <1>23 DEF SaveTokenFails, Done
<1>24. ASSUME NEW s \in Slots, EnsureRunning(s) PROVE PermitInv'
  BY <1>24 DEF EnsureRunning, Done
<1>25. ASSUME NEW s \in Slots, Logout(s) PROVE PermitInv'
  BY <1>25 DEF Logout, Done
<1>26. ASSUME NEW s \in Slots, ActLookup(s) PROVE PermitInv'
  BY <1>26 DEF ActLookup
<1>27. ASSUME NEW s \in Slots, Act(s) PROVE PermitInv'
  BY <1>27 DEF Act, Done
<1>28. ASSUME NEW t \in Tokens, LoopRejected(t) PROVE PermitInv'
  BY <1>28 DEF LoopRejected
<1>29. CASE LoopRemoved
  BY <1>29 DEF LoopRemoved
<1> QED
  BY <1>1, <1>2, <1>3, <1>4, <1>5, <1>6, <1>7, <1>8, <1>9, <1>10, <1>11,
     <1>12, <1>13, <1>14, <1>15, <1>16, <1>17, <1>18, <1>19, <1>20, <1>21,
     <1>22, <1>23, <1>24, <1>25, <1>26, <1>27, <1>28, <1>29
  DEF Next, Handle, Route, Loop

LEMMA AloneNext ==
    TypeOK /\ AloneInv /\ [Next]_vars => AloneInv'
<1> SUFFICES ASSUME TypeOK, AloneInv, [Next]_vars
             PROVE  AloneInv'
  OBVIOUS
<1> USE DEF TypeOK, FlagsOK, DialogueOK, SlotsOK, HandInv, AloneInv, Goto,
            Quiet, Commands, dialogue, puppet, slots, history, budget
<1>1. CASE UNCHANGED vars
  BY <1>1 DEF vars
<1>2. ASSUME NEW s \in Slots, NEW k \in Kinds, Type(s, k) PROVE AloneInv'
  BY <1>2 DEF Type
<1>3. ASSUME NEW t \in Tokens, Revoke(t) PROVE AloneInv'
  BY <1>3 DEF Revoke
<1>4. CASE Expire
  BY <1>4 DEF Expire
<1>5. CASE Restart
  BY <1>5 DEF Restart
<1>6. ASSUME NEW s \in Slots, RouteCommand(s) PROVE AloneInv'
  BY <1>6 DEF RouteCommand, CommandStep
<1>7. ASSUME NEW s \in Slots, RouteLogin(s) PROVE AloneInv'
  BY <1>7 DEF RouteLogin, Ask
<1>8. ASSUME NEW s \in Slots, RouteNothing(s) PROVE AloneInv'
  BY <1>8 DEF RouteNothing
<1>9. ASSUME NEW s \in Slots, TakeEmail(s) PROVE AloneInv'
  BY <1>9 DEF TakeEmail, Ask
<1>10. ASSUME NEW s \in Slots, TakePassword(s) PROVE AloneInv'
  BY <1>10 DEF TakePassword
<1>11. ASSUME NEW s \in Slots, TakeUrl(s) PROVE AloneInv'
  BY <1>11 DEF TakeUrl
<1>12. ASSUME NEW s \in Slots, Redact(s) PROVE AloneInv'
  BY <1>12 DEF Redact
<1>13. ASSUME NEW s \in Slots, StorePassword(s) PROVE AloneInv'
  BY <1>13 DEF StorePassword, Ask
<1>14. ASSUME NEW s \in Slots, LoginSucceeds(s) PROVE AloneInv'
  BY <1>14 DEF LoginSucceeds
<1>15. ASSUME NEW s \in Slots, LoginFails(s) PROVE AloneInv'
  BY <1>15 DEF LoginFails, Done
<1>16. ASSUME NEW s \in Slots, ClearLogin(s) PROVE AloneInv'
  BY <1>16 DEF ClearLogin
<1>17. ASSUME NEW s \in Slots, AutoPuppet(s) PROVE AloneInv'
  BY <1>17 DEF AutoPuppet, Done
<1>18. ASSUME NEW s \in Slots, Mint(s) PROVE AloneInv'
  BY <1>18 DEF Mint
<1>19. ASSUME NEW s \in Slots, MintFails(s) PROVE AloneInv'
  BY <1>19 DEF MintFails, Done
<1>20. ASSUME NEW s \in Slots, Whoami(s) PROVE AloneInv'
  BY <1>20 DEF Whoami, Done
<1>21. ASSUME NEW s \in Slots, NeedUser(s) PROVE AloneInv'
  BY <1>21 DEF NeedUser, Done
<1>22. ASSUME NEW s \in Slots, SaveToken(s) PROVE AloneInv'
  BY <1>22 DEF SaveToken
<1>23. ASSUME NEW s \in Slots, SaveTokenFails(s) PROVE AloneInv'
  BY <1>23 DEF SaveTokenFails, Done
<1>24. ASSUME NEW s \in Slots, EnsureRunning(s) PROVE AloneInv'
  BY <1>24 DEF EnsureRunning, Done
<1>25. ASSUME NEW s \in Slots, Logout(s) PROVE AloneInv'
  BY <1>25 DEF Logout, Done
<1>26. ASSUME NEW s \in Slots, ActLookup(s) PROVE AloneInv'
  BY <1>26 DEF ActLookup
<1>27. ASSUME NEW s \in Slots, Act(s) PROVE AloneInv'
  BY <1>27 DEF Act, Done
<1>28. ASSUME NEW t \in Tokens, LoopRejected(t) PROVE AloneInv'
  BY <1>28 DEF LoopRejected
<1>29. CASE LoopRemoved
  BY <1>29 DEF LoopRemoved
<1> QED
  BY <1>1, <1>2, <1>3, <1>4, <1>5, <1>6, <1>7, <1>8, <1>9, <1>10, <1>11,
     <1>12, <1>13, <1>14, <1>15, <1>16, <1>17, <1>18, <1>19, <1>20, <1>21,
     <1>22, <1>23, <1>24, <1>25, <1>26, <1>27, <1>28, <1>29
  DEF Next, Handle, Route, Loop

LEMMA PromptNext ==
    TypeOK /\ HandInv /\ AloneInv /\ PromptInv /\ [Next]_vars => PromptInv'
<1> SUFFICES ASSUME TypeOK, HandInv, AloneInv, PromptInv, [Next]_vars
             PROVE  PromptInv'
  OBVIOUS
<1> USE DEF TypeOK, FlagsOK, DialogueOK, SlotsOK, HandInv, AloneInv,
            PromptInv, Goto, Quiet, NoLogin, Kinds, Answers, Commands,
            Nothing, dialogue, puppet, slots, history, budget
<1>1. CASE UNCHANGED vars
  BY <1>1 DEF vars
<1>2. ASSUME NEW s \in Slots, NEW k \in Kinds, Type(s, k) PROVE PromptInv'
  BY <1>2 DEF Type
<1>3. ASSUME NEW t \in Tokens, Revoke(t) PROVE PromptInv'
  BY <1>3 DEF Revoke
<1>4. CASE Expire
  BY <1>4 DEF Expire
<1>5. CASE Restart
  BY <1>5 DEF Restart
<1>6. ASSUME NEW s \in Slots, RouteCommand(s) PROVE PromptInv'
  BY <1>6 DEF RouteCommand, CommandStep
<1>7. ASSUME NEW s \in Slots, RouteLogin(s) PROVE PromptInv'
  BY <1>7 DEF RouteLogin, Ask
<1>8. ASSUME NEW s \in Slots, RouteNothing(s) PROVE PromptInv'
  BY <1>8 DEF RouteNothing
<1>9. ASSUME NEW s \in Slots, TakeEmail(s) PROVE PromptInv'
  BY <1>9 DEF TakeEmail, Ask
<1>10. ASSUME NEW s \in Slots, TakePassword(s) PROVE PromptInv'
  BY <1>10 DEF TakePassword
<1>11. ASSUME NEW s \in Slots, TakeUrl(s) PROVE PromptInv'
  BY <1>11 DEF TakeUrl
<1>12. ASSUME NEW s \in Slots, Redact(s) PROVE PromptInv'
  BY <1>12 DEF Redact
<1>13. ASSUME NEW s \in Slots, StorePassword(s) PROVE PromptInv'
  BY <1>13 DEF StorePassword, Ask
<1>14. ASSUME NEW s \in Slots, LoginSucceeds(s) PROVE PromptInv'
  BY <1>14 DEF LoginSucceeds
<1>15. ASSUME NEW s \in Slots, LoginFails(s) PROVE PromptInv'
  BY <1>15 DEF LoginFails, Done
<1>16. ASSUME NEW s \in Slots, ClearLogin(s) PROVE PromptInv'
  BY <1>16 DEF ClearLogin
<1>17. ASSUME NEW s \in Slots, AutoPuppet(s) PROVE PromptInv'
  BY <1>17 DEF AutoPuppet, Done
<1>18. ASSUME NEW s \in Slots, Mint(s) PROVE PromptInv'
  BY <1>18 DEF Mint
<1>19. ASSUME NEW s \in Slots, MintFails(s) PROVE PromptInv'
  BY <1>19 DEF MintFails, Done
<1>20. ASSUME NEW s \in Slots, Whoami(s) PROVE PromptInv'
  BY <1>20 DEF Whoami, Done
<1>21. ASSUME NEW s \in Slots, NeedUser(s) PROVE PromptInv'
  BY <1>21 DEF NeedUser, Done
<1>22. ASSUME NEW s \in Slots, SaveToken(s) PROVE PromptInv'
  BY <1>22 DEF SaveToken
<1>23. ASSUME NEW s \in Slots, SaveTokenFails(s) PROVE PromptInv'
  BY <1>23 DEF SaveTokenFails, Done
<1>24. ASSUME NEW s \in Slots, EnsureRunning(s) PROVE PromptInv'
  BY <1>24 DEF EnsureRunning, Done
<1>25. ASSUME NEW s \in Slots, Logout(s) PROVE PromptInv'
  BY <1>25 DEF Logout, Done
<1>26. ASSUME NEW s \in Slots, ActLookup(s) PROVE PromptInv'
  BY <1>26 DEF ActLookup
<1>27. ASSUME NEW s \in Slots, Act(s) PROVE PromptInv'
  BY <1>27 DEF Act, Done
<1>28. ASSUME NEW t \in Tokens, LoopRejected(t) PROVE PromptInv'
  BY <1>28 DEF LoopRejected
<1>29. CASE LoopRemoved
  BY <1>29 DEF LoopRemoved
<1> QED
  BY <1>1, <1>2, <1>3, <1>4, <1>5, <1>6, <1>7, <1>8, <1>9, <1>10, <1>11,
     <1>12, <1>13, <1>14, <1>15, <1>16, <1>17, <1>18, <1>19, <1>20, <1>21,
     <1>22, <1>23, <1>24, <1>25, <1>26, <1>27, <1>28, <1>29
  DEF Next, Handle, Route, Loop

LEMMA AnswerNext ==
      /\ TypeOK /\ HandInv /\ AloneInv /\ PromptInv /\ AnswerInv
      /\ [Next]_vars
    => AnswerInv'
<1> SUFFICES ASSUME TypeOK, HandInv, AloneInv, PromptInv, AnswerInv,
                    [Next]_vars
             PROVE  AnswerInv'
  OBVIOUS
<1> USE DEF TypeOK, FlagsOK, DialogueOK, SlotsOK, HandInv, AloneInv,
            PromptInv, AnswerInv, Genuine, Goto, Quiet, NoLogin, Kinds,
            Answers, Commands, Nothing, dialogue, puppet, slots, history,
            budget
<1>1. CASE UNCHANGED vars
  BY <1>1 DEF vars
<1>2. ASSUME NEW s \in Slots, NEW k \in Kinds, Type(s, k) PROVE AnswerInv'
  BY <1>2 DEF Type
<1>3. ASSUME NEW t \in Tokens, Revoke(t) PROVE AnswerInv'
  BY <1>3 DEF Revoke
<1>4. CASE Expire
  BY <1>4 DEF Expire
<1>5. CASE Restart
  BY <1>5 DEF Restart
<1>6. ASSUME NEW s \in Slots, RouteCommand(s) PROVE AnswerInv'
  BY <1>6 DEF RouteCommand, CommandStep
<1>7. ASSUME NEW s \in Slots, RouteLogin(s) PROVE AnswerInv'
  BY <1>7 DEF RouteLogin, Ask
<1>8. ASSUME NEW s \in Slots, RouteNothing(s) PROVE AnswerInv'
  BY <1>8 DEF RouteNothing
<1>9. ASSUME NEW s \in Slots, TakeEmail(s) PROVE AnswerInv'
  BY <1>9 DEF TakeEmail, Ask
<1>10. ASSUME NEW s \in Slots, TakePassword(s) PROVE AnswerInv'
  BY <1>10 DEF TakePassword
<1>11. ASSUME NEW s \in Slots, TakeUrl(s) PROVE AnswerInv'
  BY <1>11 DEF TakeUrl
<1>12. ASSUME NEW s \in Slots, Redact(s) PROVE AnswerInv'
  BY <1>12 DEF Redact
<1>13. ASSUME NEW s \in Slots, StorePassword(s) PROVE AnswerInv'
  BY <1>13 DEF StorePassword, Ask
<1>14. ASSUME NEW s \in Slots, LoginSucceeds(s) PROVE AnswerInv'
  BY <1>14 DEF LoginSucceeds
<1>15. ASSUME NEW s \in Slots, LoginFails(s) PROVE AnswerInv'
  BY <1>15 DEF LoginFails, Done
<1>16. ASSUME NEW s \in Slots, ClearLogin(s) PROVE AnswerInv'
  BY <1>16 DEF ClearLogin
<1>17. ASSUME NEW s \in Slots, AutoPuppet(s) PROVE AnswerInv'
  BY <1>17 DEF AutoPuppet, Done
<1>18. ASSUME NEW s \in Slots, Mint(s) PROVE AnswerInv'
  BY <1>18 DEF Mint
<1>19. ASSUME NEW s \in Slots, MintFails(s) PROVE AnswerInv'
  BY <1>19 DEF MintFails, Done
<1>20. ASSUME NEW s \in Slots, Whoami(s) PROVE AnswerInv'
  BY <1>20 DEF Whoami, Done
<1>21. ASSUME NEW s \in Slots, NeedUser(s) PROVE AnswerInv'
  BY <1>21 DEF NeedUser, Done
<1>22. ASSUME NEW s \in Slots, SaveToken(s) PROVE AnswerInv'
  BY <1>22 DEF SaveToken
<1>23. ASSUME NEW s \in Slots, SaveTokenFails(s) PROVE AnswerInv'
  BY <1>23 DEF SaveTokenFails, Done
<1>24. ASSUME NEW s \in Slots, EnsureRunning(s) PROVE AnswerInv'
  BY <1>24 DEF EnsureRunning, Done
<1>25. ASSUME NEW s \in Slots, Logout(s) PROVE AnswerInv'
  BY <1>25 DEF Logout, Done
<1>26. ASSUME NEW s \in Slots, ActLookup(s) PROVE AnswerInv'
  BY <1>26 DEF ActLookup
<1>27. ASSUME NEW s \in Slots, Act(s) PROVE AnswerInv'
  BY <1>27 DEF Act, Done
<1>28. ASSUME NEW t \in Tokens, LoopRejected(t) PROVE AnswerInv'
  BY <1>28 DEF LoopRejected
<1>29. CASE LoopRemoved
  BY <1>29 DEF LoopRemoved
<1> QED
  BY <1>1, <1>2, <1>3, <1>4, <1>5, <1>6, <1>7, <1>8, <1>9, <1>10, <1>11,
     <1>12, <1>13, <1>14, <1>15, <1>16, <1>17, <1>18, <1>19, <1>20, <1>21,
     <1>22, <1>23, <1>24, <1>25, <1>26, <1>27, <1>28, <1>29
  DEF Next, Handle, Route, Loop

LEMMA InvInit == Init => PermitInv /\ AloneInv /\ PromptInv /\ AnswerInv
BY DEF Init, PermitInv, AloneInv, PromptInv, AnswerInv, NoLogin

LEMMA ExposedNext ==
    TypeOK /\ PromptInv /\ ExposedInv /\ [Next]_vars => ExposedInv'
<1> SUFFICES ASSUME TypeOK, PromptInv, ExposedInv, [Next]_vars
             PROVE  ExposedInv'
  OBVIOUS
<1> USE DEF TypeOK, FlagsOK, DialogueOK, SlotsOK, PromptInv, ExposedInv,
            Quiet, Kinds, Answers, Commands, Nothing, dialogue, puppet,
            slots, history, budget
<1>1. CASE UNCHANGED vars
  BY <1>1 DEF vars
<1>2. ASSUME NEW s \in Slots, NEW k \in Kinds, Type(s, k) PROVE ExposedInv'
  BY <1>2 DEF Type
<1>3. ASSUME NEW t \in Tokens, Revoke(t) PROVE ExposedInv'
  BY <1>3 DEF Revoke
<1>4. CASE Expire
  BY <1>4 DEF Expire
<1>5. CASE Restart
  BY <1>5 DEF Restart
<1>6. ASSUME NEW s \in Slots, RouteCommand(s) PROVE ExposedInv'
  BY <1>6 DEF RouteCommand, CommandStep
<1>7. ASSUME NEW s \in Slots, RouteLogin(s) PROVE ExposedInv'
  BY <1>7 DEF RouteLogin, Ask
<1>8. ASSUME NEW s \in Slots, RouteNothing(s) PROVE ExposedInv'
  BY <1>8 DEF RouteNothing
<1>9. ASSUME NEW s \in Slots, TakeEmail(s) PROVE ExposedInv'
  BY <1>9 DEF TakeEmail, Ask
<1>10. ASSUME NEW s \in Slots, TakePassword(s) PROVE ExposedInv'
  BY <1>10 DEF TakePassword
<1>11. ASSUME NEW s \in Slots, TakeUrl(s) PROVE ExposedInv'
  BY <1>11 DEF TakeUrl
<1>12. ASSUME NEW s \in Slots, Redact(s) PROVE ExposedInv'
  <2>1. lapsed' = lapsed /\ upset' = upset
    BY <1>12 DEF Redact
  <2>2. \/ exposed' = exposed /\ refused' = refused
        \/ refused' = TRUE
    BY <1>12, Zenon DEF Redact, Redacted
  <2> QED
    BY <2>1, <2>2
<1>13. ASSUME NEW s \in Slots, StorePassword(s) PROVE ExposedInv'
  BY <1>13 DEF StorePassword, Ask
<1>14. ASSUME NEW s \in Slots, LoginSucceeds(s) PROVE ExposedInv'
  BY <1>14 DEF LoginSucceeds
<1>15. ASSUME NEW s \in Slots, LoginFails(s) PROVE ExposedInv'
  BY <1>15 DEF LoginFails, Done
<1>16. ASSUME NEW s \in Slots, ClearLogin(s) PROVE ExposedInv'
  BY <1>16 DEF ClearLogin
<1>17. ASSUME NEW s \in Slots, AutoPuppet(s) PROVE ExposedInv'
  BY <1>17 DEF AutoPuppet, Done
<1>18. ASSUME NEW s \in Slots, Mint(s) PROVE ExposedInv'
  BY <1>18 DEF Mint
<1>19. ASSUME NEW s \in Slots, MintFails(s) PROVE ExposedInv'
  BY <1>19 DEF MintFails, Done
<1>20. ASSUME NEW s \in Slots, Whoami(s) PROVE ExposedInv'
  BY <1>20 DEF Whoami, Done
<1>21. ASSUME NEW s \in Slots, NeedUser(s) PROVE ExposedInv'
  BY <1>21 DEF NeedUser, Done
<1>22. ASSUME NEW s \in Slots, SaveToken(s) PROVE ExposedInv'
  BY <1>22 DEF SaveToken
<1>23. ASSUME NEW s \in Slots, SaveTokenFails(s) PROVE ExposedInv'
  BY <1>23 DEF SaveTokenFails, Done
<1>24. ASSUME NEW s \in Slots, EnsureRunning(s) PROVE ExposedInv'
  BY <1>24 DEF EnsureRunning, Done
<1>25. ASSUME NEW s \in Slots, Logout(s) PROVE ExposedInv'
  BY <1>25 DEF Logout, Done
<1>26. ASSUME NEW s \in Slots, ActLookup(s) PROVE ExposedInv'
  BY <1>26 DEF ActLookup
<1>27. ASSUME NEW s \in Slots, Act(s) PROVE ExposedInv'
  BY <1>27 DEF Act, Done
<1>28. ASSUME NEW t \in Tokens, LoopRejected(t) PROVE ExposedInv'
  BY <1>28 DEF LoopRejected
<1>29. CASE LoopRemoved
  BY <1>29 DEF LoopRemoved
<1> QED
  BY <1>1, <1>2, <1>3, <1>4, <1>5, <1>6, <1>7, <1>8, <1>9, <1>10, <1>11,
     <1>12, <1>13, <1>14, <1>15, <1>16, <1>17, <1>18, <1>19, <1>20, <1>21,
     <1>22, <1>23, <1>24, <1>25, <1>26, <1>27, <1>28, <1>29
  DEF Next, Handle, Route, Loop

LEMMA ActsNext ==
    FlagsOK /\ SlotsOK /\ AloneInv /\ ActsInSession /\ [Next]_vars
        => ActsInSession'
<1> SUFFICES ASSUME FlagsOK, SlotsOK, AloneInv, ActsInSession, [Next]_vars
             PROVE  ActsInSession'
  OBVIOUS
<1> USE DEF FlagsOK, SlotsOK, AloneInv, ActsInSession, dialogue, puppet,
            slots, history, budget
<1>1. CASE UNCHANGED vars
  BY <1>1 DEF vars
<1>2. ASSUME NEW s \in Slots, NEW k \in Kinds, Type(s, k) PROVE ActsInSession'
  BY <1>2 DEF Type
<1>3. ASSUME NEW t \in Tokens, Revoke(t) PROVE ActsInSession'
  BY <1>3 DEF Revoke
<1>4. CASE Expire
  BY <1>4 DEF Expire
<1>5. CASE Restart
  BY <1>5 DEF Restart
<1>6. ASSUME NEW s \in Slots, RouteCommand(s) PROVE ActsInSession'
  BY <1>6 DEF RouteCommand, CommandStep
<1>7. ASSUME NEW s \in Slots, RouteLogin(s) PROVE ActsInSession'
  <2>1. upset => upset'
    BY <1>7, Zenon DEF RouteLogin, Ask
  <2> QED
    BY <1>7, <2>1 DEF RouteLogin
<1>8. ASSUME NEW s \in Slots, RouteNothing(s) PROVE ActsInSession'
  BY <1>8 DEF RouteNothing
<1>9. ASSUME NEW s \in Slots, TakeEmail(s) PROVE ActsInSession'
  <2>1. upset => upset'
    BY <1>9, Zenon DEF TakeEmail, Ask
  <2> QED
    BY <1>9, <2>1 DEF TakeEmail
<1>10. ASSUME NEW s \in Slots, TakePassword(s) PROVE ActsInSession'
  BY <1>10 DEF TakePassword
<1>11. ASSUME NEW s \in Slots, TakeUrl(s) PROVE ActsInSession'
  BY <1>11 DEF TakeUrl
<1>12. ASSUME NEW s \in Slots, Redact(s) PROVE ActsInSession'
  BY <1>12 DEF Redact
<1>13. ASSUME NEW s \in Slots, StorePassword(s) PROVE ActsInSession'
  <2>1. upset => upset'
    BY <1>13, Zenon DEF StorePassword, Ask
  <2> QED
    BY <1>13, <2>1 DEF StorePassword
<1>14. ASSUME NEW s \in Slots, LoginSucceeds(s) PROVE ActsInSession'
  BY <1>14 DEF LoginSucceeds
<1>15. ASSUME NEW s \in Slots, LoginFails(s) PROVE ActsInSession'
  BY <1>15 DEF LoginFails, Done
<1>16. ASSUME NEW s \in Slots, ClearLogin(s) PROVE ActsInSession'
  BY <1>16 DEF ClearLogin
<1>17. ASSUME NEW s \in Slots, AutoPuppet(s) PROVE ActsInSession'
  BY <1>17 DEF AutoPuppet, Done
<1>18. ASSUME NEW s \in Slots, Mint(s) PROVE ActsInSession'
  BY <1>18 DEF Mint
<1>19. ASSUME NEW s \in Slots, MintFails(s) PROVE ActsInSession'
  BY <1>19 DEF MintFails, Done
<1>20. ASSUME NEW s \in Slots, Whoami(s) PROVE ActsInSession'
  BY <1>20 DEF Whoami, Done
<1>21. ASSUME NEW s \in Slots, NeedUser(s) PROVE ActsInSession'
  BY <1>21 DEF NeedUser, Done
<1>22. ASSUME NEW s \in Slots, SaveToken(s) PROVE ActsInSession'
  BY <1>22 DEF SaveToken
<1>23. ASSUME NEW s \in Slots, SaveTokenFails(s) PROVE ActsInSession'
  BY <1>23 DEF SaveTokenFails, Done
<1>24. ASSUME NEW s \in Slots, EnsureRunning(s) PROVE ActsInSession'
  BY <1>24 DEF EnsureRunning, Done
<1>25. ASSUME NEW s \in Slots, Logout(s) PROVE ActsInSession'
  BY <1>25 DEF Logout, Done
<1>26. ASSUME NEW s \in Slots, ActLookup(s) PROVE ActsInSession'
  BY <1>26 DEF ActLookup
<1>27. ASSUME NEW s \in Slots, Act(s) PROVE ActsInSession'
  BY <1>27 DEF Act, Done
<1>28. ASSUME NEW t \in Tokens, LoopRejected(t) PROVE ActsInSession'
  BY <1>28 DEF LoopRejected
<1>29. CASE LoopRemoved
  BY <1>29 DEF LoopRemoved
<1> QED
  BY <1>1, <1>2, <1>3, <1>4, <1>5, <1>6, <1>7, <1>8, <1>9, <1>10, <1>11,
     <1>12, <1>13, <1>14, <1>15, <1>16, <1>17, <1>18, <1>19, <1>20, <1>21,
     <1>22, <1>23, <1>24, <1>25, <1>26, <1>27, <1>28, <1>29
  DEF Next, Handle, Route, Loop

LEMMA Invariance ==
    Spec => [](TypeOK /\ Inv /\ ActsInSession)
<1>1. Init => TypeOK /\ Inv /\ ActsInSession
  BY TypeInit, InvInit DEF Inv, Init, ExposedInv, ActsInSession
<1>2. TypeOK /\ Inv /\ ActsInSession /\ [Next]_vars
          => (TypeOK /\ Inv /\ ActsInSession)'
  BY TypeNext, PermitNext, AloneNext, PromptNext, AnswerNext, ExposedNext,
     ActsNext DEF TypeOK, Inv
<1> QED
  BY <1>1, <1>2, PTL DEF Spec

\* A user who answers what the bot asks logs in with their own address,
\* password and URL, and their password is redacted unless the dialogue had
\* lapsed or redact_event failed, for any number of requests, messages,
\* expiries, restarts and failures (handle_login_waiting_for_email,
\* _password, _url).
THEOREM DialogueIsKept == Spec => []LoginDialogue
<1>1. Inv => LoginDialogue
  BY DEF Inv, AnswerInv, ExposedInv, LoginDialogue
<1> QED
  BY <1>1, Invariance, PTL

\* A command acts with a session that has ended only when requests overlap
\* (get_client, and the handlers that use the client).
THEOREM CommandsActInSession == Spec => []ActsInSession
<1> QED
  BY Invariance, PTL

\* A session begins only while the sender has a permission entry, although
\* handle_login_none is the only place that looks for it.
THEOREM DeniedGainNothing == Spec => DeniedGainsNothing
<1>1. FlagsOK /\ PermitInv /\ [Next]_vars
          => [session' /\ ~session => permitted]_vars
  <2> SUFFICES ASSUME FlagsOK, PermitInv, Next, session', ~session
               PROVE  permitted
    OBVIOUS
  <2> USE DEF FlagsOK, PermitInv
  <2>1. \E s \in Slots : LoginSucceeds(s)
    BY DEF Next, Handle, Route, Loop, Type, Revoke, Expire, Restart,
       RouteCommand, RouteLogin, RouteNothing, TakeEmail, TakePassword,
       TakeUrl, Redact, StorePassword, LoginFails, ClearLogin, AutoPuppet,
       Mint, MintFails, Whoami, NeedUser, SaveToken, SaveTokenFails,
       EnsureRunning, Logout, ActLookup, Act, LoopRejected, LoopRemoved
  <2> QED
    BY <2>1 DEF LoginSucceeds
<1>2. Spec => [](FlagsOK /\ PermitInv)
  BY Invariance, PTL DEF TypeOK, Inv
<1> QED
  BY <1>1, <1>2, PTL DEF Spec, DeniedGainsNothing

=============================================================================
