---------------------------- MODULE BotCommands -----------------------------
(***************************************************************************)
(* What one user types to the bridge outside the email rooms: the login    *)
(* dialogue and its expiry, the command router and its permission gate,    *)
(* login-matrix and the double-puppet loop it starts.                      *)
(*                                                                         *)
(* A message is what the user meant by it: a command, or the answer to a   *)
(* prompt of the dialogue.  The bridge only sees text, and takes it for    *)
(* what the dialogue waits for.  A slot is a request being served; two are *)
(* at work when the homeserver gave up on the first (see Transactions).    *)
(* ClientManager::login and logout are one step here (see Sessions).       *)
(***************************************************************************)
EXTENDS Naturals, FiniteSets

CONSTANTS
    Slots,        \* requests that can be served at the same time
    SharedSecret, \* a double_puppet_secret is configured
    MaxMsgs,      \* bound: messages the user types
    MaxTokens,    \* bound: access tokens the homeserver issues
    MaxFaults     \* bound: failed calls, restarts, expiries, revocations

ASSUME BotAssumption ==
    /\ SharedSecret \in BOOLEAN
    /\ MaxMsgs \in Nat /\ MaxTokens \in Nat /\ MaxFaults \in Nat

\* What the dialogue can wait for, in order; "none" is LoginState::None.
Answers  == {"email", "password", "url"}
\* Commands: "login" starts the dialogue, "oneshot" is !login with its three
\* arguments, "act" is one that uses the JMAP client (sync, !email, !compose,
\* a reply).
Commands == {"login", "oneshot", "login_matrix", "logout", "act"}
Kinds    == Answers \cup Commands
Nothing  == "nothing"
NoToken  == 0
Tokens   == 1..MaxTokens

VARIABLES
    \* --- memory of the bridge
    login_state,  \* [step, email, password] of the StateStore
    running,      \* the user is in PuppetManager.running
    loops,        \* tokens of the auto-accept loops that run
    \* --- the store
    session,      \* the user row has credentials and a client is in the map
    puppet_token, \* the stored double-puppet token, or NoToken
    \* --- the operator's configuration
    permitted,    \* level_for grants the user a level
    \* --- the homeserver
    valid,        \* access tokens that are accepted
    issued,       \* access tokens issued so far
    \* --- the requests being served
    pc,           \* [Slots -> Steps]
    msg,          \* [Slots -> Kinds]: the message
    email,        \* [Slots -> ...]: the answers the handler has in hand
    password,
    tok,          \* [Slots -> 0..MaxTokens]: the token it has in hand
    \* --- the user
    prompt,       \* what the bot last asked for
    \* --- history: never read by the code
    upset,        \* requests overlapped, or a prompt was lost
    strayed,      \* the user typed something else than the bot asked for
    lapsed,       \* a dialogue ended under the user: expiry, restart
    exposed,      \* a password was handled and never redacted
    refused,      \* a call to redact credentials failed
    orphaned,     \* an effect came after the session it used had ended
    declined,     \* no loop was started for the stored token
    msgs, faults

dialogue == <<login_state, prompt>>
puppet   == <<running, loops, puppet_token, valid, issued>>
slots    == <<pc, msg, email, password, tok>>
history  == <<upset, strayed, lapsed, exposed, refused, orphaned, declined>>
budget   == <<msgs, faults>>

vars == <<dialogue, puppet, session, permitted, slots, history,
          budget>>

Steps == {"idle", "route", "redact", "store", "attempt", "clear", "auto",
          "mint", "whoami", "user", "save", "ensure", "logout", "act", "work"}

NoLogin == [step |-> "none", email |-> Nothing, password |-> Nothing]

Init ==
    /\ login_state = NoLogin /\ prompt = "none"
    /\ running = FALSE /\ loops = {}
    /\ puppet_token = NoToken /\ valid = {} /\ issued = 0
    /\ session = FALSE
    /\ permitted \in BOOLEAN
    /\ pc = [s \in Slots |-> "idle"]
    /\ msg = [s \in Slots |-> "login"]
    /\ email = [s \in Slots |-> Nothing]
    /\ password = [s \in Slots |-> Nothing]
    /\ tok = [s \in Slots |-> NoToken]
    /\ upset = FALSE /\ strayed = FALSE /\ lapsed = FALSE
    /\ exposed = FALSE /\ refused = FALSE
    /\ orphaned = FALSE /\ declined = FALSE
    /\ msgs = 0 /\ faults = 0

Goto(s, step) == pc' = [pc EXCEPT ![s] = step]

Fault == faults < MaxFaults /\ faults' = faults + 1

\* The bot asks: notify is best effort, so the prompt may never arrive.
Ask(p) ==
    \/ prompt' = p /\ UNCHANGED <<upset, faults>>
    \/ Fault /\ upset' = TRUE /\ UNCHANGED prompt

Quiet == \A s \in Slots : pc[s] = "idle"

-----------------------------------------------------------------------------
(* The user, the operator and the homeserver.                              *)

\* The user answers the prompt or types a command; login-matrix comes with a
\* token of theirs.
Type(s, k) ==
    /\ pc[s] = "idle" /\ msgs < MaxMsgs
    /\ k \in Commands \/ k = prompt
    /\ IF k = "login_matrix"
         THEN /\ issued < MaxTokens /\ issued' = issued + 1
              /\ valid' = valid \cup {issued + 1}
              /\ tok' = [tok EXCEPT ![s] = issued + 1]
         ELSE UNCHANGED <<issued, valid, tok>>
    /\ msg' = [msg EXCEPT ![s] = k]
    /\ Goto(s, "route")
    /\ upset' = (upset \/ ~Quiet)
    /\ strayed' = (strayed \/ (prompt # "none" /\ k # prompt))
    /\ msgs' = msgs + 1
    /\ UNCHANGED <<dialogue, running, loops, puppet_token, session,
                   permitted, email, password, lapsed, exposed, refused,
                   orphaned, declined, faults>>

\* A token stops being accepted: the device was logged out.
Revoke(t) ==
    /\ Fault
    /\ t \in valid /\ valid' = valid \ {t}
    /\ UNCHANGED <<dialogue, running, loops, puppet_token, issued, session,
                   permitted, slots, history, msgs>>

\* LOGIN_STATE_TTL_SECS without an answer: get_login_state reports none and
\* cleanup_expired removes the entry.
Expire ==
    /\ Fault
    /\ login_state.step # "none" /\ login_state' = NoLogin
    /\ lapsed' = TRUE
    /\ UNCHANGED <<prompt, puppet, session, permitted, slots, upset,
                   strayed, exposed, refused, orphaned, declined, msgs>>

\* The bridge restarts, with the permissions of the day.  Sessions resume
\* from the store, and so does the puppet of a user with credentials.
Restart ==
    /\ Fault
    /\ permitted' \in BOOLEAN
    /\ lapsed' = (lapsed \/ login_state # NoLogin \/ ~Quiet)
    /\ exposed' = \/ exposed
                  \/ \E s \in Slots : /\ pc[s] \in {"route", "redact"}
                                     /\ msg[s] = "password"
    /\ login_state' = NoLogin
    /\ pc' = [s \in Slots |-> "idle"]
    /\ email' = [s \in Slots |-> Nothing]
    /\ password' = [s \in Slots |-> Nothing]
    /\ tok' = [s \in Slots |-> NoToken]
    /\ running' = (session /\ puppet_token # NoToken)
    /\ loops' = IF session THEN {puppet_token} \ {NoToken} ELSE {}
    /\ UNCHANGED <<prompt, puppet_token, valid, issued, session, msg, upset,
                   strayed, refused, orphaned, declined, msgs>>

-----------------------------------------------------------------------------
(* Routing: process_transaction, handle_login_none, CommandRouter.         *)

\* Where the router sends a command.
CommandStep(k) ==
    CASE k \in {"oneshot", "login_matrix"} -> "redact"
      [] k \in {"logout", "act"}           -> k

\* No dialogue: the permission gate, then the first command that matches;
\* text that is no command is left alone.
RouteCommand(s) ==
    /\ pc[s] = "route" /\ login_state.step = "none"
    /\ permitted /\ msg[s] \in Commands \ {"login"}
    /\ Goto(s, CommandStep(msg[s]))
    /\ UNCHANGED <<dialogue, puppet, session, permitted, msg, email,
                   password, tok, history, budget>>

\* Mutant: the sender's level is not looked at.
RouteLoginAnyone(s) ==
    /\ pc[s] = "route" /\ login_state.step = "none"
    /\ msg[s] = "login"
    /\ login_state' = [NoLogin EXCEPT !.step = "email"]
    /\ Ask("email")
    /\ strayed' = FALSE
    /\ Goto(s, "idle")
    /\ UNCHANGED <<puppet, session, permitted, msg, email, password, tok,
                   lapsed, exposed, refused, orphaned, declined, msgs>>

\* login: the dialogue starts over.
RouteLogin(s) ==
    /\ pc[s] = "route" /\ login_state.step = "none"
    /\ permitted /\ msg[s] = "login"
    /\ login_state' = [NoLogin EXCEPT !.step = "email"]
    /\ Ask("email")
    /\ strayed' = FALSE
    /\ Goto(s, "idle")
    /\ UNCHANGED <<puppet, session, permitted, msg, email, password, tok,
                   lapsed, exposed, refused, orphaned, declined, msgs>>

\* Refused, or no command: nothing happens to the message.
RouteNothing(s) ==
    /\ pc[s] = "route" /\ login_state.step = "none"
    /\ ~permitted \/ msg[s] \in Answers
    /\ exposed' = (exposed \/ msg[s] = "password")
    /\ Goto(s, "idle")
    /\ UNCHANGED <<dialogue, puppet, session, permitted, msg, email,
                   password, tok, upset, strayed, lapsed, refused, orphaned,
                   declined, budget>>

\* handle_login_waiting_for_email: whatever was typed is the address.
TakeEmail(s) ==
    /\ pc[s] = "route" /\ login_state.step = "email"
    /\ login_state' = [step |-> "password", email |-> msg[s],
                       password |-> Nothing]
    /\ Ask("password")
    /\ exposed' = (exposed \/ msg[s] = "password")
    /\ Goto(s, "idle")
    /\ UNCHANGED <<puppet, session, permitted, msg, email, password, tok,
                   strayed, lapsed, refused, orphaned, declined, msgs>>

\* handle_login_waiting_for_password, with the address of the state it was
\* routed by.
TakePassword(s) ==
    /\ pc[s] = "route" /\ login_state.step = "password"
    /\ email' = [email EXCEPT ![s] = login_state.email]
    /\ Goto(s, "redact")
    /\ UNCHANGED <<dialogue, puppet, session, permitted, msg, password, tok,
                   history, budget>>

\* Mutant: the address and the password change places.
TakeUrlSwapped(s) ==
    /\ pc[s] = "route" /\ login_state.step = "url"
    /\ email' = [email EXCEPT ![s] = login_state.password]
    /\ password' = [password EXCEPT ![s] = login_state.email]
    /\ exposed' = (exposed \/ msg[s] = "password")
    /\ Goto(s, "attempt")
    /\ UNCHANGED <<dialogue, puppet, session, permitted, msg, tok, upset,
                   strayed, lapsed, refused, orphaned, declined, budget>>

\* handle_login_waiting_for_url.
TakeUrl(s) ==
    /\ pc[s] = "route" /\ login_state.step = "url"
    /\ email' = [email EXCEPT ![s] = login_state.email]
    /\ password' = [password EXCEPT ![s] = login_state.password]
    /\ exposed' = (exposed \/ msg[s] = "password")
    /\ Goto(s, "attempt")
    /\ UNCHANGED <<dialogue, puppet, session, permitted, msg, tok, upset,
                   strayed, lapsed, refused, orphaned, declined, budget>>

-----------------------------------------------------------------------------
(* The login itself.                                                       *)

\* redact_event: the homeserver redacts, or the call fails and the message
\* stays as it is ...
Redacted(s) ==
    \/ UNCHANGED <<exposed, refused, faults>>
    \/ /\ Fault
       /\ refused' = TRUE
       /\ exposed' = (exposed \/ msg[s] = "password")

\* ... and on either outcome a password is kept, !login goes on to log in,
\* login-matrix asks whose token it is.
Redact(s) ==
    /\ pc[s] = "redact"
    /\ Redacted(s)
    /\ Goto(s, IF email[s] # Nothing THEN "store"
               ELSE IF msg[s] = "oneshot" THEN "attempt" ELSE "whoami")
    /\ UNCHANGED <<dialogue, puppet, session, permitted, msg, email,
                   password, tok, upset, strayed, lapsed, orphaned, declined,
                   msgs>>

\* Mutant: the address is not carried over.
StorePasswordOnly(s) ==
    /\ pc[s] = "store"
    /\ login_state' = [step |-> "url", email |-> Nothing,
                       password |-> msg[s]]
    /\ email' = [email EXCEPT ![s] = Nothing]
    /\ Ask("url")
    /\ Goto(s, "idle")
    /\ UNCHANGED <<puppet, session, permitted, msg, password, tok, strayed,
                   lapsed, exposed, refused, orphaned, declined, msgs>>

StorePassword(s) ==
    /\ pc[s] = "store"
    /\ login_state' = [step |-> "url", email |-> email[s],
                       password |-> msg[s]]
    /\ email' = [email EXCEPT ![s] = Nothing]
    /\ Ask("url")
    /\ Goto(s, "idle")
    /\ UNCHANGED <<puppet, session, permitted, msg, password, tok, strayed,
                   lapsed, exposed, refused, orphaned, declined, msgs>>

\* The handler ends.
Done(s) ==
    /\ Goto(s, "idle")
    /\ email' = [email EXCEPT ![s] = Nothing]
    /\ password' = [password EXCEPT ![s] = Nothing]
    /\ tok' = [tok EXCEPT ![s] = NoToken]

\* What the mail server is given is what it asks for.
Genuine(s) ==
    \/ msg[s] = "oneshot"
    \/ email[s] = "email" /\ password[s] = "password" /\ msg[s] = "url"

\* ClientManager::login.  A success goes on to the double puppet; the
\* dialogue is cleared first, on either outcome.
LoginSucceeds(s) ==
    /\ pc[s] = "attempt" /\ Genuine(s)
    /\ session' = TRUE
    /\ Goto(s, IF msg[s] = "oneshot" THEN "auto" ELSE "clear")
    /\ UNCHANGED <<dialogue, puppet, permitted, msg, email, password, tok,
                   history, budget>>

LoginFails(s) ==
    /\ pc[s] = "attempt"
    /\ IF Genuine(s) THEN Fault ELSE UNCHANGED faults
    /\ Done(s)
    /\ IF msg[s] = "oneshot" THEN UNCHANGED dialogue
         ELSE login_state' = NoLogin /\ prompt' = "none"
    /\ UNCHANGED <<puppet, session, permitted, msg, history, msgs>>

ClearLogin(s) ==
    /\ pc[s] = "clear"
    /\ login_state' = NoLogin /\ prompt' = "none"
    /\ Goto(s, "auto")
    /\ UNCHANGED <<puppet, session, permitted, msg, email, password, tok,
                   history, budget>>

-----------------------------------------------------------------------------
(* The double puppet.                                                      *)

\* try_auto_double_puppet: with a shared secret, unless a token is stored.
AutoPuppet(s) ==
    /\ pc[s] = "auto"
    /\ IF SharedSecret /\ puppet_token = NoToken
         THEN Goto(s, "mint") /\ UNCHANGED <<email, password, tok>>
         ELSE Done(s)
    /\ declined' = (declined \/ (puppet_token # NoToken /\ ~running))
    /\ UNCHANGED <<dialogue, puppet, session, permitted, msg, upset,
                   strayed, lapsed, exposed, refused, orphaned, budget>>

\* mint_via_shared_secret.
Mint(s) ==
    /\ pc[s] = "mint"
    /\ issued < MaxTokens /\ issued' = issued + 1
    /\ valid' = valid \cup {issued + 1}
    /\ tok' = [tok EXCEPT ![s] = issued + 1]
    /\ Goto(s, "save")
    /\ UNCHANGED <<dialogue, running, loops, puppet_token, session,
                   permitted, msg, email, password, history, budget>>

MintFails(s) ==
    /\ pc[s] = "mint"
    /\ Done(s)
    /\ UNCHANGED <<dialogue, puppet, session, permitted, msg, history,
                   budget>>

\* login-matrix: the token must be accepted and the user logged in.
Whoami(s) ==
    /\ pc[s] = "whoami"
    /\ IF tok[s] \in valid
         THEN Goto(s, "user") /\ UNCHANGED <<email, password, tok>>
         ELSE Done(s)
    /\ UNCHANGED <<dialogue, puppet, session, permitted, msg, history,
                   budget>>

NeedUser(s) ==
    /\ pc[s] = "user"
    /\ IF session
         THEN Goto(s, "save") /\ UNCHANGED <<email, password, tok>>
         ELSE Done(s)
    /\ UNCHANGED <<dialogue, puppet, session, permitted, msg, history,
                   budget>>

\* set_matrix_puppet_token replaces the token of before.
SaveToken(s) ==
    /\ pc[s] = "save"
    /\ puppet_token' = tok[s]
    /\ Goto(s, "ensure")
    /\ UNCHANGED <<dialogue, running, loops, valid, issued, session,
                   permitted, msg, email, password, tok, history, budget>>

SaveTokenFails(s) ==
    /\ pc[s] = "save" /\ Fault
    /\ Done(s)
    /\ UNCHANGED <<dialogue, puppet, session, permitted, msg, history, msgs>>

\* Mutant: the answer of the set's insert is taken the wrong way round.
EnsureInverted(s) ==
    /\ pc[s] = "ensure"
    /\ running' = TRUE
    /\ loops' = IF running THEN loops \cup {tok[s]} ELSE loops
    /\ declined' = (declined \/ (running /\ loops # {tok[s]}))
    /\ Done(s)
    /\ UNCHANGED <<dialogue, puppet_token, valid, issued, session,
                   permitted, msg, upset, strayed, lapsed, exposed, refused,
                   orphaned, budget>>

\* ensure_running: a user in the set keeps the loop they have, with the
\* token it has.
EnsureRunning(s) ==
    /\ pc[s] = "ensure"
    /\ running' = TRUE
    /\ loops' = IF running THEN loops ELSE loops \cup {tok[s]}
    /\ declined' = (declined \/ (running /\ loops # {tok[s]}))
    /\ Done(s)
    /\ UNCHANGED <<dialogue, puppet_token, valid, issued, session,
                   permitted, msg, upset, strayed, lapsed, exposed, refused,
                   orphaned, budget>>

\* run_auto_accept: a /sync answered 401 ends the loop ...
LoopRejected(t) ==
    /\ t \in loops \ valid
    /\ loops' = loops \ {t}
    /\ UNCHANGED <<dialogue, running, puppet_token, valid, issued, session,
                   permitted, slots, history, budget>>

\* ... and then the user leaves the set.
LoopRemoved ==
    /\ running /\ loops = {}
    /\ running' = FALSE
    /\ UNCHANGED <<dialogue, loops, puppet_token, valid, issued, session,
                   permitted, slots, history, budget>>

-----------------------------------------------------------------------------
(* The other commands.                                                     *)

\* logout blanks the credentials; the puppet is a lifecycle of its own.
Logout(s) ==
    /\ pc[s] = "logout"
    /\ session' = FALSE
    /\ Done(s)
    /\ UNCHANGED <<dialogue, puppet, permitted, msg, history, budget>>

\* Mutant: the client is not looked up.
ActUnchecked(s) ==
    /\ pc[s] = "act"
    /\ Goto(s, "work")
    /\ UNCHANGED <<dialogue, puppet, session, permitted, msg, email,
                   password, tok, history, budget>>

\* sync, !email, !compose, a reply: get_client first ("You are not logged
\* in"), and then the work, with that client.
ActLookup(s) ==
    /\ pc[s] = "act"
    /\ Goto(s, IF session THEN "work" ELSE "idle")
    /\ UNCHANGED <<dialogue, puppet, session, permitted, msg, email,
                   password, tok, history, budget>>

Act(s) ==
    /\ pc[s] = "work"
    /\ orphaned' = (orphaned \/ ~session)
    /\ Done(s)
    /\ UNCHANGED <<dialogue, puppet, session, permitted, msg, upset,
                   strayed, lapsed, exposed, refused, declined, budget>>

-----------------------------------------------------------------------------
Route(s) ==
    \/ RouteCommand(s) \/ RouteLogin(s) \/ RouteNothing(s)
    \/ TakeEmail(s) \/ TakePassword(s) \/ TakeUrl(s)

Handle(s) ==
    \/ Route(s) \/ Redact(s) \/ StorePassword(s)
    \/ LoginSucceeds(s) \/ LoginFails(s) \/ ClearLogin(s)
    \/ AutoPuppet(s) \/ Mint(s) \/ MintFails(s) \/ Whoami(s) \/ NeedUser(s)
    \/ SaveToken(s) \/ EnsureRunning(s)
    \/ Logout(s) \/ ActLookup(s) \/ Act(s)

Loop == LoopRemoved \/ \E t \in Tokens : LoopRejected(t)

Next ==
    \/ \E s \in Slots, k \in Kinds : Type(s, k)
    \/ \E s \in Slots : Handle(s) \/ SaveTokenFails(s)
    \/ Loop
    \/ \E t \in Tokens : Revoke(t)
    \/ Expire \/ Restart

Spec == Init /\ [][Next]_vars

\* Handlers and loops are polled until they end.
FairSpec ==
    Spec /\ WF_vars(Loop) /\ \A s \in Slots : WF_vars(Handle(s))

-----------------------------------------------------------------------------
(* Properties.                                                             *)

DialogueOK ==
    /\ login_state.step \in Answers \cup {"none"}
    /\ login_state.email \in Kinds <=> login_state.step \in {"password", "url"}
    /\ login_state.password \in Kinds <=> login_state.step = "url"
    /\ prompt \in Answers \cup {"none"}

FlagsOK ==
    /\ running \in BOOLEAN /\ session \in BOOLEAN /\ permitted \in BOOLEAN
    /\ upset \in BOOLEAN /\ strayed \in BOOLEAN /\ lapsed \in BOOLEAN
    /\ exposed \in BOOLEAN /\ refused \in BOOLEAN
    /\ orphaned \in BOOLEAN /\ declined \in BOOLEAN

PuppetOK ==
    /\ loops \subseteq Tokens /\ puppet_token \in 0..MaxTokens
    /\ valid \subseteq Tokens /\ issued \in 0..MaxTokens

SlotsOK ==
    /\ pc \in [Slots -> Steps] /\ msg \in [Slots -> Kinds]
    /\ email \in [Slots -> Kinds \cup {Nothing}]
    /\ password \in [Slots -> Kinds \cup {Nothing}]
    /\ tok \in [Slots -> 0..MaxTokens]

BudgetOK == msgs \in 0..MaxMsgs /\ faults \in 0..MaxFaults

\* Types; and the login state has exactly the answers its step is past.
TypeOK == DialogueOK /\ FlagsOK /\ PuppetOK /\ SlotsOK /\ BudgetOK

\* A user who answers what the bot asks logs in with their address, their
\* password and their URL, whatever expires or restarts in between, and the
\* password is redacted unless the dialogue had ended before it came or the
\* redaction failed, which the handlers do not look at; only overlapping
\* requests, or a prompt that never came, mix them up (the three
\* handle_login_waiting handlers, redact_event).
LoginDialogue ==
    /\ \A s \in Slots : pc[s] = "attempt" /\ ~upset /\ ~strayed => Genuine(s)
    /\ exposed => lapsed \/ refused \/ upset

\* No one gains a session without a permission entry at the time, however
\* dialogues and restarts with new permissions follow each other
\* (handle_login_none is the only place that looks).  This is about what a
\* user types: the operator's own logins at start-up (main.rs) ask nobody.
DeniedGainsNothing == [][session' /\ ~session => permitted]_vars

\* A command never acts on a session that has ended, unless requests
\* overlap: between get_client and the use of the client nothing looks.
ActsInSession == orphaned => upset

\* A stored token that is accepted leads to a loop that uses an accepted
\* one, unless the bridge declined to start it: ensure_running, because the
\* loop of another token had not ended; try_auto_double_puppet, because a
\* token was stored.
PuppetFollowsToken ==
    (puppet_token \in valid) ~>
        \/ loops \cap valid # {} \/ puppet_token \notin valid
        \/ ~session \/ declined
=============================================================================
