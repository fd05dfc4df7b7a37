------------------------------- MODULE SignIn -------------------------------
(***************************************************************************)
(* Signing in: the login card of the new client (features/auth), the login *)
(* page of the old one (routes/account/login) and the server's two         *)
(* endpoints (routers/login.py).  A page begins a login session with the   *)
(* name of the account, and answers one or two challenges of it; requests  *)
(* of a page are handled in any order, and its answers come back in any    *)
(* order.  The pages belong to one person, each runs in a browser of its   *)
(* own.                                                                    *)
(***************************************************************************)
EXTENDS Integers, Sequences, FiniteSets, SequencesExt

CONSTANTS Pages, Scenes, None

Methods == {"PASSWORD", "PASSKEY", "TOTP", "BACKUP"}
Clients == {"web", "legacy"}

ASSUME SignInAssumption ==
    Scenes \subseteq
        [password : BOOLEAN, passkey : BOOLEAN, totp : BOOLEAN, \* what the account has
         required : BOOLEAN,               \* require_password of the account
         verified : BOOLEAN,
         client   : [Pages -> Clients \cup {None}],  \* None: the page stays closed
         webauthn : BOOLEAN,               \* can the browsers do passkeys?
         starts   : Nat,                   \* bound: login sessions
         wrong    : Nat,                   \* bound: wrong answers
         rash     : BOOLEAN,               \* may a page not wait for an answer?
         expire   : Nat,                   \* bound: sessions that expire
         lost     : Nat]                   \* bound: answers that are lost

ASSUME NoneIsNothing == None \notin Methods \cup Clients \cup {"ok", "in", "more", "no", "gone"}

VARIABLES
    scene,
    sessions,  \* login_session:{id} in Redis, by the number of its start
    backup,    \* is the backup code the person knows still the account's?
    page,      \* the state of each page
    calls,     \* the requests of each page that have not come back
    cookie,    \* does the browser hold an access token?
    careful,   \* the page always waited, and moved on by no wrong backup code
    count      \* how often what a scene bounds has happened

vars == <<scene, sessions, backup, page, calls, cookie, careful, count>>

Web(p)    == scene.client[p] = "web"
Legacy(p) == scene.client[p] = "legacy"

FreshPage == [at |-> "login", step |-> 0, session |-> 0, method |-> None,
              backup |-> FALSE, rejected |-> FALSE]

Init ==
    /\ scene \in Scenes
    /\ sessions = <<>>
    /\ backup = TRUE
    /\ page = [p \in Pages |-> FreshPage]
    /\ calls = [p \in Pages |-> <<>>]
    /\ cookie = [p \in Pages |-> FALSE]
    /\ careful = [p \in Pages |-> TRUE]
    /\ count = [wrong |-> 0, expire |-> 0, lost |-> 0]

-----------------------------------------------------------------------------
(* The server. *)

\* start_login: which methods are offered when.  An unknown or unverified
\* account gets a session that is never stored.
Stepped ==
    LET second == (IF scene.passkey THEN {"PASSKEY"} ELSE {})
                     \cup (IF scene.totp THEN {"TOTP"} ELSE {})
        first  == IF scene.password THEN {"PASSWORD"} ELSE {} IN
    IF ~scene.verified THEN [step_1 |-> {"PASSWORD"}, step_2 |-> {}]
    ELSE IF scene.required THEN [step_1 |-> first, step_2 |-> second]
    ELSE [step_1 |-> first \cup second, step_2 |-> {}]

NewSession == [stored |-> scene.verified, passed |-> FALSE,
               step_1 |-> Stepped.step_1, step_2 |-> Stepped.step_2]

\* Both factors passed, but only a session with one is let in.
Bug_Status(c, s) ==
    IF ~s.stored THEN "gone"
    ELSE IF ~c.right \/ (c.method = "BACKUP" /\ ~backup) THEN "no"
    ELSE IF c.method = "BACKUP" \/ s.step_2 = {} THEN "in" ELSE "more"

\* step_1_endpoint: what an answer to a challenge of the session s leads to.
Status(c, s) ==
    IF ~s.stored THEN "gone"
    ELSE IF c.method \notin (CASE c.step = 1 -> s.step_1 \cup {"BACKUP"}
                               [] c.step = 2 -> s.step_2
                               [] OTHER      -> {}) THEN "no"
    ELSE IF ~c.right \/ (c.method = "BACKUP" /\ ~backup) THEN "no"
    ELSE IF c.method \in {"BACKUP", "TOTP"} \/ s.step_2 = {} \/ (c.step = 2 /\ s.passed)
         THEN "in"
    ELSE "more"

Unhandled(c) == c.status = None

Reply(p, i, c) == calls' = [calls EXCEPT ![p] = [@ EXCEPT ![i] = c]]

\* The server handles a request of a page.
Handle(p) ==
    \E i \in DOMAIN calls[p] :
        LET c == calls[p][i] IN
        /\ Unhandled(c)
        /\ CASE c.to = "start" ->
                  /\ sessions' = Append(sessions, NewSession)
                  /\ Reply(p, i, [c EXCEPT !.status = "ok", !.session = Len(sessions) + 1])
                  /\ UNCHANGED backup
             [] c.to = "step" ->
                  LET status == Status(c, sessions[c.session]) IN
                  /\ Reply(p, i, [c EXCEPT !.status = status])
                  /\ sessions' = [sessions EXCEPT ![c.session].passed = @ \/ status = "more"]
                  /\ backup' = (backup /\ ~(c.method = "BACKUP" /\ status = "in"))
             [] c.to = "check" ->
                  /\ Reply(p, i, [c EXCEPT !.status = IF cookie[p] THEN "in" ELSE "no"])
                  /\ UNCHANGED <<sessions, backup>>
    /\ UNCHANGED <<scene, page, cookie, careful, count>>

\* Ten minutes after its last success the session is gone.
Expire ==
    /\ count.expire < scene.expire
    /\ \E n \in DOMAIN sessions :
          /\ sessions[n].stored
          /\ sessions' = [sessions EXCEPT ![n].stored = FALSE]
    /\ count' = [count EXCEPT !.expire = @ + 1]
    /\ UNCHANGED <<scene, backup, page, calls, cookie, careful>>

-----------------------------------------------------------------------------
(* What the pages show. *)

\* usableMethods; the old page splices PASSKEY out of the list.
Usable(methods) == IF scene.webauthn THEN methods ELSE methods \ {"PASSKEY"}

OfferedBy(session, step) ==
    IF session = 0 THEN {}
    ELSE CASE step = 1 -> sessions[session].step_1
           [] step = 2 -> sessions[session].step_2
           [] OTHER    -> {}

Offered(p) == OfferedBy(page[p].session, page[p].step)

\* Nobody looks whether the usable methods are none.
Bug_HasUnsupportedOnly(p) == FALSE

HasUnsupportedOnly(p) == Offered(p) # {} /\ Usable(Offered(p)) = {}

\* renderStep.
WebScreen(p) ==
    IF page[p].step = 0 THEN "EMAIL"
    ELSE IF page[p].backup THEN "BACKUP"
    ELSE IF HasUnsupportedOnly(p) THEN "UNSUPPORTED"
    ELSE IF page[p].method = None THEN "PICK"
    ELSE page[p].method

\* The old picker reads the methods of a step that does not exist.
LegacyScreen(p) ==
    IF page[p].step = 0 THEN "EMAIL"
    ELSE IF page[p].method # None THEN page[p].method
    ELSE IF page[p].step > 2 THEN "CRASHED"
    ELSE "PICK"

Screen(p) == IF page[p].at = "home" THEN "HOME"
             ELSE IF Web(p) THEN WebScreen(p) ELSE LegacyScreen(p)

\* autoSelect, check_auto: a lone method is selected.
AutoSelect(methods) ==
    IF Cardinality(Usable(methods)) = 1 THEN CHOOSE m \in Usable(methods) : TRUE ELSE None

-----------------------------------------------------------------------------
(* What the person does. *)

Call(to, session, step, method, right) ==
    [to |-> to, session |-> session, step |-> step, method |-> method, right |-> right,
     status |-> None]

Pending(p) == calls[p] # <<>>

\* A page either waits for its calls, or a rash person does not.
Does(p) ==
    /\ Pending(p) => scene.rash /\ careful[p]
    /\ careful' = [careful EXCEPT ![p] = @ /\ ~Pending(p)]

\* The forms of the new card are disabled while their mutation is pending, the
\* buttons of the old page never are.
Enabled(p, to) == Web(p) => \A i \in DOMAIN calls[p] : (calls[p][i].to = "start") # (to = "start")

EmailStep(p) ==
    /\ Screen(p) = "EMAIL" /\ Web(p) /\ Enabled(p, "start")
    /\ Len(sessions) + Cardinality({x \in Pages : Pending(x)}) < scene.starts
    /\ Does(p)
    /\ calls' = [calls EXCEPT ![p] = Append(@, Call("start", 0, 0, None, TRUE))]
    /\ UNCHANGED <<scene, sessions, backup, page, cookie, count>>

\* start_login of the old page: the first part of the page, left for good.
StartLogin(p) ==
    /\ Screen(p) = "EMAIL" /\ Legacy(p)
    /\ Len(sessions) + Cardinality({x \in Pages : Pending(x)}) < scene.starts
    /\ Does(p)
    /\ calls' = [calls EXCEPT ![p] = Append(@, Call("start", 0, 0, None, TRUE))]
    /\ UNCHANGED <<scene, sessions, backup, page, cookie, count>>

\* The pickers of the new card and of the old page.
Pick(p) ==
    /\ Screen(p) = "PICK"
    /\ Does(p)
    /\ \E m \in Usable(Offered(p)) : page' = [page EXCEPT ![p].method = m]
    /\ UNCHANGED <<scene, sessions, backup, calls, cookie, count>>

MethodStep(p)   == Web(p) /\ Pick(p)
SelectMethod(p) == Legacy(p) /\ Pick(p)

\* Every challenge is posted to the page's step.
Bug_StepOf(p, method) == page[p].step

\* The step that a challenge is posted to: the old page always takes 1 for a
\* password, and the new one whenever it is not at its second.
StepOf(p, method) ==
    IF method = "BACKUP" \/ (Legacy(p) /\ method = "PASSWORD") THEN 1
    ELSE IF Web(p) /\ page[p].step # 2 THEN 1 ELSE page[p].step

\* An answer to the challenge that the page shows.
Answer(p, method, right) ==
    /\ Screen(p) = method /\ Enabled(p, "step") /\ page[p].session # 0
    /\ ~right => count.wrong < scene.wrong
    /\ Does(p)
    /\ count' = [count EXCEPT !.wrong = IF right THEN @ ELSE @ + 1]
    /\ page' = [page EXCEPT ![p].rejected = FALSE]
    /\ calls' = [calls EXCEPT ![p] =
          Append(@, Call("step", page[p].session, StepOf(p, method), method, right))]
    /\ UNCHANGED <<scene, sessions, backup, cookie>>

\* The challenges of the new card.  A ceremony that fails sends nothing.
PasswordStep(p, right)     == Web(p) /\ Answer(p, "PASSWORD", right)
CodeStep(p, method, right) == Web(p) /\ Answer(p, method, right)
PasskeyStep(p)             == Web(p) /\ Answer(p, "PASSKEY", TRUE)

\* Those of the old page, which posts an answer without an assertion after a
\* ceremony that failed.
PasswordComponent(p, right) == Legacy(p) /\ Answer(p, "PASSWORD", right)
TotpComponent(p, right)     == Legacy(p) /\ Answer(p, "TOTP", right)
BackupComponent(p, right)   == Legacy(p) /\ Answer(p, "BACKUP", right)
WebauthnComponent(p, right) == Legacy(p) /\ Answer(p, "PASSKEY", right)

\* openBackup, "Use backup code".
OpenBackup(p) ==
    /\ Screen(p) \in {"PASSWORD", "TOTP", "PASSKEY"} \cup (IF Web(p) THEN {"UNSUPPORTED"} ELSE {})
    /\ Does(p)
    /\ page' = [page EXCEPT ![p] = [@ EXCEPT !.rejected = FALSE, !.backup = Web(p),
                                             !.method = IF Web(p) THEN page[p].method ELSE "BACKUP"]]
    /\ UNCHANGED <<scene, sessions, backup, calls, cookie, count>>

CloseBackup(p) ==
    /\ Web(p) /\ Screen(p) = "BACKUP"
    /\ Does(p)
    /\ page' = [page EXCEPT ![p] = [@ EXCEPT !.rejected = FALSE, !.backup = FALSE]]
    /\ UNCHANGED <<scene, sessions, backup, calls, cookie, count>>

\* handleBack: the button works while an answer is awaited; the picker has none.
Back(p) ==
    /\ Web(p) /\ Screen(p) \in {"PASSWORD", "TOTP", "PASSKEY", "UNSUPPORTED"}
    /\ Does(p)
    /\ page' = [page EXCEPT ![p] = FreshPage]
    /\ UNCHANGED <<scene, sessions, backup, calls, cookie, count>>

-----------------------------------------------------------------------------
(* What comes back. *)

\* advanceToSecondFactor.
SecondFactor(p) ==
    LET s == page[p].session IN
    [page[p] EXCEPT !.step = 2, !.backup = FALSE,
                    !.method = IF s = 0 THEN page[p].method ELSE AutoSelect(sessions[s].step_2)]

\* The method stays selected.
Bug_OneStepFurther(p) == [page[p] EXCEPT !.step = @ + 1]

\* The old page goes one step further from wherever it is.
OneStepFurther(p) ==
    LET step == page[p].step + 1 IN
    [page[p] EXCEPT !.step = step, !.method = AutoSelect(OfferedBy(page[p].session, step))]

BeginSession(p, n) ==
    LET auto == AutoSelect(sessions[n].step_1) IN
    [page[p] EXCEPT !.step = 1, !.session = n,
                    !.method = IF Web(p) \/ auto # None THEN auto ELSE page[p].method]

\* The page goes on before the cached identity is renewed.
Bug_Finished(p, known) == [FreshPage EXCEPT !.at = IF Legacy(p) THEN "home" ELSE "login"]

\* navigate, requireAuth: the guard of the page behind the login reads the
\* cached identity, and sends the person back when it is nobody's.
Finished(p, known) == [FreshPage EXCEPT !.at = IF known THEN "home" ELSE "login"]

\* Whatever is not a success goes on, as the old page does with backup codes.
Bug_Taken(p, c) ==
    CASE c.to = "start" -> BeginSession(p, c.session)
      [] c.to = "check" -> Finished(p, c.status = "in")
      [] c.to = "step" /\ c.status = "in" -> IF Web(p) THEN page[p] ELSE Finished(p, TRUE)
      [] OTHER          -> IF Web(p) THEN SecondFactor(p) ELSE OneStepFurther(p)

\* How the page takes the answer c.
Taken(p, c) ==
    CASE c.to = "start" -> BeginSession(p, c.session)
      [] c.to = "check" -> Finished(p, c.status = "in")
      [] c.to = "step" /\ c.status = "in" ->
            IF Web(p) THEN page[p] ELSE Finished(p, TRUE)
      [] c.to = "step" /\ c.status = "more" ->
            IF Web(p) THEN SecondFactor(p) ELSE OneStepFurther(p)
      [] OTHER ->
            IF Legacy(p) /\ c.method = "BACKUP" THEN OneStepFurther(p)
            ELSE [page[p] EXCEPT !.rejected = Web(p)]

\* One of the answers reaches the page.  The new card asks again who is signed
\* in before it goes on, the old page is loaded anew.
Receive(p) ==
    \E i \in DOMAIN calls[p] :
        LET c == calls[p][i]
            signedIn == c.to = "step" /\ c.status = "in" IN
        /\ ~Unhandled(c) /\ page[p].at = "login"
        /\ page' = [page EXCEPT ![p] = Taken(p, c)]
        /\ cookie' = [cookie EXCEPT ![p] = @ \/ signedIn]
        /\ calls' = [calls EXCEPT ![p] =
              IF signedIn THEN IF Web(p) THEN [@ EXCEPT ![i] = Call("check", 0, 0, None, TRUE)]
                                         ELSE <<>>
              ELSE IF c.to = "check" THEN <<>> ELSE RemoveAt(@, i)]
        /\ careful' = [careful EXCEPT ![p] =
              @ /\ ~(Legacy(p) /\ c.method = "BACKUP" /\ c.status \notin {"in", "more"})]
    /\ UNCHANGED <<scene, sessions, backup, count>>

\* The connection fails: a card shows a toast and stays; without an answer to
\* who is signed in, the page behind the login sends the person back.
Lose(p) ==
    /\ count.lost < scene.lost
    /\ \E i \in DOMAIN calls[p] :
          /\ page' = [page EXCEPT ![p] = IF calls[p][i].to = "check" THEN FreshPage ELSE @]
          /\ calls' = [calls EXCEPT ![p] = RemoveAt(@, i)]
    /\ count' = [count EXCEPT !.lost = @ + 1]
    /\ UNCHANGED <<scene, sessions, backup, cookie, careful>>

-----------------------------------------------------------------------------
Factor(p, right) ==
    \/ PasswordStep(p, right) \/ PasswordComponent(p, right)
    \/ CodeStep(p, "TOTP", right) \/ TotpComponent(p, right)
    \/ right /\ PasskeyStep(p)
    \/ WebauthnComponent(p, right)

BackupCode(p, right) == CodeStep(p, "BACKUP", right) \/ BackupComponent(p, right)

Next ==
    \/ Expire
    \/ \E p \in Pages :
          \/ EmailStep(p) \/ StartLogin(p) \/ MethodStep(p) \/ SelectMethod(p)
          \/ \E right \in BOOLEAN : Factor(p, right) \/ BackupCode(p, right)
          \/ OpenBackup(p) \/ CloseBackup(p) \/ Back(p)
          \/ Handle(p) \/ Receive(p) \/ Lose(p)

\* What goes on by itself, or is the one thing the page asks for.
GoOn(p) ==
    \/ Handle(p) \/ Receive(p)
    \/ EmailStep(p) \/ StartLogin(p) \/ Pick(p)
    \/ Screen(p) = "UNSUPPORTED" /\ OpenBackup(p)

\* The server answers, the browser delivers, and the person goes on: answers
\* right again and again, and leaves the backup code's screen.
Fairness ==
    \A p \in Pages :
        /\ WF_vars(GoOn(p)) /\ SF_vars(Factor(p, TRUE))
        /\ SF_vars(BackupCode(p, TRUE)) /\ SF_vars(CloseBackup(p))

SignInSpec == Init /\ [][Next]_vars /\ Fairness

-----------------------------------------------------------------------------
(* Properties. *)

LoginSessions == [stored : BOOLEAN, passed : BOOLEAN, step_1 : SUBSET Methods, step_2 : SUBSET Methods]

PageStates == [at : {"login", "home"}, step : 0..4, session : Nat,
               method : Methods \cup {None}, backup : BOOLEAN, rejected : BOOLEAN]

Requests == [to : {"start", "step", "check"}, session : Nat, step : 0..2,
             method : Methods \cup {None}, right : BOOLEAN,
             status : {None, "ok", "in", "more", "no", "gone"}]

SignInTypeOK ==
    /\ scene \in Scenes /\ backup \in BOOLEAN
    /\ sessions \in Seq(LoginSessions)
    /\ page \in [Pages -> PageStates]
    /\ calls \in [Pages -> Seq(Requests)]
    /\ cookie \in [Pages -> BOOLEAN] /\ careful \in [Pages -> BOOLEAN]
    /\ \A p \in Pages : page[p].session <= Len(sessions)
    /\ \A p \in Pages : \A i \in DOMAIN calls[p] : calls[p][i].session <= Len(sessions)

\* A page that asks for a second factor does so for a session whose first one
\* passed, and no page goes further than the second (advanceToSecondFactor,
\* step += 1); a page may only fail this after it did not wait for an answer,
\* or after a wrong backup code on the old page.
StepTwoIsEarned ==
    \A p \in Pages : careful[p] /\ page[p].step >= 2 =>
        /\ page[p].step = 2 /\ page[p].session # 0
        /\ sessions[page[p].session].passed

\* The pages and the server agree on which method belongs to which step: a
\* right answer is not refused while the session lives, but for a backup code
\* that was used (step_1_endpoint; LoginCard's step: BACKUP always goes to 1).
RightAnswersPass ==
    \A p \in Pages : \A i \in DOMAIN calls[p] :
        careful[p] /\ calls[p][i].right /\ calls[p][i].status = "no"
            => calls[p][i].method = "BACKUP" /\ ~backup

\* Pages and server agree on the steps of a login: nobody gets a step ahead, and
\* nobody is sent a step back by a right answer.
StepsAgree == SignInTypeOK /\ StepTwoIsEarned /\ RightAnswersPass

\* What the account offers for each step it has, a page can start with: the
\* new card has a way for passkeys without WebAuthn, the old one has not.
Startable(p) ==
    /\ Stepped.step_1 # {}
    /\ Legacy(p) => Usable(Stepped.step_1) # {}
                       /\ (Stepped.step_2 # {} => Usable(Stepped.step_2) # {})

\* There is nothing on the page that one could do.
Stranded(p) == Screen(p) = "CRASHED" \/ (Screen(p) = "PICK" /\ Usable(Offered(p)) = {})

\* A picker is never empty: whoever answers one step at a time always finds a
\* next thing to do (hasUnsupportedOnly, check_auto).
NeverStranded == \A p \in Pages : careful[p] /\ Startable(p) => ~Stranded(p)

\* A browser that was given a token does not go on showing the login form,
\* whatever was pressed and in whatever order answers came, but when the
\* renewal of the cached identity failed (finish, requireAuth).
SignedInIsHome ==
    \A p \in Pages : cookie[p] /\ ~Pending(p) /\ count.lost = 0 => page[p].at = "home"

\* Who answers right can still get in: the session lives, the page is in order.
Able(p) ==
    /\ scene.client[p] # None /\ scene.verified /\ Startable(p)
    /\ Screen(p) = "UNSUPPORTED" => backup
    /\ careful[p] /\ count.expire = 0 /\ count.lost = 0
    /\ page[p].step = 0 => \/ Pending(p)
                           \/ Len(sessions) + Cardinality({x \in Pages : Pending(x)}) < scene.starts

\* A person who knows the answers is signed in in the end, through however
\* many wrong answers and detours, as long as the page is used with care.
GetsIn == \A p \in Pages : [](page[p].at = "login" => Able(p)) => <>(page[p].at = "home")
=============================================================================
