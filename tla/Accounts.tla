------------------------------ MODULE Accounts ------------------------------
(***************************************************************************)
(* One account, and the pages of both clients that make, restore and       *)
(* change it: registration and the reset of a password (features/auth,     *)
(* routes/account), the settings and the security page (features/settings, *)
(* routes/account/settings), and the server's handlers (routers/users),    *)
(* with the copy of the account that Redis keeps for a day (cache.py).     *)
(* A handler is cut where it awaits the database or Redis; requests of     *)
(* several browsers run interleaved.                                       *)
(***************************************************************************)
EXTENDS Integers, FiniteSets

CONSTANTS Browsers, Scenes, None

Ops == {"register", "verify", "login", "logout", "forgot", "reset", "change",
        "backup", "totp on", "totp off", "require", "begin", "enrol", "remove",
        "add key", "delete key", "end session", "status", "keys", "sessions"}

Public  == {"register", "verify", "login", "logout", "forgot", "reset"}
Secured == {"backup", "totp on", "totp off", "require", "begin", "remove"}
Guest   == {"login", "register", "request"}
Private == {"settings", "security"}
Places  == Guest \cup Private \cup {"set", "home"}
Reading == {"keys", "sessions", "status"}

Rows == [pw : Nat, backup : Nat, totp : Nat, required : BOOLEAN]

ASSUME AccountsAssumption ==
    Scenes \subseteq
        [client   : [Browsers -> {"web", "legacy", "closed"}],
         exists   : BOOLEAN,              \* is there a verified account at first?
         forgot   : BOOLEAN,              \* does the person not know the password?
         signedIn : SUBSET Browsers,      \* who is signed in at first
         at       : Private \cup {"home"}, \* where the browsers are at first
         may      : [Ops -> Nat],         \* bound: how often a thing is asked for
         visits   : Nat,                  \* bound: detours to another page
         slips    : BOOLEAN,              \* are wrong passwords tried?
         hurry    : BOOLEAN,              \* may a page ask while it waits?
         expire   : Nat]                  \* bound: tokens that expire

\* Only who has an account is signed in or forgot its password, and only who is
\* signed in is on a page of its own.
ASSUME SceneAssumption ==
    \A s \in Scenes :
        /\ s.signedIn # {} \/ s.forgot => s.exists
        /\ s.at \in Private => \A b \in Browsers : s.client[b] # "closed" => b \in s.signedIn

ASSUME NoneIsNothing ==
    None \notin Nat \cup BOOLEAN \cup Rows \cup
               {"ok", "no", "taken", "failed", "out", "created", "refused", "sent",
                "invalid token", "ended", "changed"}

VARIABLES
    scene,
    account,     \* is there an account: "none", "new" (not verified) or "verified"
    row,         \* the account's row: versions of its secrets
    cached,      \* the copy in Redis, or None
    keys,        \* the stored API keys
    credentials, \* the stored security keys
    challenge,   \* add_webauthn:{id} in Redis
    sessions,    \* the browsers with a row in user_sessions
    token,       \* does reset_passwd:{token} exist?
    browser,     \* the state of each browser and its page
    work,        \* the requests of each browser that have not come back, by number
    held,        \* what the person was told last: the secrets in use
    calm,        \* only one request at a time so far
    count        \* how often each thing was asked for

stored == <<account, row, cached, keys, credentials, challenge, sessions, token>>
vars   == <<scene, stored, browser, work, held, calm, count>>

Web(b)    == scene.client[b] = "web"
Legacy(b) == scene.client[b] = "legacy"

NoRequests == [n \in {} |-> None]

\* known: the cached identity of the new client, None before it was asked for.
FreshBrowser(b) ==
    LET in == b \in scene.signedIn IN
    [at |-> scene.at, access |-> IF in THEN "valid" ELSE "none",
     known |-> IF scene.client[b] = "web" THEN in ELSE None, dialog |-> None, told |-> None,
     totp |-> FALSE, required |-> TRUE, credentials |-> {}, keys |-> {},
     sessions |-> scene.signedIn]

Init ==
    /\ scene \in Scenes
    /\ account = IF scene.exists THEN "verified" ELSE "none"
    /\ row = [pw |-> 1, backup |-> 1, totp |-> 0, required |-> TRUE]
    /\ cached = None
    /\ keys = {} /\ credentials = {} /\ challenge = None
    /\ sessions = scene.signedIn /\ token = FALSE
    /\ browser = [b \in Browsers |-> FreshBrowser(b)]
    /\ work = [b \in Browsers |-> NoRequests]
    /\ held = [pw |-> IF scene.forgot THEN 0 ELSE 1, backup |-> 1, totp |-> 0]
    /\ calm = TRUE
    /\ count = [op \in Ops \cup {"expire", "visit"} |-> 0]

-----------------------------------------------------------------------------
(* The server. *)

\* rememberme_middleware and get_current_user: a token that expired is renewed
\* as long as the browser's session row is there.
Authentic(b, access) ==
    /\ account = "verified"
    /\ access = "valid" \/ (access = "old" /\ b \in sessions)

Update(b, i, stage, copy, answer) ==
    work' = [work EXCEPT ![b][i] = [@ EXCEPT !.stage = stage, !.copy = copy, !.answer = answer]]

Done(b, i, copy, answer) == Update(b, i, "done", copy, answer)

\* The table has no unique columns: whoever comes second makes another account.
Bug_Register(b, i, r) ==
    /\ IF r.stage = "sent"
       THEN /\ IF account # "none" THEN Done(b, i, None, "taken")
                                   ELSE Update(b, i, "checked", None, None)
            /\ UNCHANGED account
       ELSE Done(b, i, None, "ok") /\ account' = "new"
    /\ UNCHANGED <<row, cached, keys, credentials, challenge, sessions, token>>

\* create_user looks for the name and the address first; the table's unique
\* columns refuse the second of two.
Register(b, i, r) ==
    /\ IF r.stage = "sent"
       THEN /\ IF account # "none" THEN Done(b, i, None, "taken")
                                   ELSE Update(b, i, "checked", None, None)
            /\ UNCHANGED account
       ELSE /\ Done(b, i, None, IF account = "none" THEN "ok" ELSE "failed")
            /\ account' = IF account = "none" THEN "new" ELSE account
    /\ UNCHANGED <<row, cached, keys, credentials, challenge, sessions, token>>

\* verify_user, log_user_in, logout and forgotten_password.
OneStep(b, i, r) ==
    LET ok == CASE r.op = "verify" -> account = "new"
                [] r.op = "login"  -> account = "verified" /\ r.pw = row.pw
                [] OTHER           -> TRUE IN
    /\ Done(b, i, None, IF ok THEN "ok" ELSE "no")
    /\ account' = IF r.op = "verify" /\ ok THEN "verified" ELSE account
    /\ sessions' = CASE r.op = "login" /\ ok -> sessions \cup {b}
                     [] r.op = "logout"      -> sessions \ {b}
                     [] OTHER                -> sessions
    /\ token' = (token \/ (r.op = "forgot" /\ account = "verified"))
    /\ UNCHANGED <<row, cached, keys, credentials, challenge>>

\* The new password is not written.
Bug_Reset(b, i, r) ==
    /\ Done(b, i, None, IF token /\ r.pw = 1 THEN "ok" ELSE "no")
    /\ UNCHANGED stored

\* reset_password_with_token: the token, which the old page loses, stays for
\* its hour; all sessions go, and the copy in Redis.
Reset(b, i, r) ==
    IF r.stage = "sent"
    THEN /\ IF token /\ r.pw = 1 THEN Update(b, i, "read", row, None) ELSE Done(b, i, None, "no")
         /\ UNCHANGED stored
    ELSE /\ Done(b, i, None, "ok")
         /\ row' = [r.copy EXCEPT !.pw = r.value]
         /\ sessions' = {} /\ cached' = None
         /\ UNCHANGED <<account, keys, credentials, challenge, token>>

\* get_current_user: the copy in Redis, or the row, which is kept there a step
\* later.
Authenticate(b, i, r) ==
    /\ IF r.stage = "filling"
       THEN cached' = r.copy /\ Update(b, i, "known", r.copy, None)
       ELSE /\ work' = [work EXCEPT ![b][i] =
                  IF ~Authentic(b, browser[b].access)
                  THEN [r EXCEPT !.stage = "done", !.answer = "out"]
                  ELSE [r EXCEPT !.stage = IF cached = None THEN "filling" ELSE "known",
                                 !.copy = IF cached = None THEN row ELSE cached,
                                 !.renews = browser[b].access = "old"]]
            /\ UNCHANGED cached
    /\ UNCHANGED <<account, row, keys, credentials, challenge, sessions, token>>

\* A new backup code is told and not kept.
Bug_Write(r) ==
    CASE r.op = "change"   -> [r.copy EXCEPT !.pw = r.value]
      [] r.op = "totp on"  -> [r.copy EXCEPT !.totp = r.value]
      [] r.op = "totp off" -> [r.copy EXCEPT !.totp = 0]
      [] r.op = "require"  -> [r.copy EXCEPT !.required = r.value = 1]
      [] OTHER             -> r.copy

\* What each handler writes: every column, from the copy it works on.
Write(r) ==
    CASE r.op = "change"   -> [r.copy EXCEPT !.pw = r.value]
      [] r.op = "backup"   -> [r.copy EXCEPT !.backup = r.value]
      [] r.op = "totp on"  -> [r.copy EXCEPT !.totp = r.value]
      [] r.op = "totp off" -> [r.copy EXCEPT !.totp = 0]
      [] r.op = "require"  -> [r.copy EXCEPT !.required = r.value = 1]

\* The copy in Redis stays.
Bug_Change(b, i, r) ==
    /\ IF r.pw = r.copy.pw
       THEN Done(b, i, None, "ok") /\ row' = Write(r) /\ sessions' = {}
       ELSE Done(b, i, None, "no") /\ UNCHANGED <<row, sessions>>
    /\ UNCHANGED <<account, cached, keys, credentials, challenge, token>>

\* change_password works on the user of get_current_user, which may be a copy
\* from Redis; afterwards the copy and all sessions go.
Change(b, i, r) ==
    /\ IF r.pw = r.copy.pw
       THEN Done(b, i, None, "ok") /\ row' = Write(r) /\ sessions' = {} /\ cached' = None
       ELSE Done(b, i, None, "no") /\ UNCHANGED <<row, sessions, cached>>
    /\ UNCHANGED <<account, keys, credentials, challenge, token>>

\* The handlers of twofa.py and request_add_key_data read the row anew and
\* write a step later; delete_security_key looks at the copy of the user.
Secure(b, i, r) ==
    /\ IF r.stage = "known" /\ r.op # "remove"
       THEN UNCHANGED <<row, credentials, challenge>> /\ Update(b, i, "read", row, None)
       ELSE /\ Done(b, i, None, IF r.pw = r.copy.pw THEN "ok" ELSE "no")
            /\ row' = IF r.pw = r.copy.pw /\ r.op \notin {"begin", "remove"} THEN Write(r) ELSE row
            /\ challenge' = IF r.pw = r.copy.pw /\ r.op = "begin" THEN r.value ELSE challenge
            /\ credentials' = IF r.pw = r.copy.pw /\ r.op = "remove"
                              THEN credentials \ {r.value} ELSE credentials
    /\ UNCHANGED <<account, cached, keys, sessions, token>>

\* confirm_add_key_data: the one challenge of the account.
Enrol(b, i, r) ==
    /\ Done(b, i, None, IF challenge = r.value THEN "ok" ELSE "failed")
    /\ credentials' = IF challenge = r.value THEN credentials \cup {r.value} ELSE credentials
    /\ UNCHANGED <<account, row, cached, keys, challenge, sessions, token>>

\* get_totp_status and list_security_keys read the tables, get_me answers with
\* the user it was given.
Status(b, i, r) ==
    /\ Done(b, i, [totp |-> row.totp > 0, required |-> r.copy.required,
                   credentials |-> credentials], "ok")
    /\ UNCHANGED stored

\* generate_api_key, delete_api_key, list_api_keys, delete_session, list_sessions.
Listed(b, i, r) ==
    /\ keys' = CASE r.op = "add key"    -> keys \cup {r.value}
                 [] r.op = "delete key" -> keys \ {r.value}
                 [] OTHER               -> keys
    /\ sessions' = IF r.op = "end session" THEN sessions \ {r.value} ELSE sessions
    /\ Done(b, i, IF r.op = "sessions" THEN sessions ELSE keys, "ok")
    /\ UNCHANGED <<account, row, cached, credentials, challenge, token>>

Handle(b) ==
    /\ \E i \in DOMAIN work[b] :
          LET r == work[b][i] IN
          /\ r.stage # "done"
          /\ \/ r.op = "register" /\ Register(b, i, r)
             \/ r.op = "reset" /\ Reset(b, i, r)
             \/ r.op \in Public \ {"register", "reset"} /\ OneStep(b, i, r)
             \/ r.op \notin Public /\ r.stage \in {"sent", "filling"} /\ Authenticate(b, i, r)
             \/ r.op = "change" /\ r.stage = "known" /\ Change(b, i, r)
             \/ r.op \in Secured /\ r.stage \in {"known", "read"} /\ Secure(b, i, r)
             \/ r.op = "enrol" /\ r.stage = "known" /\ Enrol(b, i, r)
             \/ r.op = "status" /\ r.stage = "known" /\ Status(b, i, r)
             \/ r.op \in {"add key", "delete key", "keys", "end session", "sessions"}
                   /\ r.stage = "known" /\ Listed(b, i, r)
    /\ UNCHANGED <<scene, browser, held, calm, count>>

\* An access token ends after half an hour, the row of the session does not;
\* the token of a reset ends after an hour.
Expire ==
    /\ count["expire"] < scene.expire
    /\ \/ \E b \in Browsers :
             /\ browser[b].access = "valid"
             /\ browser' = [browser EXCEPT ![b].access = "old"]
             /\ UNCHANGED token
       \/ token /\ token' = FALSE /\ UNCHANGED browser
    /\ count' = [count EXCEPT !["expire"] = @ + 1]
    /\ UNCHANGED <<scene, account, row, cached, keys, credentials, challenge, sessions,
                   work, held, calm>>

-----------------------------------------------------------------------------
(* Where a browser goes. *)

\* The guards of the pages: beforeLoad, requireAuth; +page.server.ts.
Land(page, in) ==
    IF page \in Guest /\ in THEN "home" ELSE IF page \in Private /\ ~in THEN "login" ELSE page

Request(op, pw, value) ==
    [op |-> op, pw |-> pw, value |-> value, stage |-> "sent", copy |-> None, answer |-> None,
     awaited |-> TRUE, renews |-> FALSE]

\* A number that no request of w has.
Fresh(w) == CHOOSE n \in 1 .. Cardinality(DOMAIN w) + 1 : n \notin DOMAIN w

With(w, q) == [n \in DOMAIN w \cup {Fresh(w)} |-> IF n \in DOMAIN w THEN w[n] ELSE q]

Without(w, i) == [n \in DOMAIN w \ {i} |-> w[n]]

\* What a page asks for when it opens: useQuery; get_data, getUser, getSessions.
Reads(page, w) ==
    CASE page = "settings" -> With(With(w, Request("keys", 0, 0)), Request("sessions", 0, 0))
      [] page = "security" -> With(w, Request("status", 0, 0))
      [] OTHER             -> w

\* The browser b, in state s, opens a page.  The new client asks who is signed
\* in unless it has an answer, the server of the old one only when the token
\* expired, and then takes the token's word (hooks.server.ts: jwt.sub).
Arrive(b, page, s, left) ==
    LET asks == IF Web(b) THEN s.known = None /\ page # "set" ELSE s.access = "old"
        is   == Authentic(b, s.access)
        in   == IF Legacy(b) THEN s.access # "none" ELSE IF asks THEN is ELSE s.known
        at   == IF Web(b) /\ page = "set" THEN "set" ELSE Land(page, in) IN
    /\ browser' = [browser EXCEPT ![b] =
          [s EXCEPT !.at = at, !.dialog = None,
                    !.known = IF Web(b) /\ asks THEN is ELSE @,
                    !.access = IF asks /\ is THEN "valid" ELSE @]]
    /\ cached' = IF asks /\ is /\ cached = None THEN row ELSE cached
    /\ work' = [work EXCEPT ![b] = Reads(at, left)]
    /\ UNCHANGED <<account, row, keys, credentials, challenge, sessions, token>>

Idle(b) == DOMAIN work[b] = {}

\* A request or the opening of a page: is it the only thing that goes on?
Calmly == calm' = (calm /\ \A x \in Browsers : Idle(x))

\* A link, or for the old pages a page load.
Visit(b, page) ==
    /\ page # browser[b].at /\ scene.client[b] # "closed" /\ Idle(b)
    /\ Arrive(b, page, [browser[b] EXCEPT !.told = None], NoRequests)
    /\ Calmly /\ UNCHANGED <<scene, held>>

Wander(b) ==
    /\ count["visit"] < scene.visits
    /\ count' = [count EXCEPT !["visit"] = @ + 1]
    /\ \E page \in (Guest \cup Private) \ {"register", "request"} : Visit(b, page)

\* The link of the mail opens the page anew.
OpenResetLink(b) ==
    /\ token /\ scene.client[b] # "closed" /\ Idle(b) /\ browser[b].at # "set"
    /\ Arrive(b, "set", [browser[b] EXCEPT !.told = None, !.known = None], NoRequests)
    /\ Calmly /\ UNCHANGED <<scene, held, count>>

\* currentUserQuery, which the navigation bar renews when it got stale.
Refresh(b) ==
    /\ Web(b) /\ Idle(b) /\ browser[b].known = TRUE /\ ~Authentic(b, browser[b].access)
    /\ browser' = [browser EXCEPT ![b].known = FALSE]
    /\ UNCHANGED <<scene, stored, work, held, calm, count>>

-----------------------------------------------------------------------------
(* What the person asks for. *)

Ask(b, op, pw, value) ==
    /\ count[op] < scene.may[op] /\ count' = [count EXCEPT ![op] = @ + 1]
    /\ Idle(b) \/ scene.hurry
    /\ work' = [work EXCEPT ![b] = With(@, Request(op, pw, value))]
    /\ Calmly /\ UNCHANGED <<scene, stored, held>>

\* Cards of the new client disable a button while its own mutation is pending.
Free(b, ops) == \A i \in DOMAIN work[b] : work[b][i].op \notin ops

At(b, page) == browser[b].at = page

Quietly(b) == browser' = [browser EXCEPT ![b].told = None]

New(op) == count[op] + 2

Passwords == {held.pw} \cup (IF scene.slips THEN {0} ELSE {})

RegisterCard(b) ==
    /\ Web(b) /\ At(b, "register") /\ Free(b, {"register"})
    /\ Ask(b, "register", 0, 0) /\ Quietly(b)

RegisterPage(b) == Legacy(b) /\ At(b, "register") /\ Ask(b, "register", 0, 0) /\ Quietly(b)

OpenVerifyLink(b) ==
    /\ account = "new" /\ scene.client[b] # "closed" /\ Free(b, {"verify"})
    /\ Ask(b, "verify", 0, 0) /\ Quietly(b)

\* Signing in, in one step: SignIn has the others.
LogIn(b) ==
    /\ scene.client[b] # "closed" /\ At(b, "login") /\ Free(b, {"login"})
    /\ Ask(b, "login", held.pw, 0) /\ Quietly(b)

\* The page stays; the form is gone after a success.
RequestResetCard(b) ==
    /\ Web(b) /\ At(b, "request") /\ browser[b].told # "sent" /\ Free(b, {"forgot"})
    /\ Ask(b, "forgot", 0, 0) /\ Quietly(b)

ResetPasswordPage(b) == Legacy(b) /\ At(b, "request") /\ Ask(b, "forgot", 0, 0) /\ Quietly(b)

NewPassword == count["change"] + count["reset"] + 2

\* The new card has the token of the link; the form is gone once it was refused.
SetPasswordCard(b) ==
    /\ Web(b) /\ At(b, "set") /\ browser[b].told # "invalid token" /\ Free(b, {"reset"})
    /\ Ask(b, "reset", 1, NewPassword) /\ Quietly(b)

\* let { token: string } = data: the old page sends none.
PasswordResetPage(b) == Legacy(b) /\ At(b, "set") /\ Ask(b, "reset", 0, NewPassword) /\ Quietly(b)

ChangePasswordCard(b) ==
    /\ Web(b) /\ At(b, "settings") /\ Free(b, {"change"})
    /\ \E pw \in Passwords : Ask(b, "change", pw, NewPassword)
    /\ Quietly(b)

ChangePassword(b) ==
    /\ Legacy(b) /\ At(b, "settings")
    /\ \E pw \in Passwords : Ask(b, "change", pw, NewPassword)
    /\ Quietly(b)

ApiKeysCard(b) ==
    /\ Web(b) /\ At(b, "settings")
    /\ \/ Free(b, {"add key"}) /\ Ask(b, "add key", 0, New("add key"))
       \/ \E k \in browser[b].keys : Ask(b, "delete key", 0, k)
    /\ Quietly(b)

AddApiKey(b) == Legacy(b) /\ At(b, "settings") /\ Ask(b, "add key", 0, New("add key")) /\ Quietly(b)

DeleteApiKey(b) ==
    /\ Legacy(b) /\ At(b, "settings")
    /\ \E k \in browser[b].keys : Ask(b, "delete key", 0, k)
    /\ Quietly(b)

SessionsCard(b) ==
    /\ Web(b) /\ At(b, "settings")
    /\ \E x \in browser[b].sessions : Ask(b, "end session", 0, x)
    /\ Quietly(b)

DeleteSession(b) ==
    /\ Legacy(b) /\ At(b, "settings")
    /\ \E x \in browser[b].sessions : Ask(b, "end session", 0, x)
    /\ Quietly(b)

-----------------------------------------------------------------------------
(* The security page of the new client: what is asked for is settled when the *)
(* button is pressed, and asked for when the password was given.              *)

Busy(b) == ~Free(b, Secured \cup {"enrol"})

WithPassword(b, op, value) ==
    /\ Web(b) /\ At(b, "security") /\ ~Busy(b) /\ browser[b].dialog = None
    /\ count[op] < scene.may[op]
    /\ browser' = [browser EXCEPT ![b].told = None, ![b].dialog = [op |-> op, value |-> value]]
    /\ UNCHANGED <<scene, stored, work, held, calm, count>>

BackupCodeCard(b)   == WithPassword(b, "backup", New("backup"))
TotpCard(b)         == IF browser[b].totp THEN WithPassword(b, "totp off", 0)
                                          ELSE WithPassword(b, "totp on", New("totp on"))
SecurityKeysCard(b) == \/ WithPassword(b, "begin", New("begin"))
                       \/ \E k \in browser[b].credentials : WithPassword(b, "remove", k)
RequireCard(b)      == browser[b].totp /\ WithPassword(b, "require", IF browser[b].required THEN 0 ELSE 1)

ConfirmPassword(b) ==
    /\ browser[b].dialog # None
    /\ \E pw \in Passwords : Ask(b, browser[b].dialog.op, pw, browser[b].dialog.value)
    /\ browser' = [browser EXCEPT ![b].dialog = None]

CancelPassword(b) ==
    /\ browser[b].dialog # None
    /\ browser' = [browser EXCEPT ![b].dialog = None]
    /\ UNCHANGED <<scene, stored, work, held, calm, count>>

(* That of the old one: prompt() holds the page until the password is there. *)

Prompted(b, op, value) ==
    /\ Legacy(b) /\ At(b, "security")
    /\ \E pw \in Passwords : Ask(b, op, pw, value)

GetBackupCode(b)     == Prompted(b, "backup", New("backup")) /\ Quietly(b)
EnableTotp(b)        == ~browser[b].totp /\ Prompted(b, "totp on", New("totp on")) /\ Quietly(b)
DisableTotp(b)       == browser[b].totp /\ Prompted(b, "totp off", 0) /\ Quietly(b)
AddSecurityKey(b)    == Prompted(b, "begin", New("begin")) /\ Quietly(b)
RemoveSecurityKey(b) == (\E k \in browser[b].credentials : Prompted(b, "remove", k)) /\ Quietly(b)

\* The switch has moved before the password is asked for.
SavePasswordRequired(b) ==
    /\ browser[b].totp
    /\ Prompted(b, "require", IF browser[b].required THEN 0 ELSE 1)
    /\ browser' = [browser EXCEPT ![b].required = ~@]

Logout(b) == Legacy(b) /\ browser[b].access # "none" /\ Ask(b, "logout", 0, 0) /\ Quietly(b)

-----------------------------------------------------------------------------
(* What comes back. *)

Kind(op) ==
    CASE op \in {"keys", "add key", "delete key"} -> "keys"
      [] op \in {"sessions", "end session"}       -> "sessions"
      [] OTHER                                    -> "status"

\* The lists are not asked for again.
Bug_Follows(b, r, w) == w

\* What a page asks for next: invalidateQueries; get_api_keys, get_data.
Follows(b, r, w) ==
    IF r.op = "begin" /\ r.answer = "ok" THEN With(w, Request("enrol", 0, r.value))
    ELSE IF \/ r.op \in {"add key", "delete key"} /\ (r.answer = "ok" \/ Legacy(b))
            \/ r.op = "end session" /\ r.answer = "ok"
            \/ r.op \in {"totp on", "totp off", "remove"} /\ r.answer = "ok"
            \/ r.op = "enrol" /\ (r.answer = "ok" \/ Legacy(b))
            \/ r.op = "require" /\ r.answer # "ok" /\ Web(b)
         THEN With(w, Request(Kind(r.op), 0, 0))
    ELSE w

\* What the page shows of an answer.
Shown(b, r, s) ==
    CASE r.op = "keys" /\ r.answer = "ok"     -> [s EXCEPT !.keys = r.copy]
      [] r.op = "sessions" /\ r.answer = "ok" -> [s EXCEPT !.sessions = r.copy]
      [] r.op = "status" /\ r.answer = "ok"   ->
            [s EXCEPT !.totp = r.copy.totp, !.required = r.copy.required,
                      !.credentials = r.copy.credentials]
      [] r.op = "require" /\ (r.answer = "ok" \/ Legacy(b)) ->
            [s EXCEPT !.required = r.answer = "ok" /\ r.value = 1]
      [] r.op = "register" -> [s EXCEPT !.told = IF r.answer = "ok" THEN "created" ELSE "refused"]
      [] r.op = "forgot"   -> [s EXCEPT !.told = "sent"]
      [] r.op = "reset" /\ r.answer = "no" /\ Web(b) -> [s EXCEPT !.told = "invalid token"]
      [] OTHER -> s

\* Cookies go with the answer, whoever waits for it.
Cookies(r, s) ==
    [s EXCEPT !.access =
       IF (r.op \in {"change", "reset"} /\ r.answer = "ok") \/ r.op = "logout" THEN "none"
       ELSE IF (r.op = "login" /\ r.answer = "ok") \/ r.renews THEN "valid" ELSE @]

\* queryClient.clear is left out.
Bug_Forgets(b, r) == FALSE

\* queryClient.clear, or the page is loaded anew.
Forgets(b, r) == r.op \in {"change", "end session", "login"} /\ Web(b)

\* There is no such page.
Bug_Leaves(b, r) == IF r.op = "logout" THEN "start" ELSE None

\* The answers after which a browser goes elsewhere, and where: the old settings
\* page goes to the login page with and without ?returnTo=/account/settings, as
\* its requests are refused one after the other.
Leaves(b, r) ==
    CASE r.op \in {"change", "reset"} /\ r.answer = "ok"           -> "login"
      [] r.op = "verify"                                           -> "login"
      [] r.op = "login" /\ r.answer = "ok"                         -> "home"
      [] r.op = "logout"                                           -> "home"
      [] r.op = "end session" /\ r.answer = "ok" /\ Legacy(b)      -> "settings"
      [] r.op = "end session" /\ r.answer = "ok" /\ r.value = b /\ Web(b) -> "login"
      [] r.op = "keys" /\ r.answer = "out" /\ Legacy(b)            -> "login"
      [] r.op = "sessions" /\ r.answer = "out" /\ Legacy(b)        -> "settings"
      [] OTHER -> None

\* What the person was told to use from now on.
Hold(r) ==
    IF r.answer # "ok" THEN held
    ELSE CASE r.op \in {"change", "reset"} -> [held EXCEPT !.pw = r.value]
           [] r.op = "backup"              -> [held EXCEPT !.backup = r.value]
           [] r.op = "totp on"             -> [held EXCEPT !.totp = r.value]
           [] r.op = "totp off"            -> [held EXCEPT !.totp = 0]
           [] OTHER                        -> held

\* A page that is loaded anew waits for nothing of before, and what was only
\* read is given up.
Left(b, i, r) ==
    LET rest    == Without(work[b], i)
        written == {n \in DOMAIN rest : rest[n].op \notin Reading} IN
    IF Legacy(b) \/ r.op = "end session"
    THEN [n \in written |-> [rest[n] EXCEPT !.awaited = FALSE]] ELSE rest

Receive(b) ==
    /\ \E i \in DOMAIN work[b] :
          LET r == work[b][i]
              s == Cookies(r, browser[b])
              told == CASE r.op = "end session" /\ r.value = b -> "ended"
                        [] r.op \in {"change", "reset"}        -> "changed"
                        [] OTHER                               -> None IN
          /\ r.stage = "done"
          /\ IF ~r.awaited
             THEN /\ browser' = [browser EXCEPT ![b] = s]
                  /\ work' = [work EXCEPT ![b] = Without(@, i)]
                  /\ UNCHANGED stored /\ UNCHANGED held
             ELSE /\ held' = Hold(r)
                  /\ IF Leaves(b, r) = None
                     THEN /\ browser' = [browser EXCEPT ![b] = Shown(b, r, s)]
                          /\ work' = [work EXCEPT ![b] = Follows(b, r, Without(@, i))]
                          /\ UNCHANGED stored
                     ELSE Arrive(b, Leaves(b, r),
                                 [s EXCEPT !.known = IF Forgets(b, r) THEN None ELSE @,
                                           !.told = told], Left(b, i, r))
    /\ UNCHANGED <<scene, calm, count>>

-----------------------------------------------------------------------------
(* What a person wants who is not signed in. *)

Goal == CASE account = "none"                          -> "register"
          [] account = "verified" /\ held.pw = 0 /\ ~token -> "request"
          [] OTHER                                     -> "login"

Aim(b) ==
    \/ account # "new" /\ (held.pw # 0 \/ ~token) /\ Visit(b, Goal) /\ UNCHANGED count
    \/ RegisterCard(b) \/ RegisterPage(b) \/ OpenVerifyLink(b)
    \/ RequestResetCard(b) \/ ResetPasswordPage(b)
    \/ held.pw = 0 /\ (OpenResetLink(b) \/ SetPasswordCard(b) \/ PasswordResetPage(b))
    \/ held.pw # 0 /\ LogIn(b)

Settings(b) ==
    \/ ChangePasswordCard(b) \/ ApiKeysCard(b) \/ SessionsCard(b)
    \/ ChangePassword(b) \/ AddApiKey(b) \/ DeleteApiKey(b) \/ DeleteSession(b)

Security(b) ==
    \/ BackupCodeCard(b) \/ TotpCard(b) \/ SecurityKeysCard(b) \/ RequireCard(b)
    \/ ConfirmPassword(b) \/ CancelPassword(b)
    \/ GetBackupCode(b) \/ EnableTotp(b) \/ DisableTotp(b)
    \/ AddSecurityKey(b) \/ RemoveSecurityKey(b) \/ SavePasswordRequired(b)

Next ==
    \/ Expire
    \/ \E b \in Browsers :
          \/ Handle(b) \/ Receive(b) \/ Refresh(b) \/ Wander(b) \/ Logout(b)
          \/ Aim(b) \/ Settings(b) \/ Security(b)

\* The server answers, the browser delivers, and a person who is not signed in
\* goes on.
Fairness == \A b \in Browsers : WF_vars(Handle(b) \/ Receive(b)) /\ WF_vars(Aim(b))

AccountsSpec == Init /\ [][Next]_vars /\ Fairness

-----------------------------------------------------------------------------
(* Properties. *)

AccountsTypeOK ==
    /\ scene \in Scenes
    /\ account \in {"none", "new", "verified"}
    /\ row \in Rows /\ cached \in Rows \cup {None}
    /\ keys \subseteq Nat /\ credentials \subseteq Nat /\ challenge \in Nat \cup {None}
    /\ sessions \subseteq Browsers /\ token \in BOOLEAN /\ calm \in BOOLEAN
    /\ \A b \in Browsers :
          /\ browser[b].at \in Places /\ browser[b].access \in {"valid", "old", "none"}
          /\ browser[b].known \in BOOLEAN \cup {None}
          /\ \A i \in DOMAIN work[b] : work[b][i].op \in Ops

\* Of several registrations for one name and address at most one is told that
\* the account was created (create_user looks first and saves later).
OneCreated ==
    Cardinality({b \in Browsers : browser[b].told = "created"})
      + Cardinality({a \in UNION {{<<b, i>> : i \in DOMAIN work[b]} : b \in Browsers} :
            work[a[1]][a[2]].op = "register" /\ work[a[1]][a[2]].answer = "ok"}) <= 1

\* Whoever does one thing at a time is never told that the right password was
\* wrong: not even by the copy of the account in Redis (change_password,
\* delete_security_key, clear_cache_for_account).
RightPasswordPasses ==
    calm => \A b \in Browsers : \A i \in DOMAIN work[b] :
               LET r == work[b][i] IN
               /\ r.op \in Secured \cup {"change", "login"} /\ r.pw = held.pw /\ held.pw # 0
               /\ r.op = "login" => account = "verified"
               => r.answer # "no"

Quiet == \A b \in Browsers : Idle(b)

\* The last backup code and secret that the person was given are the account's,
\* as long as the password was never changed with the old one: that writes back
\* whatever Redis had kept (change_password; OldCodesStayOld).
CodesToldWork ==
    Quiet /\ calm /\ count["change"] = 0 =>
        held.backup = row.backup /\ held.totp = row.totp

\* The password that the person was told is the account's.
PasswordToldWorks == Quiet /\ calm /\ held.pw # 0 => held.pw = row.pw

Alone(b) == \A x \in Browsers : scene.client[x] # "closed" => x = b

\* A list on the settings page is the stored one once the page has its answers,
\* for a person with one browser (invalidateQueries, get_api_keys).
ListsAreStored ==
    Quiet /\ calm /\ count["expire"] = 0 =>
        \A b \in Browsers : At(b, "settings") /\ Alone(b) /\ b \in sessions =>
            browser[b].keys = keys /\ browser[b].sessions = sessions

\* What a page told the person - a password, a code, a list of keys or sessions -
\* is what the database has, through its copies in Redis and in the browser.
ToldIsStored == AccountsTypeOK /\ CodesToldWork /\ PasswordToldWorks /\ ListsAreStored

\* A password that was changed or set anew leaves its browser on the login page
\* and not behind it, whatever identity the client had cached (queryClient.clear).
ChangedIsSignedOut == \A b \in Browsers : browser[b].told = "changed" => At(b, "login")

\* Generating a backup code "replaces the previous one server-side"
\* (securityApi.ts), so an old one is not seen again.
OldCodesStayOld == [][row'.backup >= row.backup]_vars

\* A person without an account gets one and is signed in; one who forgot the
\* password gets a new one on the new client and is signed in.
Wants(b) == scene.client[b] # "closed" /\ scene.signedIn = {} /\ scene.expire = 0
              /\ (scene.forgot => Web(b))
EndsSignedIn == \A b \in Browsers : Wants(b) => <>(browser[b].access = "valid")
=============================================================================
