---------------------------- MODULE AccountsProofs ----------------------------
(* Theorems about Accounts. *)
EXTENDS Accounts, FiniteSetTheorems, TLAPS

\* What a request and a page are made of.
Stages  == {"sent", "checked", "filling", "known", "read", "done"}
Answers == {None, "ok", "no", "taken", "failed", "out"}
Told    == {None, "created", "refused", "sent", "invalid token", "ended", "changed"}
States  == [totp : BOOLEAN, required : BOOLEAN, credentials : SUBSET Nat]
KeySets     == SUBSET Nat
SessionSets == SUBSET Browsers
Copies  == {None} \cup Rows \cup States \cup KeySets \cup SessionSets

Asked == [op : Ops, pw : Nat, value : Nat \cup Browsers, stage : Stages, copy : Copies,
          answer : Answers, awaited : BOOLEAN, renews : BOOLEAN]

Pages == [at : Places, access : {"valid", "old", "none"}, known : BOOLEAN \cup {None},
          dialog : {None} \cup [op : Secured, value : Nat], told : Told,
          totp : BOOLEAN, required : BOOLEAN, credentials : SUBSET Nat,
          keys : SUBSET Nat, sessions : SUBSET Browsers]

\* What a request carries at its stage.
Fits(q) ==
    /\ q \in Asked
    /\ q.op # "end session" => q.value \in Nat
    /\ q.op = "end session" => q.value \in Browsers
    /\ q.stage \in {"filling", "known", "read"} => q.copy \in Rows
    /\ q.op = "reset" => q.stage \in {"sent", "read", "done"}
    /\ q.stage = "done" /\ q.answer = "ok" =>
          /\ q.op = "keys" => q.copy \in SUBSET Nat
          /\ q.op = "sessions" => q.copy \in SUBSET Browsers
          /\ q.op = "status" => q.copy \in States
    /\ q.answer # None => q.stage = "done"
    /\ q.op \in Reading => q.awaited = TRUE

\* What the server keeps is of its type.
StoredType ==
    /\ account \in {"none", "new", "verified"} /\ row \in Rows /\ cached \in Rows \cup {None}
    /\ keys \in SUBSET Nat /\ credentials \in SUBSET Nat /\ challenge \in Nat \cup {None}
    /\ sessions \in SUBSET Browsers /\ token \in BOOLEAN

WorkType ==
    /\ DOMAIN work = Browsers
    /\ \A b \in Browsers : /\ IsFiniteSet(DOMAIN work[b])
                           /\ \A i \in DOMAIN work[b] : Fits(work[b][i])

TypeInv ==
    /\ scene \in Scenes /\ calm \in BOOLEAN
    /\ held \in [pw : Nat, backup : Nat, totp : Nat]
    /\ count \in [Ops \cup {"expire", "visit"} -> Nat]
    /\ browser \in [Browsers -> Pages]
    /\ StoredType /\ WorkType

\* Sessions, tokens and their page are those of an account.
OwnerInv ==
    /\ sessions # {} \/ token \/ (\E b \in Browsers : At(b, "set")) => account = "verified"
    /\ \A b \in Browsers :
          /\ scene.client[b] = "closed" => Idle(b)
          /\ browser[b].dialog # None => Web(b) /\ At(b, "security")
          /\ \A i \in DOMAIN work[b] : work[b][i].op = "change" => count["change"] # 0

\* Is the request told, or about to be told, that its account is created?
Wins(b, i) == work[b][i].op = "register" /\ work[b][i].answer = "ok"

WinnerInv ==
    /\ \A b, c \in Browsers :
          browser[b].told = "created" /\ browser[c].told = "created" => b = c
    /\ \A b, c \in Browsers : \A i \in DOMAIN work[b] :
          Wins(b, i) => browser[c].told # "created"
    /\ \A b, c \in Browsers : \A i \in DOMAIN work[b], j \in DOMAIN work[c] :
          Wins(b, i) /\ Wins(c, j) => b = c /\ i = j
    /\ \A b \in Browsers :
          /\ browser[b].told = "created" => account # "none"
          /\ \A i \in DOMAIN work[b] : Wins(b, i) => account # "none"

\* The page of a reset: the new client does not know there who is signed in,
\* and waits for that reset alone.
ResetInv ==
    \A b \in Browsers : Web(b) =>
        /\ At(b, "set") => browser[b].known = None
        /\ \A i \in DOMAIN work[b] :
              /\ work[b][i].op = "reset" => At(b, "set")
              /\ At(b, "set") => work[b][i].op = "reset" /\ \A j \in DOMAIN work[b] : j = i

SignedOutInv == ResetInv /\ ChangedIsSignedOut

-----------------------------------------------------------------------------
(* While only one thing goes on at a time. *)

\* What was told and what is kept agree, as far as they have to.
Agree(h) ==
    /\ h.pw # 0 => h.pw = row.pw
    /\ count["change"] = 0 => h.backup = row.backup /\ h.totp = row.totp

\* Requests of one browser only, and one that writes is alone.
AloneInv ==
    /\ \A b, c \in Browsers : Idle(b) \/ Idle(c) \/ b = c
    /\ \A b \in Browsers : \A i \in DOMAIN work[b] :
          work[b][i].op \notin Reading =>
              work[b][i].awaited = TRUE /\ \A j \in DOMAIN work[b] : j = i

\* Copies are no older than the password.
CopyInv ==
    /\ cached # None => cached.pw = row.pw
    /\ \A b \in Browsers : \A i \in DOMAIN work[b] :
          LET r == work[b][i] IN
          /\ r.stage \in {"filling", "read"} => r.copy = row
          /\ r.stage = "known" => r.copy.pw = row.pw

Answered(r) == r.stage = "done" /\ r.op \notin Reading

HeldInv ==
    /\ (\A b \in Browsers : \A i \in DOMAIN work[b] : ~Answered(work[b][i])) => Agree(held)
    /\ \A b \in Browsers : \A i \in DOMAIN work[b] :
          Answered(work[b][i]) => Agree(Hold(work[b][i]))

RefusedInv ==
    \A b \in Browsers : \A i \in DOMAIN work[b] :
        LET r == work[b][i] IN
        r.answer = "no" =>
            /\ r.op \in Secured \cup {"change"} => r.pw # row.pw
            /\ r.op = "login" => r.pw # row.pw \/ account # "verified"

\* The answers that end the session of their browser.
Ends(r) ==
    \/ r.answer = "ok" /\ r.op \in {"change", "reset"}
    \/ r.stage = "done" /\ r.op = "logout"

\* Who has a session has a token, or gets it with an answer.
SessionInv ==
    \A b \in Browsers :
        /\ \A i \in DOMAIN work[b] :
              LET r == work[b][i] IN
              /\ r.op = "login" => At(b, "login")
              /\ Ends(r) => b \notin sessions
        /\ b \in sessions /\ count["expire"] = 0 =>
              \/ browser[b].access = "valid"
              \/ \E i \in DOMAIN work[b] : work[b][i].op = "login" /\ work[b][i].answer = "ok"

Listing == {"keys", "add key", "delete key", "sessions", "end session"}

\* A list that is not the stored one is under way.
ListInv ==
    \A b \in Browsers :
       count["expire"] = 0 /\ At(b, "settings") /\ b \in sessions =>
          /\ \A i \in DOMAIN work[b] :
                LET r == work[b][i] IN
                r.op \in Listing =>
                    /\ r.stage = "done" => r.answer = "ok"
                    /\ r.answer = "ok" /\ r.op = "keys" /\ Alone(b) => r.copy = keys
                    /\ r.answer = "ok" /\ r.op = "sessions" /\ Alone(b) => r.copy = sessions
          /\ Alone(b) =>
               /\ \/ browser[b].keys = keys
                  \/ \E i \in DOMAIN work[b] : work[b][i].op \in {"keys", "add key", "delete key"}
               /\ \/ browser[b].sessions = sessions
                  \/ \E i \in DOMAIN work[b] : work[b][i].op \in {"sessions", "end session"}

CalmInv ==
    calm => AloneInv /\ CopyInv /\ HeldInv /\ RefusedInv /\ SessionInv /\ ListInv

AccountsInv == TypeInv /\ OwnerInv /\ WinnerInv /\ SignedOutInv /\ CalmInv

-----------------------------------------------------------------------------
(* The requests of a browser. *)

\* A fresh number is no one's.
LEMMA FreshIsNew ==
    ASSUME NEW w, IsFiniteSet(DOMAIN w)
    PROVE  Fresh(w) \notin DOMAIN w
<1> DEFINE k == Cardinality(DOMAIN w)
<1>1. k \in Nat
  BY FS_CardinalityType
<1>2. IsFiniteSet(1 .. k + 1) /\ Cardinality(1 .. k + 1) = k + 1
  BY <1>1, FS_Interval
<1>3. \E n \in 1 .. k + 1 : n \notin DOMAIN w
  <2>1. SUFFICES ASSUME 1 .. k + 1 \subseteq DOMAIN w PROVE FALSE
    OBVIOUS
  <2>2. Cardinality(1 .. k + 1) <= k
    BY <2>1, FS_Subset
  <2>3. QED
    BY <1>1, <1>2, <2>2
<1>4. QED
  BY <1>3 DEF Fresh

\* A request is added, and nothing else.
LEMMA Added ==
    ASSUME NEW w, NEW q, IsFiniteSet(DOMAIN w)
    PROVE  /\ IsFiniteSet(DOMAIN With(w, q)) /\ DOMAIN w \subseteq DOMAIN With(w, q)
           /\ \A n \in DOMAIN w : With(w, q)[n] = w[n]
           /\ \A n \in DOMAIN With(w, q) : n \notin DOMAIN w => With(w, q)[n] = q
           /\ \E n \in DOMAIN With(w, q) : n \notin DOMAIN w /\ With(w, q)[n] = q
           /\ \E k : DOMAIN With(w, q) = DOMAIN w \cup {k}
<1>1. Fresh(w) \notin DOMAIN w
  BY FreshIsNew
<1>2. DOMAIN With(w, q) = DOMAIN w \cup {Fresh(w)}
  BY DEF With
<1>3. \A n \in DOMAIN With(w, q) : With(w, q)[n] = IF n \in DOMAIN w THEN w[n] ELSE q
  BY DEF With
<1>4. IsFiniteSet(DOMAIN w \cup {Fresh(w)})
  BY FS_AddElement
<1>5. QED
  BY <1>1, <1>2, <1>3, <1>4

\* What a page asks for is added to what it waits for.
Opens(w, v) ==
    /\ IsFiniteSet(DOMAIN v) /\ DOMAIN w \subseteq DOMAIN v
    /\ \A n \in DOMAIN w : v[n] = w[n]
    /\ \A n \in DOMAIN v : n \notin DOMAIN w => \E op \in Reading : v[n] = Request(op, 0, 0)

\* What a page asks for when it opens comes on top of what was asked for.
LEMMA Opened ==
    ASSUME NEW w, NEW page, IsFiniteSet(DOMAIN w)
    PROVE  /\ Opens(w, Reads(page, w))
           /\ page = "settings" =>
                /\ \E n \in DOMAIN Reads(page, w) : Reads(page, w)[n] = Request("keys", 0, 0)
                /\ \E n \in DOMAIN Reads(page, w) : Reads(page, w)[n] = Request("sessions", 0, 0)
<1> DEFINE k == Request("keys", 0, 0)
           s == Request("sessions", 0, 0)
           t == Request("status", 0, 0)
<1>r. {"keys", "sessions", "status"} = Reading
  BY DEF Reading
<1>1. CASE page = "settings"
  <2> DEFINE u == With(w, k)
             v == With(u, s)
  <2>1. Reads(page, w) = v
    BY <1>1 DEF Reads
  <2>2. /\ IsFiniteSet(DOMAIN u) /\ DOMAIN w \subseteq DOMAIN u
        /\ \A n \in DOMAIN w : u[n] = w[n]
        /\ \A n \in DOMAIN u : n \notin DOMAIN w => u[n] = k
        /\ \E n \in DOMAIN u : n \notin DOMAIN w /\ u[n] = k
    BY Added
  <2>3. /\ IsFiniteSet(DOMAIN v) /\ DOMAIN u \subseteq DOMAIN v
        /\ \A n \in DOMAIN u : v[n] = u[n]
        /\ \A n \in DOMAIN v : n \notin DOMAIN u => v[n] = s
        /\ \E n \in DOMAIN v : n \notin DOMAIN u /\ v[n] = s
    BY <2>2, Added
  <2> HIDE DEF u, v, k, s
  <2>4. \A n \in DOMAIN v : n \notin DOMAIN w => v[n] = k \/ v[n] = s
    BY <2>2, <2>3
  <2>5. \A n \in DOMAIN w : v[n] = w[n]
    BY <2>2, <2>3
  <2>6. DOMAIN w \subseteq DOMAIN v
    BY <2>2, <2>3
  <2>7. \A n \in DOMAIN v : n \notin DOMAIN w => \E op \in Reading : v[n] = Request(op, 0, 0)
    BY <1>r, <2>4 DEF k, s
  <2>8. Opens(w, v)
    BY <2>3, <2>5, <2>6, <2>7 DEF Opens
  <2>9. (\E n \in DOMAIN v : v[n] = k) /\ (\E n \in DOMAIN v : v[n] = s)
    BY <2>2, <2>3
  <2>10. QED
    BY <1>1, <2>1, <2>8, <2>9 DEF k, s
<1>2. CASE page = "security"
  <2> DEFINE u == With(w, t)
  <2>1. Reads(page, w) = u
    BY <1>2 DEF Reads
  <2>2. /\ IsFiniteSet(DOMAIN u) /\ DOMAIN w \subseteq DOMAIN u
        /\ \A n \in DOMAIN w : u[n] = w[n]
        /\ \A n \in DOMAIN u : n \notin DOMAIN w => u[n] = t
    BY Added
  <2> HIDE DEF u
  <2>3. \A n \in DOMAIN u : n \notin DOMAIN w => \E op \in Reading : u[n] = Request(op, 0, 0)
    BY <1>r, <2>2
  <2>4. Opens(w, u)
    BY <2>2, <2>3 DEF Opens
  <2>5. QED
    BY <1>2, <2>1, <2>4
<1>3. CASE page \notin {"settings", "security"}
  <2>1. Reads(page, w) = w
    BY <1>3 DEF Reads
  <2>2. QED
    BY <1>3, <2>1 DEF Opens
<1>4. QED
  BY <1>1, <1>2, <1>3

\* A new request.
Valued(op, value) ==
    /\ op = "end session" => value \in Browsers
    /\ op # "end session" => value \in Nat

\* A request that is made fits, and waits for its answer.
LEMMA Requested ==
    ASSUME NEW op \in Ops, NEW pw \in Nat, NEW value, Valued(op, value)
    PROVE  /\ Fits(Request(op, pw, value))
           /\ Request(op, pw, value).op = op /\ Request(op, pw, value).stage = "sent"
           /\ Request(op, pw, value).answer = None /\ Request(op, pw, value).awaited = TRUE
<1>1. Request(op, pw, value) \in Asked
  BY DEF Request, Asked, Stages, Copies, Answers, Valued
<1>2. QED
  BY <1>1 DEF Request, Fits, Valued

\* What a page asks for.
LEMMA ReadRequested ==
    ASSUME NEW op \in Reading
    PROVE  /\ Fits(Request(op, 0, 0)) /\ Request(op, 0, 0).op = op
           /\ Request(op, 0, 0).stage = "sent" /\ Request(op, 0, 0).answer = None
           /\ Request(op, 0, 0).awaited = TRUE
<1> DEFINE q == Request(op, 0, 0)
<1>1. op \in Ops /\ op # "end session"
  BY DEF Reading, Ops
<1>2. /\ q.op = op /\ q.value \in Nat /\ q.stage = "sent" /\ q.answer = None
      /\ q.awaited = TRUE /\ q.copy = None
  BY DEF Request
<1>3. q \in Asked
  BY <1>1 DEF Request, Asked, Stages, Copies, Answers
<1> HIDE DEF q
<1>4. Fits(q)
  BY <1>1, <1>2, <1>3 DEF Fits
<1>5. QED
  BY <1>2, <1>4 DEF q

\* A step of the server on a request leaves what was asked for.
Same(q, r) == q.op = r.op /\ q.pw = r.pw /\ q.value = r.value /\ q.awaited = r.awaited

Step(r, stage, copy, answer) == [r EXCEPT !.stage = stage, !.copy = copy, !.answer = answer]

\* The fields of a request after a step of its handler.
LEMMA StepIs ==
    ASSUME NEW r \in Asked, NEW s \in Stages, NEW c \in Copies, NEW a \in Answers
    PROVE  /\ Step(r, s, c, a) \in Asked
           /\ Same(Step(r, s, c, a), r) /\ Step(r, s, c, a).stage = s
           /\ Step(r, s, c, a).copy = c /\ Step(r, s, c, a).answer = a
BY DEF Step, Same, Asked

\* What a request may come to carry.
Fitting(r, stage, copy, answer) ==
    /\ stage \in Stages /\ copy \in Copies /\ answer \in Answers
    /\ stage \in {"filling", "known", "read"} => copy \in Rows
    /\ r.op = "reset" => stage \in {"sent", "read", "done"}
    /\ stage = "done" /\ answer = "ok" =>
          /\ r.op = "keys" => copy \in SUBSET Nat
          /\ r.op = "sessions" => copy \in SUBSET Browsers
          /\ r.op = "status" => copy \in States
    /\ answer # None => stage = "done"

Becomes(q, r, stage, copy, answer) ==
    Fits(q) /\ Same(q, r) /\ q.stage = stage /\ q.copy = copy /\ q.answer = answer

\* A request whose handler made a fitting step still fits.
LEMMA Stepped ==
    ASSUME NEW r, NEW stage, NEW copy, NEW answer, Fits(r), Fitting(r, stage, copy, answer)
    PROVE  Becomes(Step(r, stage, copy, answer), r, stage, copy, answer)
<1>1. r \in Asked /\ stage \in Stages /\ copy \in Copies /\ answer \in Answers
  BY DEF Fits, Fitting
<1> DEFINE q == Step(r, stage, copy, answer)
<1>2. q \in Asked /\ Same(q, r) /\ q.stage = stage /\ q.copy = copy /\ q.answer = answer
  BY <1>1, StepIs
<1> HIDE DEF q
<1>3. /\ q.op # "end session" => q.value \in Nat
      /\ q.op = "end session" => q.value \in Browsers
      /\ q.op \in Reading => q.awaited = TRUE
  <2>1. /\ r.op # "end session" => r.value \in Nat
        /\ r.op = "end session" => r.value \in Browsers
        /\ r.op \in Reading => r.awaited = TRUE
    BY DEF Fits
  <2>2. q.op = r.op /\ q.value = r.value /\ q.awaited = r.awaited
    BY <1>2 DEF Same
  <2>3. QED
    BY <2>1, <2>2, Zenon
<1>4. Fits(q)
  BY <1>2, <1>3 DEF Fits, Same, Fitting
<1>5. QED
  BY <1>2, <1>4 DEF q, Becomes

\* One request of a browser moves on.
Moved(b, i, q) ==
    /\ DOMAIN work' = Browsers
    /\ \A x \in Browsers :
          /\ DOMAIN work'[x] = DOMAIN work[x]
          /\ \A j \in DOMAIN work[x] : work'[x][j] = IF x = b /\ j = i THEN q ELSE work[x][j]

\* Putting a request in its place moves that request only.
LEMMA PutMoves ==
    ASSUME DOMAIN work = Browsers, NEW b \in Browsers, NEW i \in DOMAIN work[b], NEW q,
           work' = [work EXCEPT ![b][i] = q]
    PROVE  Moved(b, i, q)
BY DEF Moved

\* An Update moves that request only.
LEMMA UpdateMoves ==
    ASSUME DOMAIN work = Browsers, NEW b \in Browsers, NEW i \in DOMAIN work[b],
           NEW stage, NEW copy, NEW answer, Update(b, i, stage, copy, answer)
    PROVE  Moved(b, i, Step(work[b][i], stage, copy, answer))
<1>1. work' = [work EXCEPT ![b][i] = Step(work[b][i], stage, copy, answer)]
  BY DEF Update, Step
<1>2. QED
  BY <1>1, PutMoves

\* A request that moved on fits, like the others.
LEMMA MovedFits ==
    ASSUME WorkType, NEW b \in Browsers, NEW i \in DOMAIN work[b], NEW q, Fits(q), Moved(b, i, q)
    PROVE  WorkType'
<1>1. DOMAIN work' = Browsers
  BY DEF Moved
<1>2. ASSUME NEW x \in Browsers
      PROVE  IsFiniteSet(DOMAIN work'[x]) /\ \A j \in DOMAIN work'[x] : Fits(work'[x][j])
  <2>1. /\ DOMAIN work'[x] = DOMAIN work[x]
        /\ \A j \in DOMAIN work[x] : work'[x][j] = IF x = b /\ j = i THEN q ELSE work[x][j]
    BY DEF Moved
  <2>2. IsFiniteSet(DOMAIN work[x]) /\ \A j \in DOMAIN work[x] : Fits(work[x][j])
    BY DEF WorkType
  <2>3. \A j \in DOMAIN work[x] : Fits(work'[x][j])
    BY <2>1, <2>2
  <2>4. QED
    BY <2>1, <2>2, <2>3
<1>3. QED
  BY <1>1, <1>2 DEF WorkType

-----------------------------------------------------------------------------
(* What a step of the server does. *)

\* The requests that write the row of the user.
Writers == {"change", "reset", "backup", "totp on", "totp off", "require"}

\* The row they write.
Written(r) == IF r.op = "reset" THEN [r.copy EXCEPT !.pw = r.value] ELSE Write(r)

\* What a step from r to q does to the account,
AccountMoves(r, q) ==
    /\ \/ account' = account
       \/ account = "none" /\ account' = "new" /\ r.op = "register"
       \/ account = "new" /\ account' = "verified" /\ r.op = "verify"
    /\ r.op = "register" /\ q.answer = "ok" => account = "none" /\ account' = "new"
    /\ token' => token \/ account = "verified"

\* to the sessions,
SessionsMove(b, r, q) ==
    /\ \/ sessions' \in SUBSET sessions
       \/ /\ sessions' = sessions \cup {b} /\ account = "verified"
          /\ r.op = "login" /\ q.answer = "ok"
    /\ r.op \in Reading => sessions' = sessions
    /\ sessions' = sessions \/ r.op \in {"login", "end session"} \/ b \notin sessions'
    /\ r.answer = None /\ Ends(q) => b \notin sessions'

\* to the row and its cached copy,
RowMoves(r, q) ==
    IF r.op \in Writers /\ q.answer = "ok"
    THEN /\ row' = Written(r) /\ r.stage = IF r.op = "change" THEN "known" ELSE "read"
         /\ r.op \in {"change", "reset"} => cached' = None
         /\ r.op \notin {"change", "reset"} => cached' = cached
    ELSE /\ row' = row
         /\ cached' = cached \/ (r.stage = "filling" /\ cached' = r.copy)

\* and what its copy and its answer are.
CopyMoves(r, q) ==
    /\ q.stage \in {"filling", "read"} => q.copy = row
    /\ q.stage = "known" => \/ q.copy = cached /\ cached # None
                            \/ q.copy = r.copy /\ r.stage = "filling"
    /\ q.stage = "done" /\ q.answer = "ok" /\ r.op = "keys" => q.copy = keys
    /\ q.stage = "done" /\ q.answer = "ok" /\ r.op = "sessions" => q.copy = sessions
    /\ r.op \notin {"add key", "delete key"} => keys' = keys

AnswerMoves(b, r, q) ==
    /\ q.stage = "done" <=> q.answer # None
    /\ q.answer = "out" => ~Authentic(b, browser[b].access)
    /\ r.op \in Listing => q.answer \in {None, "ok", "out"}
    /\ q.answer = "no" =>
          /\ r.op \in Secured \cup {"change"} => r.stage \in {"known", "read"} /\ r.pw # r.copy.pw
          /\ r.op = "login" => r.pw # row.pw \/ account # "verified"

\* A step of the server on request i of b.
Effect(b, i, q) ==
    LET r == work[b][i] IN
    /\ Moved(b, i, q) /\ Fits(q) /\ Same(q, r) /\ r.stage # "done"
    /\ StoredType' /\ AccountMoves(r, q) /\ SessionsMove(b, r, q)
    /\ RowMoves(r, q) /\ CopyMoves(r, q) /\ AnswerMoves(b, r, q)

\* What a handler may hold: a row, a state, a list, or nothing.
LEMMA CopyKinds == None \in Copies /\ Rows \subseteq Copies /\ States \subseteq Copies
                     /\ SUBSET Nat \subseteq Copies /\ SUBSET Browsers \subseteq Copies
<1>1. None \in Copies /\ Rows \subseteq Copies /\ States \subseteq Copies
      /\ KeySets \subseteq Copies /\ SessionSets \subseteq Copies
  BY DEF Copies
<1>2. QED
  BY <1>1 DEF KeySets, SessionSets

\* A handler takes effect as its writes say.
LEMMA Effected ==
    ASSUME WorkType, NEW b \in Browsers, NEW i \in DOMAIN work[b], work[b][i].stage # "done",
           NEW stage, NEW copy, NEW answer, Update(b, i, stage, copy, answer),
           Fitting(work[b][i], stage, copy, answer), StoredType',
           \A q : Becomes(q, work[b][i], stage, copy, answer) =>
                     /\ AccountMoves(work[b][i], q) /\ SessionsMove(b, work[b][i], q)
                     /\ RowMoves(work[b][i], q) /\ CopyMoves(work[b][i], q)
                     /\ AnswerMoves(b, work[b][i], q)
    PROVE  \E q : Effect(b, i, q)
<1> DEFINE r == work[b][i]
           q == Step(r, stage, copy, answer)
<1>1. Fits(r) /\ DOMAIN work = Browsers
  BY DEF WorkType
<1>2. Moved(b, i, q)
  BY <1>1, UpdateMoves
<1>3. Becomes(q, r, stage, copy, answer)
  BY <1>1, Stepped
<1>4. Effect(b, i, q)
  BY <1>2, <1>3 DEF Effect, Becomes
<1>5. QED
  BY <1>4

\* /users/create: the two steps of a registration.
LEMMA RegisterEffect ==
    ASSUME StoredType, WorkType, NEW b \in Browsers, NEW i \in DOMAIN work[b],
           work[b][i].stage # "done", work[b][i].op = "register", Register(b, i, work[b][i])
    PROVE  \E q : Effect(b, i, q)
<1> DEFINE r == work[b][i]
<1>u. /\ row' = row /\ cached' = cached /\ keys' = keys /\ credentials' = credentials
      /\ challenge' = challenge /\ sessions' = sessions /\ token' = token
  BY DEF Register
<1>p. r.op = "register" /\ r.stage # "done"
  OBVIOUS
<1>1. PICK stage \in {"checked", "done"}, answer \in {None, "taken", "failed", "ok"} :
         /\ Update(b, i, stage, None, answer)
         /\ stage = "done" <=> answer # None
         /\ IF answer = "ok" THEN account = "none" /\ account' = "new" ELSE account' = account
  BY NoneIsNothing DEF Register, Done
<1>2. Fitting(r, stage, None, answer)
  BY <1>p, <1>1, CopyKinds DEF Fitting, Stages, Answers
<1>3. StoredType'
  BY <1>u, <1>1 DEF StoredType
<1>4. ASSUME NEW q, Becomes(q, r, stage, None, answer)
      PROVE  /\ AccountMoves(r, q) /\ SessionsMove(b, r, q)
             /\ RowMoves(r, q) /\ CopyMoves(r, q) /\ AnswerMoves(b, r, q)
  <2>1. q.stage = stage /\ q.copy = None /\ q.answer = answer /\ q.op = r.op
    BY <1>4 DEF Becomes, Same
  <2> HIDE DEF r
  <2>2. AccountMoves(r, q)
    BY <1>u, <1>1, <1>p, <2>1, NoneIsNothing DEF AccountMoves
  <2>3. SessionsMove(b, r, q)
    BY <1>u, <1>p, <2>1, NoneIsNothing DEF SessionsMove, Ends, Reading
  <2>4. RowMoves(r, q)
    BY <1>u, <1>p, <2>1, NoneIsNothing DEF RowMoves, Writers
  <2>5. CopyMoves(r, q)
    BY <1>u, <1>1, <1>p, <2>1, NoneIsNothing DEF CopyMoves
  <2>6. AnswerMoves(b, r, q)
    BY <1>u, <1>1, <1>p, <2>1, NoneIsNothing DEF AnswerMoves, Listing, Secured
  <2>7. QED
    BY <2>2, <2>3, <2>4, <2>5, <2>6
<1>5. QED
  BY <1>1, <1>2, <1>3, <1>4, Effected

\* Verification, the reset mail, login and logout: handlers of one step.
LEMMA OneStepEffect ==
    ASSUME StoredType, WorkType, NEW b \in Browsers, NEW i \in DOMAIN work[b],
           work[b][i].stage # "done", work[b][i].op \in Public \ {"register", "reset"},
           OneStep(b, i, work[b][i])
    PROVE  \E q : Effect(b, i, q)
<1> DEFINE r == work[b][i]
           ok == CASE r.op = "verify" -> account = "new"
                   [] r.op = "login"  -> account = "verified" /\ r.pw = row.pw
                   [] OTHER           -> TRUE
           answer == IF ok THEN "ok" ELSE "no"
<1>u. /\ row' = row /\ cached' = cached /\ keys' = keys /\ credentials' = credentials
      /\ challenge' = challenge
  BY DEF OneStep
<1>p. r.op \in {"verify", "login", "logout", "forgot"} /\ r.stage # "done"
  BY DEF Public
<1>1. /\ Update(b, i, "done", None, answer)
      /\ account' = IF r.op = "verify" /\ ok THEN "verified" ELSE account
      /\ sessions' = CASE r.op = "login" /\ ok -> sessions \cup {b}
                       [] r.op = "logout"      -> sessions \ {b}
                       [] OTHER                -> sessions
      /\ token' = (token \/ (r.op = "forgot" /\ account = "verified"))
  BY DEF OneStep, Done
<1>2. /\ answer \in {"ok", "no"}
      /\ r.op = "verify" => (answer = "ok" <=> account = "new")
      /\ r.op = "login" => (answer = "ok" <=> account = "verified" /\ r.pw = row.pw)
      /\ r.op \in {"logout", "forgot"} => answer = "ok"
  BY <1>p
<1>3. /\ account' = IF r.op = "verify" /\ answer = "ok" THEN "verified" ELSE account
      /\ r.op = "login" /\ answer = "ok" => sessions' = sessions \cup {b}
      /\ r.op = "logout" => sessions' = sessions \ {b}
      /\ ~(r.op = "login" /\ answer = "ok") /\ r.op # "logout" => sessions' = sessions
  BY <1>1, <1>2
<1>4. token' \in BOOLEAN /\ (token' => token \/ account = "verified")
  BY <1>1 DEF StoredType
<1> HIDE DEF ok, answer
<1>5. Fitting(r, "done", None, answer)
  BY <1>p, <1>2, CopyKinds DEF Fitting, Stages, Answers
<1>6. StoredType'
  <2>1. sessions' \in SUBSET Browsers
    BY <1>3 DEF StoredType
  <2>2. account' \in {"none", "new", "verified"}
    BY <1>3 DEF StoredType
  <2>3. QED
    BY <1>u, <1>4, <2>1, <2>2 DEF StoredType
<1>7. ASSUME NEW q, Becomes(q, r, "done", None, answer)
      PROVE  /\ AccountMoves(r, q) /\ SessionsMove(b, r, q)
             /\ RowMoves(r, q) /\ CopyMoves(r, q) /\ AnswerMoves(b, r, q)
  <2>1. q.stage = "done" /\ q.copy = None /\ q.answer = answer /\ q.op = r.op
    BY <1>7 DEF Becomes, Same
  <2> HIDE DEF r
  <2>2. AccountMoves(r, q)
    <3>1. \/ account' = account
          \/ account = "new" /\ account' = "verified" /\ r.op = "verify"
      BY <1>2, <1>3
    <3>2. r.op # "register"
      BY <1>p
    <3>3. QED
      BY <1>4, <3>1, <3>2 DEF AccountMoves
  <2>3. SessionsMove(b, r, q)
    BY <1>p, <1>2, <1>3, <2>1 DEF SessionsMove, Ends, Reading
  <2>4. RowMoves(r, q)
    BY <1>u, <1>p, <2>1, NoneIsNothing DEF RowMoves, Writers
  <2>5. CopyMoves(r, q)
    BY <1>u, <1>p, <2>1, NoneIsNothing DEF CopyMoves
  <2>6. AnswerMoves(b, r, q)
    BY <1>p, <1>2, <2>1, NoneIsNothing DEF AnswerMoves, Listing, Secured
  <2>7. QED
    BY <2>2, <2>3, <2>4, <2>5, <2>6
<1>8. QED
  BY <1>1, <1>5, <1>6, <1>7, Effected

\* /users/reset-password: the row is read, then written.
LEMMA ResetEffect ==
    ASSUME StoredType, WorkType, NEW b \in Browsers, NEW i \in DOMAIN work[b],
           work[b][i].stage # "done", work[b][i].op = "reset", Reset(b, i, work[b][i])
    PROVE  \E q : Effect(b, i, q)
<1> DEFINE r == work[b][i]
<1>f. Fits(r)
  BY DEF WorkType
<1>p. r.op = "reset" /\ r.stage \in {"sent", "read"} /\ r.value \in Nat
  BY <1>f DEF Fits
<1>u. /\ keys' = keys /\ credentials' = credentials /\ challenge' = challenge
      /\ account' = account /\ token' = token
  BY DEF Reset, stored
<1>1. \/ /\ r.stage = "sent" /\ row' = row /\ cached' = cached /\ sessions' = sessions
         /\ Update(b, i, "read", row, None) \/ Update(b, i, "done", None, "no")
      \/ /\ r.stage = "read" /\ Update(b, i, "done", None, "ok")
         /\ row' = [r.copy EXCEPT !.pw = r.value] /\ sessions' = {} /\ cached' = None
  BY <1>p DEF Reset, Done, stored
<1>2. PICK stage \in {"read", "done"}, copy \in {row, None}, answer \in {None, "no", "ok"} :
         /\ Update(b, i, stage, copy, answer)
         /\ stage = "done" <=> answer # None
         /\ stage = "read" => copy = row
         /\ IF answer = "ok"
            THEN /\ r.stage = "read" /\ row' = [r.copy EXCEPT !.pw = r.value]
                 /\ sessions' = {} /\ cached' = None
            ELSE row' = row /\ cached' = cached /\ sessions' = sessions
  BY <1>1, NoneIsNothing
<1>3. Fitting(r, stage, copy, answer)
  BY <1>p, <1>2, CopyKinds DEF Fitting, Stages, Answers, StoredType
<1>4. StoredType'
  <2>1. row' \in Rows
    BY <1>f, <1>p, <1>2 DEF StoredType, Fits, Rows
  <2>2. QED
    BY <1>u, <1>2, <2>1 DEF StoredType
<1>5. ASSUME NEW q, Becomes(q, r, stage, copy, answer)
      PROVE  /\ AccountMoves(r, q) /\ SessionsMove(b, r, q)
             /\ RowMoves(r, q) /\ CopyMoves(r, q) /\ AnswerMoves(b, r, q)
  <2>1. q.stage = stage /\ q.copy = copy /\ q.answer = answer /\ q.op = r.op
    BY <1>5 DEF Becomes, Same
  <2> HIDE DEF r
  <2>2. AccountMoves(r, q)
    BY <1>u, <1>p DEF AccountMoves
  <2>3. SessionsMove(b, r, q)
    BY <1>p, <1>2, <2>1 DEF SessionsMove, Ends, Reading
  <2>4. RowMoves(r, q)
    BY <1>p, <1>2, <2>1 DEF RowMoves, Writers, Written
  <2>5. CopyMoves(r, q)
    BY <1>u, <1>p, <1>2, <2>1 DEF CopyMoves
  <2>6. AnswerMoves(b, r, q)
    BY <1>p, <1>2, <2>1, NoneIsNothing DEF AnswerMoves, Listing, Secured
  <2>7. QED
    BY <2>2, <2>3, <2>4, <2>5, <2>6
<1>6. QED
  BY <1>2, <1>3, <1>4, <1>5, Effected

\* The handlers that look for the user first have one, or a copy of it.
LEMMA AuthenticateEffect ==
    ASSUME StoredType, WorkType, NEW b \in Browsers, NEW i \in DOMAIN work[b],
           work[b][i].op \notin Public, work[b][i].stage \in {"sent", "filling"},
           Authenticate(b, i, work[b][i])
    PROVE  \E q : Effect(b, i, q)
<1> DEFINE r == work[b][i]
<1>f. Fits(r) /\ r \in Asked /\ DOMAIN work = Browsers
  BY DEF WorkType, Fits
<1>p. r.op \notin {"register", "reset", "verify", "login", "logout"} /\ r.stage # "done"
  BY DEF Public
<1>u. /\ row' = row /\ keys' = keys /\ credentials' = credentials /\ challenge' = challenge
      /\ account' = account /\ token' = token /\ sessions' = sessions
  BY DEF Authenticate
<1>1. PICK q : /\ Moved(b, i, q) /\ Fits(q) /\ Same(q, r)
               /\ \/ /\ r.stage = "filling" /\ cached' = r.copy
                     /\ q.stage = "known" /\ q.copy = r.copy /\ q.answer = None
                  \/ /\ cached' = cached /\ q.answer = None
                     /\ \/ cached = None /\ q.stage = "filling" /\ q.copy = row
                        \/ cached # None /\ q.stage = "known" /\ q.copy = cached
                  \/ /\ cached' = cached /\ q.stage = "done" /\ q.answer = "out"
                     /\ ~Authentic(b, browser[b].access)
  <2>1. CASE r.stage = "filling"
    <3>1. cached' = r.copy /\ Update(b, i, "known", r.copy, None) /\ r.copy \in Rows
      BY <1>f, <2>1 DEF Authenticate, Fits
    <3>2. Fitting(r, "known", r.copy, None)
      BY <1>p, <3>1, CopyKinds DEF Fitting, Stages, Answers
    <3>3. Becomes(Step(r, "known", r.copy, None), r, "known", r.copy, None)
      BY <1>f, <3>2, Stepped
    <3>4. Moved(b, i, Step(r, "known", r.copy, None))
      BY <1>f, <3>1, UpdateMoves
    <3>5. QED
      BY <2>1, <3>1, <3>3, <3>4 DEF Becomes
  <2>2. CASE r.stage # "filling" /\ ~Authentic(b, browser[b].access)
    <3> DEFINE q == [r EXCEPT !.stage = "done", !.answer = "out"]
    <3>1. cached' = cached /\ work' = [work EXCEPT ![b][i] = q]
      BY <2>2 DEF Authenticate
    <3>2. Moved(b, i, q)
      BY <1>f, <3>1, PutMoves
    <3>3. q = Step(r, "done", r.copy, "out")
      BY <1>f DEF Step, Asked
    <3>4. Fitting(r, "done", r.copy, "out")
      BY <1>f, NoneIsNothing DEF Fitting, Stages, Answers, Asked
    <3>5. Becomes(q, r, "done", r.copy, "out")
      BY <1>f, <3>3, <3>4, Stepped
    <3>6. QED
      BY <2>2, <3>1, <3>2, <3>5 DEF Becomes
  <2>3. CASE r.stage # "filling" /\ Authentic(b, browser[b].access)
    <3> DEFINE stage == IF cached = None THEN "filling" ELSE "known"
               copy  == IF cached = None THEN row ELSE cached
               late  == browser[b].access = "old"
               p     == Step(r, stage, copy, None)
               q     == [p EXCEPT !.renews = late]
    <3>1. stage \in {"filling", "known"} /\ copy \in Rows
      BY DEF StoredType
    <3>2. Fitting(r, stage, copy, None)
      BY <1>p, <3>1, CopyKinds DEF Fitting, Stages, Answers
    <3>3. r.answer = None
      BY <1>f, <1>p DEF Fits
    <3>4. [r EXCEPT !.stage = stage, !.copy = copy, !.renews = late] = q
      BY <1>f, <3>3 DEF Step, Asked
    <3>5. cached' = cached /\ work' = [work EXCEPT ![b][i] = q]
      BY <2>3, <3>4 DEF Authenticate
    <3>6. Moved(b, i, q)
      BY <1>f, <3>5, PutMoves
    <3>7. Becomes(p, r, stage, copy, None)
      BY <1>f, <3>2, Stepped
    <3>8. Becomes(q, r, stage, copy, None)
      <4>1. late \in BOOLEAN
        OBVIOUS
      <4> HIDE DEF late, p
      <4>2. p \in Asked
        BY <3>7 DEF Becomes, Fits
      <4>3. /\ q \in Asked /\ q.op = p.op /\ q.pw = p.pw /\ q.value = p.value
            /\ q.awaited = p.awaited /\ q.stage = p.stage /\ q.copy = p.copy /\ q.answer = p.answer
        BY <4>1, <4>2 DEF Asked
      <4> HIDE DEF q
      <4>4. Fits(q)
        BY <3>7, <4>3 DEF Becomes, Fits
      <4>5. QED
        BY <3>7, <4>3, <4>4 DEF Becomes, Same
    <3>9. QED
      BY <3>5, <3>6, <3>8 DEF Becomes
  <2>4. QED
    BY <2>1, <2>2, <2>3
<1>2. StoredType'
  <2>1. cached' \in Rows \cup {None}
    BY <1>f, <1>1 DEF StoredType, Fits
  <2>2. QED
    BY <1>u, <2>1 DEF StoredType
<1> HIDE DEF r
<1>3. AccountMoves(r, q)
  BY <1>u, <1>p DEF AccountMoves
<1>4. SessionsMove(b, r, q)
  BY <1>u, <1>1, <1>p, NoneIsNothing DEF Same, SessionsMove, Ends
<1>5. RowMoves(r, q)
  BY <1>u, <1>1, NoneIsNothing DEF RowMoves
<1>6. CopyMoves(r, q)
  BY <1>u, <1>1, NoneIsNothing DEF CopyMoves
<1>7. AnswerMoves(b, r, q)
  BY <1>p, <1>1, NoneIsNothing DEF AnswerMoves
<1>8. QED
  BY <1>p, <1>1, <1>2, <1>3, <1>4, <1>5, <1>6, <1>7 DEF Effect, r

\* What is written is a row.
LEMMA WritesRow ==
    ASSUME NEW r, r.op \in Writers \ {"reset"}, r.copy \in Rows, r.value \in Nat
    PROVE  Write(r) \in Rows /\ Written(r) = Write(r)
<1>1. Written(r) = Write(r)
  BY DEF Written
<1>2. CASE r.op = "change"
  BY <1>1, <1>2 DEF Write, Rows
<1>3. CASE r.op = "backup"
  BY <1>1, <1>3 DEF Write, Rows
<1>4. CASE r.op = "totp on"
  BY <1>1, <1>4 DEF Write, Rows
<1>5. CASE r.op = "totp off"
  BY <1>1, <1>5 DEF Write, Rows
<1>6. CASE r.op = "require"
  BY <1>1, <1>6 DEF Write, Rows
<1>7. QED
  BY <1>2, <1>3, <1>4, <1>5, <1>6 DEF Writers

\* /users/password/update: the user comes from the cache, the database last.
LEMMA ChangeEffect ==
    ASSUME StoredType, WorkType, NEW b \in Browsers, NEW i \in DOMAIN work[b],
           work[b][i].op = "change", work[b][i].stage = "known", Change(b, i, work[b][i])
    PROVE  \E q : Effect(b, i, q)
<1> DEFINE r == work[b][i]
<1>f. Fits(r)
  BY DEF WorkType
<1>p. r.op = "change" /\ r.stage = "known" /\ r.copy \in Rows /\ r.value \in Nat
  BY <1>f DEF Fits
<1>u. /\ keys' = keys /\ credentials' = credentials /\ challenge' = challenge
      /\ account' = account /\ token' = token
  BY DEF Change
<1>1. PICK answer \in {"no", "ok"} :
         /\ Update(b, i, "done", None, answer)
         /\ answer = "ok" <=> r.pw = r.copy.pw
         /\ IF answer = "ok" THEN row' = Write(r) /\ sessions' = {} /\ cached' = None
                             ELSE row' = row /\ sessions' = sessions /\ cached' = cached
  <2>1. CASE r.pw = r.copy.pw
    BY <2>1 DEF Change, Done
  <2>2. CASE r.pw # r.copy.pw
    BY <2>2 DEF Change, Done
  <2>3. QED
    BY <2>1, <2>2
<1>2. Fitting(r, "done", None, answer)
  BY <1>p, <1>1, CopyKinds DEF Fitting, Stages, Answers
<1>w. Write(r) \in Rows /\ Written(r) = Write(r)
  <2>1. r.op \in Writers \ {"reset"}
    BY <1>p DEF Writers
  <2>2. QED
    BY <1>p, <2>1, WritesRow
<1>3. StoredType'
  BY <1>u, <1>1, <1>w DEF StoredType
<1>4. ASSUME NEW q, Becomes(q, r, "done", None, answer)
      PROVE  /\ AccountMoves(r, q) /\ SessionsMove(b, r, q)
             /\ RowMoves(r, q) /\ CopyMoves(r, q) /\ AnswerMoves(b, r, q)
  <2>1. q.stage = "done" /\ q.copy = None /\ q.answer = answer /\ q.op = r.op
    BY <1>4 DEF Becomes, Same
  <2> HIDE DEF r
  <2>2. AccountMoves(r, q)
    BY <1>u, <1>p DEF AccountMoves
  <2>3. SessionsMove(b, r, q)
    BY <1>p, <1>1, <2>1 DEF SessionsMove, Ends, Reading
  <2>4. RowMoves(r, q)
    BY <1>p, <1>1, <1>w, <2>1 DEF RowMoves, Writers
  <2>5. CopyMoves(r, q)
    BY <1>u, <1>p, <1>1, <2>1 DEF CopyMoves
  <2>6. AnswerMoves(b, r, q)
    BY <1>p, <1>1, <2>1, NoneIsNothing DEF AnswerMoves, Listing
  <2>7. QED
    BY <2>2, <2>3, <2>4, <2>5, <2>6
<1>5. QED
  BY <1>1, <1>2, <1>3, <1>4, <1>p, Effected

\* The handlers that check the password and write a second factor.
LEMMA SecureEffect ==
    ASSUME StoredType, WorkType, NEW b \in Browsers, NEW i \in DOMAIN work[b],
           work[b][i].op \in Secured, work[b][i].stage \in {"known", "read"},
           Secure(b, i, work[b][i])
    PROVE  \E q : Effect(b, i, q)
<1> DEFINE r == work[b][i]
<1>f. Fits(r)
  BY DEF WorkType
<1>p. /\ r.op \in Secured /\ r.stage \in {"known", "read"} /\ r.copy \in Rows /\ r.value \in Nat
      /\ r.stage # "done"
  BY <1>f DEF Fits, Secured
<1>u. /\ keys' = keys /\ cached' = cached /\ sessions' = sessions
      /\ account' = account /\ token' = token
  BY DEF Secure
<1>1. PICK stage \in {"read", "done"}, copy \in {row, None}, answer \in {None, "no", "ok"} :
         /\ Update(b, i, stage, copy, answer)
         /\ stage = "done" <=> answer # None
         /\ stage = "read" => copy = row
         /\ answer = "no" => r.pw # r.copy.pw
         /\ IF r.op \in Writers /\ answer = "ok" THEN row' = Write(r) /\ r.stage = "read"
                                                 ELSE row' = row
         /\ challenge' \in {challenge, r.value}
         /\ credentials' \in {credentials, credentials \ {r.value}}
  <2>1. CASE r.stage = "known" /\ r.op # "remove"
    BY <2>1, NoneIsNothing DEF Secure
  <2>2. CASE ~(r.stage = "known" /\ r.op # "remove")
    <3>1. /\ Update(b, i, "done", None, IF r.pw = r.copy.pw THEN "ok" ELSE "no")
          /\ row' = IF r.pw = r.copy.pw /\ r.op \notin {"begin", "remove"} THEN Write(r) ELSE row
          /\ challenge' \in {challenge, r.value}
          /\ credentials' \in {credentials, credentials \ {r.value}}
      BY <2>2 DEF Secure, Done
    <3>2. r.op \in Writers <=> r.op \notin {"begin", "remove"}
      BY <1>p DEF Writers, Secured
    <3>3. r.op \in Writers => r.stage = "read"
      BY <1>p, <2>2, <3>2
    <3> HIDE DEF r
    <3>4. CASE r.pw = r.copy.pw
      BY <3>1, <3>2, <3>3, <3>4, NoneIsNothing
    <3>5. CASE r.pw # r.copy.pw
      BY <3>1, <3>2, <3>3, <3>5, NoneIsNothing
    <3>6. QED
      BY <3>4, <3>5
  <2>3. QED
    BY <2>1, <2>2
<1>2. Fitting(r, stage, copy, answer)
  BY <1>p, <1>1, CopyKinds DEF Fitting, Stages, Answers, Secured, StoredType
<1>w. r.op \in Writers => Write(r) \in Rows /\ Written(r) = Write(r)
  <2>1. r.op \in Writers => r.op \in Writers \ {"reset"}
    BY <1>p DEF Secured
  <2>2. QED
    BY <1>p, <2>1, WritesRow
<1>3. StoredType'
  BY <1>u, <1>1, <1>p, <1>w DEF StoredType
<1>4. ASSUME NEW q, Becomes(q, r, stage, copy, answer)
      PROVE  /\ AccountMoves(r, q) /\ SessionsMove(b, r, q)
             /\ RowMoves(r, q) /\ CopyMoves(r, q) /\ AnswerMoves(b, r, q)
  <2>1. q.stage = stage /\ q.copy = copy /\ q.answer = answer /\ q.op = r.op
    BY <1>4 DEF Becomes, Same
  <2> HIDE DEF r
  <2>2. AccountMoves(r, q)
    BY <1>u, <1>p DEF AccountMoves, Secured
  <2>3. SessionsMove(b, r, q)
    BY <1>u, <1>p, <2>1 DEF SessionsMove, Ends, Reading, Secured
  <2>4. RowMoves(r, q)
    BY <1>u, <1>p, <1>1, <1>w, <2>1 DEF RowMoves, Secured
  <2>5. CopyMoves(r, q)
    BY <1>u, <1>p, <1>1, <2>1 DEF CopyMoves, Secured
  <2>6. AnswerMoves(b, r, q)
    BY <1>p, <1>1, <2>1, NoneIsNothing DEF AnswerMoves, Listing, Secured
  <2>7. QED
    BY <2>2, <2>3, <2>4, <2>5, <2>6
<1>5. QED
  BY <1>1, <1>2, <1>3, <1>4, <1>p, Effected

\* The second half of adding a security key.
LEMMA EnrolEffect ==
    ASSUME StoredType, WorkType, NEW b \in Browsers, NEW i \in DOMAIN work[b],
           work[b][i].op = "enrol", work[b][i].stage = "known", Enrol(b, i, work[b][i])
    PROVE  \E q : Effect(b, i, q)
<1> DEFINE r == work[b][i]
<1>f. Fits(r)
  BY DEF WorkType
<1>p. r.op = "enrol" /\ r.stage = "known" /\ r.stage # "done" /\ r.value \in Nat
  BY <1>f DEF Fits
<1>u. /\ row' = row /\ keys' = keys /\ cached' = cached /\ sessions' = sessions
      /\ account' = account /\ token' = token /\ challenge' = challenge
  BY DEF Enrol
<1>1. PICK answer \in {"failed", "ok"} :
         /\ Update(b, i, "done", None, answer)
         /\ credentials' \in {credentials, credentials \cup {r.value}}
  BY DEF Enrol, Done
<1>2. Fitting(r, "done", None, answer)
  BY <1>p, <1>1, CopyKinds DEF Fitting, Stages, Answers
<1>3. StoredType'
  BY <1>u, <1>1, <1>p DEF StoredType
<1>4. ASSUME NEW q, Becomes(q, r, "done", None, answer)
      PROVE  /\ AccountMoves(r, q) /\ SessionsMove(b, r, q)
             /\ RowMoves(r, q) /\ CopyMoves(r, q) /\ AnswerMoves(b, r, q)
  <2>1. q.stage = "done" /\ q.copy = None /\ q.answer = answer /\ q.op = r.op
    BY <1>4 DEF Becomes, Same
  <2> HIDE DEF r
  <2>2. AccountMoves(r, q)
    BY <1>u, <1>p DEF AccountMoves
  <2>3. SessionsMove(b, r, q)
    BY <1>u, <1>p, <2>1 DEF SessionsMove, Ends, Reading
  <2>4. RowMoves(r, q)
    BY <1>u, <1>p, <2>1 DEF RowMoves, Writers
  <2>5. CopyMoves(r, q)
    BY <1>u, <1>p, <1>1, <2>1 DEF CopyMoves
  <2>6. AnswerMoves(b, r, q)
    BY <1>p, <1>1, <2>1, NoneIsNothing DEF AnswerMoves, Listing, Secured
  <2>7. QED
    BY <2>2, <2>3, <2>4, <2>5, <2>6
<1>5. QED
  BY <1>1, <1>2, <1>3, <1>4, <1>p, Effected

\* What the account has, for the pages that show it.
LEMMA StatusEffect ==
    ASSUME StoredType, WorkType, NEW b \in Browsers, NEW i \in DOMAIN work[b],
           work[b][i].op = "status", work[b][i].stage = "known", Status(b, i, work[b][i])
    PROVE  \E q : Effect(b, i, q)
<1> DEFINE r == work[b][i]
           copy == [totp |-> row.totp > 0, required |-> r.copy.required,
                    credentials |-> credentials]
<1>f. Fits(r)
  BY DEF WorkType
<1>p. r.op = "status" /\ r.stage = "known" /\ r.stage # "done" /\ r.copy \in Rows
  BY <1>f DEF Fits
<1>u. /\ row' = row /\ keys' = keys /\ cached' = cached /\ sessions' = sessions
      /\ account' = account /\ token' = token /\ challenge' = challenge
      /\ credentials' = credentials
  BY DEF Status, stored
<1>1. Update(b, i, "done", copy, "ok")
  BY DEF Status, Done
<1>c. copy \in States
  <2>1. r.copy.required \in BOOLEAN
    BY <1>p DEF Rows
  <2>b. (row.totp > 0) \in BOOLEAN
    BY DEF StoredType, Rows
  <2>2. credentials \in SUBSET Nat
    BY DEF StoredType
  <2>3. QED
    BY <2>1, <2>b, <2>2 DEF States
<1> HIDE DEF copy
<1>2. Fitting(r, "done", copy, "ok")
  BY <1>p, <1>c, CopyKinds DEF Fitting, Stages, Answers
<1>3. StoredType'
  BY <1>u DEF StoredType
<1>4. ASSUME NEW q, Becomes(q, r, "done", copy, "ok")
      PROVE  /\ AccountMoves(r, q) /\ SessionsMove(b, r, q)
             /\ RowMoves(r, q) /\ CopyMoves(r, q) /\ AnswerMoves(b, r, q)
  <2>1. q.stage = "done" /\ q.copy = copy /\ q.answer = "ok" /\ q.op = r.op
    BY <1>4 DEF Becomes, Same
  <2> HIDE DEF r
  <2>2. AccountMoves(r, q)
    BY <1>u, <1>p DEF AccountMoves
  <2>3. SessionsMove(b, r, q)
    BY <1>u, <1>p, <2>1 DEF SessionsMove, Ends, Reading
  <2>4. RowMoves(r, q)
    BY <1>u, <1>p, <2>1 DEF RowMoves, Writers
  <2>5. CopyMoves(r, q)
    BY <1>u, <1>p, <2>1 DEF CopyMoves
  <2>6. AnswerMoves(b, r, q)
    BY <1>p, <2>1, NoneIsNothing DEF AnswerMoves, Listing, Secured
  <2>7. QED
    BY <2>2, <2>3, <2>4, <2>5, <2>6
<1>5. QED
  BY <1>1, <1>2, <1>3, <1>4, <1>p, Effected

\* The lists of keys and sessions, and what adds to them or takes away.
LEMMA ListedEffect ==
    ASSUME StoredType, WorkType, NEW b \in Browsers, NEW i \in DOMAIN work[b],
           work[b][i].op \in Listing, work[b][i].stage = "known", Listed(b, i, work[b][i])
    PROVE  \E q : Effect(b, i, q)
<1> DEFINE r == work[b][i]
           copy == IF r.op = "sessions" THEN sessions ELSE keys
<1>f. Fits(r)
  BY DEF WorkType
<1>p. /\ r.op \in Listing /\ r.stage = "known" /\ r.stage # "done"
      /\ r.op # "end session" => r.value \in Nat
  BY <1>f DEF Fits
<1>u. /\ row' = row /\ cached' = cached /\ account' = account /\ token' = token
      /\ challenge' = challenge /\ credentials' = credentials
  BY DEF Listed
<1>1. /\ Update(b, i, "done", copy, "ok")
      /\ r.op = "add key" => keys' = keys \cup {r.value}
      /\ r.op = "delete key" => keys' = keys \ {r.value}
      /\ r.op \notin {"add key", "delete key"} => keys' = keys
      /\ sessions' = IF r.op = "end session" THEN sessions \ {r.value} ELSE sessions
  BY DEF Listed, Done
<1>c. copy \in Copies /\ (r.op = "keys" => copy = keys) /\ (r.op = "sessions" => copy = sessions)
  BY CopyKinds DEF StoredType
<1> HIDE DEF copy
<1>2. Fitting(r, "done", copy, "ok")
  BY <1>p, <1>c DEF Fitting, Stages, Answers, Listing, StoredType
<1>3. StoredType'
  <2>1. keys' \in SUBSET Nat
    BY <1>1, <1>p DEF StoredType
  <2>2. QED
    BY <1>u, <1>1, <2>1 DEF StoredType
<1>4. ASSUME NEW q, Becomes(q, r, "done", copy, "ok")
      PROVE  /\ AccountMoves(r, q) /\ SessionsMove(b, r, q)
             /\ RowMoves(r, q) /\ CopyMoves(r, q) /\ AnswerMoves(b, r, q)
  <2>1. q.stage = "done" /\ q.copy = copy /\ q.answer = "ok" /\ q.op = r.op
    BY <1>4 DEF Becomes, Same
  <2> HIDE DEF r
  <2>2. AccountMoves(r, q)
    BY <1>u, <1>p DEF AccountMoves, Listing
  <2>3. SessionsMove(b, r, q)
    BY <1>1, <1>p, <2>1 DEF SessionsMove, Ends, Reading, Listing
  <2>4. RowMoves(r, q)
    BY <1>u, <1>p, <2>1 DEF RowMoves, Writers, Listing
  <2>5. CopyMoves(r, q)
    BY <1>p, <1>1, <1>c, <2>1 DEF CopyMoves
  <2>6. AnswerMoves(b, r, q)
    BY <1>p, <2>1, NoneIsNothing DEF AnswerMoves
  <2>7. QED
    BY <2>2, <2>3, <2>4, <2>5, <2>6
<1>5. QED
  BY <1>1, <1>2, <1>3, <1>4, <1>p, Effected

\* Every step of the server moves one request on.
LEMMA HandleEffect ==
    ASSUME StoredType, WorkType, NEW b \in Browsers, Handle(b)
    PROVE  /\ \E i \in DOMAIN work[b] : \E q : Effect(b, i, q)
           /\ scene' = scene /\ browser' = browser /\ held' = held /\ calm' = calm
           /\ count' = count
<1>1. PICK i \in DOMAIN work[b] :
         LET r == work[b][i] IN
         /\ r.stage # "done"
         /\ \/ r.op = "register" /\ Register(b, i, r)
            \/ r.op = "reset" /\ Reset(b, i, r)
            \/ r.op \in Public \ {"register", "reset"} /\ OneStep(b, i, r)
            \/ r.op \notin Public /\ r.stage \in {"sent", "filling"} /\ Authenticate(b, i, r)
            \/ r.op = "change" /\ r.stage = "known" /\ Change(b, i, r)
            \/ r.op \in Secured /\ r.stage \in {"known", "read"} /\ Secure(b, i, r)
            \/ r.op = "enrol" /\ r.stage = "known" /\ Enrol(b, i, r)
            \/ r.op = "status" /\ r.stage = "known" /\ Status(b, i, r)
            \/ r.op \in {"add key", "delete key", "keys", "end session", "sessions"}
                  /\ r.stage = "known" /\ Listed(b, i, r)
  BY DEF Handle
<1> DEFINE r == work[b][i]
<1>2. CASE r.op = "register" /\ Register(b, i, r)
  BY <1>1, <1>2, RegisterEffect DEF Handle
<1>3. CASE r.op = "reset" /\ Reset(b, i, r)
  BY <1>1, <1>3, ResetEffect DEF Handle
<1>4. CASE r.op \in Public \ {"register", "reset"} /\ OneStep(b, i, r)
  BY <1>1, <1>4, OneStepEffect DEF Handle
<1>5. CASE r.op \notin Public /\ r.stage \in {"sent", "filling"} /\ Authenticate(b, i, r)
  BY <1>1, <1>5, AuthenticateEffect DEF Handle
<1>6. CASE r.op = "change" /\ r.stage = "known" /\ Change(b, i, r)
  BY <1>1, <1>6, ChangeEffect DEF Handle
<1>7. CASE r.op \in Secured /\ r.stage \in {"known", "read"} /\ Secure(b, i, r)
  BY <1>1, <1>7, SecureEffect DEF Handle
<1>8. CASE r.op = "enrol" /\ r.stage = "known" /\ Enrol(b, i, r)
  BY <1>1, <1>8, EnrolEffect DEF Handle
<1>9. CASE r.op = "status" /\ r.stage = "known" /\ Status(b, i, r)
  BY <1>1, <1>9, StatusEffect DEF Handle
<1>10. CASE r.op \in {"add key", "delete key", "keys", "end session", "sessions"}
              /\ r.stage = "known" /\ Listed(b, i, r)
  BY <1>1, <1>10, ListedEffect DEF Handle, Listing
<1>11. QED
  BY <1>1, <1>2, <1>3, <1>4, <1>5, <1>6, <1>7, <1>8, <1>9, <1>10

-----------------------------------------------------------------------------
(* What a person does. *)

\* The page stays what it is, but for a message or a dialog.
Stays(b, s) ==
    /\ s \in Pages /\ s.at = browser[b].at /\ s.access = browser[b].access
    /\ s.known = browser[b].known /\ s.keys = browser[b].keys /\ s.sessions = browser[b].sessions
    /\ s.told \in {None, browser[b].told}
    /\ s.dialog # None => s.dialog = browser[b].dialog \/ (Web(b) /\ At(b, "security"))

Turns(b, s) == browser' = [browser EXCEPT ![b] = s]

\* When a thing can be asked for.
MayAsk(b, op, pw, value) ==
    /\ scene.client[b] # "closed" /\ op \in Ops \ (Reading \cup {"enrol"}) /\ pw \in Nat
    /\ op = "end session" => value \in Browsers
    /\ op # "end session" => value \in Nat
    /\ op = "verify" => account = "new"
    /\ op = "login" => At(b, "login")
    /\ op = "reset" => At(b, "set") /\ (Web(b) => \A i \in DOMAIN work[b] : work[b][i].op # "reset")
    /\ Web(b) /\ At(b, "set") => op \in {"reset", "verify"}

AskStep(b) ==
    \E s, op, pw, value : Stays(b, s) /\ Turns(b, s) /\ MayAsk(b, op, pw, value) /\ Ask(b, op, pw, value)

DialogStep(b) ==
    /\ \E s : Stays(b, s) /\ Turns(b, s)
    /\ UNCHANGED <<scene, stored, work, held, calm, count>>

\* The parts of a page.
LEMMA PageParts ==
    ASSUME TypeInv, NEW b \in Browsers
    PROVE  /\ browser[b] \in Pages /\ browser[b].keys \in SUBSET Nat
           /\ browser[b].sessions \in SUBSET Browsers /\ browser[b].credentials \in SUBSET Nat
           /\ browser[b].at \in Places
           /\ browser[b].access \in {"valid", "old", "none"} /\ browser[b].known \in BOOLEAN \cup {None}
           /\ browser[b].told \in Told
           /\ browser[b].dialog \in {None} \cup [op : Secured, value : Nat]
<1>1. browser[b] \in Pages
  BY DEF TypeInv
<1>2. QED
  BY <1>1 DEF Pages

\* The parts of a page that is changed.
LEMMA PageChanged ==
    ASSUME NEW o \in Pages
    PROVE  /\ \A v \in Told :
                LET s == [o EXCEPT !.told = v] IN
                /\ s \in Pages /\ s.at = o.at /\ s.access = o.access /\ s.known = o.known
                /\ s.keys = o.keys /\ s.sessions = o.sessions /\ s.told = v /\ s.dialog = o.dialog
           /\ \A d \in {None} \cup [op : Secured, value : Nat] :
                LET s == [o EXCEPT !.dialog = d] IN
                /\ s \in Pages /\ s.at = o.at /\ s.access = o.access /\ s.known = o.known
                /\ s.keys = o.keys /\ s.sessions = o.sessions /\ s.told = o.told /\ s.dialog = d
           /\ \A v \in BOOLEAN :
                LET s == [o EXCEPT !.required = v] IN
                /\ s \in Pages /\ s.at = o.at /\ s.access = o.access /\ s.known = o.known
                /\ s.keys = o.keys /\ s.sessions = o.sessions /\ s.told = o.told /\ s.dialog = o.dialog
BY DEF Pages

\* A page that only forgets what it told stays as it is.
LEMMA QuietlyStays ==
    ASSUME TypeInv, NEW b \in Browsers, Quietly(b)
    PROVE  \E s : Stays(b, s) /\ Turns(b, s)
<1> DEFINE s == [browser[b] EXCEPT !.told = None]
<1>1. browser[b] \in Pages /\ None \in Told
  BY DEF TypeInv, Told
<1>2. /\ s \in Pages /\ s.at = browser[b].at /\ s.access = browser[b].access
      /\ s.known = browser[b].known /\ s.keys = browser[b].keys
      /\ s.sessions = browser[b].sessions /\ s.told = None /\ s.dialog = browser[b].dialog
  BY <1>1, PageChanged
<1>3. Turns(b, s)
  BY DEF Quietly, Turns
<1>4. QED
  BY <1>2, <1>3 DEF Stays

\* A request from a page that forgets what it told.
LEMMA QuietAsk ==
    ASSUME TypeInv, NEW b \in Browsers, NEW op, NEW pw, NEW value, MayAsk(b, op, pw, value),
           Ask(b, op, pw, value), Quietly(b)
    PROVE  AskStep(b)
BY QuietlyStays DEF AskStep

\* What can be typed and counted is a number.
LEMMA Numbers ==
    ASSUME TypeInv
    PROVE  /\ held.pw \in Nat /\ 0 \in Nat /\ 1 \in Nat /\ NewPassword \in Nat
           /\ Passwords \subseteq Nat
           /\ \A op \in Ops : count[op] \in Nat /\ New(op) \in Nat
<1>1. held.pw \in Nat
  BY DEF TypeInv
<1>2. \A op \in Ops : count[op] \in Nat
  BY DEF TypeInv
<1>3. \A op \in Ops : New(op) \in Nat
  BY <1>2 DEF New
<1>4. NewPassword \in Nat
  <2>1. count["change"] \in Nat /\ count["reset"] \in Nat
    BY <1>2 DEF Ops
  <2>2. QED
    BY <2>1 DEF NewPassword
<1>5. Passwords \subseteq Nat
  BY <1>1 DEF Passwords
<1>6. QED
  BY <1>1, <1>2, <1>3, <1>4, <1>5

\* The pages with a form ask for what they are for.
LEMMA AimAsks ==
    ASSUME TypeInv, NEW b \in Browsers,
           \/ RegisterCard(b) \/ RegisterPage(b) \/ OpenVerifyLink(b) \/ RequestResetCard(b)
           \/ ResetPasswordPage(b) \/ SetPasswordCard(b) \/ PasswordResetPage(b) \/ LogIn(b)
    PROVE  AskStep(b)
<1>n. held.pw \in Nat /\ 0 \in Nat /\ 1 \in Nat /\ NewPassword \in Nat
  BY Numbers
<1>1. CASE RegisterCard(b)
  <2>1. MayAsk(b, "register", 0, 0)
    BY <1>n, <1>1 DEF RegisterCard, MayAsk, Ops, Reading, At, Web, Legacy, Free
  <2>2. Ask(b, "register", 0, 0) /\ Quietly(b)
    BY <1>1 DEF RegisterCard
  <2>3. QED
    BY <2>1, <2>2, QuietAsk
<1>2. CASE RegisterPage(b)
  <2>1. MayAsk(b, "register", 0, 0)
    BY <1>n, <1>2 DEF RegisterPage, MayAsk, Ops, Reading, At, Web, Legacy, Free
  <2>2. Ask(b, "register", 0, 0) /\ Quietly(b)
    BY <1>2 DEF RegisterPage
  <2>3. QED
    BY <2>1, <2>2, QuietAsk
<1>3. CASE OpenVerifyLink(b)
  <2>1. MayAsk(b, "verify", 0, 0)
    BY <1>n, <1>3 DEF OpenVerifyLink, MayAsk, Ops, Reading, At, Web, Legacy, Free
  <2>2. Ask(b, "verify", 0, 0) /\ Quietly(b)
    BY <1>3 DEF OpenVerifyLink
  <2>3. QED
    BY <2>1, <2>2, QuietAsk
<1>4. CASE LogIn(b)
  <2>1. MayAsk(b, "login", held.pw, 0)
    BY <1>n, <1>4 DEF LogIn, MayAsk, Ops, Reading, At, Web, Legacy, Free
  <2>2. Ask(b, "login", held.pw, 0) /\ Quietly(b)
    BY <1>4 DEF LogIn
  <2>3. QED
    BY <2>1, <2>2, QuietAsk
<1>5. CASE RequestResetCard(b)
  <2>1. MayAsk(b, "forgot", 0, 0)
    BY <1>n, <1>5 DEF RequestResetCard, MayAsk, Ops, Reading, At, Web, Legacy, Free
  <2>2. Ask(b, "forgot", 0, 0) /\ Quietly(b)
    BY <1>5 DEF RequestResetCard
  <2>3. QED
    BY <2>1, <2>2, QuietAsk
<1>6. CASE ResetPasswordPage(b)
  <2>1. MayAsk(b, "forgot", 0, 0)
    BY <1>n, <1>6 DEF ResetPasswordPage, MayAsk, Ops, Reading, At, Web, Legacy, Free
  <2>2. Ask(b, "forgot", 0, 0) /\ Quietly(b)
    BY <1>6 DEF ResetPasswordPage
  <2>3. QED
    BY <2>1, <2>2, QuietAsk
<1>7. CASE SetPasswordCard(b)
  <2>1. MayAsk(b, "reset", 1, NewPassword)
    BY <1>n, <1>7 DEF SetPasswordCard, MayAsk, Ops, Reading, At, Web, Legacy, Free
  <2>2. Ask(b, "reset", 1, NewPassword) /\ Quietly(b)
    BY <1>7 DEF SetPasswordCard
  <2>3. QED
    BY <2>1, <2>2, QuietAsk
<1>8. CASE PasswordResetPage(b)
  <2>1. MayAsk(b, "reset", 0, NewPassword)
    BY <1>n, <1>8 DEF PasswordResetPage, MayAsk, Ops, Reading, At, Web, Legacy, Free
  <2>2. Ask(b, "reset", 0, NewPassword) /\ Quietly(b)
    BY <1>8 DEF PasswordResetPage
  <2>3. QED
    BY <2>1, <2>2, QuietAsk
<1>9. QED
  BY <1>1, <1>2, <1>3, <1>4, <1>5, <1>6, <1>7, <1>8

\* The settings page asks.
LEMMA SettingsAsk ==
    ASSUME TypeInv, NEW b \in Browsers, Settings(b)
    PROVE  AskStep(b)
<1>n. /\ 0 \in Nat /\ NewPassword \in Nat /\ Passwords \subseteq Nat
      /\ New("add key") \in Nat /\ browser[b].keys \in SUBSET Nat
      /\ browser[b].sessions \in SUBSET Browsers
  BY Numbers, PageParts DEF Ops
<1>1. PICK op \in {"change", "add key", "delete key", "end session"}, pw \in Nat,
           value \in Nat \cup Browsers :
         /\ Ask(b, op, pw, value) /\ Quietly(b) /\ At(b, "settings") /\ (Web(b) \/ Legacy(b))
         /\ op = "end session" => value \in Browsers
         /\ op # "end session" => value \in Nat
  <2>1. CASE ChangePasswordCard(b) \/ ChangePassword(b)
    BY <1>n, <2>1 DEF ChangePasswordCard, ChangePassword
  <2>2. CASE ApiKeysCard(b)
    BY <1>n, <2>2 DEF ApiKeysCard
  <2>3. CASE AddApiKey(b)
    BY <1>n, <2>3 DEF AddApiKey
  <2>4. CASE DeleteApiKey(b)
    BY <1>n, <2>4 DEF DeleteApiKey
  <2>5. CASE SessionsCard(b) \/ DeleteSession(b)
    BY <1>n, <2>5 DEF SessionsCard, DeleteSession
  <2>6. QED
    BY <2>1, <2>2, <2>3, <2>4, <2>5 DEF Settings
<1>2. MayAsk(b, op, pw, value)
  BY <1>1 DEF MayAsk, Ops, Reading, At, Web, Legacy
<1>3. QED
  BY <1>1, <1>2, QuietAsk

\* The logout button asks.
LEMMA LogoutAsks ==
    ASSUME TypeInv, NEW b \in Browsers, Logout(b)
    PROVE  AskStep(b)
<1>1. MayAsk(b, "logout", 0, 0)
  BY DEF Logout, MayAsk, Ops, Reading, Web, Legacy
<1>2. QED
  BY <1>1, QuietAsk DEF Logout

\* The security page asks, or opens its dialog for the password.
LEMMA SecurityAsks ==
    ASSUME TypeInv, OwnerInv, NEW b \in Browsers, Security(b)
    PROVE  AskStep(b) \/ DialogStep(b)
<1>n. /\ 0 \in Nat /\ 1 \in Nat /\ Passwords \subseteq Nat
      /\ New("backup") \in Nat /\ New("totp on") \in Nat /\ New("begin") \in Nat
      /\ browser[b].credentials \in SUBSET Nat
  <2>1. /\ 0 \in Nat /\ 1 \in Nat /\ Passwords \subseteq Nat
        /\ \A op \in Ops : count[op] \in Nat /\ New(op) \in Nat
    BY Numbers
  <2>2. browser[b].credentials \in SUBSET Nat
    BY PageParts
  <2>3. QED
    BY <2>1, <2>2 DEF Ops
<1>o. browser[b] \in Pages
  BY PageParts
<1>s. Secured \subseteq Ops \ (Reading \cup {"enrol"})
  BY DEF Secured, Ops, Reading
<1>1. ASSUME NEW op \in Secured, NEW value \in Nat, WithPassword(b, op, value)
      PROVE  DialogStep(b)
  <2> DEFINE d == [op |-> op, value |-> value]
             p == [browser[b] EXCEPT !.told = None]
             s == [p EXCEPT !.dialog = d]
  <2>1. browser' = [browser EXCEPT ![b] = s]
    BY <1>1, <1>o DEF WithPassword, Pages
  <2>2. /\ p \in Pages /\ p.at = browser[b].at /\ p.access = browser[b].access
        /\ p.known = browser[b].known /\ p.keys = browser[b].keys
        /\ p.sessions = browser[b].sessions /\ p.told = None
    BY <1>o, PageChanged DEF Told
  <2>3. d \in {None} \cup [op : Secured, value : Nat]
    BY <1>1
  <2> HIDE DEF p, d
  <2>4. /\ s \in Pages /\ s.at = p.at /\ s.access = p.access /\ s.known = p.known
        /\ s.keys = p.keys /\ s.sessions = p.sessions /\ s.told = p.told
    BY <2>2, <2>3, PageChanged
  <2> HIDE DEF s
  <2>5. Stays(b, s)
    BY <1>1, <2>2, <2>4 DEF Stays, WithPassword
  <2>6. QED
    BY <1>1, <2>1, <2>5 DEF DialogStep, Turns, WithPassword
<1>2. ASSUME NEW op \in Secured, NEW value \in Nat, Prompted(b, op, value), Quietly(b)
      PROVE  AskStep(b)
  <2>1. PICK pw \in Passwords : Ask(b, op, pw, value)
    BY <1>2 DEF Prompted
  <2>2. MayAsk(b, op, pw, value)
    BY <1>n, <1>s, <1>2 DEF MayAsk, Prompted, At, Web, Legacy, Secured
  <2>3. QED
    BY <1>2, <2>1, <2>2, QuietAsk
<1>d. ASSUME NEW s, s = [browser[b] EXCEPT !.dialog = None] PROVE Stays(b, s)
  <2>1. /\ s \in Pages /\ s.at = browser[b].at /\ s.access = browser[b].access
        /\ s.known = browser[b].known /\ s.keys = browser[b].keys
        /\ s.sessions = browser[b].sessions /\ s.told = browser[b].told /\ s.dialog = None
    BY <1>o, <1>d, PageChanged
  <2>2. QED
    BY <2>1 DEF Stays
<1>3. CASE ConfirmPassword(b)
  <2>1. PICK pw \in Passwords : Ask(b, browser[b].dialog.op, pw, browser[b].dialog.value)
    BY <1>3 DEF ConfirmPassword
  <2>2. browser[b].dialog # None /\ Web(b) /\ At(b, "security")
    BY <1>3 DEF ConfirmPassword, OwnerInv
  <2>3. browser[b].dialog.op \in Secured /\ browser[b].dialog.value \in Nat
    BY <2>2, PageParts
  <2>4. MayAsk(b, browser[b].dialog.op, pw, browser[b].dialog.value)
    BY <1>n, <1>s, <2>2, <2>3 DEF MayAsk, At, Web, Secured
  <2>5. Turns(b, [browser[b] EXCEPT !.dialog = None])
    BY <1>3 DEF ConfirmPassword, Turns
  <2>6. QED
    BY <1>d, <2>1, <2>4, <2>5 DEF AskStep
<1>4. CASE CancelPassword(b)
  <2>1. Turns(b, [browser[b] EXCEPT !.dialog = None])
    BY <1>4 DEF CancelPassword, Turns
  <2>2. QED
    BY <1>4, <1>d, <2>1 DEF DialogStep, CancelPassword
<1>5. CASE BackupCodeCard(b)
  BY <1>n, <1>1, <1>5 DEF BackupCodeCard, Secured
<1>6. CASE TotpCard(b)
  BY <1>n, <1>1, <1>6 DEF TotpCard, Secured
<1>7. CASE SecurityKeysCard(b)
  BY <1>n, <1>1, <1>7 DEF SecurityKeysCard, Secured
<1>8. CASE RequireCard(b)
  BY <1>n, <1>1, <1>8 DEF RequireCard, Secured
<1>9. CASE GetBackupCode(b)
  BY <1>n, <1>2, <1>9 DEF GetBackupCode, Secured
<1>10. CASE EnableTotp(b)
  BY <1>n, <1>2, <1>10 DEF EnableTotp, Secured
<1>11. CASE DisableTotp(b)
  BY <1>n, <1>2, <1>11 DEF DisableTotp, Secured
<1>12. CASE AddSecurityKey(b)
  BY <1>n, <1>2, <1>12 DEF AddSecurityKey, Secured
<1>13. CASE RemoveSecurityKey(b)
  BY <1>n, <1>2, <1>13 DEF RemoveSecurityKey, Secured
<1>14. CASE SavePasswordRequired(b)
  <2> DEFINE v == ~browser[b].required
             value == IF browser[b].required THEN 0 ELSE 1
             s == [browser[b] EXCEPT !.required = v]
  <2>1. PICK pw \in Passwords : Ask(b, "require", pw, value)
    BY <1>14 DEF SavePasswordRequired, Prompted
  <2>2. MayAsk(b, "require", pw, value)
    BY <1>n, <1>s, <1>14 DEF SavePasswordRequired, MayAsk, Prompted, At, Web, Legacy, Secured
  <2>3. v \in BOOLEAN
    OBVIOUS
  <2>4. Turns(b, s)
    BY <1>14 DEF SavePasswordRequired, Turns
  <2> HIDE DEF v
  <2>5. /\ s \in Pages /\ s.at = browser[b].at /\ s.access = browser[b].access
        /\ s.known = browser[b].known /\ s.keys = browser[b].keys
        /\ s.sessions = browser[b].sessions /\ s.told = browser[b].told
        /\ s.dialog = browser[b].dialog
    BY <1>o, <2>3, PageChanged
  <2> HIDE DEF s
  <2>6. Stays(b, s)
    BY <2>5 DEF Stays
  <2>7. QED
    BY <2>1, <2>2, <2>4, <2>6 DEF AskStep
<1>15. QED
  BY <1>3, <1>4, <1>5, <1>6, <1>7, <1>8, <1>9, <1>10, <1>11, <1>12, <1>13, <1>14 DEF Security

-----------------------------------------------------------------------------
(* Where a browser goes. *)

Counts == [Ops \cup {"expire", "visit"} -> Nat]

\* The browser b, in state s, opens a page and is then in state p.
Lands(b, page, s, left, p) ==
    /\ p \in Pages /\ Turns(b, p) /\ p.dialog = None /\ p.told = s.told
    /\ p.keys = s.keys /\ p.sessions = s.sessions
    /\ p.access = s.access \/ (Authentic(b, s.access) /\ p.access = "valid")
    /\ p.at = "set" <=> page = "set"
    /\ page = "set" /\ Web(b) => p.known = s.known
    /\ page = "login" /\ s.access = "none" /\ (Web(b) => s.known # TRUE) => p.at = "login"
    /\ cached' = cached \/ (cached = None /\ cached' = row)
    /\ work' = [work EXCEPT ![b] = Reads(p.at, left)]
    /\ UNCHANGED <<account, row, keys, credentials, challenge, sessions, token>>

\* Where a browser gets that opens a page.
LEMMA ArriveLands ==
    ASSUME TypeInv, NEW b \in Browsers, Web(b) \/ Legacy(b), NEW page \in Places,
           NEW s \in Pages, NEW left, Arrive(b, page, s, left)
    PROVE  \E p : Lands(b, page, s, left, p)
<1> DEFINE asks == IF Web(b) THEN s.known = None /\ page # "set" ELSE s.access = "old"
           is   == Authentic(b, s.access)
           in   == IF Legacy(b) THEN s.access # "none" ELSE IF asks THEN is ELSE s.known
           at   == IF Web(b) /\ page = "set" THEN "set" ELSE Land(page, in)
           known  == IF Web(b) /\ asks THEN is ELSE s.known
           access == IF asks /\ is THEN "valid" ELSE s.access
           p == [s EXCEPT !.at = at, !.dialog = None, !.known = known, !.access = access]
<1>a. /\ browser' = [browser EXCEPT ![b] = p]
      /\ cached' = IF asks /\ is /\ cached = None THEN row ELSE cached
      /\ work' = [work EXCEPT ![b] = Reads(at, left)]
      /\ UNCHANGED <<account, row, keys, credentials, challenge, sessions, token>>
  BY DEF Arrive
<1>b. Web(b) <=> ~Legacy(b)
  BY DEF Web, Legacy
<1>c. is \in BOOLEAN
  BY DEF Authentic
<1>d. s.access = "none" => ~is
  BY DEF Authentic
<1>e. s.known \in BOOLEAN \cup {None} /\ s.access \in {"valid", "old", "none"}
  BY DEF Pages
<1> HIDE DEF is
<1>1. known \in BOOLEAN \cup {None}
  <2>1. CASE Web(b) /\ asks
    BY <1>c, <2>1
  <2>2. CASE ~(Web(b) /\ asks)
    BY <1>e, <2>2
  <2>3. QED
    BY <2>1, <2>2
<1>2. /\ access \in {"valid", "old", "none"}
      /\ access = s.access \/ (Authentic(b, s.access) /\ access = "valid")
  BY <1>e DEF is
<1>3. page # "set" => at \in {page, "home", "login"}
  BY DEF Land
<1>4. page = "set" => at = "set"
  BY DEF Land, Guest, Private
<1>5. at \in Places
  <2>1. "home" \in Places /\ "login" \in Places /\ "set" \in Places
    BY DEF Places, Guest
  <2>2. QED
    BY <1>3, <1>4, <2>1
<1>6. at = "set" <=> page = "set"
  BY <1>3, <1>4
<1>7. page = "set" /\ Web(b) => known = s.known
  OBVIOUS
<1>8. page = "login" /\ s.access = "none" /\ (Web(b) => s.known # TRUE) => at = "login"
  <2>1. SUFFICES ASSUME page = "login", s.access = "none", Web(b) => s.known # TRUE
                 PROVE  at = "login"
    OBVIOUS
  <2>2. ~in
    <3>1. CASE Legacy(b)
      BY <2>1, <3>1
    <3>2. CASE ~Legacy(b) /\ asks
      BY <1>d, <2>1, <3>2
    <3>3. CASE ~Legacy(b) /\ ~asks
      <4>1. in = s.known
        BY <3>3
      <4>2. s.known # None
        BY <1>b, <2>1, <3>3
      <4>3. s.known = FALSE
        BY <1>b, <1>e, <2>1, <3>3, <4>2
      <4>4. QED
        BY <4>1, <4>3
    <3>4. QED
      BY <3>1, <3>2, <3>3
  <2>3. QED
    BY <2>1, <2>2 DEF Land, Private
<1>9. cached' = cached \/ (cached = None /\ cached' = row)
  BY <1>a
<1> HIDE DEF at, known, access
<1>10. /\ p \in Pages /\ p.at = at /\ p.dialog = None /\ p.told = s.told /\ p.keys = s.keys
       /\ p.sessions = s.sessions /\ p.known = known /\ p.access = access
  BY <1>1, <1>2, <1>5 DEF Pages
<1>11. Turns(b, p)
  BY <1>a DEF Turns
<1> HIDE DEF p
<1>12. Lands(b, page, s, left, p)
  BY <1>a, <1>2, <1>6, <1>7, <1>8, <1>9, <1>10, <1>11 DEF Lands
<1>13. QED
  BY <1>12

\* A page is opened.
GoStep(b) ==
    /\ \E page, s, p :
          /\ Lands(b, page, s, NoRequests, p)
          /\ s.told = None /\ s.access = browser[b].access
          /\ s.keys = browser[b].keys /\ s.sessions = browser[b].sessions
          /\ page = "set" => s.known = None /\ token
    /\ scene.client[b] # "closed" /\ Idle(b) /\ Calmly /\ UNCHANGED <<scene, held>>
    /\ count' \in Counts /\ count'["change"] = count["change"]
    /\ count'["expire"] = count["expire"]

\* A page is opened by a link or loaded.
LEMMA Visits ==
    ASSUME TypeInv, NEW b \in Browsers, NEW page \in Places \ {"set"}, Visit(b, page),
           count' = count \/ count' = [count EXCEPT !["visit"] = @ + 1]
    PROVE  GoStep(b)
<1> DEFINE s == [browser[b] EXCEPT !.told = None]
<1>1. Web(b) \/ Legacy(b)
  <2>1. scene \in Scenes /\ scene.client[b] # "closed"
    BY DEF TypeInv, Visit
  <2>2. scene.client \in [Browsers -> {"web", "legacy", "closed"}]
    BY <2>1, AccountsAssumption
  <2>3. QED
    BY <2>1, <2>2 DEF Web, Legacy
<1>2. browser[b] \in Pages /\ None \in Told
  BY DEF TypeInv, Told
<1>3. /\ s \in Pages /\ s.access = browser[b].access /\ s.keys = browser[b].keys
      /\ s.sessions = browser[b].sessions /\ s.told = None
  BY <1>2, PageChanged
<1>4. Arrive(b, page, s, NoRequests)
  BY DEF Visit
<1> HIDE DEF s
<1>5. PICK p : Lands(b, page, s, NoRequests, p)
  BY <1>1, <1>3, <1>4, ArriveLands
<1>6. /\ count' \in Counts /\ count'["change"] = count["change"]
      /\ count'["expire"] = count["expire"]
  <2>1. count \in Counts /\ "visit" \in Ops \cup {"expire", "visit"}
    BY DEF TypeInv, Counts
  <2>2. "change" \in Ops \cup {"expire", "visit"} /\ "expire" \in Ops \cup {"expire", "visit"}
    BY DEF Ops
  <2>3. count["visit"] + 1 \in Nat
    BY <2>1 DEF Counts
  <2>4. QED
    BY <2>1, <2>2, <2>3 DEF Counts
<1>7. QED
  BY <1>3, <1>5, <1>6 DEF GoStep, Visit

\* The link of the reset mail is opened.
LEMMA LinkOpened ==
    ASSUME TypeInv, NEW b \in Browsers, OpenResetLink(b)
    PROVE  GoStep(b)
<1> DEFINE v == [browser[b] EXCEPT !.told = None]
           s == [v EXCEPT !.known = None]
<1>1. Web(b) \/ Legacy(b)
  <2>1. scene \in Scenes /\ scene.client[b] # "closed"
    BY DEF TypeInv, OpenResetLink
  <2>2. scene.client \in [Browsers -> {"web", "legacy", "closed"}]
    BY <2>1, AccountsAssumption
  <2>3. QED
    BY <2>1, <2>2 DEF Web, Legacy
<1>2. browser[b] \in Pages /\ None \in Told
  BY DEF TypeInv, Told
<1>3. /\ v \in Pages /\ v.access = browser[b].access /\ v.keys = browser[b].keys
      /\ v.sessions = browser[b].sessions /\ v.told = None
  BY <1>2, PageChanged
<1>4. Arrive(b, "set", s, NoRequests)
  BY DEF OpenResetLink
<1> HIDE DEF v
<1>5. /\ s \in Pages /\ s.access = browser[b].access /\ s.keys = browser[b].keys
      /\ s.sessions = browser[b].sessions /\ s.told = None /\ s.known = None
  BY <1>3 DEF Pages
<1> HIDE DEF s
<1>6. PICK p : Lands(b, "set", s, NoRequests, p)
  BY <1>1, <1>4, <1>5, ArriveLands DEF Places
<1>7. QED
  BY <1>5, <1>6 DEF GoStep, OpenResetLink, TypeInv, Counts

-----------------------------------------------------------------------------
(* What comes back. *)

\* Without a request the others are there.
LEMMA Removed ==
    ASSUME NEW w, NEW i, IsFiniteSet(DOMAIN w)
    PROVE  /\ IsFiniteSet(DOMAIN Without(w, i)) /\ DOMAIN Without(w, i) = DOMAIN w \ {i}
           /\ \A n \in DOMAIN Without(w, i) : Without(w, i)[n] = w[n]
<1>1. DOMAIN Without(w, i) = DOMAIN w \ {i}
  BY DEF Without
<1>2. IsFiniteSet(DOMAIN w \ {i})
  BY FS_RemoveElement
<1>3. QED
  BY <1>1, <1>2 DEF Without

\* A request that goes on as it was, but that no one may wait for it any more.
Kept(q, r) ==
    /\ Fits(q) /\ q.op = r.op /\ q.pw = r.pw /\ q.value = r.value /\ q.stage = r.stage
    /\ q.copy = r.copy /\ q.answer = r.answer
    /\ q = r \/ r.op \notin Reading

\* What a browser still waits for when it leaves its page.
Remains(v, w, i) ==
    /\ IsFiniteSet(DOMAIN v) /\ DOMAIN v \subseteq DOMAIN w \ {i}
    /\ \A n \in DOMAIN v : Kept(v[n], w[n])

\* What remains of the requests when a page goes.
LEMMA LeftRemains ==
    ASSUME WorkType, NEW b \in Browsers, NEW i \in DOMAIN work[b]
    PROVE  Remains(Left(b, i, work[b][i]), work[b], i)
<1> DEFINE w == work[b]
           rest == Without(w, i)
           written == {n \in DOMAIN rest : rest[n].op \notin Reading}
           v == Left(b, i, w[i])
<1>1. IsFiniteSet(DOMAIN w) /\ \A n \in DOMAIN w : Fits(w[n])
  BY DEF WorkType
<1>2. /\ IsFiniteSet(DOMAIN rest) /\ DOMAIN rest = DOMAIN w \ {i}
      /\ \A n \in DOMAIN rest : rest[n] = w[n]
  BY <1>1, Removed
<1>3. CASE Legacy(b) \/ w[i].op = "end session"
  <2>1. v = [n \in written |-> [rest[n] EXCEPT !.awaited = FALSE]]
    BY <1>3 DEF Left
  <2>2. IsFiniteSet(written) /\ written \subseteq DOMAIN rest
    BY <1>2, FS_Subset
  <2>3. DOMAIN v = written
    BY <2>1
  <2>4. ASSUME NEW n \in written PROVE Kept(v[n], w[n])
    <3> DEFINE r == w[n]
               q == [r EXCEPT !.awaited = FALSE]
    <3>1. v[n] = q /\ Fits(r) /\ r.op \notin Reading
      BY <1>1, <1>2, <2>1, <2>2
    <3> HIDE DEF r, v
    <3>2. r \in Asked
      BY <3>1 DEF Fits
    <3>3. /\ q \in Asked /\ q.op = r.op /\ q.pw = r.pw /\ q.value = r.value /\ q.stage = r.stage
          /\ q.copy = r.copy /\ q.answer = r.answer
      BY <3>2 DEF Asked
    <3> HIDE DEF q
    <3>4. Fits(q)
      BY <3>1, <3>3 DEF Fits
    <3>5. Kept(q, r)
      BY <3>1, <3>3, <3>4 DEF Kept
    <3>6. QED
      BY <3>1, <3>5 DEF r
  <2>5. QED
    BY <1>2, <2>2, <2>3, <2>4 DEF Remains
<1>4. CASE ~(Legacy(b) \/ w[i].op = "end session")
  <2>1. v = rest
    BY <1>4 DEF Left
  <2>2. QED
    BY <1>1, <1>2, <2>1 DEF Remains, Kept
<1>5. QED
  BY <1>3, <1>4

\* A request that is new.
IsNew(q) == Fits(q) /\ q.stage = "sent" /\ q.answer = None /\ q.awaited = TRUE

\* What a page asks for next.
Follow(b, r, w, v) ==
    /\ IsFiniteSet(DOMAIN v) /\ DOMAIN w \subseteq DOMAIN v
    /\ \A n \in DOMAIN w : v[n] = w[n]
    /\ \A n \in DOMAIN v : n \notin DOMAIN w =>
          /\ IsNew(v[n]) /\ v[n].op \in Reading \cup {"enrol"}
          /\ v[n].op = "enrol" => r.op = "begin"
    /\ \E k : DOMAIN v \subseteq DOMAIN w \cup {k}
    /\ r.op \in Reading \cup {"reset"} => DOMAIN v = DOMAIN w
    /\ r.op \in {"add key", "delete key"} /\ r.answer = "ok" =>
          \E n \in DOMAIN v : v[n].op = "keys"
    /\ r.op = "end session" /\ r.answer = "ok" => \E n \in DOMAIN v : v[n].op = "sessions"

\* What a page asks for after an answer, by the answer.
LEMMA FollowsNext ==
    ASSUME NEW b \in Browsers, NEW r, Fits(r), NEW w, IsFiniteSet(DOMAIN w)
    PROVE  Follow(b, r, w, Follows(b, r, w))
<1> DEFINE v == Follows(b, r, w)
           asks == \/ r.op \in {"add key", "delete key"} /\ (r.answer = "ok" \/ Legacy(b))
                   \/ r.op = "end session" /\ r.answer = "ok"
                   \/ r.op \in {"totp on", "totp off", "remove"} /\ r.answer = "ok"
                   \/ r.op = "enrol" /\ (r.answer = "ok" \/ Legacy(b))
                   \/ r.op = "require" /\ r.answer # "ok" /\ Web(b)
<1>1. CASE r.op = "begin" /\ r.answer = "ok"
  <2> DEFINE q == Request("enrol", 0, r.value)
  <2>1. v = With(w, q)
    BY <1>1 DEF Follows
  <2>2. r.value \in Nat /\ r.value \in Nat \cup Browsers /\ 0 \in Nat
    BY <1>1 DEF Fits
  <2>3. "enrol" \in Ops /\ "enrol" # "end session"
    BY DEF Ops
  <2>v. Valued("enrol", r.value)
    BY <2>2, <2>3 DEF Valued
  <2>f. Fits(q)
    BY <2>2, <2>3, <2>v, Requested
  <2>r. q.op = "enrol" /\ q.stage = "sent" /\ q.answer = None /\ q.awaited = TRUE
    BY DEF Request
  <2>4. IsNew(q) /\ q.op = "enrol"
    BY <2>f, <2>r DEF IsNew
  <2> HIDE DEF q
  <2>5. /\ IsFiniteSet(DOMAIN With(w, q)) /\ DOMAIN w \subseteq DOMAIN With(w, q)
        /\ \A n \in DOMAIN w : With(w, q)[n] = w[n]
        /\ \A n \in DOMAIN With(w, q) : n \notin DOMAIN w => With(w, q)[n] = q
        /\ \E k : DOMAIN With(w, q) = DOMAIN w \cup {k}
    BY Added
  <2>k. (\E k : DOMAIN v \subseteq DOMAIN w \cup {k}) /\ r.op \notin Reading \cup {"reset"}
    BY <1>1, <2>1, <2>5 DEF Reading
  <2>6. QED
    BY <1>1, <2>1, <2>4, <2>5, <2>k DEF Follow
<1>2. CASE ~(r.op = "begin" /\ r.answer = "ok") /\ asks
  <2> DEFINE q == Request(Kind(r.op), 0, 0)
  <2>1. v = With(w, q)
    BY <1>2 DEF Follows
  <2>2. /\ Kind(r.op) \in Reading
        /\ r.op \in {"add key", "delete key"} => Kind(r.op) = "keys"
        /\ r.op = "end session" => Kind(r.op) = "sessions"
    BY DEF Kind, Reading
  <2>3. IsNew(q) /\ q.op = Kind(r.op)
    BY <2>2, ReadRequested DEF IsNew
  <2> HIDE DEF q
  <2>4. /\ IsFiniteSet(DOMAIN With(w, q)) /\ DOMAIN w \subseteq DOMAIN With(w, q)
        /\ \A n \in DOMAIN w : With(w, q)[n] = w[n]
        /\ \A n \in DOMAIN With(w, q) : n \notin DOMAIN w => With(w, q)[n] = q
        /\ \E n \in DOMAIN With(w, q) : n \notin DOMAIN w /\ With(w, q)[n] = q
        /\ \E k : DOMAIN With(w, q) = DOMAIN w \cup {k}
    BY Added
  <2>k. (\E k : DOMAIN v \subseteq DOMAIN w \cup {k}) /\ r.op \notin Reading \cup {"reset"}
    BY <1>2, <2>1, <2>4 DEF Reading
  <2>5. \A n \in DOMAIN With(w, q) : n \notin DOMAIN w =>
          /\ IsNew(With(w, q)[n]) /\ With(w, q)[n].op \in Reading
          /\ With(w, q)[n].op # "enrol"
    BY <2>2, <2>3, <2>4 DEF Reading
  <2>6. \E n \in DOMAIN With(w, q) : With(w, q)[n].op = Kind(r.op)
    BY <2>3, <2>4
  <2>7. QED
    BY <2>1, <2>2, <2>4, <2>5, <2>6, <2>k DEF Follow
<1>3. CASE ~(r.op = "begin" /\ r.answer = "ok") /\ ~asks
  <2>1. v = w
    BY <1>3 DEF Follows
  <2>2. QED
    BY <1>3, <2>1 DEF Follow
<1>4. QED
  BY <1>1, <1>2, <1>3

\* What a page shows of an answer.
Shows(r, o, s) ==
    /\ s \in Pages /\ s.at = o.at /\ s.access = o.access /\ s.known = o.known
    /\ s.dialog = o.dialog
    /\ s.told = o.told \/ s.told \in {"refused", "sent", "invalid token"}
          \/ (s.told = "created" /\ r.op = "register" /\ r.answer = "ok")
    /\ s.keys = IF r.op = "keys" /\ r.answer = "ok" THEN r.copy ELSE o.keys
    /\ s.sessions = IF r.op = "sessions" /\ r.answer = "ok" THEN r.copy ELSE o.sessions

\* What a page shows after an answer, by the answer.
LEMMA ShownShows ==
    ASSUME NEW b \in Browsers, NEW r, Fits(r), NEW o \in Pages
    PROVE  Shows(r, o, Shown(b, r, o))
<1> DEFINE s == Shown(b, r, o)
<1>1. CASE r.op = "keys" /\ r.answer = "ok"
  <2>1. s = [o EXCEPT !.keys = r.copy] /\ r.copy \in SUBSET Nat
    BY <1>1, NoneIsNothing DEF Shown, Fits
  <2>2. QED
    BY <1>1, <2>1 DEF Shows, Pages
<1>2. CASE r.op = "sessions" /\ r.answer = "ok"
  <2>1. s = [o EXCEPT !.sessions = r.copy] /\ r.copy \in SUBSET Browsers
    BY <1>2, NoneIsNothing DEF Shown, Fits
  <2>2. QED
    BY <1>2, <2>1 DEF Shows, Pages
<1>3. CASE r.op = "status" /\ r.answer = "ok"
  <2> DEFINE t == r.copy.totp
             q == r.copy.required
             c == r.copy.credentials
  <2>1. s = [o EXCEPT !.totp = t, !.required = q, !.credentials = c]
    BY <1>3 DEF Shown
  <2>2. r.copy \in States
    BY <1>3, NoneIsNothing DEF Fits
  <2>3. t \in BOOLEAN /\ q \in BOOLEAN /\ c \in SUBSET Nat
    BY <2>2 DEF States
  <2> HIDE DEF t, q, c
  <2>4. /\ s \in Pages /\ s.at = o.at /\ s.access = o.access /\ s.known = o.known
        /\ s.dialog = o.dialog /\ s.told = o.told /\ s.keys = o.keys /\ s.sessions = o.sessions
    BY <2>1, <2>3 DEF Pages
  <2>5. QED
    BY <1>3, <2>4 DEF Shows
<1>4. CASE r.op = "require" /\ (r.answer = "ok" \/ Legacy(b))
  <2> DEFINE v == r.answer = "ok" /\ r.value = 1
  <2>1. s = [o EXCEPT !.required = v]
    BY <1>4 DEF Shown
  <2>2. v \in BOOLEAN
    OBVIOUS
  <2> HIDE DEF v
  <2>3. /\ s \in Pages /\ s.at = o.at /\ s.access = o.access /\ s.known = o.known
        /\ s.dialog = o.dialog /\ s.told = o.told /\ s.keys = o.keys /\ s.sessions = o.sessions
    BY <2>1, <2>2, PageChanged
  <2>4. QED
    BY <1>4, <2>3 DEF Shows
<1>5. ASSUME NEW v \in {"created", "refused", "sent", "invalid token"}, s = [o EXCEPT !.told = v],
             v = "created" => r.op = "register" /\ r.answer = "ok",
             r.op \in {"register", "forgot", "reset"}
      PROVE  Shows(r, o, s)
  <2>1. v \in Told
    BY <1>5 DEF Told
  <2> HIDE DEF s
  <2>2. /\ s \in Pages /\ s.at = o.at /\ s.access = o.access /\ s.known = o.known
        /\ s.dialog = o.dialog /\ s.told = v /\ s.keys = o.keys /\ s.sessions = o.sessions
    BY <1>5, <2>1, PageChanged
  <2>3. Shows(r, o, s)
    BY <1>5, <2>2 DEF Shows
  <2>4. QED
    BY <2>3 DEF s
<1>6. CASE r.op = "register"
  <2>1. s = [o EXCEPT !.told = IF r.answer = "ok" THEN "created" ELSE "refused"]
    BY <1>6 DEF Shown
  <2>2. CASE r.answer = "ok"
    BY <1>5, <1>6, <2>1, <2>2
  <2>3. CASE r.answer # "ok"
    BY <1>5, <1>6, <2>1, <2>3
  <2>4. QED
    BY <2>2, <2>3
<1>7. CASE r.op = "forgot"
  <2>1. s = [o EXCEPT !.told = "sent"]
    BY <1>7 DEF Shown
  <2>2. QED
    BY <1>5, <1>7, <2>1
<1>8. CASE r.op = "reset" /\ r.answer = "no" /\ Web(b)
  <2>1. s = [o EXCEPT !.told = "invalid token"]
    BY <1>8 DEF Shown
  <2>2. QED
    BY <1>5, <1>8, <2>1
<1>9. CASE s = o /\ ~(r.op \in {"keys", "sessions"} /\ r.answer = "ok")
  BY <1>9 DEF Shows
<1>10. QED
  BY <1>1, <1>2, <1>3, <1>4, <1>6, <1>7, <1>8, <1>9 DEF Shown

\* What an answer does to the token of its browser.
Bakes(r, o, s) ==
    /\ s \in Pages /\ s.at = o.at /\ s.known = o.known /\ s.dialog = o.dialog
    /\ s.told = o.told /\ s.keys = o.keys /\ s.sessions = o.sessions
    /\ (r.op \in {"change", "reset"} /\ r.answer = "ok") \/ r.op = "logout" => s.access = "none"
    /\ ~((r.op \in {"change", "reset"} /\ r.answer = "ok") \/ r.op = "logout") =>
          /\ s.access \in {o.access, "valid"}
          /\ r.op = "login" /\ r.answer = "ok" => s.access = "valid"

\* The cookies after an answer, by the answer.
LEMMA CookiesBake ==
    ASSUME NEW r, NEW o \in Pages
    PROVE  Bakes(r, o, Cookies(r, o))
<1> DEFINE gone == (r.op \in {"change", "reset"} /\ r.answer = "ok") \/ r.op = "logout"
           come == (r.op = "login" /\ r.answer = "ok") \/ r.renews
           a == IF gone THEN "none" ELSE IF come THEN "valid" ELSE o.access
           s == [o EXCEPT !.access = a]
<1>1. Cookies(r, o) = s
  BY DEF Cookies
<1>2. /\ a \in {"valid", "old", "none"} /\ (gone => a = "none")
      /\ ~gone => a \in {o.access, "valid"}
      /\ ~gone /\ r.op = "login" /\ r.answer = "ok" => a = "valid"
  BY DEF Pages
<1> HIDE DEF a
<1>3. /\ s \in Pages /\ s.at = o.at /\ s.known = o.known /\ s.dialog = o.dialog
      /\ s.told = o.told /\ s.keys = o.keys /\ s.sessions = o.sessions /\ s.access = a
  BY <1>2 DEF Pages
<1> HIDE DEF s
<1>4. QED
  BY <1>1, <1>2, <1>3 DEF Bakes

\* An answer that no one waits for.
DropStep(b, i) ==
    \E s : /\ Bakes(work[b][i], browser[b], s) /\ Turns(b, s)
           /\ work' = [work EXCEPT ![b] = Without(@, i)]
           /\ work[b][i].awaited # TRUE /\ UNCHANGED stored /\ held' = held

\* An answer that the page shows.
ShowStep(b, i) ==
    \E s, p, v : LET r == work[b][i] IN
       /\ Bakes(r, browser[b], s) /\ Shows(r, s, p) /\ Turns(b, p)
       /\ Leaves(b, r) = None
       /\ Follow(b, r, Without(work[b], i), v) /\ work' = [work EXCEPT ![b] = v]
       /\ UNCHANGED stored /\ held' = Hold(r)

\* An answer after which the browser goes elsewhere.
LeaveStep(b, i) ==
    \E s, t, page, v, p : LET r == work[b][i] IN
       /\ Bakes(r, browser[b], s) /\ t.access = s.access
       /\ t.keys = s.keys /\ t.sessions = s.sessions /\ t.told # "created"
       /\ page \in {"login", "home", "settings"}
       /\ t.told = "changed" =>
             /\ page = "login" /\ s.access = "none"
             /\ r.op = "change" /\ Web(b) => t.known = None
             /\ r.op # "change" => r.op = "reset" /\ t.known = s.known
       /\ r.op \in Reading => \A n \in DOMAIN v : v[n].op \notin Reading
       /\ Remains(v, work[b], i) /\ Lands(b, page, t, v, p)
       /\ held' = Hold(r)

ReceiveStep(b) ==
    /\ \E i \in DOMAIN work[b] : /\ work[b][i].stage = "done"
                                 /\ DropStep(b, i) \/ ShowStep(b, i) \/ LeaveStep(b, i)
    /\ UNCHANGED <<scene, calm, count>>

\* A browser is closed, or one of the two kinds.
LEMMA Closed ==
    ASSUME TypeInv, NEW b \in Browsers
    PROVE  /\ scene.client[b] # "closed" <=> Web(b) \/ Legacy(b)
           /\ ~(Web(b) /\ Legacy(b))
<1>1. scene.client \in [Browsers -> {"web", "legacy", "closed"}]
  BY AccountsAssumption DEF TypeInv
<1>2. QED
  BY <1>1 DEF Web, Legacy

\* An answer is dropped, shown, or makes the browser leave its page.
LEMMA Receives ==
    ASSUME TypeInv, OwnerInv, NEW b \in Browsers, Receive(b)
    PROVE  ReceiveStep(b)
<1>1. PICK i \in DOMAIN work[b] :
         LET r == work[b][i]
             s == Cookies(r, browser[b])
             told == CASE r.op = "end session" /\ r.value = b -> "ended"
                       [] r.op \in {"change", "reset"}        -> "changed"
                       [] OTHER                               -> None IN
         /\ r.stage = "done"
         /\ IF ~r.awaited
            THEN /\ browser' = [browser EXCEPT ![b] = s]
                 /\ work' = [work EXCEPT ![b] = Without(@, i)]
                 /\ UNCHANGED stored /\ UNCHANGED held
            ELSE /\ held' = Hold(r)
                 /\ IF Leaves(b, r) = None
                    THEN /\ browser' = [browser EXCEPT ![b] = Shown(b, r, s)]
                         /\ work' = [work EXCEPT ![b] = Follows(b, r, Without(@, i))]
                         /\ UNCHANGED stored
                    ELSE Arrive(b, Leaves(b, r),
                                [s EXCEPT !.known = IF Forgets(b, r) THEN None ELSE @,
                                          !.told = told], Left(b, i, r))
  BY DEF Receive
<1> DEFINE r == work[b][i]
           s == Cookies(r, browser[b])
           told == CASE r.op = "end session" /\ r.value = b -> "ended"
                     [] r.op \in {"change", "reset"}        -> "changed"
                     [] OTHER                               -> None
           known == IF Forgets(b, r) THEN None ELSE s.known
           t == [s EXCEPT !.known = known, !.told = told]
<1>2. Fits(r) /\ IsFiniteSet(DOMAIN work[b]) /\ DOMAIN work = Browsers /\ r.stage = "done"
  BY <1>1 DEF TypeInv, WorkType
<1>3. Bakes(r, browser[b], s)
  BY CookiesBake DEF TypeInv
<1>4. s \in Pages
  BY <1>3 DEF Bakes
<1>c. scene.client[b] # "closed"
  BY DEF OwnerInv, Idle
<1>5. CASE ~r.awaited
  <2>1. browser' = [browser EXCEPT ![b] = s] /\ work' = [work EXCEPT ![b] = Without(@, i)]
        /\ UNCHANGED stored /\ UNCHANGED held
    BY <1>1, <1>5
  <2>2. r.awaited # TRUE
    BY <1>5
  <2>3. DropStep(b, i)
    BY <1>3, <2>1, <2>2 DEF DropStep, Turns
  <2>4. QED
    BY <1>2, <2>3 DEF ReceiveStep, Receive
<1>6. CASE r.awaited /\ Leaves(b, r) = None
  <2> DEFINE p == Shown(b, r, s)
             v == Follows(b, r, Without(work[b], i))
  <2>1. /\ browser' = [browser EXCEPT ![b] = p] /\ UNCHANGED stored /\ held' = Hold(r)
        /\ work' = [work EXCEPT ![b] = Follows(b, r, Without(@, i))]
    BY <1>1, <1>6
  <2>2. work' = [work EXCEPT ![b] = v]
    BY <2>1
  <2>3. Shows(r, s, p)
    BY <1>2, <1>4, ShownShows
  <2>4. IsFiniteSet(DOMAIN Without(work[b], i))
    BY <1>2, Removed
  <2>5. Follow(b, r, Without(work[b], i), v)
    BY <1>2, <2>4, FollowsNext
  <2> HIDE DEF p, v, s
  <2>6. ShowStep(b, i)
    BY <1>3, <1>6, <2>1, <2>2, <2>3, <2>5 DEF ShowStep, Turns
  <2>7. QED
    BY <1>2, <2>6 DEF ReceiveStep, Receive
<1>7. CASE r.awaited /\ Leaves(b, r) # None
  <2> DEFINE page == Leaves(b, r)
             v == Left(b, i, r)
  <2>1. held' = Hold(r)
    BY <1>1, <1>7
  <2>2. Arrive(b, page, t, v)
    BY <1>1, <1>7
  <2>3. /\ page \in {"login", "home", "settings"}
        /\ r.op \in {"change", "reset"} => page = "login" /\ r.answer = "ok"
    BY <1>7 DEF Leaves
  <2>4. Remains(v, work[b], i)
    BY LeftRemains DEF TypeInv
  <2>l. r.op \in Reading => \A n \in DOMAIN v : v[n].op \notin Reading
    <3>1. r.op \in Reading => Legacy(b)
      BY <1>7 DEF Leaves, Reading
    <3>2. /\ DOMAIN Without(work[b], i) = DOMAIN work[b] \ {i}
          /\ \A n \in DOMAIN Without(work[b], i) : Without(work[b], i)[n] = work[b][n]
      BY <1>2, Removed
    <3>3. ASSUME Legacy(b), NEW n \in DOMAIN v PROVE v[n].op \notin Reading
      <4> DEFINE rest == Without(work[b], i)
                 written == {k \in DOMAIN rest : rest[k].op \notin Reading}
      <4>1. v = [k \in written |-> [rest[k] EXCEPT !.awaited = FALSE]]
        BY <3>3 DEF Left
      <4>2. n \in DOMAIN work[b] /\ rest[n] = work[b][n] /\ rest[n].op \notin Reading
        BY <3>2, <3>3, <4>1
      <4>3. work[b][n] \in Asked
        BY <4>2 DEF TypeInv, WorkType, Fits
      <4>4. v[n] = [work[b][n] EXCEPT !.awaited = FALSE]
        BY <3>3, <4>1, <4>2
      <4>5. QED
        BY <4>2, <4>3, <4>4 DEF Asked
    <3>4. QED
      BY <3>1, <3>3
  <2>5. /\ told \in Told /\ told # "created"
        /\ told = "changed" => r.op \in {"change", "reset"}
    BY NoneIsNothing DEF Told
  <2>6. /\ r.op = "change" /\ Web(b) => known = None
        /\ r.op = "reset" => known = s.known
    BY DEF Forgets
  <2>k. known \in BOOLEAN \cup {None}
    BY <1>4 DEF Pages
  <2> HIDE DEF told, known, s
  <2>7. /\ t \in Pages /\ t.access = s.access /\ t.keys = s.keys /\ t.sessions = s.sessions
        /\ t.told = told /\ t.known = known
    BY <1>4, <2>5, <2>k DEF Pages
  <2>8. Web(b) \/ Legacy(b)
    BY <1>c, Closed
  <2>9. page \in Places
    BY <2>3 DEF Places, Guest, Private
  <2> HIDE DEF t, v, page
  <2>10. PICK p : Lands(b, page, t, v, p)
    BY <2>2, <2>7, <2>8, <2>9, ArriveLands
  <2>11. t.told = "changed" =>
            /\ page = "login" /\ s.access = "none"
            /\ r.op = "change" /\ Web(b) => t.known = None
            /\ r.op # "change" => r.op = "reset" /\ t.known = s.known
    BY <1>3, <2>3, <2>5, <2>6, <2>7 DEF Bakes
  <2>12. t.told # "created"
    BY <2>5, <2>7
  <2>13. LeaveStep(b, i)
    BY <1>3, <2>1, <2>3, <2>4, <2>l, <2>7, <2>10, <2>11, <2>12 DEF LeaveStep
  <2>14. QED
    BY <1>2, <2>13 DEF ReceiveStep, Receive
<1>8. QED
  BY <1>5, <1>6, <1>7

-----------------------------------------------------------------------------
(* The steps, one kind after the other. *)

HandleStep(b) ==
    /\ \E i \in DOMAIN work[b] : \E q : Effect(b, i, q)
    /\ scene' = scene /\ browser' = browser /\ held' = held /\ calm' = calm /\ count' = count

ExpireStep ==
    /\ \/ \E b \in Browsers : /\ Turns(b, [browser[b] EXCEPT !.access = "old"])
                              /\ token' = token
       \/ token' = FALSE /\ browser' = browser
    /\ count' = [count EXCEPT !["expire"] = @ + 1]
    /\ UNCHANGED <<scene, account, row, cached, keys, credentials, challenge, sessions,
                   work, held, calm>>

RefreshStep(b) ==
    /\ Web(b) /\ Idle(b) /\ browser[b].known = TRUE
    /\ Turns(b, [browser[b] EXCEPT !.known = FALSE])
    /\ UNCHANGED <<scene, stored, work, held, calm, count>>

\* Every step is of one of these kinds.
LEMMA Kinds ==
    ASSUME TypeInv, OwnerInv, Next
    PROVE  \/ ExpireStep
           \/ \E b \in Browsers : \/ HandleStep(b) \/ ReceiveStep(b) \/ RefreshStep(b)
                                  \/ GoStep(b) \/ AskStep(b) \/ DialogStep(b)
<1>1. CASE Expire
  <2>1. ExpireStep
    BY <1>1 DEF Expire, ExpireStep, Turns
  <2>2. QED
    BY <2>1
<1>2. ASSUME NEW b \in Browsers,
             \/ Handle(b) \/ Receive(b) \/ Refresh(b) \/ Wander(b) \/ Logout(b)
             \/ Aim(b) \/ Settings(b) \/ Security(b)
      PROVE  \/ HandleStep(b) \/ ReceiveStep(b) \/ RefreshStep(b)
             \/ GoStep(b) \/ AskStep(b) \/ DialogStep(b)
  <2>1. CASE Handle(b)
    BY <2>1, HandleEffect DEF TypeInv, HandleStep
  <2>2. CASE Receive(b)
    BY <2>2, Receives
  <2>3. CASE Refresh(b)
    BY <2>3 DEF Refresh, RefreshStep, Turns
  <2>4. CASE Wander(b)
    <3>1. PICK page \in (Guest \cup Private) \ {"register", "request"} : Visit(b, page)
      BY <2>4 DEF Wander
    <3>2. page \in Places \ {"set"}
      BY DEF Places, Guest, Private
    <3>3. count' = [count EXCEPT !["visit"] = @ + 1]
      BY <2>4 DEF Wander
    <3>4. QED
      BY <3>1, <3>2, <3>3, Visits
  <2>5. CASE Logout(b)
    BY <2>5, LogoutAsks
  <2>6. CASE Settings(b)
    BY <2>6, SettingsAsk
  <2>7. CASE Security(b)
    BY <2>7, SecurityAsks
  <2>8. CASE Aim(b)
    <3>1. CASE Visit(b, Goal) /\ UNCHANGED count
      <4>1. Goal \in Places \ {"set"}
        BY DEF Goal, Places, Guest, Private
      <4>2. QED
        BY <3>1, <4>1, Visits
    <3>2. CASE OpenResetLink(b)
      BY <3>2, LinkOpened
    <3>3. CASE \/ RegisterCard(b) \/ RegisterPage(b) \/ OpenVerifyLink(b) \/ RequestResetCard(b)
               \/ ResetPasswordPage(b) \/ SetPasswordCard(b) \/ PasswordResetPage(b) \/ LogIn(b)
      BY <3>3, AimAsks
    <3>4. QED
      BY <2>8, <3>1, <3>2, <3>3 DEF Aim
  <2>9. QED
    BY <1>2, <2>1, <2>2, <2>3, <2>4, <2>5, <2>6, <2>7, <2>8
<1>3. QED
  BY <1>1, <1>2 DEF Next

\* What a change of one browser's page leaves.
LEMMA Turned ==
    ASSUME browser \in [Browsers -> Pages], NEW b \in Browsers, NEW p \in Pages, Turns(b, p)
    PROVE  /\ browser' \in [Browsers -> Pages] /\ browser'[b] = p
           /\ \A x \in Browsers : x # b => browser'[x] = browser[x]
BY DEF Turns

\* What a change of one browser's requests leaves.
Works(b, v) ==
    /\ DOMAIN work' = Browsers /\ work'[b] = v
    /\ \A x \in Browsers : x # b => work'[x] = work[x]

\* One browser's requests change.
LEMMA Worked ==
    ASSUME WorkType, NEW b \in Browsers, NEW v, work' = [work EXCEPT ![b] = v]
    PROVE  Works(b, v)
BY DEF WorkType, Works

\* They fit when the new ones of that browser do.
LEMMA WorkedFits ==
    ASSUME WorkType, NEW b \in Browsers, NEW v, Works(b, v), IsFiniteSet(DOMAIN v),
           \A n \in DOMAIN v : Fits(v[n])
    PROVE  WorkType'
<1>1. DOMAIN work' = Browsers
  BY DEF Works
<1>2. ASSUME NEW x \in Browsers
      PROVE  IsFiniteSet(DOMAIN work'[x]) /\ \A n \in DOMAIN work'[x] : Fits(work'[x][n])
  <2>1. CASE x = b
    BY <2>1 DEF Works
  <2>2. CASE x # b
    BY <2>2 DEF Works, WorkType
  <2>3. QED
    BY <2>1, <2>2
<1>3. QED
  BY <1>1, <1>2 DEF WorkType

\* A request that is asked for.
LEMMA Sends ==
    ASSUME TypeInv, NEW b \in Browsers, NEW op, NEW pw, NEW value,
           MayAsk(b, op, pw, value), Ask(b, op, pw, value)
    PROVE  \E v : /\ Works(b, v) /\ IsFiniteSet(DOMAIN v) /\ DOMAIN work[b] \subseteq DOMAIN v
                  /\ \A n \in DOMAIN work[b] : v[n] = work[b][n]
                  /\ \A n \in DOMAIN v : n \notin DOMAIN work[b] => IsNew(v[n]) /\ v[n].op = op
                  /\ \E k : DOMAIN v \subseteq DOMAIN work[b] \cup {k}
<1> DEFINE q == Request(op, pw, value)
           v == With(work[b], q)
<1>1. op \in Ops /\ pw \in Nat /\ Valued(op, value)
  BY DEF MayAsk, Valued
<1>2. /\ Fits(Request(op, pw, value))
      /\ Request(op, pw, value).op = op /\ Request(op, pw, value).stage = "sent"
      /\ Request(op, pw, value).answer = None /\ Request(op, pw, value).awaited = TRUE
  BY <1>1, Requested
<1>3. IsNew(q) /\ q.op = op
  BY <1>2 DEF IsNew
<1>4. work' = [work EXCEPT ![b] = v]
  BY DEF Ask
<1> HIDE DEF q
<1>5. IsFiniteSet(DOMAIN work[b]) /\ WorkType
  BY DEF TypeInv, WorkType
<1>6. /\ IsFiniteSet(DOMAIN With(work[b], q)) /\ DOMAIN work[b] \subseteq DOMAIN With(work[b], q)
      /\ \A n \in DOMAIN work[b] : With(work[b], q)[n] = work[b][n]
      /\ \A n \in DOMAIN With(work[b], q) : n \notin DOMAIN work[b] => With(work[b], q)[n] = q
      /\ \E k : DOMAIN With(work[b], q) \subseteq DOMAIN work[b] \cup {k}
  BY <1>5, Added
<1>7. Works(b, v)
  BY <1>4, <1>5, Worked
<1>8. QED
  BY <1>3, <1>6, <1>7

\* The requests of a page that was opened.
LandsOn(p, left, v) ==
    /\ IsFiniteSet(DOMAIN v) /\ DOMAIN left \subseteq DOMAIN v
    /\ \A n \in DOMAIN left : v[n] = left[n]
    /\ \A n \in DOMAIN v : n \notin DOMAIN left => IsNew(v[n]) /\ v[n].op \in Reading
    /\ p.at = "settings" => /\ \E n \in DOMAIN v : v[n].op = "keys"
                            /\ \E n \in DOMAIN v : v[n].op = "sessions"
    /\ p.at = "set" => v = left

\* A browser that gets somewhere asks for what is read there.
LEMMA Landed ==
    ASSUME StoredType, WorkType, NEW b \in Browsers, NEW page, NEW s, NEW left, NEW p,
           Lands(b, page, s, left, p), IsFiniteSet(DOMAIN left)
    PROVE  /\ Works(b, Reads(p.at, left)) /\ LandsOn(p, left, Reads(p.at, left))
           /\ StoredType'
<1> DEFINE v == Reads(p.at, left)
<1>1. Works(b, v)
  BY Worked DEF Lands
<1>2. Opens(left, v)
  BY Opened
<1>3. p.at = "settings" => /\ \E n \in DOMAIN v : v[n] = Request("keys", 0, 0)
                           /\ \E n \in DOMAIN v : v[n] = Request("sessions", 0, 0)
  BY Opened
<1>s. p.at = "set" => v = left
  BY DEF Reads
<1> HIDE DEF v
<1>4. ASSUME NEW n \in DOMAIN v, n \notin DOMAIN left PROVE IsNew(v[n]) /\ v[n].op \in Reading
  <2>1. PICK op \in Reading : v[n] = Request(op, 0, 0)
    BY <1>2, <1>4 DEF Opens
  <2>2. /\ Fits(Request(op, 0, 0)) /\ Request(op, 0, 0).op = op
        /\ Request(op, 0, 0).stage = "sent" /\ Request(op, 0, 0).answer = None
        /\ Request(op, 0, 0).awaited = TRUE
    BY ReadRequested
  <2>3. QED
    BY <2>1, <2>2 DEF IsNew
<1>5. Request("keys", 0, 0).op = "keys" /\ Request("sessions", 0, 0).op = "sessions"
  BY DEF Request
<1>6. LandsOn(p, left, v)
  BY <1>2, <1>3, <1>4, <1>5, <1>s DEF LandsOn, Opens
<1>7. StoredType'
  BY DEF Lands, StoredType
<1>8. QED
  BY <1>1, <1>6, <1>7 DEF v

\* A page that was loaded waits for nothing.
LEMMA NoneWaits ==
    IsFiniteSet(DOMAIN NoRequests) /\ DOMAIN NoRequests = {}
<1>1. DOMAIN NoRequests = {}
  BY DEF NoRequests
<1>2. QED
  BY <1>1, FS_EmptySet

\* What the person knows after an answer has its type.
LEMMA HeldType ==
    ASSUME held \in [pw : Nat, backup : Nat, totp : Nat], NEW r, Fits(r)
    PROVE  Hold(r) \in [pw : Nat, backup : Nat, totp : Nat]
<1>1. r.op # "end session" => r.value \in Nat
  BY DEF Fits
<1>2. CASE r.answer # "ok"
  BY <1>2 DEF Hold
<1>3. CASE r.op \in {"change", "reset"}
  BY <1>1, <1>3 DEF Hold
<1>4. CASE r.op = "backup"
  BY <1>1, <1>4 DEF Hold
<1>5. CASE r.op = "totp on"
  BY <1>1, <1>5 DEF Hold
<1>6. CASE r.op = "totp off"
  BY <1>1, <1>6 DEF Hold
<1>7. CASE r.op \notin {"change", "reset", "backup", "totp on", "totp off"}
  BY <1>7 DEF Hold
<1>8. QED
  BY <1>2, <1>3, <1>4, <1>5, <1>6, <1>7

\* A count goes up by one.
LEMMA CountAgain ==
    ASSUME count \in Counts, NEW op \in Ops \cup {"expire", "visit"},
           count' = [count EXCEPT ![op] = @ + 1]
    PROVE  /\ count' \in Counts /\ count'[op] = count[op] + 1 /\ count[op] \in Nat
           /\ \A x \in Ops \cup {"expire", "visit"} : x # op => count'[x] = count[x]
BY DEF Counts

\* Each kind of step keeps the types.
LEMMA HandleTypes ==
    ASSUME TypeInv, NEW b \in Browsers, HandleStep(b)
    PROVE  TypeInv'
<1>1. PICK i \in DOMAIN work[b] : \E q : Effect(b, i, q)
  BY DEF HandleStep
<1>2. PICK q : Effect(b, i, q)
  BY <1>1
<1>3. StoredType' /\ Moved(b, i, q) /\ Fits(q)
  BY <1>2 DEF Effect
<1>4. WorkType'
  BY <1>3, MovedFits DEF TypeInv
<1>5. QED
  BY <1>3, <1>4 DEF TypeInv, HandleStep

\* A request keeps the types.
LEMMA AskTypes ==
    ASSUME TypeInv, NEW b \in Browsers, AskStep(b)
    PROVE  TypeInv'
<1>1. PICK s, op, pw, value :
         Stays(b, s) /\ Turns(b, s) /\ MayAsk(b, op, pw, value) /\ Ask(b, op, pw, value)
  BY DEF AskStep
<1>2. browser' \in [Browsers -> Pages]
  BY <1>1, Turned DEF TypeInv, Stays
<1>3. PICK v : /\ Works(b, v) /\ IsFiniteSet(DOMAIN v) /\ DOMAIN work[b] \subseteq DOMAIN v
               /\ \A n \in DOMAIN work[b] : v[n] = work[b][n]
               /\ \A n \in DOMAIN v : n \notin DOMAIN work[b] => IsNew(v[n]) /\ v[n].op = op
  BY <1>1, Sends
<1>4. \A n \in DOMAIN v : Fits(v[n])
  BY <1>3 DEF TypeInv, WorkType, IsNew
<1>5. WorkType'
  BY <1>3, <1>4, WorkedFits DEF TypeInv
<1>6. StoredType' /\ scene' = scene /\ held' = held /\ calm' \in BOOLEAN
  BY <1>1 DEF Ask, Calmly, stored, StoredType, TypeInv
<1>7. count' \in [Ops \cup {"expire", "visit"} -> Nat]
  <2>1. count' = [count EXCEPT ![op] = @ + 1] /\ op \in Ops \cup {"expire", "visit"}
    BY <1>1 DEF Ask, MayAsk
  <2>2. count \in Counts
    BY DEF TypeInv, Counts
  <2>3. count' \in Counts
    BY <2>1, <2>2, CountAgain
  <2>4. QED
    BY <2>3 DEF Counts
<1>8. QED
  BY <1>2, <1>5, <1>6, <1>7 DEF TypeInv

\* So does a dialog,
LEMMA DialogTypes ==
    ASSUME TypeInv, NEW b \in Browsers, DialogStep(b)
    PROVE  TypeInv'
<1>1. PICK s : Stays(b, s) /\ Turns(b, s)
  BY DEF DialogStep
<1>2. browser' \in [Browsers -> Pages]
  BY <1>1, Turned DEF TypeInv, Stays
<1>3. UNCHANGED <<scene, stored, work, held, calm, count>>
  BY DEF DialogStep
<1>4. StoredType' /\ WorkType'
  BY <1>3 DEF TypeInv, StoredType, WorkType, stored
<1>5. QED
  BY <1>2, <1>3, <1>4 DEF TypeInv

\* a token that is refreshed,
LEMMA RefreshTypes ==
    ASSUME TypeInv, NEW b \in Browsers, RefreshStep(b)
    PROVE  TypeInv'
<1>1. [browser[b] EXCEPT !.known = FALSE] \in Pages
  <2>1. browser[b] \in Pages
    BY DEF TypeInv
  <2>2. ASSUME NEW v \in BOOLEAN PROVE [browser[b] EXCEPT !.known = v] \in Pages
    BY <2>1 DEF Pages
  <2>3. QED
    BY <2>2
<1>2. browser' \in [Browsers -> Pages]
  BY <1>1, Turned DEF TypeInv, RefreshStep
<1>3. UNCHANGED <<scene, stored, work, held, calm, count>>
  BY DEF RefreshStep
<1>4. StoredType' /\ WorkType'
  BY <1>3 DEF TypeInv, StoredType, WorkType, stored
<1>5. QED
  BY <1>2, <1>3, <1>4 DEF TypeInv

\* one that expires,
LEMMA ExpireTypes ==
    ASSUME TypeInv, ExpireStep
    PROVE  TypeInv'
<1>1. browser' \in [Browsers -> Pages] /\ token' \in BOOLEAN
  <2>1. CASE token' = FALSE /\ browser' = browser
    BY <2>1 DEF TypeInv
  <2>2. ASSUME NEW b \in Browsers, Turns(b, [browser[b] EXCEPT !.access = "old"]), token' = token
        PROVE  browser' \in [Browsers -> Pages] /\ token' \in BOOLEAN
    <3>1. [browser[b] EXCEPT !.access = "old"] \in Pages
      BY DEF TypeInv, Pages
    <3>2. QED
      BY <2>2, <3>1, Turned DEF TypeInv, StoredType
  <2>3. QED
    BY <2>1, <2>2 DEF ExpireStep
<1>2. UNCHANGED <<scene, account, row, cached, keys, credentials, challenge, sessions,
                  work, held, calm>>
  BY DEF ExpireStep
<1>3. StoredType' /\ WorkType'
  BY <1>1, <1>2 DEF TypeInv, StoredType, WorkType
<1>4. count' \in [Ops \cup {"expire", "visit"} -> Nat]
  <2>1. count \in Counts /\ count' = [count EXCEPT !["expire"] = @ + 1]
    BY DEF TypeInv, Counts, ExpireStep
  <2>2. count' \in Counts
    BY <2>1, CountAgain
  <2>3. QED
    BY <2>2 DEF Counts
<1>5. QED
  BY <1>1, <1>2, <1>3, <1>4 DEF TypeInv

\* a page that is opened,
LEMMA GoTypes ==
    ASSUME TypeInv, NEW b \in Browsers, GoStep(b)
    PROVE  TypeInv'
<1>1. PICK page, s, p : Lands(b, page, s, NoRequests, p)
  BY DEF GoStep
<1> DEFINE v == Reads(p.at, NoRequests)
<1>2. Works(b, v) /\ LandsOn(p, NoRequests, v) /\ StoredType'
  BY <1>1, NoneWaits, Landed DEF TypeInv
<1> HIDE DEF v
<1>3. WorkType'
  <2>1. IsFiniteSet(DOMAIN v) /\ \A n \in DOMAIN v : Fits(v[n])
    BY <1>2, NoneWaits DEF LandsOn, IsNew
  <2>2. QED
    BY <1>2, <2>1, WorkedFits DEF TypeInv
<1>4. browser' \in [Browsers -> Pages]
  <2>1. p \in Pages /\ Turns(b, p)
    BY <1>1 DEF Lands
  <2>2. QED
    BY <2>1, Turned DEF TypeInv
<1>5. calm' \in BOOLEAN /\ scene' = scene /\ held' = held /\ count' \in Counts
  BY DEF GoStep, Calmly, TypeInv
<1>6. QED
  BY <1>2, <1>3, <1>4, <1>5 DEF TypeInv, Counts

\* and an answer that comes.
LEMMA ReceiveTypes ==
    ASSUME TypeInv, NEW b \in Browsers, ReceiveStep(b)
    PROVE  TypeInv'
<1>1. PICK i \in DOMAIN work[b] : DropStep(b, i) \/ ShowStep(b, i) \/ LeaveStep(b, i)
  BY DEF ReceiveStep
<1>u. UNCHANGED <<scene, calm, count>>
  BY DEF ReceiveStep
<1>f. /\ IsFiniteSet(DOMAIN work[b]) /\ \A n \in DOMAIN work[b] : Fits(work[b][n])
      /\ StoredType /\ WorkType /\ browser \in [Browsers -> Pages]
      /\ held \in [pw : Nat, backup : Nat, totp : Nat]
  BY DEF TypeInv, WorkType
<1>w. /\ IsFiniteSet(DOMAIN Without(work[b], i)) /\ DOMAIN Without(work[b], i) = DOMAIN work[b] \ {i}
      /\ \A n \in DOMAIN Without(work[b], i) : Without(work[b], i)[n] = work[b][n]
  BY <1>f, Removed
<1>h. Hold(work[b][i]) \in [pw : Nat, backup : Nat, totp : Nat]
  BY <1>f, HeldType
<1>2. CASE DropStep(b, i)
  <2> DEFINE v == Without(work[b], i)
  <2>1. PICK s : /\ Bakes(work[b][i], browser[b], s) /\ Turns(b, s)
                 /\ work' = [work EXCEPT ![b] = v]
    BY <1>2 DEF DropStep
  <2>2. browser' \in [Browsers -> Pages]
    BY <1>f, <2>1, Turned DEF Bakes
  <2>3. WorkType'
    <3>1. \A n \in DOMAIN v : Fits(v[n])
      BY <1>f, <1>w
    <3>2. Works(b, v)
      BY <1>f, <2>1, Worked
    <3>3. QED
      BY <1>f, <1>w, <3>1, <3>2, WorkedFits
  <2>4. StoredType' /\ held' = held
    BY <1>2, <1>f DEF DropStep, stored, StoredType
  <2>5. QED
    BY <1>u, <2>2, <2>3, <2>4 DEF TypeInv
<1>3. CASE ShowStep(b, i)
  <2>1. PICK s, p, v :
           /\ Shows(work[b][i], s, p) /\ Turns(b, p)
           /\ Follow(b, work[b][i], Without(work[b], i), v) /\ work' = [work EXCEPT ![b] = v]
    BY <1>3 DEF ShowStep
  <2>2. browser' \in [Browsers -> Pages]
    BY <1>f, <2>1, Turned DEF Shows
  <2>3. WorkType'
    <3>1. IsFiniteSet(DOMAIN v) /\ \A n \in DOMAIN v : Fits(v[n])
      BY <1>f, <1>w, <2>1 DEF Follow, IsNew
    <3>2. Works(b, v)
      BY <1>f, <2>1, Worked
    <3>3. QED
      BY <1>f, <3>1, <3>2, WorkedFits
  <2>4. StoredType' /\ held' = Hold(work[b][i])
    BY <1>3, <1>f DEF ShowStep, stored, StoredType
  <2>5. QED
    BY <1>h, <1>u, <2>2, <2>3, <2>4 DEF TypeInv
<1>4. CASE LeaveStep(b, i)
  <2>1. PICK t, page, w, p : Remains(w, work[b], i) /\ Lands(b, page, t, w, p)
    BY <1>4 DEF LeaveStep
  <2> DEFINE v == Reads(p.at, w)
  <2>2. IsFiniteSet(DOMAIN w) /\ \A n \in DOMAIN w : Fits(w[n])
    BY <2>1 DEF Remains, Kept
  <2>3. Works(b, v) /\ LandsOn(p, w, v) /\ StoredType'
    BY <1>f, <2>1, <2>2, Landed
  <2> HIDE DEF v
  <2>4. WorkType'
    <3>1. IsFiniteSet(DOMAIN v) /\ \A n \in DOMAIN v : Fits(v[n])
      BY <2>2, <2>3 DEF LandsOn, IsNew
    <3>2. QED
      BY <1>f, <2>3, <3>1, WorkedFits
  <2>5. browser' \in [Browsers -> Pages]
    BY <1>f, <2>1, Turned DEF Lands
  <2>6. held' = Hold(work[b][i])
    BY <1>4 DEF LeaveStep
  <2>7. QED
    BY <1>h, <1>u, <2>3, <2>4, <2>5, <2>6 DEF TypeInv
<1>5. QED
  BY <1>1, <1>2, <1>3, <1>4

-----------------------------------------------------------------------------
(* The types hold in every state. *)

\* The page that a browser shows at first is one.
LEMMA FreshPage ==
    ASSUME NEW b \in Browsers, scene \in Scenes
    PROVE  /\ FreshBrowser(b) \in Pages /\ FreshBrowser(b).at \in Private \cup {"home"}
           /\ FreshBrowser(b).told = None /\ FreshBrowser(b).dialog = None
           /\ FreshBrowser(b).access = IF b \in scene.signedIn THEN "valid" ELSE "none"
           /\ FreshBrowser(b).keys = {} /\ FreshBrowser(b).sessions = scene.signedIn
<1>1. scene.at \in Private \cup {"home"} /\ scene.signedIn \in SUBSET Browsers
  BY AccountsAssumption
<1>2. \E k \in BOOLEAN \cup {None} :
         k = IF scene.client[b] = "web" THEN b \in scene.signedIn ELSE None
  <2>1. (b \in scene.signedIn) \in BOOLEAN
    OBVIOUS
  <2> DEFINE in == b \in scene.signedIn
  <2> HIDE DEF in
  <2>2. in \in BOOLEAN => \E k \in BOOLEAN \cup {None} :
                           k = IF scene.client[b] = "web" THEN in ELSE None
    OBVIOUS
  <2>3. QED
    BY <2>1, <2>2 DEF in
<1>k. PICK k \in BOOLEAN \cup {None} :
         k = IF scene.client[b] = "web" THEN b \in scene.signedIn ELSE None
  BY <1>2
<1>3. PICK a \in {"valid", "none"} : a = IF b \in scene.signedIn THEN "valid" ELSE "none"
  OBVIOUS
<1>4. FreshBrowser(b) = [at |-> scene.at, access |-> a, known |-> k, dialog |-> None,
                         told |-> None, totp |-> FALSE, required |-> TRUE, credentials |-> {},
                         keys |-> {}, sessions |-> scene.signedIn]
  BY <1>k, <1>3 DEF FreshBrowser
<1>5. scene.at \in Places /\ None \in Told
  BY <1>1 DEF Places, Told
<1>6. FreshBrowser(b) \in Pages
  BY <1>1, <1>4, <1>5 DEF Pages
<1>7. QED
  BY <1>1, <1>3, <1>4, <1>6

\* The initial states are typed.
LEMMA InitTypes ==
    ASSUME Init
    PROVE  TypeInv
<1>1. scene \in Scenes /\ calm \in BOOLEAN
  BY DEF Init
<1>2. held \in [pw : Nat, backup : Nat, totp : Nat]
  BY DEF Init
<1>3. count \in [Ops \cup {"expire", "visit"} -> Nat]
  BY DEF Init
<1>4. browser \in [Browsers -> Pages]
  BY <1>1, FreshPage DEF Init
<1>5. row \in Rows
  <2>1. PICK v \in BOOLEAN : v = TRUE
    OBVIOUS
  <2>2. [pw |-> 1, backup |-> 1, totp |-> 0, required |-> v] \in Rows
    BY DEF Rows
  <2>3. QED
    BY <2>1, <2>2 DEF Init
<1>6. sessions \in SUBSET Browsers
  BY <1>1, AccountsAssumption DEF Init
<1>7. StoredType
  BY <1>5, <1>6 DEF Init, StoredType
<1>8. WorkType
  BY NoneWaits DEF Init, WorkType
<1>9. QED
  BY <1>1, <1>2, <1>3, <1>4, <1>7, <1>8 DEF TypeInv

\* Every step keeps the types.
LEMMA NextTypes ==
    ASSUME TypeInv, OwnerInv, Next
    PROVE  TypeInv'
<1>1. CASE ExpireStep
  BY <1>1, ExpireTypes
<1>2. ASSUME NEW b \in Browsers,
             \/ HandleStep(b) \/ ReceiveStep(b) \/ RefreshStep(b)
             \/ GoStep(b) \/ AskStep(b) \/ DialogStep(b)
      PROVE  TypeInv'
  BY <1>2, HandleTypes, ReceiveTypes, RefreshTypes, GoTypes, AskTypes, DialogTypes
<1>3. QED
  BY <1>1, <1>2, Kinds

-----------------------------------------------------------------------------
(* What no step of a browser does. *)

\* A request of x that is there after a step goes on or is new.
GoesOn(x, n) ==
    \/ n \in DOMAIN work[x] /\ Kept(work'[x][n], work[x][n])
    \/ /\ IsNew(work'[x][n]) /\ scene.client[x] # "closed"
       /\ work'[x][n].op = "change" => count'["change"] # 0

\* What a page comes to say and where.
TurnsTo(x) ==
    /\ browser'[x].at = "set" => browser[x].at = "set" \/ token
    /\ browser'[x].dialog # None => Web(x) /\ browser'[x].at = "security"
    /\ browser'[x].told = "created" =>
          \/ browser[x].told = "created"
          \/ \E i \in DOMAIN work[x] :
                Wins(x, i) /\ (i \in DOMAIN work'[x] => work'[x][i].answer = None)

\* A step of a browser, or of the time.
Moves ==
    /\ scene' = scene /\ DOMAIN work' = Browsers
    /\ \A x \in Browsers : TurnsTo(x) /\ \A n \in DOMAIN work'[x] : GoesOn(x, n)
    /\ UNCHANGED <<account, row, keys, sessions>> /\ (token' => token)
    /\ cached' = cached \/ (cached = None /\ cached' = row)
    /\ count["change"] # 0 => count'["change"] # 0

\* What was there goes on.
LEMMA StaysOn ==
    ASSUME TypeInv, OwnerInv, NEW x \in Browsers
    PROVE  /\ work'[x] = work[x] => \A n \in DOMAIN work'[x] : GoesOn(x, n)
           /\ /\ browser'[x].at = browser[x].at /\ browser'[x].told = browser[x].told
              /\ browser'[x].dialog = browser[x].dialog
              => TurnsTo(x)
<1>1. \A n \in DOMAIN work[x] : Kept(work[x][n], work[x][n])
  BY DEF TypeInv, WorkType, Kept
<1>2. browser[x].dialog # None => Web(x) /\ browser[x].at = "security"
  BY DEF OwnerInv, At
<1>3. QED
  BY <1>1, <1>2 DEF GoesOn, TurnsTo

\* It is enough to look at the one browser that does something.
LEMMA OneMoves ==
    ASSUME TypeInv, OwnerInv, NEW b \in Browsers, NEW v, NEW p \in Pages,
           Turns(b, p), Works(b, v), scene' = scene,
           UNCHANGED <<account, row, keys, sessions>>, token' => token,
           cached' = cached \/ (cached = None /\ cached' = row),
           count["change"] # 0 => count'["change"] # 0,
           TurnsTo(b), \A n \in DOMAIN v : GoesOn(b, n)
    PROVE  Moves
<1>1. \A x \in Browsers : x # b => browser'[x] = browser[x]
  BY Turned DEF TypeInv
<1>2. DOMAIN work' = Browsers /\ work'[b] = v /\ \A x \in Browsers : x # b => work'[x] = work[x]
  BY DEF Works
<1>3. ASSUME NEW x \in Browsers PROVE TurnsTo(x) /\ \A n \in DOMAIN work'[x] : GoesOn(x, n)
  <2>1. CASE x = b
    BY <1>2, <2>1
  <2>2. CASE x # b
    BY <1>1, <1>2, <2>2, StaysOn
  <2>3. QED
    BY <2>1, <2>2
<1>4. QED
  BY <1>2, <1>3 DEF Moves

\* The time, a dialog and the navigation bar.
LEMMA SmallMoves ==
    ASSUME TypeInv, OwnerInv,
           ExpireStep \/ \E b \in Browsers : DialogStep(b) \/ RefreshStep(b)
    PROVE  Moves
<1>w. DOMAIN work = Browsers /\ \A x \in Browsers : browser[x] \in Pages
  BY DEF TypeInv, WorkType
<1>1. CASE ExpireStep
  <2>1. UNCHANGED <<scene, account, row, cached, keys, sessions, work>>
    BY <1>1 DEF ExpireStep
  <2>2. token' => token
    BY <1>1 DEF ExpireStep
  <2>3. count'["change"] = count["change"]
    <3>1. count \in Counts /\ count' = [count EXCEPT !["expire"] = @ + 1]
      BY <1>1 DEF TypeInv, Counts, ExpireStep
    <3>2. "change" \in Ops /\ "change" # "expire"
      BY DEF Ops
    <3>3. QED
      BY <3>1, <3>2, CountAgain
  <2>4. ASSUME NEW x \in Browsers
        PROVE  /\ browser'[x].at = browser[x].at /\ browser'[x].told = browser[x].told
               /\ browser'[x].dialog = browser[x].dialog
    <3>1. CASE browser' = browser
      BY <3>1
    <3>2. ASSUME NEW b \in Browsers, Turns(b, [browser[b] EXCEPT !.access = "old"])
          PROVE  /\ browser'[x].at = browser[x].at /\ browser'[x].told = browser[x].told
                 /\ browser'[x].dialog = browser[x].dialog
      BY <3>2 DEF TypeInv, Turns, Pages
    <3>3. QED
      BY <1>1, <3>1, <3>2 DEF ExpireStep
  <2>5. QED
    BY <1>w, <2>1, <2>2, <2>3, <2>4, StaysOn DEF Moves
<1>2. ASSUME NEW b \in Browsers, DialogStep(b) PROVE Moves
  <2>1. PICK s : Stays(b, s) /\ Turns(b, s)
    BY <1>2 DEF DialogStep
  <2>2. UNCHANGED <<scene, account, row, cached, keys, sessions, token, work, count>>
    BY <1>2 DEF DialogStep, stored
  <2>3. Works(b, work[b]) /\ s \in Pages /\ browser'[b] = s
    BY <1>w, <2>1, <2>2, Turned DEF Works, Stays, TypeInv
  <2>4. TurnsTo(b)
    <3>1. browser[b].dialog # None => Web(b) /\ browser[b].at = "security"
      BY DEF OwnerInv, At
    <3>2. None # "created"
      BY NoneIsNothing
    <3>3. QED
      BY <2>1, <2>3, <3>1, <3>2 DEF TurnsTo, Stays, At
  <2>5. \A n \in DOMAIN work[b] : GoesOn(b, n)
    BY <2>2, StaysOn
  <2>6. QED
    BY <2>1, <2>2, <2>3, <2>4, <2>5, OneMoves
<1>3. ASSUME NEW b \in Browsers, RefreshStep(b) PROVE Moves
  <2> DEFINE s == [browser[b] EXCEPT !.known = FALSE]
  <2>1. Turns(b, s)
    BY <1>3 DEF RefreshStep
  <2>2. UNCHANGED <<scene, account, row, cached, keys, sessions, token, work, count>>
    BY <1>3 DEF RefreshStep, stored
  <2>3. /\ s.at = browser[b].at /\ s.told = browser[b].told /\ s.dialog = browser[b].dialog
        /\ browser' = [browser EXCEPT ![b] = s]
    BY <1>w, <2>1 DEF Pages, Turns
  <2>p. s \in Pages
    <3>1. ASSUME NEW v \in BOOLEAN PROVE [browser[b] EXCEPT !.known = v] \in Pages
      BY <1>w DEF Pages
    <3>2. QED
      BY <3>1
  <2> HIDE DEF s
  <2>4. browser'[b] = s
    BY <2>1, <2>p, Turned DEF TypeInv
  <2>5. TurnsTo(b)
    BY <2>3, <2>4, StaysOn
  <2>6. Works(b, work[b]) /\ \A n \in DOMAIN work[b] : GoesOn(b, n)
    BY <1>w, <2>2, StaysOn DEF Works
  <2>7. QED
    BY <2>1, <2>2, <2>p, <2>5, <2>6, OneMoves
<1>4. QED
  BY <1>1, <1>2, <1>3

\* A person asks, or opens a page.
LEMMA PersonMoves ==
    ASSUME TypeInv, OwnerInv, NEW b \in Browsers, AskStep(b) \/ GoStep(b)
    PROVE  Moves
<1>w. DOMAIN work = Browsers /\ \A x \in Browsers : browser[x] \in Pages
  BY DEF TypeInv, WorkType
<1>n. None # "created"
  BY NoneIsNothing
<1>1. CASE AskStep(b)
  <2>1. PICK s, op, pw, value :
           Stays(b, s) /\ Turns(b, s) /\ MayAsk(b, op, pw, value) /\ Ask(b, op, pw, value)
    BY <1>1 DEF AskStep
  <2>2. UNCHANGED <<scene, account, row, cached, keys, sessions, token>>
    BY <2>1 DEF Ask, stored
  <2>3. PICK v : /\ Works(b, v) /\ IsFiniteSet(DOMAIN v) /\ DOMAIN work[b] \subseteq DOMAIN v
                 /\ \A n \in DOMAIN work[b] : v[n] = work[b][n]
                 /\ \A n \in DOMAIN v : n \notin DOMAIN work[b] => IsNew(v[n]) /\ v[n].op = op
    BY <2>1, Sends
  <2>4. s \in Pages /\ browser'[b] = s
    BY <2>1, Turned DEF Stays, TypeInv
  <2>5. TurnsTo(b)
    <3>1. browser[b].dialog # None => Web(b) /\ browser[b].at = "security"
      BY DEF OwnerInv, At
    <3>2. QED
      BY <1>n, <2>1, <2>4, <3>1 DEF TurnsTo, Stays, At
  <2>6. /\ count["change"] # 0 => count'["change"] # 0
        /\ op = "change" => count'["change"] # 0
    <3>1. count \in Counts /\ count' = [count EXCEPT ![op] = @ + 1] /\ op \in Ops
      BY <2>1 DEF TypeInv, Counts, Ask, MayAsk
    <3>2. /\ count'[op] = count[op] + 1 /\ count[op] \in Nat
          /\ \A x \in Ops \cup {"expire", "visit"} : x # op => count'[x] = count[x]
      BY <3>1, CountAgain
    <3>3. "change" \in Ops
      BY DEF Ops
    <3>4. count'[op] # 0
      BY <3>2
    <3>5. QED
      BY <3>2, <3>3, <3>4
  <2>7. \A n \in DOMAIN v : GoesOn(b, n)
    <3>1. \A n \in DOMAIN work[b] : Kept(work[b][n], work[b][n])
      BY DEF TypeInv, WorkType, Kept
    <3>2. scene.client[b] # "closed" /\ work'[b] = v
      BY <2>1, <2>3 DEF MayAsk, Works
    <3>3. QED
      BY <2>3, <2>6, <3>1, <3>2 DEF GoesOn
  <2>8. QED
    BY <2>1, <2>2, <2>3, <2>4, <2>5, <2>6, <2>7, OneMoves
<1>2. CASE GoStep(b)
  <2>1. PICK page, s, p : /\ Lands(b, page, s, NoRequests, p) /\ s.told = None
                          /\ page = "set" => token
    BY <1>2 DEF GoStep
  <2> DEFINE v == Reads(p.at, NoRequests)
  <2>2. Works(b, v) /\ LandsOn(p, NoRequests, v)
    BY <2>1, NoneWaits, Landed DEF TypeInv
  <2> HIDE DEF v
  <2>3. /\ UNCHANGED <<account, row, keys, sessions, token>> /\ scene' = scene
        /\ cached' = cached \/ (cached = None /\ cached' = row)
        /\ p \in Pages /\ Turns(b, p) /\ p.dialog = None /\ p.told = None
        /\ p.at = "set" => token
    BY <1>2, <2>1 DEF Lands, GoStep
  <2>4. browser'[b] = p
    BY <2>3, Turned DEF TypeInv
  <2>5. TurnsTo(b)
    BY <1>n, <2>3, <2>4 DEF TurnsTo
  <2>6. \A n \in DOMAIN v : GoesOn(b, n)
    <3>1. \A n \in DOMAIN v : IsNew(v[n]) /\ v[n].op \in Reading
      BY <2>2, NoneWaits DEF LandsOn
    <3>2. "change" \notin Reading
      BY DEF Reading
    <3>3. scene.client[b] # "closed" /\ work'[b] = v
      BY <1>2, <2>2 DEF GoStep, Works
    <3>4. QED
      BY <3>1, <3>2, <3>3 DEF GoesOn
  <2>7. count'["change"] = count["change"]
    BY <1>2 DEF GoStep
  <2>8. QED
    BY <2>2, <2>3, <2>5, <2>6, <2>7, OneMoves
<1>3. QED
  BY <1>1, <1>2

\* An answer comes.
LEMMA ReceiveMoves ==
    ASSUME TypeInv, OwnerInv, NEW b \in Browsers, ReceiveStep(b)
    PROVE  Moves
<1>1. PICK i \in DOMAIN work[b] : DropStep(b, i) \/ ShowStep(b, i) \/ LeaveStep(b, i)
  BY DEF ReceiveStep
<1>u. scene' = scene /\ count' = count
  BY DEF ReceiveStep
<1>f. /\ IsFiniteSet(DOMAIN work[b]) /\ \A n \in DOMAIN work[b] : Fits(work[b][n])
      /\ StoredType /\ WorkType
  BY DEF TypeInv, WorkType
<1>k. \A n \in DOMAIN work[b] : Kept(work[b][n], work[b][n])
  BY <1>f DEF Kept
<1>w. /\ DOMAIN Without(work[b], i) = DOMAIN work[b] \ {i}
      /\ IsFiniteSet(DOMAIN Without(work[b], i))
      /\ \A n \in DOMAIN Without(work[b], i) : Without(work[b], i)[n] = work[b][n]
  BY <1>f, Removed
<1>c. scene.client[b] # "closed"
  BY DEF OwnerInv, Idle
<1>o. browser[b].dialog # None => Web(b) /\ browser[b].at = "security"
  BY DEF OwnerInv, At
<1>r. "change" \notin Reading \cup {"enrol"}
  BY DEF Reading
<1>n. None # "created"
  BY NoneIsNothing
<1>2. CASE DropStep(b, i)
  <2> DEFINE v == Without(work[b], i)
  <2>1. PICK s : /\ Bakes(work[b][i], browser[b], s) /\ Turns(b, s)
                 /\ work' = [work EXCEPT ![b] = v]
    BY <1>2 DEF DropStep
  <2>2. UNCHANGED <<account, row, cached, keys, sessions, token>>
    BY <1>2 DEF DropStep, stored
  <2>3. s \in Pages /\ browser'[b] = s /\ Works(b, v)
    BY <1>f, <2>1, Turned, Worked DEF Bakes, TypeInv
  <2>4. TurnsTo(b)
    BY <1>o, <2>1, <2>3 DEF Bakes, TurnsTo
  <2>5. \A n \in DOMAIN v : GoesOn(b, n)
    BY <1>k, <1>w, <2>3 DEF GoesOn, Works
  <2>6. QED
    BY <1>u, <2>1, <2>2, <2>3, <2>4, <2>5, OneMoves
<1>3. CASE ShowStep(b, i)
  <2>1. PICK s, p, v :
           /\ Bakes(work[b][i], browser[b], s) /\ Shows(work[b][i], s, p) /\ Turns(b, p)
           /\ Follow(b, work[b][i], Without(work[b], i), v) /\ work' = [work EXCEPT ![b] = v]
    BY <1>3 DEF ShowStep
  <2>2. UNCHANGED <<account, row, cached, keys, sessions, token>>
    BY <1>3 DEF ShowStep, stored
  <2>3. p \in Pages /\ browser'[b] = p /\ Works(b, v)
    BY <1>f, <2>1, Turned, Worked DEF Shows, TypeInv
  <2>4. i \in DOMAIN v => v[i].answer = None
    BY <1>w, <2>1 DEF Follow, IsNew
  <2>5. TurnsTo(b)
    <3>1. /\ p.at = browser[b].at /\ p.dialog = browser[b].dialog
          /\ p.told = "created" =>
                browser[b].told = "created"
                \/ (work[b][i].op = "register" /\ work[b][i].answer = "ok")
      BY <2>1 DEF Bakes, Shows
    <3>2. QED
      BY <1>o, <2>3, <2>4, <3>1 DEF TurnsTo, Wins, Works
  <2>6. \A n \in DOMAIN v : GoesOn(b, n)
    BY <1>c, <1>k, <1>r, <1>w, <2>1, <2>3 DEF Follow, GoesOn, Works
  <2>7. QED
    BY <1>u, <2>1, <2>2, <2>3, <2>5, <2>6, OneMoves
<1>4. CASE LeaveStep(b, i)
  <2>1. PICK s, t, page, w, p :
           /\ t.told # "created" /\ page \in {"login", "home", "settings"}
           /\ Remains(w, work[b], i) /\ Lands(b, page, t, w, p)
    BY <1>4 DEF LeaveStep
  <2> DEFINE v == Reads(p.at, w)
  <2>2. Works(b, v) /\ LandsOn(p, w, v)
    BY <1>f, <2>1, Landed DEF Remains
  <2> HIDE DEF v
  <2>3. /\ UNCHANGED <<account, row, keys, sessions, token>>
        /\ cached' = cached \/ (cached = None /\ cached' = row)
        /\ p \in Pages /\ Turns(b, p) /\ p.dialog = None /\ p.told # "created"
        /\ p.at # "set"
    BY <2>1 DEF Lands
  <2>4. browser'[b] = p
    BY <2>3, Turned DEF TypeInv
  <2>5. TurnsTo(b)
    BY <2>3, <2>4 DEF TurnsTo
  <2>6. \A n \in DOMAIN v : GoesOn(b, n)
    BY <1>c, <1>r, <2>1, <2>2 DEF Remains, LandsOn, GoesOn, Works
  <2>7. QED
    BY <1>u, <2>2, <2>3, <2>5, <2>6, OneMoves
<1>5. QED
  BY <1>1, <1>2, <1>3, <1>4

\* Every step is one of the server, or moves no account.
LEMMA Either ==
    ASSUME TypeInv, OwnerInv, Next
    PROVE  Moves \/ \E b \in Browsers : HandleStep(b)
BY Kinds, SmallMoves, PersonMoves, ReceiveMoves

-----------------------------------------------------------------------------
(* Whose things they are. *)

\* A step of the server on a request.
LEMMA Handled ==
    ASSUME TypeInv, NEW b \in Browsers, HandleStep(b)
    PROVE  \E i \in DOMAIN work[b] : \E q :
             /\ Effect(b, i, q) /\ DOMAIN work' = Browsers
             /\ \A x \in Browsers :
                   /\ DOMAIN work'[x] = DOMAIN work[x]
                   /\ \A n \in DOMAIN work[x] :
                         \/ x = b /\ n = i /\ work'[x][n] = q
                         \/ (x # b \/ n # i) /\ work'[x][n] = work[x][n]
<1>1. PICK i \in DOMAIN work[b] : \E q : Effect(b, i, q)
  BY DEF HandleStep
<1>2. PICK q : Effect(b, i, q)
  BY <1>1
<1>3. QED
  BY <1>2 DEF Effect, Moved

\* Only who has an account has a session, a token or the page to use it.
LEMMA OwnerStep ==
    ASSUME TypeInv, OwnerInv, Next
    PROVE  OwnerInv'
<1>1. CASE Moves
  <2>1. (\E b \in Browsers : browser'[b].at = "set") => account = "verified"
    BY <1>1 DEF Moves, TurnsTo, OwnerInv, At
  <2>2. sessions' # {} \/ token' => account = "verified"
    BY <1>1 DEF Moves, OwnerInv
  <2>3. ASSUME NEW b \in Browsers PROVE scene'.client[b] = "closed" => DOMAIN work'[b] = {}
    BY <1>1 DEF Moves, GoesOn, OwnerInv, Idle
  <2>4. ASSUME NEW b \in Browsers
        PROVE  browser'[b].dialog # None => scene'.client[b] = "web" /\ browser'[b].at = "security"
    BY <1>1 DEF Moves, TurnsTo, Web
  <2>5. ASSUME NEW b \in Browsers, NEW n \in DOMAIN work'[b], work'[b][n].op = "change"
        PROVE  count'["change"] # 0
    BY <1>1, <2>5 DEF Moves, GoesOn, Kept, OwnerInv
  <2>6. account' = account
    BY <1>1 DEF Moves
  <2>7. QED
    BY <2>1, <2>2, <2>3, <2>4, <2>5, <2>6 DEF OwnerInv, At, Web, Idle
<1>2. ASSUME NEW b \in Browsers, HandleStep(b) PROVE OwnerInv'
  <2>1. PICK i, q :
             /\ i \in DOMAIN work[b] /\ Effect(b, i, q) /\ DOMAIN work' = Browsers
             /\ \A x \in Browsers :
                   /\ DOMAIN work'[x] = DOMAIN work[x]
                   /\ \A n \in DOMAIN work[x] :
                         \/ x = b /\ n = i /\ work'[x][n] = q
                         \/ (x # b \/ n # i) /\ work'[x][n] = work[x][n]
    BY <1>2, Handled
  <2>2. scene' = scene /\ browser' = browser /\ count' = count
    BY <1>2 DEF HandleStep
  <2>3. /\ AccountMoves(work[b][i], q) /\ SessionsMove(b, work[b][i], q)
        /\ Same(q, work[b][i])
    BY <2>1 DEF Effect
  <2>4. account = "verified" => account' = "verified"
    BY <2>3 DEF AccountMoves
  <2>5. sessions' # {} \/ token' => account = "verified"
    <3>1. sessions' \in SUBSET sessions \/ account = "verified"
      BY <2>3 DEF SessionsMove
    <3>2. token' => token \/ account = "verified"
      BY <2>3 DEF AccountMoves
    <3>3. QED
      BY <3>1, <3>2 DEF OwnerInv
  <2>6. \A x \in Browsers : \A n \in DOMAIN work'[x] :
           work'[x][n].op = "change" => count["change"] # 0
    BY <2>1, <2>3 DEF Same, OwnerInv
  <2>7. QED
    BY <2>1, <2>2, <2>4, <2>5, <2>6 DEF OwnerInv, At, Web, Idle
<1>3. QED
  BY <1>1, <1>2, Either

\* Has the browser a created account, or is it about to be told?
Has(x) == browser[x].told = "created" \/ \E i \in DOMAIN work[x] : Wins(x, i)

\* The one winner, said of browsers.
LEMMA WinnerHas ==
    WinnerInv <=>
        /\ \A x, y \in Browsers : Has(x) /\ Has(y) => x = y
        /\ \A x \in Browsers :
              /\ Has(x) => account # "none"
              /\ \A i \in DOMAIN work[x] : Wins(x, i) =>
                    browser[x].told # "created" /\ \A j \in DOMAIN work[x] : Wins(x, j) => i = j
BY DEF WinnerInv, Has

\* Of several registrations one wins.
LEMMA WinnerStep ==
    ASSUME TypeInv, OwnerInv, WinnerInv, Next
    PROVE  WinnerInv'
<1>h. /\ \A x, y \in Browsers : Has(x) /\ Has(y) => x = y
      /\ \A x \in Browsers :
            /\ Has(x) => account # "none"
            /\ \A i \in DOMAIN work[x] : Wins(x, i) =>
                  browser[x].told # "created" /\ \A j \in DOMAIN work[x] : Wins(x, j) => i = j
  BY WinnerHas
<1>n. None # "ok"
  BY NoneIsNothing
<1>1. CASE Moves
  <2>1. ASSUME NEW x \in Browsers, NEW i \in DOMAIN work'[x], Wins(x, i)'
        PROVE  i \in DOMAIN work[x] /\ Wins(x, i)
    BY <1>n, <1>1, <2>1 DEF Moves, GoesOn, IsNew, Kept, Wins
  <2>2. ASSUME NEW x \in Browsers, browser'[x].told = "created"
        PROVE  \/ browser[x].told = "created"
               \/ \E i \in DOMAIN work[x] :
                     Wins(x, i) /\ (i \in DOMAIN work'[x] => work'[x][i].answer = None)
    BY <1>1, <2>2 DEF Moves, TurnsTo
  <2>3. ASSUME NEW x \in Browsers, Has(x)' PROVE Has(x)
    BY <2>1, <2>2, <2>3 DEF Has
  <2>4. ASSUME NEW x \in Browsers, NEW i \in DOMAIN work'[x], Wins(x, i)'
        PROVE  browser'[x].told # "created" /\ \A j \in DOMAIN work'[x] : Wins(x, j)' => i = j
    <3>1. i \in DOMAIN work[x] /\ Wins(x, i) /\ work'[x][i].answer # None
      BY <1>n, <2>1, <2>4 DEF Wins
    <3>2. \A j \in DOMAIN work'[x] : Wins(x, j)' => i = j
      BY <1>h, <2>1, <3>1
    <3>3. browser'[x].told # "created"
      BY <1>h, <2>2, <3>1
    <3>4. QED
      BY <3>2, <3>3
  <2>5. account' = account
    BY <1>1 DEF Moves
  <2>6. QED
    BY <1>h, <2>3, <2>4, <2>5 DEF WinnerInv, Has
<1>2. ASSUME NEW b \in Browsers, HandleStep(b) PROVE WinnerInv'
  <2>1. PICK i, q :
             /\ i \in DOMAIN work[b] /\ Effect(b, i, q) /\ DOMAIN work' = Browsers
             /\ \A x \in Browsers :
                   /\ DOMAIN work'[x] = DOMAIN work[x]
                   /\ \A n \in DOMAIN work[x] :
                         \/ x = b /\ n = i /\ work'[x][n] = q
                         \/ (x # b \/ n # i) /\ work'[x][n] = work[x][n]
    BY <1>2, Handled
  <2>2. browser' = browser
    BY <1>2 DEF HandleStep
  <2>3. AccountMoves(work[b][i], q) /\ Same(q, work[b][i])
    BY <2>1 DEF Effect
  <2>4. ASSUME NEW x \in Browsers, NEW n \in DOMAIN work'[x], Wins(x, n)'
        PROVE  n \in DOMAIN work[x] /\ (Wins(x, n) \/ (x = b /\ n = i /\ account = "none" /\ account' = "new"))
    BY <2>1, <2>3, <2>4 DEF Wins, AccountMoves, Same
  <2>5. account # "none" => account' # "none"
    BY <2>3 DEF AccountMoves
  <2>6. CASE account = "none"
    <3>1. \A x \in Browsers : ~Has(x)
      BY <1>h, <2>6
    <3>2. \A x \in Browsers : browser'[x].told # "created"
      BY <2>2, <3>1 DEF Has
    <3>3. \A x \in Browsers : \A n \in DOMAIN work'[x] : Wins(x, n)' =>
             x = b /\ n = i /\ account' # "none"
      BY <2>4, <3>1 DEF Has
    <3>4. QED
      BY <3>2, <3>3 DEF WinnerInv
  <2>7. CASE account # "none"
    <3>1. \A x \in Browsers : \A n \in DOMAIN work'[x] :
             Wins(x, n)' => n \in DOMAIN work[x] /\ Wins(x, n)
      BY <2>4, <2>7
    <3>2. QED
      BY <2>2, <2>5, <2>7, <3>1 DEF WinnerInv
  <2>8. QED
    BY <2>6, <2>7
<1>3. QED
  BY <1>1, <1>2, Either

-----------------------------------------------------------------------------
(* Who changed a password is on the login page. *)

\* What ResetInv and ChangedIsSignedOut say of a browser.
ResetAt(b) ==
    Web(b) =>
        /\ At(b, "set") => browser[b].known = None
        /\ \A i \in DOMAIN work[b] :
              /\ work[b][i].op = "reset" => At(b, "set")
              /\ At(b, "set") => work[b][i].op = "reset" /\ \A j \in DOMAIN work[b] : j = i

OutAt(b) == browser[b].told = "changed" => At(b, "login")

\* A browser that does nothing keeps both.
LEMMA OthersOut ==
    ASSUME TypeInv, SignedOutInv, scene' = scene, NEW x \in Browsers,
           browser'[x].at = browser[x].at, browser'[x].told = browser[x].told,
           browser'[x].known = browser[x].known, DOMAIN work'[x] = DOMAIN work[x],
           \A n \in DOMAIN work[x] : work'[x][n].op = work[x][n].op
    PROVE  ResetAt(x)' /\ OutAt(x)'
BY DEF SignedOutInv, ResetInv, ChangedIsSignedOut, ResetAt, OutAt, Web, At

\* It is enough to look at the one browser that does something.
LEMMA OneOut ==
    ASSUME TypeInv, SignedOutInv, scene' = scene, NEW b \in Browsers, NEW p \in Pages,
           Turns(b, p), NEW v, Works(b, v), ResetAt(b)', OutAt(b)'
    PROVE  SignedOutInv'
<1>1. \A x \in Browsers : x # b => browser'[x] = browser[x] /\ work'[x] = work[x]
  BY Turned DEF TypeInv, Works
<1>2. ASSUME NEW x \in Browsers PROVE ResetAt(x)' /\ OutAt(x)'
  <2>1. CASE x = b
    BY <2>1
  <2>2. CASE x # b
    BY <1>1, <2>2, OthersOut
  <2>3. QED
    BY <2>1, <2>2
<1>3. QED
  BY <1>2 DEF SignedOutInv, ResetInv, ChangedIsSignedOut, ResetAt, OutAt

\* The server, the time, a dialog and the navigation bar.
LEMMA SmallOut ==
    ASSUME TypeInv, OwnerInv, SignedOutInv,
           ExpireStep \/ \E b \in Browsers : HandleStep(b) \/ DialogStep(b) \/ RefreshStep(b)
    PROVE  SignedOutInv'
<1>w. DOMAIN work = Browsers /\ \A x \in Browsers : browser[x] \in Pages
  BY DEF TypeInv, WorkType
<1>n. None \notin BOOLEAN /\ None # "changed"
  BY NoneIsNothing
<1>1. CASE ExpireStep
  <2>1. scene' = scene /\ work' = work
    BY <1>1 DEF ExpireStep
  <2>2. ASSUME NEW x \in Browsers
        PROVE  /\ browser'[x].at = browser[x].at /\ browser'[x].told = browser[x].told
               /\ browser'[x].known = browser[x].known
    <3>1. CASE browser' = browser
      BY <3>1
    <3>2. ASSUME NEW b \in Browsers, Turns(b, [browser[b] EXCEPT !.access = "old"])
          PROVE  /\ browser'[x].at = browser[x].at /\ browser'[x].told = browser[x].told
                 /\ browser'[x].known = browser[x].known
      BY <3>2 DEF TypeInv, Turns, Pages
    <3>3. QED
      BY <1>1, <3>1, <3>2 DEF ExpireStep
  <2>3. \A x \in Browsers : ResetAt(x)' /\ OutAt(x)'
    BY <2>1, <2>2, OthersOut
  <2>4. QED
    BY <2>3 DEF SignedOutInv, ResetInv, ChangedIsSignedOut, ResetAt, OutAt
<1>2. ASSUME NEW b \in Browsers, HandleStep(b) PROVE SignedOutInv'
  <2>1. PICK i, q :
             /\ i \in DOMAIN work[b] /\ Effect(b, i, q) /\ DOMAIN work' = Browsers
             /\ \A x \in Browsers :
                   /\ DOMAIN work'[x] = DOMAIN work[x]
                   /\ \A n \in DOMAIN work[x] :
                         \/ x = b /\ n = i /\ work'[x][n] = q
                         \/ (x # b \/ n # i) /\ work'[x][n] = work[x][n]
    BY <1>2, Handled
  <2>2. q.op = work[b][i].op
    BY <2>1 DEF Effect, Same
  <2>3. scene' = scene /\ browser' = browser
    BY <1>2 DEF HandleStep
  <2>4. \A x \in Browsers : ResetAt(x)' /\ OutAt(x)'
    BY <2>1, <2>2, <2>3, OthersOut
  <2>5. QED
    BY <2>4 DEF SignedOutInv, ResetInv, ChangedIsSignedOut, ResetAt, OutAt
<1>3. ASSUME NEW b \in Browsers, DialogStep(b) PROVE SignedOutInv'
  <2>1. PICK s : Stays(b, s) /\ Turns(b, s)
    BY <1>3 DEF DialogStep
  <2>2. scene' = scene /\ work' = work
    BY <1>3 DEF DialogStep
  <2>3. Works(b, work[b]) /\ s \in Pages /\ browser'[b] = s
    BY <1>w, <2>1, <2>2, Turned DEF Works, Stays, TypeInv
  <2>4. ResetAt(b)' /\ OutAt(b)'
    BY <1>n, <2>1, <2>2, <2>3
       DEF Stays, SignedOutInv, ResetInv, ChangedIsSignedOut, ResetAt, OutAt, Web, At
  <2>5. QED
    BY <2>1, <2>2, <2>3, <2>4, OneOut
<1>4. ASSUME NEW b \in Browsers, RefreshStep(b) PROVE SignedOutInv'
  <2> DEFINE s == [browser[b] EXCEPT !.known = FALSE]
  <2>1. Turns(b, s) /\ scene' = scene /\ work' = work /\ Web(b) /\ browser[b].known = TRUE
        /\ DOMAIN work[b] = {}
    BY <1>4 DEF RefreshStep, Idle
  <2>2. s.at = browser[b].at /\ s.told = browser[b].told
    BY <1>w DEF Pages
  <2>p. s \in Pages
    <3>1. ASSUME NEW v \in BOOLEAN PROVE [browser[b] EXCEPT !.known = v] \in Pages
      BY <1>w DEF Pages
    <3>2. QED
      BY <3>1
  <2> HIDE DEF s
  <2>3. Works(b, work[b]) /\ browser'[b] = s
    BY <1>w, <2>1, <2>p, Turned DEF Works, TypeInv
  <2>4. ~At(b, "set")
    BY <1>n, <2>1 DEF SignedOutInv, ResetInv
  <2>5. ResetAt(b)' /\ OutAt(b)'
    BY <2>1, <2>2, <2>3, <2>4
       DEF SignedOutInv, ResetInv, ChangedIsSignedOut, ResetAt, OutAt, Web, At
  <2>6. QED
    BY <2>1, <2>p, <2>3, <2>5, OneOut
<1>5. QED
  BY <1>1, <1>2, <1>3, <1>4

\* A person asks, or opens a page.
LEMMA PersonOut ==
    ASSUME TypeInv, OwnerInv, SignedOutInv, NEW b \in Browsers, AskStep(b) \/ GoStep(b)
    PROVE  SignedOutInv'
<1>n. None # "changed"
  BY NoneIsNothing
<1>r. "reset" \notin Reading
  BY DEF Reading
<1>1. CASE AskStep(b)
  <2>1. PICK s, op, pw, value :
           Stays(b, s) /\ Turns(b, s) /\ MayAsk(b, op, pw, value) /\ Ask(b, op, pw, value)
    BY <1>1 DEF AskStep
  <2>2. PICK v : /\ Works(b, v) /\ IsFiniteSet(DOMAIN v) /\ DOMAIN work[b] \subseteq DOMAIN v
                 /\ \A n \in DOMAIN work[b] : v[n] = work[b][n]
                 /\ \A n \in DOMAIN v : n \notin DOMAIN work[b] => IsNew(v[n]) /\ v[n].op = op
                 /\ \E k : DOMAIN v \subseteq DOMAIN work[b] \cup {k}
    BY <2>1, Sends
  <2>3. s \in Pages /\ browser'[b] = s /\ work'[b] = v /\ scene' = scene
    BY <2>1, <2>2, Turned DEF Stays, TypeInv, Works, Ask
  <2>4. s.at = browser[b].at /\ s.known = browser[b].known /\ (s.told = "changed" => browser[b].told = "changed")
    BY <1>n, <2>1 DEF Stays
  <2>5. OutAt(b)'
    BY <2>3, <2>4 DEF SignedOutInv, ChangedIsSignedOut, OutAt, At
  <2>6. CASE Web(b) /\ At(b, "set")
    <3>1. account = "verified"
      BY <2>6 DEF OwnerInv
    <3>2. op = "reset"
      BY <2>1, <2>6, <3>1 DEF MayAsk
    <3>3. \A n \in DOMAIN work[b] : work[b][n].op # "reset"
      BY <2>1, <2>6, <3>2 DEF MayAsk
    <3>4. DOMAIN work[b] = {}
      BY <2>6, <3>3 DEF SignedOutInv, ResetInv
    <3>5. \A n \in DOMAIN v : v[n].op = "reset" /\ \A j \in DOMAIN v : j = n
      BY <2>2, <3>2, <3>4
    <3>6. browser[b].known = None
      BY <2>6 DEF SignedOutInv, ResetInv
    <3>7. ResetAt(b)'
      BY <2>3, <2>4, <2>6, <3>5, <3>6 DEF ResetAt, Web, At
    <3>8. QED
      BY <2>1, <2>2, <2>3, <2>5, <3>7, OneOut
  <2>7. CASE ~(Web(b) /\ At(b, "set"))
    <3>1. Web(b) => op # "reset" /\ \A n \in DOMAIN work[b] : work[b][n].op # "reset"
      BY <2>1, <2>7 DEF MayAsk, SignedOutInv, ResetInv
    <3>2. Web(b) => \A n \in DOMAIN v : v[n].op # "reset"
      BY <2>2, <3>1
    <3>3. ResetAt(b)'
      BY <2>3, <2>4, <2>7, <3>2 DEF ResetAt, Web, At
    <3>4. QED
      BY <2>1, <2>2, <2>3, <2>5, <3>3, OneOut
  <2>8. QED
    BY <2>6, <2>7
<1>2. CASE GoStep(b)
  <2>1. PICK page, s, p : /\ Lands(b, page, s, NoRequests, p) /\ s.told = None
                          /\ page = "set" => s.known = None
    BY <1>2 DEF GoStep
  <2> DEFINE v == Reads(p.at, NoRequests)
  <2>2. Works(b, v) /\ LandsOn(p, NoRequests, v)
    BY <2>1, NoneWaits, Landed DEF TypeInv
  <2> HIDE DEF v
  <2>3. /\ p \in Pages /\ Turns(b, p) /\ p.told = None
        /\ p.at = "set" /\ Web(b) => p.known = None
        /\ scene' = scene
    BY <1>2, <2>1 DEF Lands, GoStep
  <2>4. browser'[b] = p /\ work'[b] = v
    BY <2>2, <2>3, Turned DEF TypeInv, Works
  <2>5. OutAt(b)'
    BY <1>n, <2>3, <2>4 DEF OutAt
  <2>6. /\ p.at = "set" => DOMAIN v = {}
        /\ \A n \in DOMAIN v : v[n].op # "reset"
    BY <1>r, <2>2, NoneWaits DEF LandsOn
  <2>7. ResetAt(b)'
    BY <2>3, <2>4, <2>6 DEF ResetAt, Web, At
  <2>8. QED
    BY <2>2, <2>3, <2>5, <2>7, OneOut
<1>3. QED
  BY <1>1, <1>2

\* An answer comes.
LEMMA ReceiveOut ==
    ASSUME TypeInv, OwnerInv, SignedOutInv, NEW b \in Browsers, ReceiveStep(b)
    PROVE  SignedOutInv'
<1>1. PICK i \in DOMAIN work[b] : DropStep(b, i) \/ ShowStep(b, i) \/ LeaveStep(b, i)
  BY DEF ReceiveStep
<1>u. scene' = scene /\ (Web(b)' <=> Web(b))
  BY DEF ReceiveStep, Web
<1>f. IsFiniteSet(DOMAIN work[b]) /\ StoredType /\ WorkType
  BY DEF TypeInv, WorkType
<1>w. /\ DOMAIN Without(work[b], i) = DOMAIN work[b] \ {i}
      /\ \A n \in DOMAIN Without(work[b], i) : Without(work[b], i)[n] = work[b][n]
  BY <1>f, Removed
<1>o. /\ browser[b].told = "changed" => browser[b].at = "login"
      /\ Web(b) /\ browser[b].at = "set" => browser[b].known = None
      /\ Web(b) => \A n \in DOMAIN work[b] :
              /\ work[b][n].op = "reset" => browser[b].at = "set"
              /\ browser[b].at = "set" => work[b][n].op = "reset" /\ \A j \in DOMAIN work[b] : j = n
  BY DEF SignedOutInv, ResetInv, ChangedIsSignedOut, At
<1>r. "reset" \notin Reading \cup {"enrol"}
  BY DEF Reading
<1>2. CASE DropStep(b, i)
  <2> DEFINE v == Without(work[b], i)
  <2>1. PICK s : /\ Bakes(work[b][i], browser[b], s) /\ Turns(b, s)
                 /\ work' = [work EXCEPT ![b] = v]
    BY <1>2 DEF DropStep
  <2>2. s \in Pages /\ browser'[b] = s /\ Works(b, v) /\ work'[b] = v
    BY <1>f, <2>1, Turned, Worked DEF Bakes, TypeInv, Works
  <2>3. s.at = browser[b].at /\ s.told = browser[b].told /\ s.known = browser[b].known
    BY <2>1 DEF Bakes
  <2>4. OutAt(b)'
    BY <1>o, <2>2, <2>3 DEF OutAt, At
  <2> HIDE DEF v
  <2>5. Web(b) => \A n \in DOMAIN v :
              /\ v[n].op = "reset" => browser[b].at = "set"
              /\ browser[b].at = "set" => v[n].op = "reset" /\ \A j \in DOMAIN v : j = n
    BY <1>o, <1>w DEF v
  <2>6. ResetAt(b)'
    BY <1>o, <1>u, <2>2, <2>3, <2>5 DEF ResetAt, At
  <2>7. QED
    BY <1>u, <2>1, <2>2, <2>4, <2>6, OneOut
<1>3. CASE ShowStep(b, i)
  <2>1. PICK s, p, v :
           /\ Bakes(work[b][i], browser[b], s) /\ Shows(work[b][i], s, p) /\ Turns(b, p)
           /\ Follow(b, work[b][i], Without(work[b], i), v) /\ work' = [work EXCEPT ![b] = v]
    BY <1>3 DEF ShowStep
  <2>2. p \in Pages /\ browser'[b] = p /\ Works(b, v) /\ work'[b] = v
    BY <1>f, <2>1, Turned, Worked DEF Shows, TypeInv, Works
  <2>3. /\ p.at = browser[b].at /\ p.known = browser[b].known
        /\ p.told = "changed" => browser[b].told = "changed"
    BY <2>1 DEF Bakes, Shows
  <2>4. OutAt(b)'
    BY <1>o, <2>2, <2>3 DEF OutAt, At
  <2>5. Web(b) /\ browser[b].at = "set" => DOMAIN v = {}
    BY <1>o, <1>w, <2>1 DEF Follow
  <2>6. Web(b) /\ browser[b].at # "set" => \A n \in DOMAIN v : v[n].op # "reset"
    <3>1. ASSUME Web(b), browser[b].at # "set", NEW n \in DOMAIN v PROVE v[n].op # "reset"
      <4>1. CASE n \in DOMAIN Without(work[b], i)
        <5>1. v[n] = work[b][n] /\ n \in DOMAIN work[b]
          BY <1>w, <2>1, <4>1 DEF Follow
        <5>2. QED
          BY <1>o, <3>1, <5>1
      <4>2. CASE n \notin DOMAIN Without(work[b], i)
        BY <1>r, <2>1, <4>2 DEF Follow
      <4>3. QED
        BY <4>1, <4>2
    <3>2. QED
      BY <3>1
  <2>7. ResetAt(b)'
    BY <1>o, <1>u, <2>2, <2>3, <2>5, <2>6 DEF ResetAt, At
  <2>8. QED
    BY <1>u, <2>1, <2>2, <2>4, <2>7, OneOut
<1>4. CASE LeaveStep(b, i)
  <2>1. PICK s, t, page, w, p :
           /\ Bakes(work[b][i], browser[b], s) /\ t.access = s.access
           /\ page \in {"login", "home", "settings"}
           /\ t.told = "changed" =>
                 /\ page = "login" /\ s.access = "none"
                 /\ work[b][i].op = "change" /\ Web(b) => t.known = None
                 /\ work[b][i].op # "change" => work[b][i].op = "reset" /\ t.known = s.known
           /\ Remains(w, work[b], i) /\ Lands(b, page, t, w, p)
    BY <1>4 DEF LeaveStep
  <2> DEFINE v == Reads(p.at, w)
  <2>2. Works(b, v) /\ LandsOn(p, w, v)
    BY <1>f, <2>1, Landed DEF Remains
  <2> HIDE DEF v
  <2>3. /\ p \in Pages /\ Turns(b, p) /\ p.told = t.told /\ p.at # "set"
        /\ page = "login" /\ t.access = "none" /\ (Web(b) => t.known # TRUE) => p.at = "login"
    BY <2>1 DEF Lands
  <2>4. browser'[b] = p /\ work'[b] = v
    BY <2>2, <2>3, Turned DEF TypeInv, Works
  <2>5. p.told = "changed" => p.at = "login"
    <3>1. None # TRUE
      BY NoneIsNothing
    <3>2. s.known = browser[b].known
      BY <2>1 DEF Bakes
    <3>3. Web(b) /\ work[b][i].op = "reset" => browser[b].known = None
      BY <1>o
    <3>4. QED
      BY <2>1, <2>3, <3>1, <3>2, <3>3
  <2>6. OutAt(b)'
    BY <2>4, <2>5 DEF OutAt, At
  <2>7. Web(b) => \A n \in DOMAIN v : v[n].op # "reset"
    <3>1. Web(b) => \A n \in DOMAIN w : w[n].op # "reset"
      BY <1>o, <2>1 DEF Remains, Kept
    <3>2. QED
      BY <1>r, <2>2, <3>1 DEF LandsOn
  <2>8. ResetAt(b)'
    BY <1>u, <2>3, <2>4, <2>7 DEF ResetAt, At
  <2>9. QED
    BY <1>u, <2>2, <2>3, <2>6, <2>8, OneOut
<1>5. QED
  BY <1>1, <1>2, <1>3, <1>4

\* Whoever changed a password is led to the login page.
LEMMA SignedOutStep ==
    ASSUME TypeInv, OwnerInv, SignedOutInv, Next
    PROVE  SignedOutInv'
BY Kinds, SmallOut, PersonOut, ReceiveOut

-----------------------------------------------------------------------------
(* One thing at a time. *)

\* The requests of a browser that may go on together.
Together(v) ==
    \/ \A n \in DOMAIN v : v[n].op \in Reading
    \/ \A n \in DOMAIN v : v[n].awaited = TRUE /\ \A j \in DOMAIN v : j = n

\* A person asks, or opens a page, while nothing else goes on.
CalmRequest(b, v) ==
    /\ \A x \in Browsers : DOMAIN work[x] = {}
    /\ Works(b, v) /\ Together(v)
    /\ \A n \in DOMAIN v : IsNew(v[n])

\* Of a person who does one thing at a time: a request is the only one,
LEMMA CalmAsked ==
    ASSUME TypeInv, NEW b \in Browsers, AskStep(b) \/ GoStep(b), calm'
    PROVE  /\ calm /\ \E v : CalmRequest(b, v)
           /\ UNCHANGED <<scene, account, row, keys, sessions, held>>
           /\ count["change"] # 0 => count'["change"] # 0
           /\ count'["expire"] = count["expire"]
<1>1. calm /\ \A x \in Browsers : DOMAIN work[x] = {}
  BY DEF AskStep, GoStep, Ask, Calmly, Idle
<1>2. CASE AskStep(b)
  <2>1. PICK s, op, pw, value : MayAsk(b, op, pw, value) /\ Ask(b, op, pw, value)
    BY <1>2 DEF AskStep
  <2>2. PICK v : /\ Works(b, v) /\ IsFiniteSet(DOMAIN v) /\ DOMAIN work[b] \subseteq DOMAIN v
                 /\ \A n \in DOMAIN work[b] : v[n] = work[b][n]
                 /\ \A n \in DOMAIN v : n \notin DOMAIN work[b] => IsNew(v[n]) /\ v[n].op = op
                 /\ \E k : DOMAIN v \subseteq DOMAIN work[b] \cup {k}
    BY <2>1, Sends
  <2>3. \A n \in DOMAIN v : IsNew(v[n]) /\ \A j \in DOMAIN v : j = n
    BY <1>1, <2>2
  <2>4. Together(v)
    BY <2>3 DEF Together, IsNew
  <2>5. CalmRequest(b, v)
    BY <1>1, <2>2, <2>3, <2>4 DEF CalmRequest
  <2>6. UNCHANGED <<scene, account, row, keys, sessions, held>>
    BY <2>1 DEF Ask, stored
  <2>7. /\ count["change"] # 0 => count'["change"] # 0
        /\ count'["expire"] = count["expire"]
    <3>1. count \in Counts /\ count' = [count EXCEPT ![op] = @ + 1] /\ op \in Ops
      BY <2>1 DEF TypeInv, Counts, Ask, MayAsk
    <3>2. /\ count'[op] = count[op] + 1 /\ count[op] \in Nat
          /\ \A x \in Ops \cup {"expire", "visit"} : x # op => count'[x] = count[x]
      BY <3>1, CountAgain
    <3>3. "change" \in Ops /\ "expire" \notin Ops
      BY DEF Ops
    <3>4. count'[op] # 0
      BY <3>2
    <3>5. QED
      BY <3>1, <3>2, <3>3, <3>4
  <2>8. QED
    BY <1>1, <2>5, <2>6, <2>7
<1>3. CASE GoStep(b)
  <2>1. PICK page, s, p : Lands(b, page, s, NoRequests, p)
    BY <1>3 DEF GoStep
  <2> DEFINE v == Reads(p.at, NoRequests)
  <2>2. Works(b, v) /\ LandsOn(p, NoRequests, v)
    BY <2>1, NoneWaits, Landed DEF TypeInv
  <2> HIDE DEF v
  <2>3. \A n \in DOMAIN v : IsNew(v[n]) /\ v[n].op \in Reading
    BY <2>2, NoneWaits DEF LandsOn
  <2>4. CalmRequest(b, v)
    BY <1>1, <2>2, <2>3 DEF CalmRequest, Together
  <2>5. UNCHANGED <<scene, account, row, keys, sessions, held>>
        /\ count'["change"] = count["change"] /\ count'["expire"] = count["expire"]
    BY <1>3, <2>1 DEF GoStep, Lands
  <2>6. QED
    BY <1>1, <2>4, <2>5
<1>4. QED
  BY <1>2, <1>3

\* A request that is no other's, and goes on.
GoesThere(b, i, q, n) ==
    n \in DOMAIN work[b] /\ n # i /\ q = work[b][n] /\ q.op \in Reading /\ work[b][i].op \in Reading

\* An answer comes while nothing else is written.
CalmReceipt(b, i, v) ==
    /\ i \in DOMAIN work[b] /\ work[b][i].stage = "done" /\ held' = Hold(work[b][i])
    /\ \A x \in Browsers : x # b => DOMAIN work[x] = {}
    /\ Works(b, v) /\ Together(v)
    /\ \A n \in DOMAIN v : \/ ShowStep(b, i) /\ GoesThere(b, i, v[n], n)
                           \/ IsNew(v[n]) /\ v[n].op \in Reading \cup {"enrol"}
    /\ ShowStep(b, i) \/ LeaveStep(b, i)

\* an answer leaves what that page reads and nothing else,
LEMMA CalmReceived ==
    ASSUME TypeInv, OwnerInv, AloneInv, NEW b \in Browsers, ReceiveStep(b)
    PROVE  \E i, v : CalmReceipt(b, i, v)
<1>1. PICK i \in DOMAIN work[b] : /\ work[b][i].stage = "done"
                                  /\ DropStep(b, i) \/ ShowStep(b, i) \/ LeaveStep(b, i)
  BY DEF ReceiveStep
<1> DEFINE r == work[b][i]
<1>f. IsFiniteSet(DOMAIN work[b]) /\ StoredType /\ WorkType
  BY DEF TypeInv, WorkType
<1>w. /\ DOMAIN Without(work[b], i) = DOMAIN work[b] \ {i}
      /\ \A n \in DOMAIN Without(work[b], i) : Without(work[b], i)[n] = work[b][n]
  BY <1>f, Removed
<1>a. /\ \A x \in Browsers : x # b => DOMAIN work[x] = {}
      /\ \A n \in DOMAIN work[b] : work[b][n].op \notin Reading =>
              work[b][n].awaited = TRUE /\ \A j \in DOMAIN work[b] : j = n
  BY DEF AloneInv, Idle
<1>b. \A n \in DOMAIN work[b] : n # i => work[b][n].op \in Reading /\ r.op \in Reading
  BY <1>a
<1>c. r.awaited = TRUE
  BY <1>a DEF TypeInv, WorkType, Fits
<1>2. CASE DropStep(b, i)
  BY <1>2, <1>c DEF DropStep
<1>3. CASE ShowStep(b, i)
  <2>1. PICK v : /\ Follow(b, r, Without(work[b], i), v) /\ work' = [work EXCEPT ![b] = v]
                 /\ held' = Hold(r)
    BY <1>3 DEF ShowStep
  <2>2. Works(b, v)
    BY <1>f, <2>1, Worked
  <2>3. ASSUME NEW n \in DOMAIN v
        PROVE  \/ GoesThere(b, i, v[n], n)
               \/ IsNew(v[n]) /\ v[n].op \in Reading \cup {"enrol"}
    BY <1>b, <1>w, <2>1 DEF Follow, GoesThere
  <2>4. Together(v)
    <3>1. CASE r.op \in Reading
      <4>1. DOMAIN v = DOMAIN work[b] \ {i}
        BY <1>w, <2>1, <3>1 DEF Follow
      <4>2. \A n \in DOMAIN v : v[n] = work[b][n]
        BY <1>w, <2>1, <4>1 DEF Follow
      <4>3. \A n \in DOMAIN v : v[n].op \in Reading
        BY <1>b, <4>1, <4>2
      <4>4. QED
        BY <4>3 DEF Together
    <3>2. CASE r.op \notin Reading
      <4>1. DOMAIN Without(work[b], i) = {}
        BY <1>b, <1>w, <3>2
      <4>2. \A n \in DOMAIN v : IsNew(v[n]) /\ \A j \in DOMAIN v : j = n
        BY <2>1, <4>1 DEF Follow
      <4>3. QED
        BY <4>2 DEF Together, IsNew
    <3>3. QED
      BY <3>1, <3>2
  <2>5. CalmReceipt(b, i, v)
    BY <1>1, <1>3, <1>a, <2>1, <2>2, <2>3, <2>4 DEF CalmReceipt
  <2>6. QED
    BY <2>5
<1>4. CASE LeaveStep(b, i)
  <2>1. PICK s, t, page, w, p :
           /\ r.op \in Reading => \A n \in DOMAIN w : w[n].op \notin Reading
           /\ Remains(w, work[b], i) /\ Lands(b, page, t, w, p)
           /\ held' = Hold(r)
    BY <1>4 DEF LeaveStep
  <2> DEFINE v == Reads(p.at, w)
  <2>2. Works(b, v) /\ LandsOn(p, w, v)
    BY <1>f, <2>1, Landed DEF Remains
  <2> HIDE DEF v
  <2>3. DOMAIN w = {}
    BY <1>b, <2>1 DEF Remains, Kept
  <2>4. \A n \in DOMAIN v : IsNew(v[n]) /\ v[n].op \in Reading
    BY <2>2, <2>3 DEF LandsOn
  <2>5. CalmReceipt(b, i, v)
    BY <1>1, <1>4, <1>a, <2>1, <2>2, <2>4 DEF CalmReceipt, Together
  <2>6. QED
    BY <2>5
<1>5. QED
  BY <1>1, <1>2, <1>3, <1>4

\* Together is what AloneInv says of a browser.
LEMMA TogetherAlone ==
    ASSUME TypeInv', NEW b \in Browsers, Together(work'[b]),
           \A x \in Browsers : x # b => DOMAIN work'[x] = {}
    PROVE  AloneInv'
<1>1. \A x, y \in Browsers : DOMAIN work'[x] = {} \/ DOMAIN work'[y] = {} \/ x = y
  OBVIOUS
<1>2. ASSUME NEW x \in Browsers, NEW i \in DOMAIN work'[x], work'[x][i].op \notin Reading
      PROVE  work'[x][i].awaited = TRUE /\ \A j \in DOMAIN work'[x] : j = i
  <2>1. x = b
    BY <1>2
  <2>2. QED
    BY <1>2, <2>1 DEF Together
<1>3. QED
  BY <1>1, <1>2 DEF AloneInv, Idle

\* What does not touch the requests.
Still ==
    /\ UNCHANGED <<scene, account, row, cached, keys, sessions, work, held, calm>>
    /\ count["change"] # 0 => count'["change"] # 0
    /\ \A x \in Browsers : /\ browser'[x].at = browser[x].at
                           /\ browser'[x].keys = browser[x].keys
                           /\ browser'[x].sessions = browser[x].sessions
    /\ count'["expire"] # 0 \/ /\ count'["expire"] = count["expire"]
                               /\ \A x \in Browsers : browser'[x].access = browser[x].access

\* the small steps change none of what is waited for,
LEMMA SmallStill ==
    ASSUME TypeInv, ExpireStep \/ \E b \in Browsers : DialogStep(b) \/ RefreshStep(b)
    PROVE  Still
<1>w. \A x \in Browsers : browser[x] \in Pages
  BY DEF TypeInv
<1>1. CASE ExpireStep
  <2>1. UNCHANGED <<scene, account, row, cached, keys, sessions, work, held, calm>>
    BY <1>1 DEF ExpireStep
  <2>2. count'["change"] = count["change"] /\ count'["expire"] # 0
    <3>1. count \in Counts /\ count' = [count EXCEPT !["expire"] = @ + 1]
      BY <1>1 DEF TypeInv, Counts, ExpireStep
    <3>2. "change" \in Ops /\ "change" # "expire"
      BY DEF Ops
    <3>3. count'["expire"] = count["expire"] + 1 /\ count["expire"] \in Nat
      BY <3>1, CountAgain
    <3>4. QED
      BY <3>1, <3>2, <3>3, CountAgain
  <2>3. ASSUME NEW x \in Browsers
        PROVE  /\ browser'[x].at = browser[x].at /\ browser'[x].keys = browser[x].keys
               /\ browser'[x].sessions = browser[x].sessions
    <3>1. CASE browser' = browser
      BY <3>1
    <3>2. ASSUME NEW b \in Browsers, Turns(b, [browser[b] EXCEPT !.access = "old"])
          PROVE  /\ browser'[x].at = browser[x].at /\ browser'[x].keys = browser[x].keys
                 /\ browser'[x].sessions = browser[x].sessions
      BY <3>2 DEF TypeInv, Turns, Pages
    <3>3. QED
      BY <1>1, <3>1, <3>2 DEF ExpireStep
  <2>4. QED
    BY <2>1, <2>2, <2>3 DEF Still
<1>2. ASSUME NEW b \in Browsers, DialogStep(b) PROVE Still
  <2>1. PICK s : Stays(b, s) /\ Turns(b, s)
    BY <1>2 DEF DialogStep
  <2>2. UNCHANGED <<scene, account, row, cached, keys, sessions, work, held, calm, count>>
    BY <1>2 DEF DialogStep, stored
  <2>3. ASSUME NEW x \in Browsers
        PROVE  /\ browser'[x].at = browser[x].at /\ browser'[x].keys = browser[x].keys
               /\ browser'[x].sessions = browser[x].sessions
               /\ browser'[x].access = browser[x].access
    BY <2>1 DEF TypeInv, Turns, Stays
  <2>4. QED
    BY <2>2, <2>3 DEF Still
<1>3. ASSUME NEW b \in Browsers, RefreshStep(b) PROVE Still
  <2>1. Turns(b, [browser[b] EXCEPT !.known = FALSE])
    BY <1>3 DEF RefreshStep
  <2>2. UNCHANGED <<scene, account, row, cached, keys, sessions, work, held, calm, count>>
    BY <1>3 DEF RefreshStep, stored
  <2>3. ASSUME NEW x \in Browsers
        PROVE  /\ browser'[x].at = browser[x].at /\ browser'[x].keys = browser[x].keys
               /\ browser'[x].sessions = browser[x].sessions
               /\ browser'[x].access = browser[x].access
    <3>1. CASE x = b
      <4>1. browser[x] \in Pages /\ browser'[x] = [browser[b] EXCEPT !.known = FALSE]
        BY <1>w, <2>1, <3>1 DEF Turns, TypeInv
      <4>2. QED
        BY <3>1, <4>1 DEF Pages
    <3>2. CASE x # b
      BY <2>1, <3>2 DEF Turns, TypeInv
    <3>3. QED
      BY <3>1, <3>2
  <2>4. QED
    BY <2>2, <2>3 DEF Still
<1>4. QED
  BY <1>1, <1>2, <1>3

\* A step of the server while nothing else is written.
CalmHandling(b, i, q) ==
    /\ i \in DOMAIN work[b] /\ Effect(b, i, q)
    /\ \A x \in Browsers : x # b => DOMAIN work[x] = {}
    /\ \A n \in DOMAIN work[b] : n # i => work[b][n].op \in Reading /\ work[b][i].op \in Reading
    /\ \A x \in Browsers : DOMAIN work'[x] = DOMAIN work[x]
    /\ work'[b][i] = q /\ \A n \in DOMAIN work[b] : n # i => work'[b][n] = work[b][n]

\* and the server works on one request that writes, or on reads.
LEMMA CalmHandled ==
    ASSUME TypeInv, AloneInv, NEW b \in Browsers, HandleStep(b)
    PROVE  \E i, q : CalmHandling(b, i, q)
<1>1. PICK i, q :
           /\ i \in DOMAIN work[b] /\ Effect(b, i, q) /\ DOMAIN work' = Browsers
           /\ \A x \in Browsers :
                 /\ DOMAIN work'[x] = DOMAIN work[x]
                 /\ \A n \in DOMAIN work[x] :
                       \/ x = b /\ n = i /\ work'[x][n] = q
                       \/ (x # b \/ n # i) /\ work'[x][n] = work[x][n]
  BY Handled
<1>2. /\ \A x \in Browsers : x # b => DOMAIN work[x] = {}
      /\ \A n \in DOMAIN work[b] : n # i => work[b][n].op \in Reading /\ work[b][i].op \in Reading
  BY <1>1 DEF AloneInv, Idle
<1>3. CalmHandling(b, i, q)
  BY <1>1, <1>2 DEF CalmHandling
<1>4. QED
  BY <1>3

\* The steps while one thing goes on at a time.
LEMMA CalmKinds ==
    ASSUME TypeInv, OwnerInv, CalmInv, Next, calm'
    PROVE  /\ calm
           /\ \/ Still
              \/ \E b \in Browsers :
                    \/ HandleStep(b) /\ \E i, q : CalmHandling(b, i, q)
                    \/ (AskStep(b) \/ GoStep(b)) /\ \E v : CalmRequest(b, v)
                    \/ ReceiveStep(b) /\ \E i, v : CalmReceipt(b, i, v)
<1>1. CASE ExpireStep \/ \E b \in Browsers : DialogStep(b) \/ RefreshStep(b)
  <2>1. Still
    BY <1>1, SmallStill
  <2>2. QED
    BY <2>1 DEF Still
<1>2. ASSUME NEW b \in Browsers, HandleStep(b)
      PROVE  calm /\ HandleStep(b) /\ \E i, q : CalmHandling(b, i, q)
  <2>1. calm
    BY <1>2 DEF HandleStep
  <2>2. QED
    BY <1>2, <2>1, CalmHandled DEF CalmInv
<1>3. ASSUME NEW b \in Browsers, AskStep(b) \/ GoStep(b)
      PROVE  calm /\ (AskStep(b) \/ GoStep(b)) /\ \E v : CalmRequest(b, v)
  BY <1>3, CalmAsked
<1>4. ASSUME NEW b \in Browsers, ReceiveStep(b)
      PROVE  calm /\ ReceiveStep(b) /\ \E i, v : CalmReceipt(b, i, v)
  <2>1. calm
    BY <1>4 DEF ReceiveStep
  <2>2. QED
    BY <1>4, <2>1, CalmReceived DEF CalmInv
<1>5. QED
  BY <1>1, <1>2, <1>3, <1>4, Kinds

\* Requests stay together.
LEMMA AloneStep ==
    ASSUME TypeInv, TypeInv', OwnerInv, CalmInv, Next, calm'
    PROVE  AloneInv'
<1>a. AloneInv
  BY CalmKinds DEF CalmInv
<1>1. CASE Still
  BY <1>1, <1>a DEF Still, AloneInv, Idle
<1>2. ASSUME NEW b \in Browsers, NEW i, NEW q, CalmHandling(b, i, q) PROVE AloneInv'
  <2>1. q.op = work[b][i].op /\ q.awaited = work[b][i].awaited
    BY <1>2 DEF CalmHandling, Effect, Same
  <2>2. Together(work'[b])
    <3>1. CASE work[b][i].op \in Reading
      BY <1>2, <2>1, <3>1 DEF CalmHandling, Together
    <3>2. CASE work[b][i].op \notin Reading
      BY <1>2, <1>a, <2>1, <3>2 DEF CalmHandling, Together, AloneInv
    <3>3. QED
      BY <3>1, <3>2
  <2>3. \A x \in Browsers : x # b => DOMAIN work'[x] = {}
    BY <1>2 DEF CalmHandling
  <2>4. QED
    BY <2>2, <2>3, TogetherAlone
<1>3. ASSUME NEW b \in Browsers, NEW v, CalmRequest(b, v) PROVE AloneInv'
  <2>1. Together(work'[b]) /\ \A x \in Browsers : x # b => DOMAIN work'[x] = {}
    BY <1>3 DEF CalmRequest, Works
  <2>2. QED
    BY <2>1, TogetherAlone
<1>4. ASSUME NEW b \in Browsers, NEW i, NEW v, CalmReceipt(b, i, v) PROVE AloneInv'
  <2>1. Together(work'[b]) /\ \A x \in Browsers : x # b => DOMAIN work'[x] = {}
    BY <1>4 DEF CalmReceipt, Works
  <2>2. QED
    BY <2>1, TogetherAlone
<1>5. QED
  BY <1>1, <1>2, <1>3, <1>4, CalmKinds

\* What is written while one thing goes on at a time.
CalmWriting(b, i, q) ==
    LET r == work[b][i] IN
    \/ /\ row' = row /\ ~(r.op \in Writers /\ q.answer = "ok")
       /\ cached' = cached \/ cached' = row
    \/ /\ r.op \in Writers /\ q.answer = "ok" /\ q.stage = "done"
       /\ DOMAIN work[b] = {i} /\ r.value \in Nat
       /\ \/ /\ r.op = "change" /\ row' = [r.copy EXCEPT !.pw = r.value]
             /\ r.copy \in Rows /\ cached' = None
          \/ r.op = "reset" /\ row' = [row EXCEPT !.pw = r.value] /\ cached' = None
          \/ r.op = "backup" /\ row' = [row EXCEPT !.backup = r.value] /\ cached' = cached
          \/ r.op = "totp on" /\ row' = [row EXCEPT !.totp = r.value] /\ cached' = cached
          \/ r.op = "totp off" /\ row' = [row EXCEPT !.totp = 0] /\ cached' = cached
          \/ /\ r.op = "require" /\ cached' = cached
             /\ \E v \in BOOLEAN : row' = [row EXCEPT !.required = v]

\* What such a step of the server writes, by the request.
LEMMA CalmWrites ==
    ASSUME TypeInv, CopyInv, NEW b \in Browsers, NEW i, NEW q, CalmHandling(b, i, q)
    PROVE  CalmWriting(b, i, q)
<1> DEFINE r == work[b][i]
<1>1. /\ RowMoves(r, q) /\ AnswerMoves(b, r, q) /\ i \in DOMAIN work[b] /\ Fits(r)
      /\ \A n \in DOMAIN work[b] : n # i => work[b][i].op \in Reading
  BY DEF CalmHandling, Effect, TypeInv, WorkType
<1>c. r.stage \in {"filling", "read"} => r.copy = row
  BY <1>1 DEF CopyInv
<1>n. None # "ok"
  BY NoneIsNothing
<1> HIDE DEF r
<1>2. CASE ~(r.op \in Writers /\ q.answer = "ok")
  <2>1. row' = row /\ (cached' = cached \/ (r.stage = "filling" /\ cached' = r.copy))
    BY <1>1, <1>2 DEF RowMoves
  <2>2. QED
    BY <1>2, <1>c, <2>1 DEF r, CalmWriting
<1>3. CASE r.op \in Writers /\ q.answer = "ok"
  <2>1. /\ row' = Written(r) /\ r.stage = IF r.op = "change" THEN "known" ELSE "read"
        /\ r.op \in {"change", "reset"} => cached' = None
        /\ r.op \notin {"change", "reset"} => cached' = cached
    BY <1>1, <1>3 DEF RowMoves
  <2>2. q.stage = "done" /\ DOMAIN work[b] = {i}
    BY <1>n, <1>1, <1>3 DEF AnswerMoves, Writers, Reading, r
  <2>3. r.value \in Nat
    BY <1>1, <1>3 DEF Fits, Writers
  <2>4. r.op # "change" => r.copy = row
    BY <1>c, <2>1
  <2>5. r.op = "change" => r.copy \in Rows
    BY <1>1, <2>1 DEF Fits
  <2>6. CASE r.op = "change"
    BY <1>3, <2>1, <2>2, <2>3, <2>5, <2>6 DEF Written, Write, r, CalmWriting
  <2>7. CASE r.op = "reset"
    BY <1>3, <2>1, <2>2, <2>3, <2>4, <2>7 DEF Written, r, CalmWriting
  <2>8. CASE r.op = "backup"
    BY <1>3, <2>1, <2>2, <2>3, <2>4, <2>8 DEF Written, Write, r, CalmWriting
  <2>9. CASE r.op = "totp on"
    BY <1>3, <2>1, <2>2, <2>3, <2>4, <2>9 DEF Written, Write, r, CalmWriting
  <2>10. CASE r.op = "totp off"
    BY <1>3, <2>1, <2>2, <2>3, <2>4, <2>10 DEF Written, Write, r, CalmWriting
  <2>11. CASE r.op = "require"
    <3> DEFINE v == r.value = 1
    <3>1. v \in BOOLEAN /\ row' = [row EXCEPT !.required = v]
      BY <2>1, <2>4, <2>11 DEF Written, Write
    <3> HIDE DEF v
    <3>2. \E w \in BOOLEAN : row' = [row EXCEPT !.required = w]
      BY <3>1
    <3>3. QED
      BY <1>3, <2>1, <2>2, <2>3, <2>11, <3>2 DEF r, CalmWriting
  <2>12. QED
    BY <1>3, <2>6, <2>7, <2>8, <2>9, <2>10, <2>11 DEF Writers
<1>4. QED
  BY <1>2, <1>3

\* Copies stay as old as the password.
LEMMA CopyStep ==
    ASSUME TypeInv, OwnerInv, CalmInv, Next, calm'
    PROVE  CopyInv'
<1>a. AloneInv /\ CopyInv
  BY CalmKinds DEF CalmInv
<1>1. CASE Moves
  <2>1. row' = row /\ (cached' # None => cached'.pw = row'.pw)
    BY <1>1, <1>a DEF Moves, CopyInv
  <2>2. ASSUME NEW x \in Browsers, NEW n \in DOMAIN work'[x]
        PROVE  /\ work'[x][n].stage \in {"filling", "read"} => work'[x][n].copy = row'
               /\ work'[x][n].stage = "known" => work'[x][n].copy.pw = row'.pw
    BY <1>1, <1>a, <2>1 DEF Moves, GoesOn, IsNew, Kept, CopyInv
  <2>3. QED
    BY <2>1, <2>2 DEF CopyInv
<1>2. ASSUME NEW b \in Browsers, HandleStep(b) PROVE CopyInv'
  <2>1. PICK i, q : CalmHandling(b, i, q)
    BY <1>2, <1>a, CalmHandled
  <2> DEFINE r == work[b][i]
  <2>2. CASE row' = row /\ (cached' = cached \/ cached' = row)
    <3>1. cached' # None => cached'.pw = row'.pw
      BY <1>a, <2>2 DEF CopyInv
    <3>2. /\ q.stage \in {"filling", "read"} => q.copy = row
          /\ q.stage = "known" => q.copy.pw = row.pw
      <4>1. CopyMoves(r, q) /\ i \in DOMAIN work[b]
        BY <2>1 DEF CalmHandling, Effect
      <4>2. /\ r.stage \in {"filling", "read"} => r.copy = row
            /\ cached # None => cached.pw = row.pw
        BY <1>a, <4>1 DEF CopyInv
      <4>3. QED
        BY <4>1, <4>2 DEF CopyMoves
    <3>3. ASSUME NEW x \in Browsers, NEW n \in DOMAIN work'[x]
          PROVE  /\ work'[x][n].stage \in {"filling", "read"} => work'[x][n].copy = row'
                 /\ work'[x][n].stage = "known" => work'[x][n].copy.pw = row'.pw
      <4>1. x = b /\ n \in DOMAIN work[b]
        BY <2>1 DEF CalmHandling
      <4>2. CASE n = i
        BY <2>1, <2>2, <3>2, <4>1, <4>2 DEF CalmHandling
      <4>3. CASE n # i
        BY <1>a, <2>1, <2>2, <4>1, <4>3 DEF CalmHandling, CopyInv
      <4>4. QED
        BY <4>2, <4>3
    <3>4. QED
      BY <3>1, <3>3 DEF CopyInv
  <2>3. CASE /\ q.stage = "done" /\ DOMAIN work[b] = {i}
             /\ cached' = None \/ (cached' = cached /\ row'.pw = row.pw)
    <3>1. cached' # None => cached'.pw = row'.pw
      BY <1>a, <2>3 DEF CopyInv
    <3>2. \A x \in Browsers : \A n \in DOMAIN work'[x] : work'[x][n].stage = "done"
      BY <2>1, <2>3 DEF CalmHandling
    <3>3. QED
      BY <3>1, <3>2 DEF CopyInv
  <2>4. row \in Rows
    BY DEF TypeInv, StoredType
  <2>5. QED
    <3>1. ASSUME NEW v PROVE /\ [row EXCEPT !.backup = v].pw = row.pw
                             /\ [row EXCEPT !.totp = v].pw = row.pw
                             /\ [row EXCEPT !.required = v].pw = row.pw
      BY <2>4 DEF Rows
    <3>2. CalmWriting(b, i, q)
      BY <1>a, <2>1, CalmWrites
    <3> HIDE DEF r
    <3>3. QED
      BY <2>2, <2>3, <3>1, <3>2 DEF CalmWriting, r
<1>3. QED
  BY <1>1, <1>2, Either

\* A password is refused that is not the account's.
LEMMA RefusedStep ==
    ASSUME TypeInv, OwnerInv, CalmInv, Next, calm'
    PROVE  RefusedInv'
<1>a. AloneInv /\ CopyInv /\ RefusedInv
  BY CalmKinds DEF CalmInv
<1>n. None # "no"
  BY NoneIsNothing
<1>1. CASE Moves
  BY <1>1, <1>a, <1>n DEF Moves, GoesOn, IsNew, Kept, RefusedInv
<1>2. ASSUME NEW b \in Browsers, HandleStep(b) PROVE RefusedInv'
  <2>1. PICK i, q : CalmHandling(b, i, q)
    BY <1>2, <1>a, CalmHandled
  <2> DEFINE r == work[b][i]
  <2>2. /\ AccountMoves(r, q) /\ AnswerMoves(b, r, q) /\ Same(q, r) /\ i \in DOMAIN work[b]
        /\ \A n \in DOMAIN work[b] : n # i => r.op \in Reading
    BY <2>1 DEF CalmHandling, Effect
  <2>3. CalmWriting(b, i, q)
    BY <1>a, <2>1, CalmWrites
  <2>4. r.op \in Reading => row' = row /\ account' = account
    BY <2>2, <2>3 DEF CalmWriting, Writers, Reading, AccountMoves
  <2>5. q.answer = "no" => row' = row
    BY <2>3 DEF CalmWriting
  <2>6. q.answer = "no" =>
            /\ q.op \in Secured \cup {"change"} => q.pw # row'.pw
            /\ q.op = "login" => q.pw # row'.pw \/ account' # "verified"
    <3>1. /\ q.answer = "no" => /\ r.op \in Secured \cup {"change"} =>
                                      r.stage \in {"known", "read"} /\ r.pw # r.copy.pw
                                /\ r.op = "login" => r.pw # row.pw \/ account # "verified"
          /\ r.op = "login" => account' = account
          /\ q.op = r.op /\ q.pw = r.pw
      BY <2>2 DEF AnswerMoves, AccountMoves, Same
    <3>2. r.stage \in {"known", "read"} => r.copy.pw = row.pw
      BY <1>a, <2>2 DEF CopyInv
    <3>3. QED
      BY <2>5, <3>1, <3>2
  <2>7. ASSUME NEW x \in Browsers, NEW n \in DOMAIN work'[x]
        PROVE  LET o == work'[x][n] IN
               o.answer = "no" =>
                  /\ o.op \in Secured \cup {"change"} => o.pw # row'.pw
                  /\ o.op = "login" => o.pw # row'.pw \/ account' # "verified"
    <3>1. x = b /\ n \in DOMAIN work[b]
      BY <2>1 DEF CalmHandling
    <3>2. CASE n = i
      BY <2>1, <2>6, <3>1, <3>2 DEF CalmHandling
    <3>3. CASE n # i
      <4>1. row' = row /\ account' = account /\ work'[x][n] = work[b][n]
        BY <2>1, <2>2, <2>4, <3>1, <3>3 DEF CalmHandling
      <4>2. QED
        BY <1>a, <3>1, <4>1 DEF RefusedInv
    <3>4. QED
      BY <3>2, <3>3
  <2>8. QED
    BY <2>7 DEF RefusedInv
<1>3. QED
  BY <1>1, <1>2, Either

\* What an answer tells agrees with what was written for it.
LEMMA ToldAgrees ==
    ASSUME TypeInv, OwnerInv, CopyInv, Agree(held), NEW b \in Browsers, NEW i, NEW q,
           CalmHandling(b, i, q), held' = held, count' = count
    PROVE  /\ row' = row => Agree(held)'
           /\ q.op \notin Reading => Agree(Hold(q))'
<1> DEFINE r == work[b][i]
<1>1. Fits(q) /\ Same(q, r) /\ i \in DOMAIN work[b]
  BY DEF CalmHandling, Effect
<1>2. CalmWriting(b, i, q)
  BY CalmWrites
<1>3. row \in Rows /\ held \in [pw : Nat, backup : Nat, totp : Nat]
  BY DEF TypeInv, StoredType
<1>4. /\ held.pw # 0 => held.pw = row.pw
      /\ count["change"] = 0 => held.backup = row.backup /\ held.totp = row.totp
  BY DEF Agree
<1>5. r.op = "change" => count["change"] # 0
  BY <1>1 DEF OwnerInv
<1>6. q.op = r.op /\ q.value = r.value
  BY <1>1 DEF Same
<1>7. CASE row' = row /\ ~(r.op \in Writers /\ q.answer = "ok")
  <2>1. Hold(q) = held
    BY <1>6, <1>7 DEF Hold, Writers
  <2>2. Agree(held)'
    BY <1>4, <1>7 DEF Agree
  <2>3. Hold(q)' = held'
    BY <2>1 DEF Hold
  <2>4. QED
    BY <2>2, <2>3 DEF Agree
<1> DEFINE h == Hold(q)
<1>8. CASE r.op \in Writers /\ q.answer = "ok"
  <2> HIDE DEF r
  <2>1. /\ h'.pw # 0 => h'.pw = row'.pw
        /\ count["change"] = 0 => h'.backup = row'.backup /\ h'.totp = row'.totp
    <3>1. CASE r.op = "change" /\ row' = [r.copy EXCEPT !.pw = r.value] /\ r.copy \in Rows
      <4>1. h' = [held EXCEPT !.pw = r.value]
        BY <1>6, <1>8, <3>1 DEF Hold
      <4>2. QED
        BY <1>3, <1>5, <3>1, <4>1 DEF Rows
    <3>2. CASE r.op = "reset" /\ row' = [row EXCEPT !.pw = r.value]
      <4>1. h' = [held EXCEPT !.pw = r.value]
        BY <1>6, <1>8, <3>2 DEF Hold
      <4>2. QED
        BY <1>3, <1>4, <3>2, <4>1 DEF Rows
    <3>3. CASE r.op = "backup" /\ row' = [row EXCEPT !.backup = r.value]
      <4>1. h' = [held EXCEPT !.backup = r.value]
        BY <1>6, <1>8, <3>3 DEF Hold
      <4>2. QED
        BY <1>3, <1>4, <3>3, <4>1 DEF Rows
    <3>4. CASE r.op = "totp on" /\ row' = [row EXCEPT !.totp = r.value]
      <4>1. h' = [held EXCEPT !.totp = r.value]
        BY <1>6, <1>8, <3>4 DEF Hold
      <4>2. QED
        BY <1>3, <1>4, <3>4, <4>1 DEF Rows
    <3>5. CASE r.op = "totp off" /\ row' = [row EXCEPT !.totp = 0]
      <4>1. h' = [held EXCEPT !.totp = 0]
        BY <1>6, <1>8, <3>5 DEF Hold
      <4>2. QED
        BY <1>3, <1>4, <3>5, <4>1 DEF Rows
    <3>6. ASSUME r.op = "require", NEW w \in BOOLEAN, row' = [row EXCEPT !.required = w]
          PROVE  /\ h'.pw # 0 => h'.pw = row'.pw
                 /\ count["change"] = 0 => h'.backup = row'.backup /\ h'.totp = row'.totp
      <4>1. h' = held
        BY <1>6, <1>8, <3>6 DEF Hold
      <4>2. QED
        BY <1>3, <1>4, <3>6, <4>1 DEF Rows
    <3>7. QED
      BY <1>2, <1>8, <3>1, <3>2, <3>3, <3>4, <3>5, <3>6 DEF CalmWriting, r
  <2>2. Agree(Hold(q))'
    BY <2>1 DEF Agree
  <2>3. row' = row => Agree(held)'
    BY <1>4 DEF Agree
  <2>4. QED
    BY <2>2, <2>3
<1>9. QED
  BY <1>2, <1>7, <1>8 DEF CalmWriting

\* What the person was told, or is about to be told, is what is kept.
LEMMA HeldStep ==
    ASSUME TypeInv, OwnerInv, CalmInv, Next, calm'
    PROVE  HeldInv'
<1>a. AloneInv /\ CopyInv /\ HeldInv
  BY CalmKinds DEF CalmInv
<1>r. \A op \in Reading : op \notin {"change", "reset", "backup", "totp on", "totp off"}
  BY DEF Reading
<1>1. CASE Still
  <2>1. /\ row' = row /\ held' = held /\ work' = work
        /\ count["change"] # 0 => count'["change"] # 0
    BY <1>1 DEF Still
  <2>2. ASSUME NEW x \in Browsers, NEW n \in DOMAIN work[x]
        PROVE  Hold(work[x][n])' = Hold(work[x][n])
    BY <2>1 DEF Hold
  <2>3. QED
    BY <1>a, <2>1, <2>2 DEF HeldInv, Answered, Agree
<1>2. ASSUME NEW b \in Browsers, HandleStep(b) PROVE HeldInv'
  <2>1. PICK i, q : CalmHandling(b, i, q)
    BY <1>2, <1>a, CalmHandled
  <2> DEFINE r == work[b][i]
  <2>2. /\ i \in DOMAIN work[b] /\ Same(q, r) /\ r.stage # "done"
        /\ \A n \in DOMAIN work[b] : n # i => work[b][n].op \in Reading /\ r.op \in Reading
        /\ \A x \in Browsers : x # b => DOMAIN work[x] = {}
        /\ \A x \in Browsers : DOMAIN work'[x] = DOMAIN work[x]
        /\ work'[b][i] = q /\ \A n \in DOMAIN work[b] : n # i => work'[b][n] = work[b][n]
    BY <2>1 DEF CalmHandling, Effect
  <2>3. Agree(held)
    BY <1>a, <2>2 DEF HeldInv, Answered
  <2>4. held' = held /\ count' = count
    BY <1>2 DEF HandleStep
  <2>5. /\ row' = row => Agree(held)'
        /\ q.op \notin Reading => Agree(Hold(q))'
    BY <1>a, <2>1, <2>3, <2>4, ToldAgrees
  <2>6. CalmWriting(b, i, q)
    BY <1>a, <2>1, CalmWrites
  <2>7. q.op = r.op
    BY <2>2 DEF Same
  <2>8. ~Answered(q) => row' = row
    BY <2>6, <2>7 DEF CalmWriting, Answered, Writers, Reading
  <2>9. ASSUME NEW x \in Browsers, NEW n \in DOMAIN work'[x], Answered(work'[x][n])
        PROVE  x = b /\ n = i
    BY <2>2, <2>7, <2>9 DEF Answered
  <2>10. (\A x \in Browsers : \A n \in DOMAIN work'[x] : ~Answered(work'[x][n])) => Agree(held)'
    BY <2>2, <2>5, <2>8
  <2>11. Answered(q) => Agree(Hold(q))'
    BY <2>5 DEF Answered
  <2>12. Hold(work[b][i])' = Hold(q)'
    BY <2>2 DEF Hold
  <2>13. QED
    BY <2>2, <2>9, <2>10, <2>11, <2>12 DEF HeldInv, Answered, Agree
<1>3. ASSUME NEW b \in Browsers, NEW v, CalmRequest(b, v), AskStep(b) \/ GoStep(b) PROVE HeldInv'
  <2>1. Agree(held)
    BY <1>3, <1>a DEF CalmRequest, HeldInv
  <2>2. row' = row /\ held' = held /\ (count["change"] # 0 => count'["change"] # 0)
    BY <1>3, CalmAsked
  <2>3. Agree(held)'
    BY <2>1, <2>2 DEF Agree
  <2>4. \A x \in Browsers : \A n \in DOMAIN work'[x] : work'[x][n].stage = "sent"
    BY <1>3 DEF CalmRequest, Works, IsNew
  <2>5. QED
    BY <2>3, <2>4 DEF HeldInv, Answered
<1>4. ASSUME NEW b \in Browsers, NEW i, NEW v, CalmReceipt(b, i, v), ReceiveStep(b)
      PROVE  HeldInv'
  <2> DEFINE r == work[b][i]
  <2>1. /\ i \in DOMAIN work[b] /\ r.stage = "done" /\ held' = Hold(r)
        /\ \A x \in Browsers : x # b => DOMAIN work[x] = {}
        /\ \A n \in DOMAIN work[b] : n # i => work[b][n].op \in Reading /\ r.op \in Reading
    BY <1>4, <1>a DEF CalmReceipt, AloneInv
  <2>2. Agree(Hold(r))
    <3>1. CASE r.op \in Reading
      <4>1. \A x \in Browsers : \A n \in DOMAIN work[x] : ~Answered(work[x][n])
        BY <2>1, <3>1 DEF Answered
      <4>2. Agree(held)
        BY <1>a, <4>1 DEF HeldInv
      <4>3. Hold(r) = held
        BY <1>r, <3>1 DEF Hold
      <4>4. QED
        BY <4>2, <4>3
    <3>2. CASE r.op \notin Reading
      BY <1>a, <2>1, <3>2 DEF HeldInv, Answered
    <3>3. QED
      BY <3>1, <3>2
  <2>3. row' = row /\ count' = count
    <3>1. CASE ShowStep(b, i)
      BY <1>4, <3>1 DEF ReceiveStep, ShowStep, stored
    <3>2. CASE LeaveStep(b, i)
      <4>1. PICK s, u, page, w, p : Lands(b, page, u, w, p)
        BY <3>2 DEF LeaveStep
      <4>2. QED
        BY <1>4, <4>1 DEF ReceiveStep, Lands
    <3>3. QED
      BY <1>4, <3>1, <3>2 DEF CalmReceipt
  <2>4. Agree(held)'
    BY <2>1, <2>2, <2>3 DEF Agree
  <2>5. \A x \in Browsers : \A n \in DOMAIN work'[x] :
           work'[x][n].stage = "sent" \/ work'[x][n].op \in Reading
    BY <1>4 DEF CalmReceipt, Works, IsNew, GoesThere
  <2>6. QED
    BY <2>4, <2>5 DEF HeldInv, Answered
<1>5. QED
  BY <1>1, <1>2, <1>3, <1>4, CalmKinds

\* What SessionInv says of a browser.
SessionAt(b) ==
    /\ \A i \in DOMAIN work[b] :
          LET r == work[b][i] IN
          /\ r.op = "login" => At(b, "login")
          /\ Ends(r) => b \notin sessions
    /\ b \in sessions /\ count["expire"] = 0 =>
          \/ browser[b].access = "valid"
          \/ \E i \in DOMAIN work[b] : work[b][i].op = "login" /\ work[b][i].answer = "ok"

\* A browser that does nothing keeps its session, or loses it.
LEMMA SessionKept ==
    ASSUME SessionInv, NEW x \in Browsers, work'[x] = work[x], x \in sessions' => x \in sessions,
           browser'[x].at = browser[x].at,
           count'["expire"] # 0 \/ /\ count'["expire"] = count["expire"]
                                   /\ browser'[x].access = browser[x].access
    PROVE  SessionAt(x)'
BY DEF SessionInv, SessionAt, At, Ends

\* What the browser has when an answer has come.
LEMMA CalmBaked ==
    ASSUME TypeInv, NEW b \in Browsers, NEW i, NEW v, CalmReceipt(b, i, v), ReceiveStep(b)
    PROVE  /\ \E s : /\ Bakes(work[b][i], browser[b], s)
                     /\ browser'[b].access \in {s.access, "valid"}
           /\ \A x \in Browsers : x # b => browser'[x] = browser[x] /\ work'[x] = work[x]
           /\ UNCHANGED <<scene, account, row, keys, sessions, count>>
           /\ work'[b] = v
<1>1. /\ work'[b] = v /\ \A x \in Browsers : x # b => work'[x] = work[x]
      /\ scene' = scene /\ count' = count
  BY DEF CalmReceipt, Works, ReceiveStep
<1>2. CASE ShowStep(b, i)
  <2>1. PICK s, p : Bakes(work[b][i], browser[b], s) /\ Shows(work[b][i], s, p) /\ Turns(b, p)
    BY <1>2 DEF ShowStep
  <2>2. /\ browser'[b] = p /\ \A x \in Browsers : x # b => browser'[x] = browser[x]
    BY <2>1, Turned DEF Shows, TypeInv
  <2>3. UNCHANGED <<account, row, keys, sessions>>
    BY <1>2 DEF ShowStep, stored
  <2>4. p.access = s.access
    BY <2>1 DEF Shows
  <2>5. QED
    BY <1>1, <2>1, <2>2, <2>3, <2>4
<1>3. CASE LeaveStep(b, i)
  <2>1. PICK s, t, page, w, p : /\ Bakes(work[b][i], browser[b], s) /\ t.access = s.access
                                /\ Lands(b, page, t, w, p)
    BY <1>3 DEF LeaveStep
  <2>2. p \in Pages /\ Turns(b, p) /\ p.access \in {s.access, "valid"}
        /\ UNCHANGED <<account, row, keys, sessions>>
    BY <2>1 DEF Lands
  <2>3. /\ browser'[b] = p /\ \A x \in Browsers : x # b => browser'[x] = browser[x]
    BY <2>2, Turned DEF TypeInv
  <2>4. QED
    BY <1>1, <2>1, <2>2, <2>3
<1>4. QED
  BY <1>2, <1>3 DEF CalmReceipt

\* Where a browser is after a person asked or opened a page.
LEMMA CalmPage ==
    ASSUME TypeInv, NEW b \in Browsers, AskStep(b) \/ GoStep(b), NEW v, CalmRequest(b, v)
    PROVE  /\ browser'[b].access \in {browser[b].access, "valid"}
           /\ \A n \in DOMAIN v : v[n].op = "login" => browser'[b].at = "login"
           /\ \A x \in Browsers : x # b => browser'[x] = browser[x] /\ work'[x] = work[x]
           /\ work'[b] = v
           /\ browser'[b].keys = browser[b].keys /\ browser'[b].sessions = browser[b].sessions
           /\ browser'[b].at = "settings" =>
                 \/ browser[b].at = "settings"
                 \/ /\ \E n \in DOMAIN v : v[n].op = "keys"
                    /\ \E n \in DOMAIN v : v[n].op = "sessions"
<1>1. /\ work'[b] = v /\ DOMAIN work[b] = {}
      /\ \A x \in Browsers : x # b => work'[x] = work[x]
  BY DEF CalmRequest, Works
<1>2. CASE AskStep(b)
  <2>1. PICK s, op, pw, value :
           Stays(b, s) /\ Turns(b, s) /\ MayAsk(b, op, pw, value) /\ Ask(b, op, pw, value)
    BY <1>2 DEF AskStep
  <2>2. PICK w : Works(b, w) /\ \A n \in DOMAIN w : n \notin DOMAIN work[b] => w[n].op = op
    BY <2>1, Sends
  <2>3. \A n \in DOMAIN v : v[n].op = op
    BY <1>1, <2>2 DEF Works
  <2>4. browser'[b] = s /\ \A x \in Browsers : x # b => browser'[x] = browser[x]
    BY <2>1, Turned DEF Stays, TypeInv
  <2>5. op = "login" => browser[b].at = "login"
    BY <2>1 DEF MayAsk, At
  <2>6. QED
    BY <1>1, <2>1, <2>3, <2>4, <2>5 DEF Stays
<1>3. CASE GoStep(b)
  <2>1. PICK page, s, p : /\ Lands(b, page, s, NoRequests, p) /\ s.access = browser[b].access
                          /\ s.keys = browser[b].keys /\ s.sessions = browser[b].sessions
    BY <1>3 DEF GoStep
  <2> DEFINE w == Reads(p.at, NoRequests)
  <2>2. Works(b, w) /\ LandsOn(p, NoRequests, w)
    BY <2>1, NoneWaits, Landed DEF TypeInv
  <2>3. w = v
    BY <1>1, <2>2 DEF Works
  <2> HIDE DEF w
  <2>4. p \in Pages /\ Turns(b, p)
    BY <2>1 DEF Lands
  <2>5. browser'[b] = p /\ \A x \in Browsers : x # b => browser'[x] = browser[x]
    BY <2>4, Turned DEF TypeInv
  <2>6. \A n \in DOMAIN v : v[n].op # "login"
    BY <2>2, <2>3, NoneWaits DEF LandsOn, Reading
  <2>7. p.access \in {browser[b].access, "valid"} /\ p.keys = browser[b].keys
        /\ p.sessions = browser[b].sessions
    BY <2>1 DEF Lands
  <2>8. p.at = "settings" => /\ \E n \in DOMAIN v : v[n].op = "keys"
                             /\ \E n \in DOMAIN v : v[n].op = "sessions"
    BY <2>2, <2>3 DEF LandsOn
  <2>9. QED
    BY <1>1, <2>5, <2>6, <2>7, <2>8
<1>4. QED
  BY <1>2, <1>3

\* Who has a session has a token for it.
LEMMA SessionStep ==
    ASSUME TypeInv, OwnerInv, CalmInv, Next, calm'
    PROVE  SessionInv'
<1>a. AloneInv /\ SessionInv
  BY CalmKinds DEF CalmInv
<1>n. None # "ok"
  BY NoneIsNothing
<1>s. SUFFICES \A x \in Browsers : SessionAt(x)'
  BY DEF SessionInv, SessionAt
<1>1. CASE Still
  BY <1>1, <1>a, SessionKept DEF Still
<1>2. ASSUME NEW b \in Browsers, HandleStep(b) PROVE \A x \in Browsers : SessionAt(x)'
  <2>1. PICK i, q : CalmHandling(b, i, q)
    BY <1>2, <1>a, CalmHandled
  <2> DEFINE r == work[b][i]
  <2>2. /\ i \in DOMAIN work[b] /\ Same(q, r) /\ r.stage # "done" /\ Fits(r)
        /\ SessionsMove(b, r, q)
        /\ \A n \in DOMAIN work[b] : n # i => work[b][n].op \in Reading /\ r.op \in Reading
        /\ \A x \in Browsers : x # b => DOMAIN work[x] = {}
        /\ \A x \in Browsers : DOMAIN work'[x] = DOMAIN work[x]
        /\ work'[b][i] = q /\ \A n \in DOMAIN work[b] : n # i => work'[b][n] = work[b][n]
    BY <2>1 DEF CalmHandling, Effect, TypeInv, WorkType
  <2>3. browser' = browser /\ count' = count
    BY <1>2 DEF HandleStep
  <2>4. r.answer = None /\ q.op = r.op
    BY <2>2 DEF Fits, Same
  <2>5. /\ \A n \in DOMAIN work[b] : /\ work[b][n].op = "login" => At(b, "login")
                                     /\ Ends(work[b][n]) => b \notin sessions
        /\ b \in sessions /\ count["expire"] = 0 =>
              \/ browser[b].access = "valid"
              \/ \E n \in DOMAIN work[b] : work[b][n].op = "login" /\ work[b][n].answer = "ok"
    BY <1>a DEF SessionInv
  <2>6. /\ \/ sessions' \in SUBSET sessions
           \/ sessions' = sessions \cup {b} /\ r.op = "login" /\ q.answer = "ok"
        /\ Ends(q) => b \notin sessions'
    BY <2>2, <2>4 DEF SessionsMove
  <2>7. \A x \in Browsers : x # b => (x \in sessions' => x \in sessions)
    BY <2>6
  <2>8. ASSUME NEW x \in Browsers, x # b PROVE SessionAt(x)'
    <3>1. DOMAIN work'[x] = {} /\ DOMAIN work[x] = {}
      BY <2>2, <2>8
    <3>2. x \in sessions' /\ count'["expire"] = 0 => browser'[x].access = "valid"
      BY <1>a, <2>3, <2>7, <2>8, <3>1 DEF SessionInv
    <3>3. QED
      BY <3>1, <3>2 DEF SessionAt
  <2>9. SessionAt(b)'
    <3>1. ASSUME NEW n \in DOMAIN work'[b]
          PROVE  /\ work'[b][n].op = "login" => browser'[b].at = "login"
                 /\ Ends(work'[b][n]) => b \notin sessions'
      <4>1. CASE n = i
        BY <2>2, <2>3, <2>4, <2>5, <2>6, <4>1 DEF At
      <4>2. CASE n # i
        <5>1. work'[b][n] = work[b][n] /\ work[b][n].op \in Reading /\ n \in DOMAIN work[b]
          BY <2>2, <4>2
        <5>2. ~Ends(work[b][n]) /\ work[b][n].op # "login"
          BY <5>1 DEF Ends, Reading
        <5>3. QED
          BY <5>1, <5>2
      <4>3. QED
        BY <4>1, <4>2
    <3>2. b \in sessions' /\ count'["expire"] = 0 =>
              \/ browser'[b].access = "valid"
              \/ \E n \in DOMAIN work'[b] : work'[b][n].op = "login" /\ work'[b][n].answer = "ok"
      <4>1. CASE r.op = "login" /\ q.answer = "ok"
        BY <2>2, <2>4, <4>1
      <4>2. CASE ~(r.op = "login" /\ q.answer = "ok")
        <5>1. b \in sessions' => b \in sessions
          BY <2>6, <4>2
        <5>2. \A n \in DOMAIN work[b] : work[b][n].answer = "ok" => work'[b][n] = work[b][n]
          BY <1>n, <2>2, <2>4
        <5>3. QED
          BY <2>2, <2>3, <2>5, <5>1, <5>2
      <4>3. QED
        BY <4>1, <4>2
    <3>3. QED
      BY <3>1, <3>2 DEF SessionAt, At, Ends
  <2>10. QED
    BY <2>8, <2>9
<1>3. ASSUME NEW b \in Browsers, NEW v, CalmRequest(b, v), AskStep(b) \/ GoStep(b)
      PROVE  \A x \in Browsers : SessionAt(x)'
  <2>1. /\ browser'[b].access \in {browser[b].access, "valid"}
        /\ \A n \in DOMAIN v : v[n].op = "login" => browser'[b].at = "login"
        /\ \A x \in Browsers : x # b => browser'[x] = browser[x] /\ work'[x] = work[x]
        /\ work'[b] = v
    BY <1>3, CalmPage
  <2>2. sessions' = sessions /\ count'["expire"] = count["expire"]
    BY <1>3, CalmAsked
  <2>3. \A x \in Browsers : x # b => SessionAt(x)'
    BY <1>a, <2>1, <2>2, SessionKept
  <2>4. b \in sessions /\ count["expire"] = 0 => browser[b].access = "valid"
    BY <1>3, <1>a DEF CalmRequest, SessionInv
  <2>5. \A n \in DOMAIN v : v[n].answer = None /\ v[n].stage = "sent"
    BY <1>3 DEF CalmRequest, IsNew
  <2>6. \A n \in DOMAIN v : ~Ends(v[n])
    BY <1>n, <2>5 DEF Ends
  <2>7. SessionAt(b)'
    BY <2>1, <2>2, <2>4, <2>6 DEF SessionAt, At, Ends
  <2>8. QED
    BY <2>3, <2>7
<1>4. ASSUME NEW b \in Browsers, NEW i, NEW v, CalmReceipt(b, i, v), ReceiveStep(b)
      PROVE  \A x \in Browsers : SessionAt(x)'
  <2> DEFINE r == work[b][i]
  <2>1. PICK s : Bakes(r, browser[b], s) /\ browser'[b].access \in {s.access, "valid"}
    BY <1>4, CalmBaked
  <2>2. /\ \A x \in Browsers : x # b => browser'[x] = browser[x] /\ work'[x] = work[x]
        /\ sessions' = sessions /\ count' = count /\ work'[b] = v
    BY <1>4, CalmBaked
  <2>3. \A x \in Browsers : x # b => SessionAt(x)'
    BY <1>a, <2>2, SessionKept
  <2>4. /\ i \in DOMAIN work[b] /\ Fits(r) /\ r.stage = "done"
        /\ \A n \in DOMAIN work[b] : work[b][n].op = "login" => n = i
    BY <1>4, <1>a DEF CalmReceipt, AloneInv, Reading, TypeInv, WorkType
  <2>5. \A n \in DOMAIN v : v[n].op # "login" /\ ~Ends(v[n])
    BY <1>4 DEF CalmReceipt, GoesThere, IsNew, Reading, Ends
  <2>6. b \in sessions /\ count["expire"] = 0 => browser'[b].access = "valid"
    <3>1. ASSUME b \in sessions, count["expire"] = 0 PROVE s.access = "valid"
      <4>1. ~Ends(r)
        BY <1>a, <2>4, <3>1 DEF SessionInv
      <4>2. \/ browser[b].access = "valid"
            \/ r.op = "login" /\ r.answer = "ok"
        BY <1>a, <2>4, <3>1 DEF SessionInv
      <4>3. ~((r.op \in {"change", "reset"} /\ r.answer = "ok") \/ r.op = "logout")
        BY <2>4, <4>1 DEF Ends
      <4>4. QED
        BY <2>1, <4>2, <4>3 DEF Bakes
    <3>2. QED
      BY <2>1, <3>1
  <2>7. SessionAt(b)'
    BY <2>2, <2>5, <2>6 DEF SessionAt, At, Ends
  <2>8. QED
    BY <2>3, <2>7
<1>5. QED
  BY <1>1, <1>2, <1>3, <1>4, CalmKinds

\* What ListInv says of a browser, and of its requests.
ListedWell(r, alone, ks, ss) ==
    r.op \in Listing =>
        /\ r.stage = "done" => r.answer = "ok"
        /\ r.answer = "ok" /\ r.op = "keys" /\ alone => r.copy = ks
        /\ r.answer = "ok" /\ r.op = "sessions" /\ alone => r.copy = ss

ListAt(b) ==
    count["expire"] = 0 /\ At(b, "settings") /\ b \in sessions =>
        /\ \A i \in DOMAIN work[b] : ListedWell(work[b][i], Alone(b), keys, sessions)
        /\ Alone(b) =>
             /\ \/ browser[b].keys = keys
                \/ \E i \in DOMAIN work[b] : work[b][i].op \in {"keys", "add key", "delete key"}
             /\ \/ browser[b].sessions = sessions
                \/ \E i \in DOMAIN work[b] : work[b][i].op \in {"sessions", "end session"}

\* The invariant on the lists, browser by browser.
LEMMA ListEach ==
    /\ ListInv => \A b \in Browsers : ListAt(b)
    /\ (\A b \in Browsers : ListAt(b)') => ListInv'
BY DEF ListInv, ListAt, ListedWell

\* A browser that does nothing shows what it showed.
LEMMA ListKept ==
    ASSUME ListInv, NEW x \in Browsers, work'[x] = work[x],
           UNCHANGED <<scene, keys, sessions>>,
           browser'[x].at = browser[x].at, browser'[x].keys = browser[x].keys,
           browser'[x].sessions = browser[x].sessions,
           count'["expire"] # 0 \/ count'["expire"] = count["expire"]
    PROVE  ListAt(x)'
<1>1. ListAt(x) /\ Alone(x)' = Alone(x)
  BY ListEach DEF Alone
<1>2. SUFFICES ASSUME count["expire"] = 0 PROVE ListAt(x)'
  BY DEF ListAt
<1>3. QED
  BY <1>1, <1>2 DEF ListAt, At

\* What a request about the lists comes back with.
LEMMA ListHandled ==
    ASSUME TypeInv, OwnerInv, SessionInv, ListInv, NEW b \in Browsers, NEW i, NEW q,
           CalmHandling(b, i, q), HandleStep(b)
    PROVE  ListAt(b)'
<1> DEFINE r == work[b][i]
<1>1. /\ i \in DOMAIN work[b] /\ Same(q, r) /\ r.stage # "done"
      /\ AccountMoves(r, q) /\ SessionsMove(b, r, q) /\ CopyMoves(r, q) /\ AnswerMoves(b, r, q)
      /\ \A n \in DOMAIN work[b] : n # i => work[b][n].op \in Reading /\ r.op \in Reading
      /\ DOMAIN work'[b] = DOMAIN work[b]
      /\ work'[b][i] = q /\ \A n \in DOMAIN work[b] : n # i => work'[b][n] = work[b][n]
  BY DEF CalmHandling, Effect
<1>2. browser' = browser /\ count' = count /\ scene' = scene
  BY DEF HandleStep
<1>3. q.op = r.op
  BY <1>1 DEF Same
<1>4. SUFFICES ASSUME count["expire"] = 0, browser[b].at = "settings", b \in sessions'
               PROVE  /\ \A n \in DOMAIN work'[b] : ListedWell(work'[b][n], Alone(b), keys', sessions')
                      /\ Alone(b) =>
                           /\ \/ browser[b].keys = keys'
                              \/ \E n \in DOMAIN work'[b] :
                                    work'[b][n].op \in {"keys", "add key", "delete key"}
                           /\ \/ browser[b].sessions = sessions'
                              \/ \E n \in DOMAIN work'[b] :
                                    work'[b][n].op \in {"sessions", "end session"}
  BY <1>2 DEF ListAt, ListedWell, At, Alone
<1>5. r.op # "login"
  BY <1>1, <1>4 DEF SessionInv, At
<1>6. b \in sessions
  BY <1>1, <1>4, <1>5 DEF SessionsMove
<1>7. ListAt(b)
  BY ListEach
<1>8. Authentic(b, browser[b].access)
  <2>1. account = "verified"
    BY <1>6 DEF OwnerInv
  <2>2. browser[b].access = "valid"
    BY <1>4, <1>6 DEF SessionInv, At
  <2>3. QED
    BY <2>1, <2>2 DEF Authentic
<1>9. r.op \in Reading => keys' = keys /\ sessions' = sessions
  BY <1>1 DEF SessionsMove, CopyMoves, Reading
<1>10. ListedWell(q, Alone(b), keys', sessions')
  <2>1. q.op \in Listing => (q.stage = "done" => q.answer = "ok")
    BY <1>1, <1>3, <1>8 DEF AnswerMoves
  <2>2. q.answer = "ok" => q.stage = "done"
    BY <1>1, NoneIsNothing DEF AnswerMoves
  <2>3. q.answer = "ok" /\ q.op = "keys" => q.copy = keys'
    BY <1>1, <1>3, <1>9, <2>2 DEF CopyMoves, Reading
  <2>4. q.answer = "ok" /\ q.op = "sessions" => q.copy = sessions'
    BY <1>1, <1>3, <1>9, <2>2 DEF CopyMoves, Reading
  <2>5. QED
    BY <2>1, <2>3, <2>4 DEF ListedWell
<1>11. ASSUME NEW n \in DOMAIN work'[b] PROVE ListedWell(work'[b][n], Alone(b), keys', sessions')
  <2>1. CASE n = i
    BY <1>1, <1>10, <2>1 DEF ListedWell, Alone
  <2>2. CASE n # i
    <3>1. work'[b][n] = work[b][n] /\ keys' = keys /\ sessions' = sessions /\ n \in DOMAIN work[b]
      BY <1>1, <1>9, <2>2
    <3>2. ListedWell(work[b][n], Alone(b), keys, sessions)
      BY <1>4, <1>6, <1>7, <3>1 DEF ListAt, At
    <3>3. QED
      BY <1>2, <3>1, <3>2 DEF ListedWell, Alone
  <2>3. QED
    BY <2>1, <2>2
<1>o. \A n \in DOMAIN work[b] : n \in DOMAIN work'[b] /\ work'[b][n].op = work[b][n].op
  BY <1>1, <1>3
<1>12. ASSUME Alone(b)
       PROVE  \/ browser[b].keys = keys'
              \/ \E n \in DOMAIN work'[b] : work'[b][n].op \in {"keys", "add key", "delete key"}
  <2>1. CASE keys' = keys
    BY <1>4, <1>6, <1>7, <1>12, <1>o, <2>1 DEF ListAt, At
  <2>2. CASE keys' # keys
    BY <1>1, <1>o, <2>2 DEF CopyMoves
  <2>3. QED
    BY <2>1, <2>2
<1>13. ASSUME Alone(b)
       PROVE  \/ browser[b].sessions = sessions'
              \/ \E n \in DOMAIN work'[b] : work'[b][n].op \in {"sessions", "end session"}
  <2>1. CASE sessions' = sessions
    BY <1>4, <1>6, <1>7, <1>13, <1>o, <2>1 DEF ListAt, At
  <2>2. CASE sessions' # sessions
    BY <1>1, <1>4, <1>5, <1>o, <2>2 DEF SessionsMove
  <2>3. QED
    BY <2>1, <2>2
<1>14. QED
  BY <1>11, <1>12, <1>13

\* What the page shows when an answer about the lists has come.
LEMMA ListReceived ==
    ASSUME TypeInv, OwnerInv, AloneInv, ListInv, NEW b \in Browsers, NEW i, NEW v,
           CalmReceipt(b, i, v), ReceiveStep(b)
    PROVE  ListAt(b)'
<1> DEFINE r == work[b][i]
<1>1. /\ i \in DOMAIN work[b] /\ r.stage = "done" /\ work'[b] = v
      /\ \A n \in DOMAIN v : \/ ShowStep(b, i) /\ GoesThere(b, i, v[n], n)
                             \/ IsNew(v[n]) /\ v[n].op \in Reading \cup {"enrol"}
  BY DEF CalmReceipt, Works
<1>2. UNCHANGED <<scene, keys, sessions, count>>
  BY CalmBaked
<1>n. None # "ok"
  BY NoneIsNothing
<1>3. ASSUME NEW n \in DOMAIN v, IsNew(v[n]) PROVE ListedWell(v[n], Alone(b), keys, sessions)
  BY <1>n, <1>3 DEF ListedWell, IsNew
<1>4. CASE ShowStep(b, i)
  <2>1. PICK s, p, w :
           /\ Bakes(r, browser[b], s) /\ Shows(r, s, p) /\ Turns(b, p)
           /\ Follow(b, r, Without(work[b], i), w) /\ work' = [work EXCEPT ![b] = w]
    BY <1>4 DEF ShowStep
  <2>2. w = v
    BY <1>1, <2>1 DEF TypeInv, WorkType
  <2>3. browser'[b] = p
    BY <2>1, Turned DEF Shows, TypeInv
  <2>4. p.at = browser[b].at
    BY <2>1 DEF Bakes, Shows
  <2>5. SUFFICES ASSUME count["expire"] = 0, browser[b].at = "settings", b \in sessions
                 PROVE  /\ \A n \in DOMAIN v : ListedWell(v[n], Alone(b), keys, sessions)
                        /\ Alone(b) =>
                             /\ \/ p.keys = keys
                                \/ \E n \in DOMAIN v : v[n].op \in {"keys", "add key", "delete key"}
                             /\ \/ p.sessions = sessions
                                \/ \E n \in DOMAIN v : v[n].op \in {"sessions", "end session"}
    BY <1>1, <1>2, <2>3, <2>4 DEF ListAt, ListedWell, At, Alone
  <2>6. /\ \A n \in DOMAIN work[b] : ListedWell(work[b][n], Alone(b), keys, sessions)
        /\ Alone(b) =>
             /\ \/ browser[b].keys = keys
                \/ \E n \in DOMAIN work[b] : work[b][n].op \in {"keys", "add key", "delete key"}
             /\ \/ browser[b].sessions = sessions
                \/ \E n \in DOMAIN work[b] : work[b][n].op \in {"sessions", "end session"}
    BY <2>5, ListEach DEF ListAt, At
  <2>7. \A n \in DOMAIN v : ListedWell(v[n], Alone(b), keys, sessions)
    <3>1. ASSUME NEW n \in DOMAIN v, n \in DOMAIN work[b], v[n] = work[b][n]
          PROVE  ListedWell(v[n], Alone(b), keys, sessions)
      BY <1>2, <2>6, <3>1 DEF ListedWell, Alone
    <3>2. QED
      BY <1>1, <1>3, <3>1 DEF GoesThere
  <2>8. \A n \in DOMAIN work[b] : n # i => n \in DOMAIN v /\ v[n] = work[b][n]
    <3>1. /\ DOMAIN Without(work[b], i) = DOMAIN work[b] \ {i}
          /\ \A n \in DOMAIN Without(work[b], i) : Without(work[b], i)[n] = work[b][n]
      BY Removed DEF TypeInv, WorkType
    <3>2. QED
      BY <2>1, <2>2, <3>1 DEF Follow
  <2>9. ListedWell(r, Alone(b), keys, sessions)
    BY <1>1, <2>6
  <2>10. /\ p.keys = IF r.op = "keys" /\ r.answer = "ok" THEN r.copy ELSE browser[b].keys
         /\ p.sessions = IF r.op = "sessions" /\ r.answer = "ok" THEN r.copy ELSE browser[b].sessions
    BY <2>1 DEF Bakes, Shows
  <2>11. /\ r.op \in {"add key", "delete key"} /\ r.answer = "ok" =>
                \E n \in DOMAIN v : v[n].op = "keys"
         /\ r.op = "end session" /\ r.answer = "ok" => \E n \in DOMAIN v : v[n].op = "sessions"
    BY <2>1, <2>2 DEF Follow
  <2>12. r.op \in Listing => r.answer = "ok"
    BY <1>1, <2>9 DEF ListedWell
  <2>13. ASSUME Alone(b)
         PROVE  p.keys = keys
                \/ \E n \in DOMAIN v : v[n].op \in {"keys", "add key", "delete key"}
    <3>1. CASE r.op = "keys"
      BY <2>9, <2>10, <2>12, <2>13, <3>1 DEF ListedWell, Listing
    <3>2. CASE r.op \in {"add key", "delete key"}
      BY <2>11, <2>12, <3>2 DEF Listing
    <3>3. CASE r.op \notin {"keys", "add key", "delete key"}
      BY <2>6, <2>8, <2>10, <2>13, <3>3
    <3>4. QED
      BY <3>1, <3>2, <3>3
  <2>14. ASSUME Alone(b)
         PROVE  p.sessions = sessions
                \/ \E n \in DOMAIN v : v[n].op \in {"sessions", "end session"}
    <3>1. CASE r.op = "sessions"
      BY <2>9, <2>10, <2>12, <2>14, <3>1 DEF ListedWell, Listing
    <3>2. CASE r.op = "end session"
      BY <2>11, <2>12, <3>2 DEF Listing
    <3>3. CASE r.op \notin {"sessions", "end session"}
      BY <2>6, <2>8, <2>10, <2>14, <3>3
    <3>4. QED
      BY <3>1, <3>2, <3>3
  <2>15. QED
    BY <2>7, <2>13, <2>14
<1>5. CASE ~ShowStep(b, i) /\ LeaveStep(b, i)
  <2>1. PICK s, t, page, w, p : Remains(w, work[b], i) /\ Lands(b, page, t, w, p)
    BY <1>5 DEF LeaveStep
  <2> DEFINE u == Reads(p.at, w)
  <2>2. Works(b, u) /\ LandsOn(p, w, u)
    BY <2>1, Landed DEF Remains, TypeInv
  <2>3. u = v
    BY <1>1, <2>2 DEF Works
  <2> HIDE DEF u
  <2>4. p \in Pages /\ Turns(b, p)
    BY <2>1 DEF Lands
  <2>5. browser'[b] = p
    BY <2>4, Turned DEF TypeInv
  <2>6. \A n \in DOMAIN v : ListedWell(v[n], Alone(b), keys, sessions)
    BY <1>1, <1>3, <1>5
  <2>7. p.at = "settings" => /\ \E n \in DOMAIN v : v[n].op = "keys"
                             /\ \E n \in DOMAIN v : v[n].op = "sessions"
    BY <2>2, <2>3 DEF LandsOn
  <2>8. Alone(b)' = Alone(b)
    BY <1>2 DEF Alone
  <2>9. QED
    BY <1>1, <1>2, <2>5, <2>6, <2>7, <2>8 DEF ListAt, At
<1>6. QED
  BY <1>4, <1>5 DEF CalmReceipt

\* The lists of a lonely browser are those of the account.
LEMMA ListStep ==
    ASSUME TypeInv, OwnerInv, CalmInv, Next, calm'
    PROVE  ListInv'
<1>a. AloneInv /\ SessionInv /\ ListInv
  BY CalmKinds DEF CalmInv
<1>s. SUFFICES \A x \in Browsers : ListAt(x)'
  BY ListEach
<1>1. CASE Still
  BY <1>1, <1>a, ListKept DEF Still
<1>2. ASSUME NEW b \in Browsers, HandleStep(b) PROVE \A x \in Browsers : ListAt(x)'
  <2>1. PICK i, q : CalmHandling(b, i, q)
    BY <1>2, <1>a, CalmHandled
  <2>2. ListAt(b)'
    BY <1>2, <1>a, <2>1, ListHandled
  <2>3. ASSUME NEW x \in Browsers, x # b PROVE ListAt(x)'
    <3>1. DOMAIN work'[x] = {} /\ i \in DOMAIN work[b]
      BY <2>1, <2>3 DEF CalmHandling
    <3>2. ~Alone(x)
      BY <2>3, <3>1 DEF Alone, OwnerInv, Idle
    <3>3. Alone(x)' = Alone(x)
      BY <1>2 DEF HandleStep, Alone
    <3>4. QED
      BY <3>1, <3>2, <3>3 DEF ListAt
  <2>4. QED
    BY <2>2, <2>3
<1>3. ASSUME NEW b \in Browsers, NEW v, CalmRequest(b, v), AskStep(b) \/ GoStep(b)
      PROVE  \A x \in Browsers : ListAt(x)'
  <2>1. /\ \A x \in Browsers : x # b => browser'[x] = browser[x] /\ work'[x] = work[x]
        /\ work'[b] = v
        /\ browser'[b].keys = browser[b].keys /\ browser'[b].sessions = browser[b].sessions
        /\ browser'[b].at = "settings" =>
              \/ browser[b].at = "settings"
              \/ /\ \E n \in DOMAIN v : v[n].op = "keys"
                 /\ \E n \in DOMAIN v : v[n].op = "sessions"
    BY <1>3, CalmPage
  <2>2. UNCHANGED <<scene, keys, sessions>> /\ count'["expire"] = count["expire"]
    BY <1>3, CalmAsked
  <2>3. \A x \in Browsers : x # b => ListAt(x)'
    BY <1>a, <2>1, <2>2, ListKept
  <2>4. \A n \in DOMAIN v : ListedWell(v[n], Alone(b), keys, sessions)
    BY <1>3, NoneIsNothing DEF CalmRequest, IsNew, ListedWell
  <2>5. ListAt(b) /\ DOMAIN work[b] = {}
    BY <1>3, <1>a, ListEach DEF CalmRequest
  <2>6. Alone(b)' = Alone(b)
    BY <2>2 DEF Alone
  <2>7. ListAt(b)'
    BY <2>1, <2>2, <2>4, <2>5, <2>6 DEF ListAt, At
  <2>8. QED
    BY <2>3, <2>7
<1>4. ASSUME NEW b \in Browsers, NEW i, NEW v, CalmReceipt(b, i, v), ReceiveStep(b)
      PROVE  \A x \in Browsers : ListAt(x)'
  <2>1. /\ \A x \in Browsers : x # b => browser'[x] = browser[x] /\ work'[x] = work[x]
        /\ UNCHANGED <<scene, keys, sessions, count>>
    BY <1>4, CalmBaked
  <2>2. \A x \in Browsers : x # b => ListAt(x)'
    BY <1>a, <2>1, ListKept
  <2>3. ListAt(b)'
    BY <1>4, <1>a, ListReceived
  <2>4. QED
    BY <2>2, <2>3
<1>5. QED
  BY <1>1, <1>2, <1>3, <1>4, CalmKinds

-----------------------------------------------------------------------------
(* The theorems. *)

\* The initial states have every part of the invariant.
LEMMA InitHolds ==
    ASSUME Init
    PROVE  AccountsInv
<1>1. TypeInv
  BY InitTypes
<1>2. scene \in Scenes /\ \A b \in Browsers : DOMAIN work[b] = {}
  BY NoneWaits DEF Init
<1>3. \A b \in Browsers :
         /\ browser[b].at \in Private \cup {"home"} /\ browser[b].at = scene.at
         /\ browser[b].told = None /\ browser[b].dialog = None
         /\ browser[b].access = IF b \in scene.signedIn THEN "valid" ELSE "none"
         /\ browser[b].keys = {} /\ browser[b].sessions = scene.signedIn
  BY <1>2, FreshPage DEF Init, FreshBrowser
<1>4. sessions = scene.signedIn /\ token = FALSE /\ keys = {} /\ cached = None
  BY DEF Init
<1>5. sessions # {} => account = "verified"
  BY <1>2, <1>4, SceneAssumption DEF Init
<1>6. OwnerInv
  BY <1>2, <1>3, <1>4, <1>5 DEF OwnerInv, At, Idle, Private
<1>7. WinnerInv
  BY <1>2, <1>3, NoneIsNothing DEF WinnerInv
<1>8. SignedOutInv
  BY <1>2, <1>3, NoneIsNothing DEF SignedOutInv, ResetInv, ChangedIsSignedOut, At, Private
<1>9. AloneInv /\ CopyInv /\ RefusedInv
  BY <1>2, <1>4 DEF AloneInv, CopyInv, RefusedInv, Idle
<1>10. HeldInv
  <2>1. Agree(held)
    BY DEF Init, Agree
  <2>2. QED
    BY <1>2, <2>1 DEF HeldInv
<1>11. SessionInv
  BY <1>2, <1>3, <1>4 DEF SessionInv
<1>12. ListInv
  BY <1>2, <1>3, <1>4 DEF ListInv
<1>13. QED
  BY <1>1, <1>6, <1>7, <1>8, <1>9, <1>10, <1>11, <1>12 DEF AccountsInv, CalmInv

\* Every step keeps every part of the invariant.
LEMMA NextHolds ==
    ASSUME AccountsInv, Next
    PROVE  AccountsInv'
<1>1. TypeInv' /\ OwnerInv' /\ WinnerInv' /\ SignedOutInv'
  BY NextTypes, OwnerStep, WinnerStep, SignedOutStep DEF AccountsInv
<1>2. CalmInv'
  BY <1>1, AloneStep, CopyStep, HeldStep, RefusedStep, SessionStep, ListStep
     DEF AccountsInv, CalmInv
<1>3. QED
  BY <1>1, <1>2 DEF AccountsInv

\* The invariant of the accounts holds in every state.
THEOREM AccountsHold == AccountsSpec => []AccountsInv
<1>1. Init => AccountsInv
  BY InitHolds
<1>2. AccountsInv /\ [Next]_vars => AccountsInv'
  <2>1. ASSUME AccountsInv, UNCHANGED vars PROVE AccountsInv'
    <3>1. UNCHANGED <<scene, account, row, cached, keys, credentials, challenge, sessions,
                      token, browser, work, held, calm, count>>
      BY <2>1 DEF vars, stored
    <3>2. TypeInv'
      BY <2>1, <3>1 DEF AccountsInv, TypeInv, StoredType, WorkType
    <3>3. OwnerInv' /\ WinnerInv' /\ SignedOutInv'
      BY <2>1, <3>1 DEF AccountsInv, OwnerInv, At, Idle, Web, WinnerInv, Wins, SignedOutInv,
                        ResetInv, ChangedIsSignedOut
    <3>4. CalmInv'
      <4>1. (calm' <=> calm) /\ (AloneInv => AloneInv') /\ (CopyInv => CopyInv')
        BY <3>1 DEF AloneInv, CopyInv, Idle
      <4>2. Agree(held) => Agree(held)'
        BY <3>1 DEF Agree
      <4>3. ASSUME NEW b \in Browsers, NEW i \in DOMAIN work[b]
            PROVE  /\ Hold(work[b][i])' = Hold(work[b][i])
                   /\ Answered(work[b][i])' <=> Answered(work[b][i])
        BY <3>1 DEF Hold, Answered
      <4>4. ASSUME HeldInv PROVE HeldInv'
        <5>1. ASSUME NEW b \in Browsers, NEW i \in DOMAIN work[b],
                     Answered(work[b][i])'
              PROVE  Agree(Hold(work[b][i]))'
          <6>1. Agree(Hold(work[b][i]))
            BY <4>3, <4>4, <5>1 DEF HeldInv
          <6>2. QED
            BY <3>1, <4>3, <6>1 DEF Agree
        <5>2. (\A b \in Browsers : \A i \in DOMAIN work[b] : ~Answered(work[b][i])') =>
                  \A b \in Browsers : \A i \in DOMAIN work[b] : ~Answered(work[b][i])
          BY <4>3
        <5>3. work' = work
          BY <3>1
        <5>4. QED
          BY <4>2, <4>4, <5>1, <5>2, <5>3 DEF HeldInv
      <4>5. RefusedInv => RefusedInv'
        BY <3>1 DEF RefusedInv
      <4>6. SessionInv => SessionInv'
        BY <3>1 DEF SessionInv, At, Ends
      <4>7. ASSUME ListInv PROVE ListInv'
        <5>1. \A x \in Browsers : ListAt(x)'
          BY <3>1, <4>7, ListKept
        <5>2. QED
          BY <5>1, ListEach
      <4>8. QED
        BY <2>1, <4>1, <4>4, <4>5, <4>6, <4>7 DEF AccountsInv, CalmInv
    <3>5. QED
      BY <3>2, <3>3, <3>4 DEF AccountsInv
  <2>2. QED
    BY <2>1, NextHolds
<1>3. QED
  BY <1>1, <1>2, PTL DEF AccountsSpec

\* The right password passes, for a person who does one thing at a time.
LEMMA Passes ==
    ASSUME AccountsInv
    PROVE  RightPasswordPasses
<1> SUFFICES ASSUME calm, NEW b \in Browsers, NEW i \in DOMAIN work[b],
                    work[b][i].op \in Secured \cup {"change", "login"},
                    work[b][i].pw = held.pw, held.pw # 0,
                    work[b][i].op = "login" => account = "verified",
                    work[b][i].answer = "no"
             PROVE  FALSE
  BY DEF RightPasswordPasses
<1> DEFINE r == work[b][i]
<1>1. HeldInv /\ RefusedInv /\ Fits(r)
  BY DEF AccountsInv, CalmInv, TypeInv, WorkType
<1>2. r.stage = "done" /\ r.op \notin Reading
  BY <1>1, NoneIsNothing DEF Fits, Secured, Reading
<1>3. Agree(Hold(r))
  BY <1>1, <1>2 DEF HeldInv, Answered
<1>4. Hold(r) = held
  BY DEF Hold
<1>5. held.pw = row.pw
  BY <1>3, <1>4 DEF Agree
<1>6. r.pw # row.pw
  BY <1>1 DEF RefusedInv
<1>7. QED
  BY <1>5, <1>6

\* Whoever does one thing at a time is never told that the right password was wrong.
THEOREM RightPasswordPassesAlways == AccountsSpec => []RightPasswordPasses
BY AccountsHold, Passes, PTL

\* What is told is stored.
LEMMA ToldStored ==
    ASSUME AccountsInv
    PROVE  ToldIsStored
<1>1. AccountsTypeOK
  <2>1. ASSUME NEW b \in Browsers
        PROVE  /\ browser[b].at \in Places /\ browser[b].access \in {"valid", "old", "none"}
               /\ browser[b].known \in BOOLEAN \cup {None}
    BY PageParts DEF AccountsInv
  <2>2. ASSUME NEW b \in Browsers, NEW i \in DOMAIN work[b] PROVE work[b][i].op \in Ops
    <3>1. work[b][i] \in Asked
      BY DEF AccountsInv, TypeInv, WorkType, Fits
    <3>2. QED
      BY <3>1 DEF Asked
  <2>3. QED
    BY <2>1, <2>2 DEF AccountsTypeOK, AccountsInv, TypeInv, StoredType
<1>2. Quiet /\ calm => Agree(held) /\ ListInv
  BY DEF AccountsInv, CalmInv, HeldInv, Quiet, Idle
<1>3. CodesToldWork /\ PasswordToldWorks
  BY <1>2 DEF Agree, CodesToldWork, PasswordToldWorks
<1>4. ListsAreStored
  BY <1>2 DEF ListsAreStored, ListInv, Quiet, Idle
<1>5. QED
  BY <1>1, <1>3, <1>4 DEF ToldIsStored

\* What a page told the person is what the database has.
THEOREM ToldIsStoredAlways == AccountsSpec => []ToldIsStored
BY AccountsHold, ToldStored, PTL

\* A changed password leaves its browser on the login page.
THEOREM ChangedIsSignedOutAlways == AccountsSpec => []ChangedIsSignedOut
<1>1. AccountsInv => ChangedIsSignedOut
  BY DEF AccountsInv, SignedOutInv
<1>2. QED
  BY <1>1, AccountsHold, PTL

\* At most one registration is told that it created the account.
LEMMA CreatedOnce ==
    ASSUME AccountsInv
    PROVE  OneCreated
<1> DEFINE T == {b \in Browsers : browser[b].told = "created"}
           A == UNION {{<<b, i>> : i \in DOMAIN work[b]} : b \in Browsers}
           W == {a \in A : work[a[1]][a[2]].op = "register" /\ work[a[1]][a[2]].answer = "ok"}
<1>1. WinnerInv
  BY DEF AccountsInv
<1>2. \A b, c \in T : b = c
  BY <1>1 DEF WinnerInv
<1>3. ASSUME NEW a \in W
      PROVE  \E b \in Browsers : \E i \in DOMAIN work[b] : a = <<b, i>> /\ Wins(b, i)
  <2>1. PICK b \in Browsers : \E i \in DOMAIN work[b] : a = <<b, i>>
    OBVIOUS
  <2>2. PICK i \in DOMAIN work[b] : a = <<b, i>>
    BY <2>1
  <2>3. QED
    BY <2>2 DEF Wins
<1>4. \A a, c \in W : a = c
  BY <1>1, <1>3 DEF WinnerInv
<1>5. T = {} \/ W = {}
  BY <1>1, <1>3 DEF WinnerInv
<1> HIDE DEF T, W
<1>6. ASSUME NEW S, \A a, c \in S : a = c PROVE Cardinality(S) \in {0, 1}
  <2>1. CASE S = {}
    BY <2>1, FS_EmptySet
  <2>2. ASSUME NEW a \in S PROVE Cardinality(S) = 1
    <3>1. S = {a}
      BY <1>6
    <3>2. QED
      BY <3>1, FS_Singleton
  <2>3. QED
    BY <2>1, <2>2
<1>7. Cardinality({}) = 0
  BY FS_EmptySet
<1>8. Cardinality(T) + Cardinality(W) <= 1
  BY <1>2, <1>4, <1>5, <1>6, <1>7
<1>9. QED
  BY <1>8 DEF OneCreated, T, W

\* Of several registrations one is told that it created the account.
THEOREM OneCreatedAlways == AccountsSpec => []OneCreated
BY AccountsHold, CreatedOnce, PTL
====
