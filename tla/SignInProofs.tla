---------------------------- MODULE SignInProofs ----------------------------
(* Theorems about SignIn. *)
EXTENDS SignIn, SequenceTheorems, FiniteSetTheorems, TLAPS

\* What a session offers is what the account has.
OfferInv ==
    \A n \in DOMAIN sessions :
       sessions[n].step_1 = Stepped.step_1 /\ sessions[n].step_2 = Stepped.step_2

\* Requests about a session name one, and who is asked for has a token.
CallInv(p, c) ==
    /\ c.to = "start" => c.right /\ c.status \in {None, "ok"} /\ (c.status = "ok" => c.session # 0)
    /\ c.to = "step" => c.session # 0
    /\ c.to = "check" => cookie[p] /\ c.status \in {None, "in"}

\* A page waits for one answer, or for two and is not careful any more; the
\* old page is as many steps too far at most, and shows nothing then.
WaitInv(p) ==
    /\ Len(calls[p]) <= 2 /\ page[p].step + Len(calls[p]) <= 4
    /\ careful[p] => Len(calls[p]) <= 1
    /\ page[p].step >= 3 => ~Web(p) /\ page[p].method = None

\* A browser with a token is past the login, or asks who is signed in.
TokenInv(p) ==
    /\ page[p].at = "home" => calls[p] = <<>>
    /\ cookie[p] /\ count.lost = 0 =>
          page[p].at = "home" \/ \E i \in DOMAIN calls[p] : calls[p][i].to = "check"

\* A page used with care is at a step its session has, with a method of it.
CarefulPage(g) ==
    /\ g.step \in 0 .. 2 /\ (g.step = 0 <=> g.session = 0)
    /\ g.step = 0 => g.method = None
    /\ g.step = 1 => g.method \in Stepped.step_1 \cup {"BACKUP", None}
    /\ g.step = 2 => /\ Stepped.step_2 # {} /\ g.method \in Stepped.step_2 \cup {"BACKUP", None}
                     /\ sessions[g.session].passed

\* Its request is about that step and that session.
CarefulCall(g, c) ==
    /\ c.to = "start" => g.step = 0
    /\ c.to = "step" =>
          /\ g.step # 0 /\ c.session = g.session
          /\ \/ c.method = "BACKUP" /\ c.step = 1
             \/ /\ c.method # "BACKUP" /\ c.step = g.step
                /\ c.step = 1 => c.method \in Stepped.step_1
                /\ c.step = 2 => c.method \in Stepped.step_2
          /\ c.status = "more" => /\ g.step = 1 /\ Stepped.step_2 # {}
                                  /\ sessions[g.session].passed
          /\ c.status = "no" /\ c.right => c.method = "BACKUP" /\ ~backup

CarefulInv(p) ==
    careful[p] => /\ CarefulPage(page[p])
                  /\ \A i \in DOMAIN calls[p] : CarefulCall(page[p], calls[p][i])

PageInv(p) ==
    /\ page[p].session <= Len(sessions)
    /\ \A i \in DOMAIN calls[p] : calls[p][i].session <= Len(sessions) /\ CallInv(p, calls[p][i])
    /\ WaitInv(p) /\ TokenInv(p) /\ CarefulInv(p)

SignInInv ==
    /\ SignInTypeOK /\ count \in [wrong : Nat, expire : Nat, lost : Nat]
    /\ OfferInv
    /\ \A p \in Pages : PageInv(p)

-----------------------------------------------------------------------------
(* Lists, and what an account offers. *)

\* RemoveAt leaves the other elements, in their order.
LEMMA RemovedAt ==
    ASSUME NEW S, NEW s \in Seq(S), NEW i \in DOMAIN s
    PROVE  /\ RemoveAt(s, i) \in Seq(S) /\ Len(RemoveAt(s, i)) = Len(s) - 1
           /\ \A k \in DOMAIN RemoveAt(s, i) : \E j \in DOMAIN s : RemoveAt(s, i)[k] = s[j]
           /\ \A j \in DOMAIN s : j # i => \E k \in DOMAIN RemoveAt(s, i) : RemoveAt(s, i)[k] = s[j]
<1> DEFINE a == SubSeq(s, 1, i - 1)
           b == SubSeq(s, i + 1, Len(s))
<1>1. i \in 1 .. Len(s) /\ Len(s) \in Nat /\ DOMAIN s = 1 .. Len(s)
  OBVIOUS
<1>2. a \in Seq(S) /\ Len(a) = i - 1 /\ \A k \in 1 .. i - 1 : a[k] = s[k]
  BY <1>1
<1>3. b \in Seq(S) /\ Len(b) = Len(s) - i /\ \A k \in 1 .. Len(s) - i : b[k] = s[i + k]
  BY <1>1
<1> HIDE DEF a, b
<1>4. /\ a \o b \in Seq(S) /\ Len(a \o b) = Len(s) - 1
      /\ \A k \in 1 .. Len(s) - 1 : (a \o b)[k] = IF k < i THEN s[k] ELSE s[k + 1]
  <2>1. a \o b \in Seq(S) /\ Len(a \o b) = Len(a) + Len(b)
    BY <1>2, <1>3, ConcatProperties
  <2>2. \A k \in 1 .. Len(a) + Len(b) :
           (a \o b)[k] = IF k <= Len(a) THEN a[k] ELSE b[k - Len(a)]
    BY <1>2, <1>3, ConcatProperties
  <2>3. ASSUME NEW k \in 1 .. Len(s) - 1, k < i PROVE (a \o b)[k] = s[k]
    <3>1. k \in 1 .. Len(a) + Len(b) /\ k <= Len(a) /\ k \in 1 .. i - 1
      BY <1>1, <1>2, <1>3, <2>3
    <3>2. QED
      BY <1>2, <2>2, <3>1
  <2>4. ASSUME NEW k \in 1 .. Len(s) - 1, ~(k < i) PROVE (a \o b)[k] = s[k + 1]
    <3>1. k \in 1 .. Len(a) + Len(b) /\ ~(k <= Len(a)) /\ k - Len(a) \in 1 .. Len(s) - i
          /\ i + (k - Len(a)) = k + 1
      BY <1>1, <1>2, <1>3, <2>4
    <3>2. QED
      BY <1>3, <2>2, <3>1
  <2>5. Len(a \o b) = Len(s) - 1
    BY <1>1, <1>2, <1>3, <2>1
  <2>6. QED
    BY <2>1, <2>3, <2>4, <2>5
<1>5. RemoveAt(s, i) = a \o b
  BY DEF RemoveAt, a, b
<1>6. ASSUME NEW j \in DOMAIN s, j # i
      PROVE  \E k \in 1 .. Len(s) - 1 : (a \o b)[k] = s[j]
  <2>1. CASE j < i
    <3>1. j \in 1 .. Len(s) - 1
      BY <1>1, <2>1
    <3>2. QED
      BY <1>4, <2>1, <3>1
  <2>2. CASE j > i
    <3> DEFINE k == j - 1
    <3>1. k \in 1 .. Len(s) - 1 /\ ~(k < i) /\ k + 1 = j
      BY <1>1, <2>2
    <3> HIDE DEF k
    <3>2. (a \o b)[k] = s[k + 1]
      BY <1>4, <3>1
    <3>3. QED
      BY <3>1, <3>2
  <2>3. j < i \/ j > i
    BY <1>1, <1>6
  <2>4. QED
    BY <2>1, <2>2, <2>3
<1>7. ASSUME NEW k \in 1 .. Len(s) - 1
      PROVE  \E j \in DOMAIN s : (a \o b)[k] = s[j]
  <2>1. k \in DOMAIN s /\ k + 1 \in DOMAIN s
    BY <1>1
  <2>2. (a \o b)[k] = s[k] \/ (a \o b)[k] = s[k + 1]
    BY <1>4
  <2>3. QED
    BY <2>1, <2>2
<1>8. DOMAIN (a \o b) = 1 .. Len(s) - 1
  BY <1>4
<1>9. QED
  BY <1>4, <1>5, <1>6, <1>7, <1>8

\* A list without its only element.
LEMMA NoneLeft ==
    ASSUME NEW S, NEW s \in Seq(S), NEW i \in DOMAIN s, Len(s) <= 1
    PROVE  RemoveAt(s, i) = <<>>
<1>1. RemoveAt(s, i) \in Seq(S) /\ Len(RemoveAt(s, i)) = 0
  BY RemovedAt
<1>2. QED
  BY <1>1

\* The method that is chosen by itself is one of those offered,
LEMMA AutoIsUsable ==
    ASSUME NEW methods \in SUBSET Methods
    PROVE  AutoSelect(methods) \in methods \cup {None} /\ AutoSelect(methods) \in Methods \cup {None}
<1>1. CASE Cardinality(Usable(methods)) = 1
  <2>1. Usable(methods) # {}
    BY <1>1, FS_EmptySet
  <2>2. AutoSelect(methods) \in Usable(methods)
    BY <1>1, <2>1 DEF AutoSelect
  <2>3. QED
    BY <2>2 DEF Usable
<1>2. CASE Cardinality(Usable(methods)) # 1
  BY <1>2 DEF AutoSelect
<1>3. QED
  BY <1>1, <1>2

\* and none where none is offered.
LEMMA AutoOfNothing == AutoSelect({}) = None
<1>1. Usable({}) = {}
  BY DEF Usable
<1>2. QED
  BY <1>1, FS_EmptySet DEF AutoSelect

\* What each step of a login offers.
LEMMA SteppedType ==
    /\ Stepped.step_1 \in SUBSET Methods /\ Stepped.step_2 \in SUBSET Methods
    /\ "PASSWORD" \notin Stepped.step_2 /\ "BACKUP" \notin Stepped.step_1 \cup Stepped.step_2
BY DEF Stepped, Methods

\* The steps are those of the account, which does not change.
LEMMA SteppedStays == scene' = scene => Stepped' = Stepped
BY DEF Stepped

-----------------------------------------------------------------------------
(* One page takes a step. *)

\* Sessions are added, and what they passed stays passed.
Grown ==
    /\ Len(sessions) <= Len(sessions')
    /\ \A n \in DOMAIN sessions : sessions[n].passed => sessions'[n].passed

\* What a step leaves to the other pages.
Others(p) ==
    \A q \in Pages \ {p} : /\ page'[q] = page[q] /\ calls'[q] = calls[q]
                           /\ cookie'[q] = cookie[q] /\ careful'[q] = careful[q]

\* A step of one page or of the server keeps what holds of another page.
LEMMA OthersKeep ==
    ASSUME SignInInv, scene' = scene, sessions' \in Seq(LoginSessions), Grown, backup' => backup,
           count'.lost = 0 => count.lost = 0,
           NEW q \in Pages, page'[q] = page[q], calls'[q] = calls[q],
           cookie'[q] = cookie[q], careful'[q] = careful[q]
    PROVE  PageInv(q)'
<1>1. /\ page'[q] = page[q] /\ calls'[q] = calls[q]
      /\ cookie'[q] = cookie[q] /\ careful'[q] = careful[q]
  OBVIOUS
<1>2. PageInv(q) /\ sessions \in Seq(LoginSessions) /\ page[q] \in PageStates
  BY DEF SignInInv, SignInTypeOK
<1>3. page[q].session \in Nat /\ Len(sessions) \in Nat /\ Len(sessions') \in Nat
      /\ Len(sessions) <= Len(sessions')
  BY <1>2 DEF PageStates, Grown
<1>4. \A i \in DOMAIN calls[q] : calls[q][i].session \in Nat
  <2>1. calls[q] \in Seq(Requests)
    BY DEF SignInInv, SignInTypeOK
  <2>2. \A i \in DOMAIN calls[q] : calls[q][i] \in Requests
    BY <2>1
  <2>3. QED
    BY <2>2 DEF Requests
<1>5. Stepped' = Stepped /\ (Web(q))' = Web(q)
  BY SteppedStays DEF Web
<1>6. page'[q].session <= Len(sessions')
  BY <1>1, <1>2, <1>3 DEF PageInv
<1>7. ASSUME NEW i \in DOMAIN calls'[q]
      PROVE  calls'[q][i].session <= Len(sessions') /\ CallInv(q, calls[q][i])'
  <2>1. calls[q][i].session <= Len(sessions) /\ CallInv(q, calls[q][i])
    BY <1>1, <1>2, <1>7 DEF PageInv
  <2>2. QED
    BY <1>1, <1>3, <1>4, <1>7, <2>1 DEF CallInv
<1>8. WaitInv(q)' /\ TokenInv(q)'
  BY <1>1, <1>2, <1>5 DEF PageInv, WaitInv, TokenInv
<1>9. ASSUME careful[q] PROVE CarefulPage(page[q])'
  BY <1>1, <1>2, <1>3, <1>5, <1>9 DEF PageInv, CarefulInv, CarefulPage, Grown
<1>10. ASSUME careful[q], NEW i \in DOMAIN calls[q] PROVE CarefulCall(page[q], calls[q][i])'
  BY <1>1, <1>2, <1>3, <1>5, <1>10 DEF PageInv, CarefulInv, CarefulPage, CarefulCall, Grown
<1>11. QED
  BY <1>1, <1>6, <1>7, <1>8, <1>9, <1>10 DEF PageInv, CarefulInv

Counts == [wrong : Nat, expire : Nat, lost : Nat]

\* A step of one page keeps the invariant if it does for this page.
LEMMA PageStep ==
    ASSUME SignInInv, scene' = scene,
           sessions' \in Seq(LoginSessions), OfferInv', Grown,
           backup' \in BOOLEAN, backup' => backup,
           count' \in Counts, count'.lost = 0 => count.lost = 0,
           page' \in [Pages -> PageStates], calls' \in [Pages -> Seq(Requests)],
           cookie' \in [Pages -> BOOLEAN], careful' \in [Pages -> BOOLEAN],
           NEW p \in Pages, Others(p), PageInv(p)'
    PROVE  SignInInv'
<1>1. \A q \in Pages : PageInv(q)'
  BY OthersKeep DEF Others
<1>2. SignInTypeOK'
  BY <1>1 DEF SignInInv, SignInTypeOK, PageInv
<1>3. QED
  BY <1>1, <1>2 DEF SignInInv, Counts

\* One page of a function over the pages is changed.
LEMMA Updated ==
    ASSUME NEW S, NEW f \in [Pages -> S], NEW p \in Pages, NEW v \in S
    PROVE  /\ [f EXCEPT ![p] = v] \in [Pages -> S] /\ [f EXCEPT ![p] = v][p] = v
           /\ \A q \in Pages \ {p} : [f EXCEPT ![p] = v][q] = f[q]
OBVIOUS

\* A page is careful after what it does only if it waited.
LEMMA DoesCareful ==
    ASSUME SignInInv, NEW p \in Pages, Does(p)
    PROVE  /\ careful' \in [Pages -> BOOLEAN] /\ \A q \in Pages \ {p} : careful'[q] = careful[q]
           /\ careful'[p] => careful[p] /\ calls[p] = <<>>
           /\ calls[p] # <<>> => careful[p]
<1>1. careful \in [Pages -> BOOLEAN]
  BY DEF SignInInv, SignInTypeOK
<1>2. careful' = [careful EXCEPT ![p] = careful[p] /\ ~Pending(p)]
  BY <1>1 DEF Does
<1>3. (careful[p] /\ ~Pending(p)) \in BOOLEAN
  OBVIOUS
<1>4. PICK b \in BOOLEAN : b <=> (careful[p] /\ ~Pending(p))
  OBVIOUS
<1>5. careful' = [careful EXCEPT ![p] = b]
  BY <1>2, <1>4
<1>6. careful' \in [Pages -> BOOLEAN] /\ careful'[p] = b
      /\ \A q \in Pages \ {p} : careful'[q] = careful[q]
  BY <1>1, <1>5, Updated
<1>7. QED
  BY <1>4, <1>6 DEF Does, Pending

\* What a page with these screens has.
LEMMA ScreenFacts ==
    ASSUME SignInInv, NEW p \in Pages, Screen(p) \notin {"HOME", "CRASHED"}
    PROVE  /\ page[p].at = "login" /\ page[p].step \in 0 .. 2
           /\ Screen(p) = "EMAIL" => page[p].step = 0
           /\ Screen(p) # "EMAIL" => page[p].step # 0
           /\ Screen(p) = "PICK" => page[p].method = None
           /\ Screen(p) \in Methods =>
                 page[p].method = Screen(p) \/ (Screen(p) = "BACKUP" /\ Web(p))
<1>1. page[p] \in PageStates /\ WaitInv(p)
  BY DEF SignInInv, SignInTypeOK, PageInv
<1>2. page[p].at \in {"login", "home"} /\ page[p].step \in 0 .. 4
      /\ page[p].method \in Methods \cup {None}
  BY <1>1 DEF PageStates
<1>3. page[p].at = "login"
  BY <1>2 DEF Screen
<1>4. CASE Web(p)
  <2>1. Screen(p) = WebScreen(p) /\ page[p].step \in 0 .. 2
    BY <1>1, <1>2, <1>3, <1>4 DEF Screen, WaitInv
  <2>2. QED
    BY <1>2, <1>3, <1>4, <2>1, NoneIsNothing DEF WebScreen, Methods
<1>5. CASE ~Web(p)
  <2>1. Screen(p) = LegacyScreen(p)
    BY <1>3, <1>5 DEF Screen
  <2>2. page[p].step \in 0 .. 2
    BY <1>1, <1>2, <2>1 DEF LegacyScreen, WaitInv
  <2>3. QED
    BY <1>2, <1>3, <1>5, <2>1, <2>2, NoneIsNothing DEF LegacyScreen, Methods
<1>6. QED
  BY <1>4, <1>5

\* What a page keeps while only its message goes.
Same(g, h) == /\ g.at = h.at /\ g.step = h.step /\ g.session = h.session /\ g.method = h.method

\* A page sends a request.
LEMMA Asks ==
    ASSUME SignInInv, NEW p \in Pages, Does(p),
           NEW g \in PageStates, Same(g, page[p]), page' = [page EXCEPT ![p] = g],
           page[p].at = "login", page[p].step \in 0 .. 2,
           NEW c \in Requests, c.status = None, c.session <= Len(sessions), CallInv(p, c),
           calls' = [calls EXCEPT ![p] = Append(@, c)],
           careful[p] => CarefulCall(page[p], c),
           UNCHANGED <<scene, sessions, backup, cookie>>,
           count' \in Counts, count'.lost = count.lost
    PROVE  SignInInv'
<1>1. /\ page \in [Pages -> PageStates] /\ calls \in [Pages -> Seq(Requests)]
      /\ cookie \in [Pages -> BOOLEAN] /\ sessions \in Seq(LoginSessions) /\ backup \in BOOLEAN
      /\ OfferInv /\ PageInv(p)
  BY DEF SignInInv, SignInTypeOK
<1>2. /\ page' \in [Pages -> PageStates] /\ page'[p] = g
      /\ \A q \in Pages \ {p} : page'[q] = page[q]
  BY <1>1, Updated
<1>0. PICK cs : cs = Append(calls[p], c)
  OBVIOUS
<1>3. /\ cs \in Seq(Requests) /\ Len(cs) = Len(calls[p]) + 1 /\ Len(calls[p]) \in Nat
      /\ \A i \in DOMAIN calls[p] : i \in DOMAIN cs /\ cs[i] = calls[p][i]
      /\ \A i \in DOMAIN cs : cs[i] = c \/ (i \in DOMAIN calls[p] /\ cs[i] = calls[p][i])
  BY <1>0, <1>1
<1>4. calls' = [calls EXCEPT ![p] = cs]
  BY <1>0, <1>1
<1>5. /\ calls' \in [Pages -> Seq(Requests)] /\ calls'[p] = cs
      /\ \A q \in Pages \ {p} : calls'[q] = calls[q]
  BY <1>1, <1>3, <1>4, Updated
<1>6. /\ careful' \in [Pages -> BOOLEAN] /\ \A q \in Pages \ {p} : careful'[q] = careful[q]
      /\ careful'[p] => careful[p] /\ calls[p] = <<>>
      /\ calls[p] # <<>> => careful[p]
  BY DoesCareful
<1>7. Others(p)
  BY <1>2, <1>5, <1>6 DEF Others
<1>8. Grown /\ OfferInv'
  BY <1>1, SteppedStays DEF Grown, OfferInv
<1>9. (Web(p))' = Web(p) /\ Stepped' = Stepped
  BY SteppedStays DEF Web
<1>10. ASSUME NEW i \in DOMAIN cs
       PROVE  cs[i].session <= Len(sessions') /\ CallInv(p, cs[i])'
  <2>1. cs[i].session <= Len(sessions) /\ CallInv(p, cs[i])
    BY <1>1, <1>3 DEF PageInv
  <2>2. QED
    BY <2>1, <1>1 DEF CallInv
<1>11. WaitInv(p)'
  <2>1. WaitInv(p) /\ page[p].step \in 0 .. 2 /\ g.step = page[p].step /\ g.method = page[p].method
    BY <1>1 DEF PageInv, Same
  <2>2. Len(calls[p]) = 0 \/ (careful[p] /\ Len(calls[p]) <= 1)
    BY <1>1, <1>6, <2>1 DEF WaitInv
  <2>3. careful'[p] => Len(calls[p]) = 0
    BY <1>6
  <2>4. QED
    BY <1>2, <1>3, <1>5, <1>9, <2>1, <2>2, <2>3 DEF WaitInv
<1>12. TokenInv(p)'
  BY <1>1, <1>2, <1>3, <1>5 DEF PageInv, TokenInv, Same
<1>13. ASSUME careful'[p] PROVE CarefulInv(p)'
  <2>1. careful[p] /\ calls[p] = <<>> /\ CarefulPage(page[p])
    BY <1>1, <1>6, <1>13 DEF PageInv, CarefulInv
  <2>2. \A i \in DOMAIN cs : cs[i] = c
    BY <1>3, <2>1
  <2>3. CarefulPage(g)' /\ CarefulCall(g, c)'
    BY <1>9, <2>1 DEF CarefulPage, CarefulCall, Same
  <2>4. QED
    BY <1>2, <1>5, <2>2, <2>3 DEF CarefulInv
<1>14. PageInv(p)'
  BY <1>1, <1>2, <1>5, <1>10, <1>11, <1>12, <1>13 DEF PageInv, CarefulInv, Same
<1>15. QED
  BY <1>1, <1>2, <1>5, <1>6, <1>7, <1>8, <1>14, PageStep

\* A page goes elsewhere without a request.
LEMMA Moves ==
    ASSUME SignInInv, NEW p \in Pages, Does(p),
           NEW g \in PageStates, page' = [page EXCEPT ![p] = g],
           page[p].at = "login", g.at = "login", g.step \in 0 .. 2, g.session <= Len(sessions),
           careful[p] => CarefulPage(g),
           UNCHANGED <<scene, sessions, backup, calls, cookie, count>>
    PROVE  SignInInv'
<1>1. /\ page \in [Pages -> PageStates] /\ calls \in [Pages -> Seq(Requests)]
      /\ cookie \in [Pages -> BOOLEAN] /\ sessions \in Seq(LoginSessions) /\ backup \in BOOLEAN
      /\ OfferInv /\ PageInv(p) /\ count \in Counts
  BY DEF SignInInv, SignInTypeOK, Counts
<1>2. /\ page' \in [Pages -> PageStates] /\ page'[p] = g
      /\ \A q \in Pages \ {p} : page'[q] = page[q]
  BY <1>1, Updated
<1>3. /\ careful' \in [Pages -> BOOLEAN] /\ \A q \in Pages \ {p} : careful'[q] = careful[q]
      /\ careful'[p] => careful[p] /\ calls[p] = <<>>
  BY DoesCareful
<1>4. Others(p) /\ Grown /\ OfferInv'
  BY <1>1, <1>2, <1>3, SteppedStays DEF Others, Grown, OfferInv
<1>5. (Web(p))' = Web(p) /\ Stepped' = Stepped
  BY SteppedStays DEF Web
<1>6. \A i \in DOMAIN calls[p] : calls[p][i].session <= Len(sessions) /\ CallInv(p, calls[p][i])'
  BY <1>1 DEF PageInv, CallInv
<1>7. WaitInv(p)'
  <2>1. Len(calls[p]) \in Nat /\ Len(calls[p]) <= 2 /\ (careful[p] => Len(calls[p]) <= 1)
    BY <1>1 DEF PageInv, WaitInv
  <2>2. QED
    BY <1>2, <1>3, <2>1 DEF WaitInv
<1>8. TokenInv(p)'
  BY <1>1, <1>2 DEF PageInv, TokenInv
<1>9. ASSUME careful'[p] PROVE CarefulPage(g)' /\ calls[p] = <<>>
  BY <1>3, <1>5, <1>9 DEF CarefulPage
<1>10. PageInv(p)'
  BY <1>2, <1>6, <1>7, <1>8, <1>9 DEF PageInv, CarefulInv
<1>11. QED
  BY <1>1, <1>2, <1>3, <1>4, <1>10, PageStep
-----------------------------------------------------------------------------
(* What the person does. *)

\* The types of the fields of a page.
LEMMA Fields ==
    ASSUME NEW h \in PageStates
    PROVE  /\ h.at \in {"login", "home"} /\ h.step \in 0 .. 4 /\ h.session \in Nat
           /\ h.method \in Methods \cup {None} /\ h.backup \in BOOLEAN /\ h.rejected \in BOOLEAN
BY DEF PageStates

\* Hiding the error message changes nothing else.
LEMMA RejectedGone ==
    ASSUME NEW h \in PageStates, NEW r \in BOOLEAN, NEW g, g = [h EXCEPT !.rejected = r]
    PROVE  g \in PageStates /\ Same(g, h)
BY DEF PageStates, Same

\* A request as it is sent: a step,
LEMMA CallShape ==
    ASSUME NEW to \in {"start", "step", "check"}, NEW session \in Nat, NEW step \in 0 .. 2,
           NEW method \in Methods \cup {None}, NEW right \in BOOLEAN,
           NEW c, c = Call(to, session, step, method, right)
    PROVE  /\ c \in Requests /\ c.to = to /\ c.session = session /\ c.step = step
           /\ c.method = method /\ c.right = right /\ c.status = None
BY DEF Call, Requests

\* and the start of a login.
LEMMA StartCall ==
    ASSUME NEW b \in BOOLEAN, NEW c, c = Call("start", 0, 0, None, b)
    PROVE  c \in Requests /\ c.to = "start" /\ c.session = 0 /\ (b => c.right) /\ c.status = None
BY CallShape

\* What the invariant says of one page.
LEMMA TypedPage ==
    ASSUME SignInInv, NEW p \in Pages
    PROVE  /\ page \in [Pages -> PageStates] /\ page[p] \in PageStates
           /\ page[p].session <= Len(sessions) /\ Len(sessions) \in Nat /\ page[p].session \in Nat
           /\ count \in Counts /\ WaitInv(p) /\ TokenInv(p) /\ CarefulInv(p)
           /\ careful[p] => CarefulPage(page[p])
BY DEF SignInInv, SignInTypeOK, PageInv, CarefulInv, PageStates, Counts

\* Sending the e-mail address keeps the invariant,
LEMMA AsksToStart ==
    ASSUME SignInInv, NEW p \in Pages, EmailStep(p) \/ StartLogin(p) PROVE SignInInv'
<1>1. /\ Screen(p) = "EMAIL" /\ Does(p) /\ page' = page
      /\ calls' = [calls EXCEPT ![p] = Append(@, Call("start", 0, 0, None, TRUE))]
      /\ UNCHANGED <<scene, sessions, backup, cookie, count>>
  BY DEF EmailStep, StartLogin
<1>2. page[p].at = "login" /\ page[p].step = 0 /\ page[p].step \in 0 .. 2
  BY <1>1, ScreenFacts
<1>3. PICK c : c = Call("start", 0, 0, None, TRUE)
  OBVIOUS
<1>4. /\ c \in Requests /\ c.to = "start" /\ c.session = 0 /\ c.right /\ c.status = None
  BY <1>3, StartCall, TRUE \in BOOLEAN, Zenon
<1>5. CallInv(p, c) /\ CarefulCall(page[p], c)
  BY <1>2, <1>4, NoneIsNothing DEF CallInv, CarefulCall
<1>6. page' = [page EXCEPT ![p] = page[p]] /\ page[p] \in PageStates /\ count' \in Counts
      /\ Same(page[p], page[p]) /\ Len(sessions) \in Nat
  BY <1>1, TypedPage DEF Same
<1>7. PICK g \in PageStates : Same(g, page[p]) /\ page' = [page EXCEPT ![p] = g]
  BY <1>6
<1>8. c.session <= Len(sessions) /\ count'.lost = count.lost
  BY <1>1, <1>4, <1>6
<1>9. calls' = [calls EXCEPT ![p] = Append(@, c)]
  BY <1>1, <1>3
<1>10. QED
  BY <1>1, <1>2, <1>4, <1>5, <1>6, <1>7, <1>8, <1>9, Asks

\* and so does answering a challenge.
LEMMA AsksToStep ==
    ASSUME SignInInv, NEW p \in Pages, NEW method \in Methods, NEW right \in BOOLEAN,
           Answer(p, method, right)
    PROVE  SignInInv'
<1> DEFINE step == StepOf(p, method)
<1>1. /\ Screen(p) = method /\ page[p].session # 0 /\ Does(p)
      /\ count' = [count EXCEPT !.wrong = IF right THEN @ ELSE @ + 1]
      /\ page' = [page EXCEPT ![p] = [page[p] EXCEPT !.rejected = FALSE]]
      /\ calls' = [calls EXCEPT ![p] =
            Append(@, Call("step", page[p].session, step, method, right))]
      /\ UNCHANGED <<scene, sessions, backup, cookie>>
  BY DEF Answer
<1>2. /\ page[p].at = "login" /\ page[p].step \in 1 .. 2
      /\ page[p].method = method \/ method = "BACKUP"
  <2>1. Screen(p) \in Methods /\ Screen(p) \notin {"HOME", "CRASHED", "EMAIL", "PICK"}
    BY <1>1 DEF Methods
  <2>2. QED
    BY <1>1, <2>1, ScreenFacts
<1>3. /\ page[p] \in PageStates /\ page[p].session \in Nat /\ page[p].session <= Len(sessions)
      /\ count \in Counts /\ (careful[p] => CarefulPage(page[p]))
  BY TypedPage
<1>4. step \in 0 .. 2
  BY <1>2 DEF StepOf
<1>5. method = "BACKUP" => step = 1
  BY DEF StepOf
<1>6. method # "BACKUP" /\ careful[p] =>
         /\ step = page[p].step
         /\ step = 1 => method \in Stepped.step_1
         /\ step = 2 => method \in Stepped.step_2
  <2> SUFFICES ASSUME method # "BACKUP", careful[p]
               PROVE  /\ step = page[p].step
                      /\ step = 1 => method \in Stepped.step_1
                      /\ step = 2 => method \in Stepped.step_2
    OBVIOUS
  <2>0. method \in Methods /\ method # "BACKUP" /\ careful[p]
    OBVIOUS
  <2>1. CarefulPage(page[p]) /\ page[p].method = method /\ method # None
    BY <1>2, <1>3, <2>0, NoneIsNothing
  <2>2. CASE page[p].step = 1
    BY <2>1, <2>2 DEF CarefulPage, StepOf
  <2>3. CASE page[p].step = 2
    <3>1. method \in Stepped.step_2 /\ method # "PASSWORD"
      BY <2>1, <2>3, SteppedType DEF CarefulPage
    <3>2. QED
      BY <2>3, <3>1 DEF StepOf
  <2>4. QED
    BY <1>2, <2>2, <2>3
<1> HIDE DEF step
<1>7. PICK c : c = Call("step", page[p].session, step, method, right)
  OBVIOUS
<1>8. /\ c \in Requests /\ c.to = "step" /\ c.session = page[p].session /\ c.step = step
      /\ c.method = method /\ c.status = None
  BY <1>3, <1>4, <1>7, CallShape
<1>9. CallInv(p, c) /\ (careful[p] => CarefulCall(page[p], c))
  BY <1>1, <1>2, <1>5, <1>6, <1>8, NoneIsNothing DEF CallInv, CarefulCall
<1>10. PICK g \in PageStates : g = [page[p] EXCEPT !.rejected = FALSE] /\ Same(g, page[p])
  <2>1. PICK g : g = [page[p] EXCEPT !.rejected = FALSE]
    OBVIOUS
  <2>2. g \in PageStates /\ Same(g, page[p])
    BY <1>3, <2>1, RejectedGone, FALSE \in BOOLEAN, Zenon
  <2>3. QED
    BY <2>1, <2>2
<1>11. count' \in Counts /\ count'.lost = count.lost
  <2>1. PICK w \in Nat : w = IF right THEN count.wrong ELSE count.wrong + 1
    <3>1. count.wrong \in Nat
      BY <1>3 DEF Counts
    <3>2. (IF right THEN count.wrong ELSE count.wrong + 1) \in Nat
      BY <3>1
    <3>3. QED
      BY <3>2
  <2>2. count' = [count EXCEPT !.wrong = w]
    BY <1>1, <2>1
  <2>3. QED
    BY <1>3, <2>2 DEF Counts
<1>12. /\ page[p].step \in 0 .. 2 /\ c.session <= Len(sessions)
       /\ calls' = [calls EXCEPT ![p] = Append(@, c)] /\ page' = [page EXCEPT ![p] = g]
  BY <1>1, <1>2, <1>3, <1>7, <1>8, <1>10
<1>13. QED
  BY <1>1, <1>2, <1>8, <1>9, <1>10, <1>11, <1>12, Asks

\* The pages these changes lead to.
LEMMA MethodShape ==
    ASSUME NEW h \in PageStates, NEW m \in Methods \cup {None}, NEW g, g = [h EXCEPT !.method = m]
    PROVE  /\ g \in PageStates /\ g.at = h.at /\ g.step = h.step /\ g.session = h.session
           /\ g.method = m
BY DEF PageStates

\* Neither does opening or closing the backup form.
LEMMA BackupShape ==
    ASSUME NEW h \in PageStates, NEW b \in BOOLEAN, NEW r \in BOOLEAN, NEW g,
           g = [h EXCEPT !.rejected = r, !.backup = b]
    PROVE  /\ g \in PageStates /\ g.at = h.at /\ g.step = h.step /\ g.session = h.session
           /\ g.method = h.method
BY DEF PageStates

\* A page that is put back to its beginning,
LEMMA EmptyShape ==
    ASSUME NEW at \in {"login", "home"}, NEW b \in BOOLEAN, NEW g,
           g = [at |-> at, step |-> 0, session |-> 0, method |-> None, backup |-> b, rejected |-> b]
    PROVE  g \in PageStates /\ g.at = at /\ g.step = 0 /\ g.session = 0 /\ g.method = None
BY DEF PageStates

\* and one that is opened.
LEMMA FreshShape ==
    /\ FreshPage \in PageStates /\ FreshPage.at = "login" /\ FreshPage.step = 0
    /\ FreshPage.session = 0 /\ FreshPage.method = None /\ CarefulPage(FreshPage)
<1>2. "login" \in {"login", "home"}
  OBVIOUS
<1>3. FreshPage \in PageStates /\ FreshPage.at = "login" /\ FreshPage.step = 0
      /\ FreshPage.session = 0 /\ FreshPage.method = None
  BY <1>2, EmptyShape, FALSE \in BOOLEAN, Zenon DEF FreshPage
<1>4. QED
  BY <1>3 DEF CarefulPage

\* What a careful page may pick from.
LEMMA OfferedSteps ==
    ASSUME SignInInv, NEW p \in Pages, page[p].session # 0
    PROVE  /\ Offered(p) = CASE page[p].step = 1 -> Stepped.step_1
                             [] page[p].step = 2 -> Stepped.step_2
                             [] OTHER            -> {}
<1>1. OfferInv /\ page[p].session \in 1 .. Len(sessions)
  BY TypedPage DEF SignInInv
<1>2. page[p].session \in DOMAIN sessions
  BY <1>1 DEF SignInInv, SignInTypeOK
<1>3. QED
  BY <1>1, <1>2 DEF Offered, OfferedBy, OfferInv

\* Picking a method keeps the invariant,
LEMMA Picks ==
    ASSUME SignInInv, NEW p \in Pages, Pick(p) PROVE SignInInv'
<1>1. PICK m \in Usable(Offered(p)) : page' = [page EXCEPT ![p] = [page[p] EXCEPT !.method = m]]
  BY DEF Pick
<1>2. page[p] \in PageStates /\ page[p].session <= Len(sessions)
      /\ (careful[p] => CarefulPage(page[p]))
  BY TypedPage
<1>3. page[p].at = "login" /\ page[p].step \in 1 .. 2
  BY ScreenFacts DEF Pick
<1>4. m \in Offered(p)
  BY DEF Usable
<1>5. page[p].session # 0
  BY <1>4 DEF Offered, OfferedBy
<1>6. /\ page[p].step = 1 => m \in Stepped.step_1
      /\ page[p].step = 2 => m \in Stepped.step_2
      /\ m \in Methods
  BY <1>3, <1>4, <1>5, OfferedSteps, SteppedType
<1>7. PICK g : g = [page[p] EXCEPT !.method = m]
  OBVIOUS
<1>8. g \in PageStates /\ g.at = page[p].at /\ g.step = page[p].step
      /\ g.session = page[p].session /\ g.method = m
  BY <1>2, <1>6, <1>7, MethodShape
<1>9. careful[p] => CarefulPage(g)
  BY <1>2, <1>3, <1>6, <1>8 DEF CarefulPage
<1>10. /\ page' = [page EXCEPT ![p] = g] /\ g.at = "login" /\ g.step \in 0 .. 2
       /\ g.session <= Len(sessions) /\ Does(p)
       /\ UNCHANGED <<scene, sessions, backup, calls, cookie, count>>
  <2>1. Does(p) /\ UNCHANGED <<scene, sessions, backup, calls, cookie, count>>
    BY DEF Pick
  <2>2. QED
    BY <1>1, <1>2, <1>3, <1>7, <1>8, <2>1
<1>11. QED
  BY <1>3, <1>8, <1>9, <1>10, Moves

\* opening the backup form,
LEMMA OpensBackup ==
    ASSUME SignInInv, NEW p \in Pages, OpenBackup(p) PROVE SignInInv'
<1>1. page[p] \in PageStates /\ page[p].session <= Len(sessions)
      /\ (careful[p] => CarefulPage(page[p]))
  BY TypedPage
<1>2. page[p].at = "login" /\ page[p].step \in 1 .. 2
  BY ScreenFacts DEF OpenBackup
<1>3. PICK g : g = [page[p] EXCEPT !.rejected = FALSE, !.backup = Web(p),
                                   !.method = IF Web(p) THEN page[p].method ELSE "BACKUP"]
  OBVIOUS
<1>4. PICK m \in Methods \cup {None} : m = IF Web(p) THEN page[p].method ELSE "BACKUP"
  BY <1>1, Fields DEF Methods
<1>5. g = [page[p] EXCEPT !.rejected = FALSE, !.backup = Web(p), !.method = m]
  BY <1>3, <1>4
<1>7. Web(p) \in BOOLEAN
  BY DEF Web
<1>8. g \in PageStates /\ g.at = page[p].at /\ g.step = page[p].step
      /\ g.session = page[p].session /\ g.method = m
  <2>1. PICK b \in BOOLEAN : b = Web(p)
    BY <1>7, Zenon
  <2>0. PICK r \in BOOLEAN : r = FALSE
    BY Zenon
  <2>2. g = [page[p] EXCEPT !.rejected = r, !.backup = b, !.method = m]
    BY <1>5, <2>0, <2>1, Zenon
  <2>3. page[p] \in PageStates /\ m \in Methods \cup {None}
    BY <1>1, <1>4
  <2>4. QED
    BY <2>2, <2>3 DEF PageStates
<1>9. careful[p] => CarefulPage(g)
  BY <1>1, <1>2, <1>4, <1>8 DEF CarefulPage
<1>10. /\ page' = [page EXCEPT ![p] = g] /\ g.at = "login" /\ g.step \in 0 .. 2
       /\ g.session <= Len(sessions) /\ Does(p)
       /\ UNCHANGED <<scene, sessions, backup, calls, cookie, count>>
  <2>1. /\ Does(p) /\ UNCHANGED <<scene, sessions, backup, calls, cookie, count>>
        /\ page' = [page EXCEPT ![p] =
              [page[p] EXCEPT !.rejected = FALSE, !.backup = Web(p),
                              !.method = IF Web(p) THEN page[p].method ELSE "BACKUP"]]
    BY DEF OpenBackup
  <2>2. QED
    BY <1>1, <1>2, <1>3, <1>8, <2>1
<1>11. QED
  BY <1>2, <1>8, <1>9, <1>10, Moves

\* closing it,
LEMMA ClosesBackup ==
    ASSUME SignInInv, NEW p \in Pages, CloseBackup(p) PROVE SignInInv'
<1>1. page[p] \in PageStates /\ page[p].session <= Len(sessions)
      /\ (careful[p] => CarefulPage(page[p]))
  BY TypedPage
<1>2. page[p].at = "login" /\ page[p].step \in 1 .. 2
  BY ScreenFacts DEF CloseBackup
<1>3. PICK g : g = [page[p] EXCEPT !.rejected = FALSE, !.backup = FALSE]
  OBVIOUS
<1>5. g \in PageStates /\ g.at = page[p].at /\ g.step = page[p].step
      /\ g.session = page[p].session /\ g.method = page[p].method
  <2>1. page[p] \in PageStates
    BY <1>1
  <2>2. QED
    BY <1>3, <2>1, BackupShape, FALSE \in BOOLEAN, Zenon
<1>6. careful[p] => CarefulPage(g)
  BY <1>1, <1>5 DEF CarefulPage
<1>7. /\ page' = [page EXCEPT ![p] = g] /\ g.at = "login" /\ g.step \in 0 .. 2
      /\ g.session <= Len(sessions) /\ Does(p)
      /\ UNCHANGED <<scene, sessions, backup, calls, cookie, count>>
  BY <1>1, <1>2, <1>3, <1>5 DEF CloseBackup
<1>8. QED
  BY <1>2, <1>5, <1>6, <1>7, Moves

\* and going back to the e-mail address.
LEMMA GoesBack ==
    ASSUME SignInInv, NEW p \in Pages, Back(p) PROVE SignInInv'
<1>1. page[p].at = "login" /\ Len(sessions) \in Nat
  BY ScreenFacts, TypedPage DEF Back
<1>2. /\ page' = [page EXCEPT ![p] = FreshPage] /\ Does(p)
      /\ UNCHANGED <<scene, sessions, backup, calls, cookie, count>>
  BY DEF Back
<1>3. PICK g \in PageStates : g = FreshPage
  BY FreshShape
<1>4. /\ page' = [page EXCEPT ![p] = g] /\ g.at = "login" /\ g.step \in 0 .. 2
      /\ g.session <= Len(sessions) /\ CarefulPage(g)
  BY <1>1, <1>2, <1>3, FreshShape
<1>5. QED
  BY <1>1, <1>2, <1>4, Moves
-----------------------------------------------------------------------------
(* What the server does. *)

\* The i-th request of a page is handled.
LEMMA Answers ==
    ASSUME SignInInv, NEW p \in Pages, NEW i \in DOMAIN calls[p],
           NEW d \in Requests, d.to = calls[p][i].to, d.session <= Len(sessions'),
           CallInv(p, d), Reply(p, i, d),
           sessions' \in Seq(LoginSessions), OfferInv', Grown,
           backup' \in BOOLEAN, backup' => backup,
           UNCHANGED <<scene, page, cookie, careful, count>>,
           careful[p] => CarefulCall(page[p], d)'
    PROVE  SignInInv'
<1>1. /\ page \in [Pages -> PageStates] /\ calls \in [Pages -> Seq(Requests)]
      /\ cookie \in [Pages -> BOOLEAN] /\ careful \in [Pages -> BOOLEAN]
      /\ sessions \in Seq(LoginSessions) /\ PageInv(p) /\ count \in Counts
      /\ Len(sessions) \in Nat /\ Len(sessions') \in Nat /\ Len(sessions) <= Len(sessions')
  BY DEF SignInInv, SignInTypeOK, Counts, Grown
<1>2. PICK cs : cs = [calls[p] EXCEPT ![i] = d]
  OBVIOUS
<1>3. /\ cs \in Seq(Requests) /\ DOMAIN cs = DOMAIN calls[p] /\ Len(cs) = Len(calls[p])
      /\ cs[i] = d /\ \A k \in DOMAIN calls[p] : k # i => cs[k] = calls[p][k]
      /\ i \in 1 .. Len(calls[p]) /\ Len(calls[p]) \in Nat
  BY <1>1, <1>2
<1>4. /\ calls' \in [Pages -> Seq(Requests)] /\ calls'[p] = cs
      /\ \A q \in Pages \ {p} : calls'[q] = calls[q]
  <2>1. calls' = [calls EXCEPT ![p] = cs]
    BY <1>1, <1>2 DEF Reply
  <2>2. QED
    BY <1>1, <1>3, <2>1, Updated
<1>5. Others(p)
  BY <1>1, <1>4 DEF Others
<1>6. ASSUME NEW k \in DOMAIN cs
      PROVE  cs[k].session <= Len(sessions') /\ CallInv(p, cs[k])'
  <2>1. CASE k = i
    BY <1>3, <2>1 DEF CallInv
  <2>2. CASE k # i
    <3>1. /\ calls[p][k].session <= Len(sessions) /\ CallInv(p, calls[p][k])
          /\ calls[p][k].session \in Nat /\ cs[k] = calls[p][k]
      <4>1. k \in DOMAIN calls[p] /\ cs[k] = calls[p][k]
        BY <1>3, <1>6, <2>2
      <4>2. calls[p][k] \in Requests
        BY <1>1, <4>1
      <4>3. QED
        BY <1>1, <4>1, <4>2 DEF PageInv, Requests
    <3>2. QED
      BY <1>1, <3>1 DEF CallInv
  <2>3. QED
    BY <2>1, <2>2
<1>7. WaitInv(p)'
  BY <1>1, <1>3, <1>4 DEF PageInv, WaitInv, Web
<1>8. TokenInv(p)'
  <2>1. page[p].at # "home"
    BY <1>1, <1>3 DEF PageInv, TokenInv
  <2>2. \A k \in DOMAIN calls[p] : cs[k].to = calls[p][k].to
    BY <1>3
  <2>3. QED
    BY <1>1, <1>3, <1>4, <2>1, <2>2 DEF PageInv, TokenInv
<1>9. ASSUME careful[p] PROVE CarefulInv(p)'
  <2>1. /\ CarefulPage(page[p]) /\ Len(calls[p]) <= 1
    BY <1>1, <1>9 DEF PageInv, CarefulInv, WaitInv
  <2>2. \A k \in DOMAIN cs : k = i
    BY <1>3, <2>1
  <2>3. CarefulPage(page[p])'
    <3>1. page[p].session \in Nat /\ page[p].session <= Len(sessions)
      BY TypedPage
    <3>2. page[p].session # 0 => page[p].session \in DOMAIN sessions
      BY <1>1, <3>1
    <3>3. Stepped' = Stepped
      BY SteppedStays
    <3>4. QED
      BY <2>1, <3>2, <3>3 DEF CarefulPage, Grown
  <2>4. QED
    BY <1>3, <1>4, <1>9, <2>2, <2>3 DEF CarefulInv
<1>10. page'[p].session <= Len(sessions')
  BY <1>1, TypedPage
<1>11. PageInv(p)'
  BY <1>4, <1>6, <1>7, <1>8, <1>9, <1>10 DEF PageInv, CarefulInv
<1>12. QED
  BY <1>1, <1>4, <1>5, <1>11, PageStep

Statuses == {None, "ok", "in", "more", "no", "gone"}

\* A reply is the request with its status.
LEMMA ReplyShape ==
    ASSUME NEW c \in Requests, NEW status \in Statuses, NEW d, d = [c EXCEPT !.status = status]
    PROVE  /\ d \in Requests /\ d.to = c.to /\ d.session = c.session /\ d.step = c.step
           /\ d.method = c.method /\ d.right = c.right /\ d.status = status
BY DEF Requests, Statuses

\* A login session as the server makes it.
LEMMA NewSessionShape ==
    ASSUME scene \in Scenes
    PROVE  NewSession \in LoginSessions
<1>1. scene.verified \in BOOLEAN
  BY SignInAssumption
<1>2. ASSUME NEW stored \in BOOLEAN, NEW passed \in BOOLEAN
      PROVE  [stored |-> stored, passed |-> passed, step_1 |-> Stepped.step_1,
              step_2 |-> Stepped.step_2] \in LoginSessions
  BY SteppedType DEF LoginSessions
<1>3. QED
  BY <1>1, <1>2, FALSE \in BOOLEAN, Zenon DEF NewSession

\* A session passes its first step.
Passing(ss, n, b) == [ss EXCEPT ![n].passed = @ \/ b]

\* A session whose first step is passed is otherwise the same.
LEMMA PassingShape ==
    ASSUME NEW ss \in Seq(LoginSessions), NEW n \in DOMAIN ss, NEW b \in BOOLEAN
    PROVE  /\ Passing(ss, n, b) \in Seq(LoginSessions) /\ Len(Passing(ss, n, b)) = Len(ss)
           /\ \A k \in DOMAIN ss : /\ Passing(ss, n, b)[k].step_1 = ss[k].step_1
                                   /\ Passing(ss, n, b)[k].step_2 = ss[k].step_2
                                   /\ ss[k].passed => Passing(ss, n, b)[k].passed
           /\ b => Passing(ss, n, b)[n].passed
<1>1. ss[n] \in LoginSessions
  OBVIOUS
<1>2. PICK v \in BOOLEAN : v <=> ss[n].passed \/ b
  OBVIOUS
<1>3. PICK e : e = [ss[n] EXCEPT !.passed = v]
  OBVIOUS
<1>4. e \in LoginSessions /\ e.step_1 = ss[n].step_1 /\ e.step_2 = ss[n].step_2 /\ e.passed = v
  BY <1>1, <1>3 DEF LoginSessions
<1>5. Passing(ss, n, b) = [ss EXCEPT ![n] = e]
  BY <1>2, <1>3 DEF Passing
<1>6. QED
  BY <1>2, <1>4, <1>5

\* The answer to a challenge of a careful page.
LEMMA CarefulStatus ==
    ASSUME SignInInv, NEW p \in Pages, careful[p], NEW i \in DOMAIN calls[p],
           calls[p][i].to = "step"
    PROVE  LET c == calls[p][i]
               s == sessions[c.session] IN
           /\ Status(c, s) = "more" => page[p].step = 1 /\ Stepped.step_2 # {}
           /\ Status(c, s) = "no" /\ c.right => c.method = "BACKUP" /\ ~backup
<1> DEFINE c == calls[p][i]
           s == sessions[c.session]
<1>1. CarefulPage(page[p]) /\ CarefulCall(page[p], c) /\ c.session # 0
      /\ c.session <= Len(sessions)
  BY DEF SignInInv, PageInv, CarefulInv, CallInv
<1>2. c \in Requests /\ sessions \in Seq(LoginSessions)
  <2>1. calls[p] \in Seq(Requests) /\ sessions \in Seq(LoginSessions)
    BY DEF SignInInv, SignInTypeOK
  <2>2. QED
    BY <2>1
<1>3. c.session \in DOMAIN sessions
  BY <1>1, <1>2 DEF Requests
<1>4. s.step_1 = Stepped.step_1 /\ s.step_2 = Stepped.step_2
  BY <1>3 DEF SignInInv, OfferInv
<1>5. c.session = page[p].session /\ page[p].step \in 1 .. 2
  BY <1>1 DEF CarefulPage, CarefulCall
<1>6. s.passed <=> sessions[page[p].session].passed
  BY <1>5
<1>7. ASSUME c.method = "BACKUP", c.step = 1
      PROVE  /\ Status(c, s) # "more"
             /\ Status(c, s) = "no" /\ c.right => ~backup
  BY <1>7 DEF Status
<1>8. ASSUME c.method # "BACKUP", c.step = 1, c.step = page[p].step, c.method \in Stepped.step_1
      PROVE  /\ Status(c, s) = "more" => Stepped.step_2 # {}
             /\ ~(Status(c, s) = "no" /\ c.right)
  BY <1>4, <1>8 DEF Status
<1>9. ASSUME c.method # "BACKUP", c.step = 2, c.step = page[p].step, c.method \in Stepped.step_2
      PROVE  Status(c, s) # "more" /\ ~(Status(c, s) = "no" /\ c.right)
  <2>1. s.passed
    BY <1>1, <1>6, <1>9 DEF CarefulPage
  <2>2. QED
    BY <1>4, <1>9, <2>1 DEF Status
<1>10. \/ c.method = "BACKUP" /\ c.step = 1
       \/ c.method # "BACKUP" /\ c.step = 1 /\ c.step = page[p].step /\ c.method \in Stepped.step_1
       \/ c.method # "BACKUP" /\ c.step = 2 /\ c.step = page[p].step /\ c.method \in Stepped.step_2
  BY <1>1, <1>5 DEF CarefulCall
<1>11. QED
  BY <1>7, <1>8, <1>9, <1>10

\* Handling a request keeps the invariant,
LEMMA HandleKeeps ==
    ASSUME SignInInv, NEW p \in Pages, Handle(p) PROVE SignInInv'
<1>1. PICK i \in DOMAIN calls[p] :
         LET c == calls[p][i] IN
         /\ Unhandled(c)
         /\ CASE c.to = "start" ->
                  /\ sessions' = Append(sessions, NewSession)
                  /\ Reply(p, i, [c EXCEPT !.status = "ok", !.session = Len(sessions) + 1])
                  /\ UNCHANGED backup
             [] c.to = "step" ->
                  LET status == Status(c, sessions[c.session]) IN
                  /\ Reply(p, i, [c EXCEPT !.status = status])
                  /\ sessions' = [sessions EXCEPT ![c.session].passed = @ \/ status = "more"]
                  /\ backup' = (backup /\ ~(c.method = "BACKUP" /\ status = "in"))
             [] c.to = "check" ->
                  /\ Reply(p, i, [c EXCEPT !.status = IF cookie[p] THEN "in" ELSE "no"])
                  /\ UNCHANGED <<sessions, backup>>
  BY DEF Handle
<1> DEFINE c == calls[p][i]
<1>2. UNCHANGED <<scene, page, cookie, careful, count>>
  BY DEF Handle
<1>3. /\ calls[p] \in Seq(Requests) /\ sessions \in Seq(LoginSessions) /\ Len(sessions) \in Nat
      /\ OfferInv /\ backup \in BOOLEAN /\ scene \in Scenes
      /\ CallInv(p, c) /\ c.session <= Len(sessions) /\ CarefulInv(p)
  BY DEF SignInInv, SignInTypeOK, PageInv
<1>4. c \in Requests /\ c.session \in Nat /\ c.to \in {"start", "step", "check"}
  <2>1. c \in Requests
    BY <1>3
  <2>2. QED
    BY <2>1 DEF Requests
<1>5. Stepped' = Stepped
  BY <1>2, SteppedStays
<1> HIDE DEF c
<1>6. CASE c.to = "start"
  <2>1. PICK d : d = [c EXCEPT !.status = "ok", !.session = Len(sessions) + 1]
    OBVIOUS
  <2>2. /\ d \in Requests /\ d.to = "start" /\ d.session = Len(sessions) + 1 /\ d.right = c.right
        /\ d.status = "ok"
    <3>1. PICK n \in Nat : n = Len(sessions) + 1
      BY <1>3
    <3>2. PICK ok \in Statuses : ok = "ok"
      BY DEF Statuses
    <3>3. d = [c EXCEPT !.status = ok, !.session = n]
      BY <2>1, <3>1, <3>2
    <3>4. QED
      BY <1>4, <1>6, <3>1, <3>2, <3>3 DEF Requests, Statuses
  <2>3. CallInv(p, d)
    BY <1>3, <1>6, <2>2, NoneIsNothing DEF CallInv
  <2>4. sessions' = Append(sessions, NewSession) /\ Reply(p, i, d) /\ backup' = backup
    BY <1>1, <1>6, <2>1 DEF c
  <2>5. NewSession \in LoginSessions /\ NewSession.step_1 = Stepped.step_1
        /\ NewSession.step_2 = Stepped.step_2
    BY <1>3, NewSessionShape DEF NewSession
  <2>6. /\ sessions' \in Seq(LoginSessions) /\ Len(sessions') = Len(sessions) + 1
        /\ \A n \in DOMAIN sessions : sessions'[n] = sessions[n]
        /\ \A n \in DOMAIN sessions' : n \in DOMAIN sessions \/ sessions'[n] = NewSession
    BY <1>3, <2>4, <2>5
  <2>7. OfferInv'
    BY <1>3, <1>5, <2>5, <2>6 DEF OfferInv
  <2>8. Grown /\ d.session <= Len(sessions') /\ d.to = calls[p][i].to
    BY <1>3, <1>6, <2>2, <2>6 DEF Grown, c
  <2>9. careful[p] => CarefulCall(page[p], d)'
    <3>1. careful[p] => CarefulCall(page[p], c)
      BY <1>3 DEF CarefulInv, c
    <3>2. QED
      BY <1>2, <1>6, <2>2, <3>1 DEF CarefulCall
  <2>10. QED
    BY <1>2, <1>3, <2>2, <2>3, <2>4, <2>6, <2>7, <2>8, <2>9, Answers
<1>7. CASE c.to = "step"
  <2>1. PICK status : status = Status(c, sessions[c.session])
    OBVIOUS
  <2>2. status \in {"in", "more", "no", "gone"}
    BY <2>1 DEF Status
  <2>3. PICK d : d = [c EXCEPT !.status = status]
    OBVIOUS
  <2>4. /\ d \in Requests /\ d.to = "step" /\ d.session = c.session /\ d.right = c.right
        /\ d.method = c.method /\ d.step = c.step /\ d.status = status
    BY <1>4, <1>7, <2>2, <2>3, ReplyShape DEF Statuses
  <2>5. CallInv(p, d)
    BY <1>3, <1>7, <2>4 DEF CallInv
  <2>6. c.session \in DOMAIN sessions
    BY <1>3, <1>4, <1>7 DEF CallInv
  <2>7. PICK more \in BOOLEAN : more <=> status = "more"
    OBVIOUS
  <2>8. /\ sessions' = Passing(sessions, c.session, more) /\ Reply(p, i, d)
        /\ backup' = (backup /\ ~(c.method = "BACKUP" /\ status = "in"))
    BY <1>1, <1>7, <2>1, <2>3, <2>7 DEF c, Passing
  <2>9. /\ sessions' \in Seq(LoginSessions) /\ Len(sessions') = Len(sessions)
        /\ \A n \in DOMAIN sessions : /\ sessions'[n].step_1 = sessions[n].step_1
                                      /\ sessions'[n].step_2 = sessions[n].step_2
                                      /\ sessions[n].passed => sessions'[n].passed
        /\ status = "more" => sessions'[c.session].passed
    <3>1. PICK n \in DOMAIN sessions : n = c.session
      BY <2>6
    <3>2. sessions' = Passing(sessions, n, more)
      BY <2>8, <3>1
    <3>3. QED
      BY <1>3, <2>7, <3>1, <3>2, PassingShape
  <2>10. OfferInv' /\ Grown
    BY <1>3, <1>5, <2>9 DEF OfferInv, Grown
  <2>11. backup' \in BOOLEAN /\ (backup' => backup)
    BY <1>3, <2>8
  <2>12. d.session <= Len(sessions') /\ d.to = calls[p][i].to
    BY <1>3, <1>7, <2>4, <2>9 DEF c
  <2>13. ASSUME careful[p] PROVE CarefulCall(page[p], d)'
    <3>1. CarefulCall(page[p], c)
      BY <1>3, <2>13 DEF CarefulInv, c
    <3>2. /\ status = "more" => page[p].step = 1 /\ Stepped.step_2 # {}
          /\ status = "no" /\ c.right => c.method = "BACKUP" /\ ~backup
      BY <1>7, <2>1, <2>13, CarefulStatus DEF c
    <3>3. c.session = page[p].session
      BY <1>7, <3>1 DEF CarefulCall
    <3>4. QED
      BY <1>2, <1>5, <1>7, <2>4, <2>9, <2>11, <3>1, <3>2, <3>3 DEF CarefulCall
  <2>14. QED
    BY <1>2, <2>4, <2>5, <2>8, <2>9, <2>10, <2>11, <2>12, <2>13, Answers
<1>8. CASE c.to = "check"
  <2>1. PICK d : d = [c EXCEPT !.status = IF cookie[p] THEN "in" ELSE "no"]
    OBVIOUS
  <2>2. cookie[p]
    BY <1>3, <1>8 DEF CallInv
  <2>3. d = [c EXCEPT !.status = "in"]
    BY <2>1, <2>2
  <2>4. d \in Requests /\ d.to = "check" /\ d.session = c.session /\ d.status = "in"
    BY <1>4, <1>8, <2>3, ReplyShape DEF Statuses
  <2>5. CallInv(p, d)
    BY <2>2, <2>4 DEF CallInv
  <2>6. Reply(p, i, d) /\ sessions' = sessions /\ backup' = backup
    BY <1>1, <1>8, <2>1 DEF c
  <2>7. OfferInv' /\ Grown /\ CarefulCall(page[p], d)'
    BY <1>3, <1>5, <2>4, <2>6 DEF OfferInv, Grown, CarefulCall
  <2>8. d.session <= Len(sessions') /\ d.to = calls[p][i].to
    BY <1>3, <1>8, <2>4, <2>6 DEF c
  <2>9. QED
    BY <1>2, <1>3, <2>4, <2>5, <2>6, <2>7, <2>8, Answers
<1>9. QED
  BY <1>4, <1>6, <1>7, <1>8

\* the expiry of the sessions,
LEMMA ExpireKeeps == SignInInv /\ Expire => SignInInv'
<1> SUFFICES ASSUME SignInInv, Expire PROVE SignInInv'
  OBVIOUS
<1>1. PICK n \in DOMAIN sessions : sessions' = [sessions EXCEPT ![n].stored = FALSE]
  BY DEF Expire
<1>2. /\ sessions \in Seq(LoginSessions) /\ OfferInv /\ count \in Counts /\ backup \in BOOLEAN
      /\ page \in [Pages -> PageStates] /\ calls \in [Pages -> Seq(Requests)]
      /\ cookie \in [Pages -> BOOLEAN] /\ careful \in [Pages -> BOOLEAN]
  BY DEF SignInInv, SignInTypeOK, Counts
<1>3. /\ sessions' \in Seq(LoginSessions) /\ Len(sessions') = Len(sessions)
      /\ \A k \in DOMAIN sessions : /\ sessions'[k].step_1 = sessions[k].step_1
                                    /\ sessions'[k].step_2 = sessions[k].step_2
                                    /\ sessions[k].passed => sessions'[k].passed
  <2>1. sessions[n] \in LoginSessions
    BY <1>1, <1>2
  <2>2. ASSUME NEW b \in BOOLEAN, NEW e, e = [sessions[n] EXCEPT !.stored = b]
        PROVE  /\ e \in LoginSessions /\ e.step_1 = sessions[n].step_1
               /\ e.step_2 = sessions[n].step_2 /\ (sessions[n].passed => e.passed)
    BY <2>1, <2>2 DEF LoginSessions
  <2>3. PICK e : e = [sessions[n] EXCEPT !.stored = FALSE]
    OBVIOUS
  <2>4. /\ e \in LoginSessions /\ e.step_1 = sessions[n].step_1
        /\ e.step_2 = sessions[n].step_2 /\ (sessions[n].passed => e.passed)
    BY <2>2, <2>3, FALSE \in BOOLEAN, Zenon
  <2>5. sessions' = [sessions EXCEPT ![n] = e]
    BY <1>1, <2>3
  <2>6. QED
    BY <1>2, <2>4, <2>5
<1>4. UNCHANGED <<scene, backup, page, calls, cookie, careful>> /\ count' \in Counts
      /\ count'.lost = count.lost
  <2>1. /\ UNCHANGED <<scene, backup, page, calls, cookie, careful>>
        /\ count' = [count EXCEPT !.expire = @ + 1]
    BY DEF Expire
  <2>2. PICK e \in Nat : e = count.expire + 1
    BY <1>2 DEF Counts
  <2>3. count' = [count EXCEPT !.expire = e]
    BY <2>1, <2>2
  <2>4. QED
    BY <1>2, <2>1, <2>3 DEF Counts
<1>5. OfferInv' /\ Grown
  <2>1. Stepped' = Stepped
    BY <1>4, SteppedStays
  <2>2. DOMAIN sessions' = DOMAIN sessions /\ Len(sessions) \in Nat
    BY <1>2, <1>3
  <2>3. QED
    BY <1>2, <1>3, <2>1, <2>2 DEF OfferInv, Grown
<1>6. \A q \in Pages : PageInv(q)'
  <2>1. ASSUME NEW q \in Pages PROVE PageInv(q)'
    BY <1>2, <1>3, <1>4, <1>5, OthersKeep
  <2>2. QED
    BY <2>1
<1>7. SignInTypeOK'
  BY <1>2, <1>3, <1>4, <1>6 DEF SignInInv, SignInTypeOK, PageInv
<1>8. QED
  BY <1>4, <1>5, <1>6, <1>7 DEF SignInInv, Counts
-----------------------------------------------------------------------------
(* What comes back. *)

\* The page g with the requests cs is one that p may become.
Follows(p, g, cs) ==
    /\ g.session <= Len(sessions) /\ Len(cs) <= Len(calls[p]) /\ g.step + Len(cs) <= 4
    /\ g.step >= 3 => ~Web(p) /\ g.method = None
    /\ \A k \in DOMAIN cs : \/ \E j \in DOMAIN calls[p] : cs[k] = calls[p][j]
                          \/ /\ cs[k].to = "check" /\ cs[k].status = None
                             /\ cs[k].session = 0 /\ cookie'[p]
    /\ g.at = "home" => cs = <<>>
    /\ cookie'[p] /\ count'.lost = 0 =>
          g.at = "home" \/ \E k \in DOMAIN cs : cs[k].to = "check"
    /\ careful'[p] => CarefulPage(g) /\ \A k \in DOMAIN cs : cs[k].to = "check"

\* A page takes an answer, or loses it, and has fewer requests or a check.
LEMMA Takes ==
    ASSUME SignInInv, NEW p \in Pages, NEW g \in PageStates, NEW cs \in Seq(Requests),
           page' = [page EXCEPT ![p] = g], calls' = [calls EXCEPT ![p] = cs],
           cookie' \in [Pages -> BOOLEAN], \A q \in Pages \ {p} : cookie'[q] = cookie[q],
           cookie[p] => cookie'[p],
           careful' \in [Pages -> BOOLEAN], \A q \in Pages \ {p} : careful'[q] = careful[q],
           careful'[p] => careful[p],
           UNCHANGED <<scene, sessions, backup>>,
           count' \in Counts, count'.lost = 0 => count.lost = 0,
           Follows(p, g, cs)
    PROVE  SignInInv'
<1>0. Follows(p, g, cs)
  OBVIOUS
<1>1. /\ page \in [Pages -> PageStates] /\ calls \in [Pages -> Seq(Requests)]
      /\ sessions \in Seq(LoginSessions) /\ backup \in BOOLEAN /\ OfferInv /\ PageInv(p)
      /\ Len(sessions) \in Nat
  BY DEF SignInInv, SignInTypeOK
<1>2. /\ page' \in [Pages -> PageStates] /\ page'[p] = g
      /\ \A q \in Pages \ {p} : page'[q] = page[q]
  BY <1>1, Updated
<1>3. /\ calls' \in [Pages -> Seq(Requests)] /\ calls'[p] = cs
      /\ \A q \in Pages \ {p} : calls'[q] = calls[q]
  BY <1>1, Updated
<1>4. Others(p)
  BY <1>2, <1>3 DEF Others
<1>5. Stepped' = Stepped /\ Web(p)' = Web(p)
  BY SteppedStays DEF Web
<1>6. Grown /\ OfferInv'
  BY <1>1, <1>5 DEF Grown, OfferInv
<1>7. ASSUME NEW k \in DOMAIN cs
      PROVE  cs[k].session <= Len(sessions') /\ CallInv(p, cs[k])'
  <2>1. CASE \E j \in DOMAIN calls[p] : cs[k] = calls[p][j]
    <3>1. PICK j \in DOMAIN calls[p] : cs[k] = calls[p][j]
      BY <2>1
    <3>2. calls[p][j].session <= Len(sessions) /\ CallInv(p, calls[p][j])
      BY <1>1 DEF PageInv
    <3>3. QED
      BY <3>1, <3>2 DEF CallInv
  <2>2. CASE ~\E j \in DOMAIN calls[p] : cs[k] = calls[p][j]
    BY <1>0, <1>1, <1>7, <2>2 DEF CallInv, Follows
  <2>3. QED
    BY <2>1, <2>2
<1>8. WaitInv(p)'
  <2>1. Len(calls[p]) \in Nat /\ Len(cs) \in Nat /\ WaitInv(p)
    BY <1>1 DEF PageInv
  <2>2. QED
    BY <1>0, <1>2, <1>3, <1>5, <2>1 DEF WaitInv, Follows
<1>9. TokenInv(p)'
  BY <1>0, <1>2, <1>3 DEF TokenInv, Follows
<1>10. ASSUME careful'[p] PROVE CarefulInv(p)'
  <2>1. CarefulPage(g)'
    BY <1>0, <1>5, <1>10 DEF CarefulPage, Follows
  <2>2. ASSUME NEW k \in DOMAIN cs PROVE CarefulCall(g, cs[k])'
    BY <1>0, <1>10, <2>2 DEF CarefulCall, Follows
  <2>3. QED
    BY <1>2, <1>3, <2>1, <2>2 DEF CarefulInv
<1>11. PageInv(p)'
  BY <1>0, <1>2, <1>3, <1>7, <1>8, <1>9, <1>10 DEF PageInv, CarefulInv, Follows
<1>12. QED
  BY <1>1, <1>2, <1>3, <1>4, <1>6, <1>11, PageStep

\* A page that has gone no further waits for one answer fewer.
LEMMA FewerLeft ==
    ASSUME NEW step \in 0 .. 4, NEW next \in 0 .. 4, NEW before \in Nat, NEW after \in Nat,
           next <= step, after = before - 1, step + before <= 4
    PROVE  next + after <= 4
OBVIOUS

\* and the loss of an answer.
LEMMA LoseKeeps ==
    ASSUME SignInInv, NEW p \in Pages, Lose(p) PROVE SignInInv'
<1>1. PICK i \in DOMAIN calls[p] :
         /\ page' = [page EXCEPT ![p] = IF calls[p][i].to = "check" THEN FreshPage ELSE page[p]]
         /\ calls' = [calls EXCEPT ![p] = RemoveAt(calls[p], i)]
  BY DEF Lose
<1>2. /\ count' = [count EXCEPT !.lost = @ + 1]
      /\ UNCHANGED <<scene, sessions, backup, cookie, careful>>
  BY DEF Lose
<1>3. /\ page[p] \in PageStates /\ calls[p] \in Seq(Requests) /\ count \in Counts
      /\ cookie \in [Pages -> BOOLEAN] /\ careful \in [Pages -> BOOLEAN]
      /\ page[p].session <= Len(sessions) /\ Len(sessions) \in Nat
      /\ WaitInv(p) /\ TokenInv(p) /\ (careful[p] => CarefulPage(page[p]))
  BY TypedPage DEF SignInInv, SignInTypeOK
<1>4. PICK g : g = IF calls[p][i].to = "check" THEN FreshPage ELSE page[p]
  OBVIOUS
<1>5. PICK cs : cs = RemoveAt(calls[p], i)
  OBVIOUS
<1>6. /\ cs \in Seq(Requests) /\ Len(cs) = Len(calls[p]) - 1
      /\ \A k \in DOMAIN cs : \E j \in DOMAIN calls[p] : cs[k] = calls[p][j]
      /\ Len(calls[p]) \in Nat /\ calls[p] # <<>>
  <2>1. PICK s \in Seq(Requests) : s = calls[p] /\ i \in DOMAIN s
    BY <1>3
  <2>2. /\ RemoveAt(s, i) \in Seq(Requests) /\ Len(RemoveAt(s, i)) = Len(s) - 1
        /\ \A k \in DOMAIN RemoveAt(s, i) : \E j \in DOMAIN s : RemoveAt(s, i)[k] = s[j]
    BY <2>1, RemovedAt
  <2>3. Len(s) \in Nat /\ s # <<>>
    BY <2>1
  <2>4. QED
    BY <1>5, <2>1, <2>2, <2>3
<1>7. /\ g \in PageStates /\ g.session <= Len(sessions) /\ g.at # "home"
      /\ g.step <= page[p].step /\ (careful[p] => CarefulPage(g))
      /\ g.step >= 3 => ~Web(p) /\ g.method = None
  <2>1. page[p].at # "home"
    BY <1>3, <1>6 DEF TokenInv
  <2>2. page[p].step \in 0 .. 4
    BY <1>3, Fields
  <2>3. QED
    BY <1>3, <1>4, <2>1, <2>2, FreshShape DEF WaitInv
<1>8. count' \in Counts /\ count'.lost # 0
  <2>1. PICK n \in Nat : n = count.lost + 1 /\ n # 0
    BY <1>3 DEF Counts
  <2>2. count' = [count EXCEPT !.lost = n]
    BY <1>2, <2>1
  <2>3. QED
    BY <1>3, <2>1, <2>2 DEF Counts
<1>9. careful[p] => cs = <<>>
  BY <1>3, <1>5, NoneLeft DEF WaitInv
<1>10. g.step + Len(cs) <= 4
  <2>1. page[p].step + Len(calls[p]) <= 4 /\ page[p].step \in 0 .. 4 /\ g.step \in 0 .. 4
    BY <1>3, <1>7, Fields DEF WaitInv
  <2>2. Len(calls[p]) \in Nat /\ Len(cs) \in Nat /\ Len(cs) = Len(calls[p]) - 1 /\ g.step <= page[p].step
    BY <1>6, <1>7
  <2>3. QED
    BY <2>1, <2>2, FewerLeft
<1>11. page' = [page EXCEPT ![p] = g] /\ calls' = [calls EXCEPT ![p] = cs]
  BY <1>1, <1>4, <1>5
<1>12. /\ cookie' \in [Pages -> BOOLEAN] /\ \A q \in Pages \ {p} : cookie'[q] = cookie[q]
       /\ cookie[p] => cookie'[p]
  BY <1>2, <1>3
<1>13. /\ careful' \in [Pages -> BOOLEAN] /\ \A q \in Pages \ {p} : careful'[q] = careful[q]
       /\ careful'[p] => careful[p]
  BY <1>2, <1>3
<1>14. careful'[p] => CarefulPage(g) /\ \A k \in DOMAIN cs : cs[k].to = "check"
  BY <1>7, <1>9, <1>13
<1>15. Len(cs) <= Len(calls[p])
  BY <1>6
<1>16. Follows(p, g, cs)
  BY <1>6, <1>7, <1>8, <1>10, <1>14, <1>15 DEF Follows
<1>17. QED
  BY <1>2, <1>6, <1>7, <1>8, <1>11, <1>12, <1>13, <1>16, Takes

\* The page after its last answer: signed in or back at the beginning,
LEMMA FinishedShape ==
    ASSUME NEW p \in Pages, NEW known \in BOOLEAN, NEW g, g = Finished(p, known)
    PROVE  /\ g \in PageStates /\ g.at = (IF known THEN "home" ELSE "login") /\ g.step = 0
           /\ g.session = 0 /\ g.method = None /\ CarefulPage(g)
<1>1. PICK at \in {"login", "home"} : at = IF known THEN "home" ELSE "login"
  OBVIOUS
<1>2. g = [FreshPage EXCEPT !.at = at]
  BY <1>1 DEF Finished
<1>3. ASSUME NEW h \in PageStates, g = [h EXCEPT !.at = at]
      PROVE  /\ g \in PageStates /\ g.at = at /\ g.step = h.step /\ g.session = h.session
             /\ g.method = h.method
  BY <1>3 DEF PageStates
<1>4. /\ g \in PageStates /\ g.at = at /\ g.step = 0 /\ g.session = 0 /\ g.method = None
  BY <1>2, <1>3, FreshShape
<1>5. QED
  BY <1>1, <1>4 DEF CarefulPage

\* The old page goes one step further.
LEMMA FurtherShape ==
    ASSUME SignInInv, NEW p \in Pages, page[p].step <= 3, NEW g, g = OneStepFurther(p)
    PROVE  /\ g \in PageStates /\ g.at = page[p].at /\ g.session = page[p].session
           /\ g.step = page[p].step + 1 /\ (g.step >= 3 => g.method = None)
           /\ page[p].step = 1 /\ page[p].session # 0 => g.method \in Stepped.step_2 \cup {None}
<1>1. page[p] \in PageStates /\ page[p].step \in 0 .. 3 /\ page[p].session <= Len(sessions)
      /\ sessions \in Seq(LoginSessions) /\ OfferInv /\ page[p].session \in Nat
  BY TypedPage, Fields DEF SignInInv, SignInTypeOK
<1>2. PICK k \in 1 .. 4 : k = page[p].step + 1
  BY <1>1
<1>3. PICK o : o = OfferedBy(page[p].session, k)
  OBVIOUS
<1>4. /\ o \in SUBSET Methods /\ (k >= 3 => o = {})
      /\ k = 2 /\ page[p].session # 0 => o = Stepped.step_2
  <2>1. page[p].session # 0 => page[p].session \in DOMAIN sessions
    BY <1>1
  <2>2. page[p].session # 0 => /\ sessions[page[p].session].step_1 = Stepped.step_1
                               /\ sessions[page[p].session].step_2 = Stepped.step_2
    BY <1>1, <2>1 DEF OfferInv
  <2>3. QED
    BY <1>2, <1>3, <2>2, SteppedType DEF OfferedBy
<1>5. PICK m \in Methods \cup {None} : /\ m = AutoSelect(o) /\ m \in o \cup {None}
                                       /\ (o = {} => m = None)
  BY <1>4, AutoIsUsable, AutoOfNothing
<1>6. g = [page[p] EXCEPT !.step = k, !.method = m]
  BY <1>2, <1>3, <1>5 DEF OneStepFurther
<1>9. PICK j \in 0 .. 4 : j = k
  OBVIOUS
<1>7. g \in PageStates /\ g.at = page[p].at /\ g.step = k /\ g.session = page[p].session
      /\ g.method = m
  <2>1. g = [page[p] EXCEPT !.step = j, !.method = m]
    BY <1>6, <1>9, Zenon
  <2>2. g \in PageStates /\ g.at = page[p].at /\ g.step = j /\ g.session = page[p].session
        /\ g.method = m
    BY <1>1, <2>1 DEF PageStates
  <2>3. QED
    BY <1>9, <2>2
<1>8. QED
  BY <1>1, <1>2, <1>4, <1>5, <1>7

\* The new card goes to the second factor.
LEMMA SecondFactorShape ==
    ASSUME SignInInv, NEW p \in Pages, NEW g, g = SecondFactor(p)
    PROVE  /\ g \in PageStates /\ g.at = page[p].at /\ g.session = page[p].session /\ g.step = 2
           /\ page[p].session # 0 => g.method \in Stepped.step_2 \cup {None}
<1>1. page[p] \in PageStates /\ page[p].session <= Len(sessions) /\ page[p].session \in Nat
      /\ sessions \in Seq(LoginSessions) /\ OfferInv /\ page[p].method \in Methods \cup {None}
  BY TypedPage, Fields DEF SignInInv, SignInTypeOK
<1>2. PICK s : s = page[p].session
  OBVIOUS
<1>3. s # 0 => sessions[s].step_2 = Stepped.step_2
  <2>1. s # 0 => s \in DOMAIN sessions
    BY <1>1, <1>2
  <2>2. QED
    BY <1>1, <2>1 DEF OfferInv
<1>4. PICK m \in Methods \cup {None} :
         /\ m = IF s = 0 THEN page[p].method ELSE AutoSelect(sessions[s].step_2)
         /\ s # 0 => m \in Stepped.step_2 \cup {None}
  BY <1>1, <1>3, SteppedType, AutoIsUsable
<1>5. g = [page[p] EXCEPT !.step = 2, !.backup = FALSE, !.method = m]
  BY <1>2, <1>4 DEF SecondFactor
<1>6. PICK k \in 0 .. 4 : k = 2
  OBVIOUS
<1>7. PICK b \in BOOLEAN : b = FALSE
  BY Zenon
<1>8. g = [page[p] EXCEPT !.step = k, !.backup = b, !.method = m]
  BY <1>5, <1>6, <1>7, Zenon
<1>9. g \in PageStates /\ g.at = page[p].at /\ g.step = k /\ g.session = page[p].session
      /\ g.method = m
  BY <1>1, <1>8 DEF PageStates
<1>10. QED
  BY <1>2, <1>4, <1>6, <1>9

\* A session begins.
LEMMA BeginSessionShape ==
    ASSUME SignInInv, NEW p \in Pages, NEW n \in DOMAIN sessions, NEW g, g = BeginSession(p, n)
    PROVE  /\ g \in PageStates /\ g.at = page[p].at /\ g.session = n /\ g.step = 1
           /\ page[p].method = None => g.method \in Stepped.step_1 \cup {None}
<1>1. page[p] \in PageStates /\ sessions \in Seq(LoginSessions) /\ OfferInv
      /\ page[p].method \in Methods \cup {None}
  BY TypedPage, Fields DEF SignInInv, SignInTypeOK
<1>2. n \in Nat /\ sessions[n].step_1 = Stepped.step_1
  BY <1>1 DEF OfferInv
<1>3. PICK auto \in Methods \cup {None} : /\ auto = AutoSelect(sessions[n].step_1)
                                          /\ auto \in Stepped.step_1 \cup {None}
  BY <1>2, SteppedType, AutoIsUsable
<1>4. PICK m \in Methods \cup {None} :
         /\ m = IF Web(p) \/ auto # None THEN auto ELSE page[p].method
         /\ page[p].method = None => m \in Stepped.step_1 \cup {None}
  <2>1. CASE Web(p) \/ auto # None
    BY <1>3, <2>1
  <2>2. CASE ~(Web(p) \/ auto # None)
    BY <1>1, <2>2
  <2>3. QED
    BY <2>1, <2>2
<1>5. g = [page[p] EXCEPT !.step = 1, !.session = n, !.method = m]
  BY <1>3, <1>4 DEF BeginSession
<1>6. PICK k \in 0 .. 4 : k = 1
  OBVIOUS
<1>7. g = [page[p] EXCEPT !.step = k, !.session = n, !.method = m]
  BY <1>5, <1>6, Zenon
<1>8. g \in PageStates /\ g.at = page[p].at /\ g.step = k /\ g.session = n /\ g.method = m
  BY <1>1, <1>2, <1>7 DEF PageStates
<1>9. QED
  BY <1>4, <1>6, <1>8

\* An answer other than to a check goes, and the page is one step further at most.
LEMMA TakesOne ==
    ASSUME SignInInv, NEW p \in Pages, NEW i \in DOMAIN calls[p], calls[p][i].to # "check",
           NEW g \in PageStates, page' = [page EXCEPT ![p] = g],
           calls' = [calls EXCEPT ![p] = RemoveAt(calls[p], i)],
           UNCHANGED <<scene, sessions, backup, count>>,
           NEW b \in BOOLEAN, cookie' = [cookie EXCEPT ![p] = b], b <=> cookie[p],
           NEW d \in BOOLEAN, careful' = [careful EXCEPT ![p] = d], d => careful[p],
           g.at = "login", g.session <= Len(sessions), g.step + Len(calls[p]) <= 5,
           g.step >= 3 => ~Web(p) /\ g.method = None,
           d => CarefulPage(g)
    PROVE  SignInInv'
<1>1. /\ page[p] \in PageStates /\ calls[p] \in Seq(Requests) /\ count \in Counts
      /\ cookie \in [Pages -> BOOLEAN] /\ careful \in [Pages -> BOOLEAN]
      /\ WaitInv(p) /\ TokenInv(p)
  BY TypedPage DEF SignInInv, SignInTypeOK
<1>2. PICK cs : cs = RemoveAt(calls[p], i)
  OBVIOUS
<1>3. /\ cs \in Seq(Requests) /\ Len(cs) = Len(calls[p]) - 1
      /\ \A k \in DOMAIN cs : \E j \in DOMAIN calls[p] : cs[k] = calls[p][j]
      /\ \A j \in DOMAIN calls[p] : j # i => \E k \in DOMAIN cs : cs[k] = calls[p][j]
      /\ Len(calls[p]) \in Nat /\ calls[p] # <<>>
  <2>1. PICK s \in Seq(Requests) : s = calls[p] /\ i \in DOMAIN s
    BY <1>1
  <2>2. /\ RemoveAt(s, i) \in Seq(Requests) /\ Len(RemoveAt(s, i)) = Len(s) - 1
        /\ \A k \in DOMAIN RemoveAt(s, i) : \E j \in DOMAIN s : RemoveAt(s, i)[k] = s[j]
        /\ \A j \in DOMAIN s : j # i => \E k \in DOMAIN RemoveAt(s, i) : RemoveAt(s, i)[k] = s[j]
    BY <2>1, RemovedAt
  <2>3. Len(s) \in Nat /\ s # <<>>
    BY <2>1
  <2>4. QED
    BY <1>2, <2>1, <2>2, <2>3
<1>4. careful[p] => cs = <<>>
  BY <1>1, <1>2, NoneLeft DEF WaitInv
<1>5. g.step + Len(cs) <= 4
  <2>1. g.step \in 0 .. 4
    BY Fields
  <2>2. QED
    BY <1>3, <2>1
<1>6. /\ cookie' \in [Pages -> BOOLEAN] /\ cookie'[p] = b
      /\ \A q \in Pages \ {p} : cookie'[q] = cookie[q]
  BY <1>1, Updated
<1>7. /\ careful' \in [Pages -> BOOLEAN] /\ careful'[p] = d
      /\ \A q \in Pages \ {p} : careful'[q] = careful[q]
  BY <1>1, Updated
<1>8. ASSUME cookie'[p], count'.lost = 0
      PROVE  \E k \in DOMAIN cs : cs[k].to = "check"
  <2>1. page[p].at = "home" \/ \E j \in DOMAIN calls[p] : calls[p][j].to = "check"
    BY <1>1, <1>6, <1>8 DEF TokenInv
  <2>2. page[p].at # "home"
    BY <1>1, <1>3 DEF TokenInv
  <2>3. PICK j \in DOMAIN calls[p] : calls[p][j].to = "check" /\ j # i
    BY <2>1, <2>2
  <2>4. QED
    BY <1>3, <2>3
<1>9. calls' = [calls EXCEPT ![p] = cs]
  BY <1>2
<1>10. careful'[p] => CarefulPage(g) /\ \A k \in DOMAIN cs : cs[k].to = "check"
  BY <1>4, <1>7
<1>11. count' \in Counts /\ (count'.lost = 0 => count.lost = 0) /\ Len(cs) <= Len(calls[p])
       /\ (g.at = "home" => cs = <<>>) /\ (cookie[p] => cookie'[p])
       /\ (careful'[p] => careful[p]) /\ UNCHANGED <<scene, sessions, backup>>
  BY <1>1, <1>3, <1>6, <1>7
<1>12. Follows(p, g, cs)
  BY <1>3, <1>5, <1>8, <1>10, <1>11 DEF Follows
<1>13. QED
  BY <1>3, <1>6, <1>7, <1>9, <1>11, <1>12, Takes

EndsAt(p, i, g, cs) ==
    \/ /\ cs = <<>> /\ g.at = "home" /\ g.step = 0 /\ g.session = 0 /\ CarefulPage(g)
    \/ /\ g = page[p] /\ page[p].at = "login" /\ Len(cs) = Len(calls[p])
       /\ cs[i].to = "check" /\ cs[i].status = None /\ cs[i].session = 0
       /\ \A k \in DOMAIN calls[p] : k # i => cs[k] = calls[p][k]

\* An answer that ends the login: the old page is gone, the new one asks again.
LEMMA TakesLast ==
    ASSUME SignInInv, NEW p \in Pages, NEW i \in DOMAIN calls[p],
           NEW g \in PageStates, page' = [page EXCEPT ![p] = g],
           NEW cs \in Seq(Requests), calls' = [calls EXCEPT ![p] = cs],
           UNCHANGED <<scene, sessions, backup, count>>,
           NEW b \in BOOLEAN, cookie' = [cookie EXCEPT ![p] = b], b,
           NEW d \in BOOLEAN, careful' = [careful EXCEPT ![p] = d], d => careful[p],
           EndsAt(p, i, g, cs)
    PROVE  SignInInv'
<1>0. \/ /\ cs = <<>> /\ g.at = "home" /\ g.step = 0 /\ g.session = 0 /\ CarefulPage(g)
      \/ /\ g = page[p] /\ page[p].at = "login" /\ Len(cs) = Len(calls[p])
         /\ cs[i].to = "check" /\ cs[i].status = None /\ cs[i].session = 0
         /\ \A k \in DOMAIN calls[p] : k # i => cs[k] = calls[p][k]
  BY DEF EndsAt
<1>1. /\ page[p] \in PageStates /\ calls[p] \in Seq(Requests) /\ count \in Counts
      /\ cookie \in [Pages -> BOOLEAN] /\ careful \in [Pages -> BOOLEAN]
      /\ page[p].session <= Len(sessions) /\ Len(sessions) \in Nat
      /\ WaitInv(p) /\ (careful[p] => CarefulPage(page[p]))
  BY TypedPage DEF SignInInv, SignInTypeOK
<1>2. Len(calls[p]) \in Nat /\ DOMAIN calls[p] = 1 .. Len(calls[p]) /\ DOMAIN cs = 1 .. Len(cs)
      /\ Len(cs) \in Nat
  BY <1>1
<1>3. /\ cookie' \in [Pages -> BOOLEAN] /\ cookie'[p] = b
      /\ \A q \in Pages \ {p} : cookie'[q] = cookie[q]
  BY <1>1, Updated
<1>4. /\ careful' \in [Pages -> BOOLEAN] /\ careful'[p] = d
      /\ \A q \in Pages \ {p} : careful'[q] = careful[q]
  BY <1>1, Updated
<1>5. /\ g.session <= Len(sessions) /\ Len(cs) <= Len(calls[p]) /\ g.step + Len(cs) <= 4
      /\ g.step >= 3 => ~Web(p) /\ g.method = None
      /\ g.at = "home" => cs = <<>>
  BY <1>0, <1>1, <1>2 DEF WaitInv
<1>6. \A k \in DOMAIN cs : \/ \E j \in DOMAIN calls[p] : cs[k] = calls[p][j]
                           \/ cs[k].to = "check" /\ cs[k].status = None /\ cs[k].session = 0
                              /\ cookie'[p]
  <2>1. CASE cs = <<>>
    BY <2>1
  <2>2. CASE cs # <<>>
    <3>1. ASSUME NEW k \in DOMAIN cs, k # i PROVE \E j \in DOMAIN calls[p] : cs[k] = calls[p][j]
      BY <1>0, <1>2, <2>2, <3>1
    <3>2. cs[i].to = "check" /\ cs[i].status = None /\ cs[i].session = 0 /\ cookie'[p]
      BY <1>0, <1>3, <2>2
    <3>3. QED
      BY <3>1, <3>2
  <2>3. QED
    BY <2>1, <2>2
<1>7. g.at = "home" \/ \E k \in DOMAIN cs : cs[k].to = "check"
  BY <1>0, <1>2
<1>8. /\ careful'[p] => careful[p]
      /\ careful'[p] => CarefulPage(g) /\ \A k \in DOMAIN cs : cs[k].to = "check"
  <2>1. careful[p] => \A k \in DOMAIN cs : k = i
    BY <1>0, <1>1, <1>2 DEF WaitInv
  <2>2. QED
    BY <1>0, <1>1, <1>4, <2>1
<1>9. /\ count' \in Counts /\ (count'.lost = 0 => count.lost = 0) /\ (cookie[p] => cookie'[p])
      /\ UNCHANGED <<scene, sessions, backup>>
      /\ cookie'[p] /\ count'.lost = 0 => g.at = "home" \/ \E k \in DOMAIN cs : cs[k].to = "check"
  BY <1>0, <1>1, <1>3, <1>7
<1>10. Follows(p, g, cs)
  BY <1>5, <1>6, <1>8, <1>9 DEF Follows
<1>11. QED
  BY <1>3, <1>4, <1>8, <1>9, <1>10, Takes

\* A page that waits has not gone too far.
LEMMA WaitsForSome ==
    ASSUME SignInInv, NEW p \in Pages, NEW i \in DOMAIN calls[p]
    PROVE  /\ page[p].step \in 0 .. 3 /\ 2 + Len(calls[p]) <= 5
           /\ page[p].step + 1 + Len(calls[p]) <= 5
<1>1. Len(calls[p]) \in Nat /\ Len(calls[p]) >= 1
  BY DEF SignInInv, SignInTypeOK
<1>2. page[p].step \in 0 .. 4 /\ Len(calls[p]) <= 2 /\ page[p].step + Len(calls[p]) <= 4
  BY TypedPage, Fields DEF WaitInv
<1>3. QED
  BY <1>1, <1>2

\* The answer to the check of who is signed in.
LEMMA TakesCheck ==
    ASSUME NEW p, NEW c, c.to = "check" PROVE Taken(p, c) = Finished(p, c.status = "in")
BY DEF Taken

\* No request at all is a list of requests.
LEMMA NothingAsked == <<>> \in Seq(Requests)
OBVIOUS

\* Taking an answer keeps the invariant.
LEMMA ReceiveKeeps ==
    ASSUME SignInInv, NEW p \in Pages, Receive(p) PROVE SignInInv'
<1>1. PICK i \in DOMAIN calls[p] :
         LET c == calls[p][i]
             signedIn == c.to = "step" /\ c.status = "in" IN
         /\ ~Unhandled(c) /\ page[p].at = "login"
         /\ page' = [page EXCEPT ![p] = Taken(p, c)]
         /\ cookie' = [cookie EXCEPT ![p] = @ \/ signedIn]
         /\ calls' = [calls EXCEPT ![p] =
               IF signedIn THEN IF Web(p) THEN [@ EXCEPT ![i] = Call("check", 0, 0, None, TRUE)]
                                          ELSE <<>>
               ELSE IF c.to = "check" THEN <<>> ELSE RemoveAt(@, i)]
         /\ careful' = [careful EXCEPT ![p] =
               @ /\ ~(Legacy(p) /\ c.method = "BACKUP" /\ c.status \notin {"in", "more"})]
  BY DEF Receive
<1>2. PICK c : c = calls[p][i]
  OBVIOUS
<1>3. UNCHANGED <<scene, sessions, backup, count>>
  BY DEF Receive
<1>4. PICK done \in BOOLEAN : done <=> c.to = "step" /\ c.status = "in"
  OBVIOUS
<1>5. /\ calls \in [Pages -> Seq(Requests)] /\ calls[p] \in Seq(Requests)
      /\ sessions \in Seq(LoginSessions) /\ page[p] \in PageStates
      /\ cookie \in [Pages -> BOOLEAN] /\ careful \in [Pages -> BOOLEAN]
      /\ CallInv(p, c) /\ c.session <= Len(sessions) /\ WaitInv(p) /\ TokenInv(p) /\ CarefulInv(p)
      /\ page[p].session <= Len(sessions) /\ Len(sessions) \in Nat
      /\ c.status # None /\ page[p].at = "login"
  BY <1>1, <1>2, TypedPage DEF SignInInv, SignInTypeOK, PageInv, Unhandled
<1>6. c \in Requests /\ c.session \in Nat /\ c.to \in {"start", "step", "check"}
  <2>1. c \in Requests
    BY <1>2, <1>5
  <2>2. QED
    BY <2>1 DEF Requests
<1>7. PICK b \in BOOLEAN : b <=> cookie[p] \/ done
  OBVIOUS
<1>8. PICK d \in BOOLEAN :
         d <=> careful[p] /\ ~(Legacy(p) /\ c.method = "BACKUP" /\ c.status \notin {"in", "more"})
  OBVIOUS
<1>9. /\ page' = [page EXCEPT ![p] = Taken(p, c)]
      /\ cookie' = [cookie EXCEPT ![p] = b] /\ careful' = [careful EXCEPT ![p] = d]
  BY <1>1, <1>2, <1>4, <1>5, <1>7, <1>8
<1>10. PICK g : g = Taken(p, c)
  OBVIOUS
<1>11. page' = [page EXCEPT ![p] = g] /\ (d => careful[p])
  BY <1>8, <1>9, <1>10
<1>12. /\ page[p].step \in 0 .. 3 /\ 2 + Len(calls[p]) <= 5
       /\ page[p].step + 1 + Len(calls[p]) <= 5
  BY WaitsForSome
<1>13. careful[p] => CarefulPage(page[p]) /\ CarefulCall(page[p], c)
  BY <1>2, <1>5 DEF CarefulInv
<1>14. ASSUME c.to # "check", ~done, g \in PageStates, g.at = "login", g.session <= Len(sessions),
              g.step + Len(calls[p]) <= 5, g.step >= 3 => ~Web(p) /\ g.method = None,
              d => CarefulPage(g)
       PROVE  SignInInv'
  <2>1. calls' = [calls EXCEPT ![p] = RemoveAt(calls[p], i)]
    BY <1>1, <1>2, <1>4, <1>5, <1>14
  <2>2. (b <=> cookie[p]) /\ calls[p][i].to # "check"
    BY <1>2, <1>7, <1>14
  <2>3. QED
    BY <1>3, <1>9, <1>11, <1>14, <2>1, <2>2, TakesOne
<1>15. CASE c.to = "start"
  <2>0. c.session # 0 /\ g = BeginSession(p, c.session)
    BY <1>5, <1>10, <1>15 DEF CallInv, Taken
  <2>1. c.session \in DOMAIN sessions /\ g = BeginSession(p, c.session) /\ ~done
    BY <1>4, <1>5, <1>6, <1>15, <2>0
  <2>2. PICK n \in DOMAIN sessions : n = c.session
    BY <2>1
  <2>3. /\ g \in PageStates /\ g.at = page[p].at /\ g.session = n /\ g.step = 1
        /\ page[p].method = None => g.method \in Stepped.step_1 \cup {None}
    BY <2>1, <2>2, BeginSessionShape
  <2>4. n \in Nat /\ n # 0 /\ n <= Len(sessions)
    BY <1>5, <2>2
  <2>5. careful[p] => CarefulPage(g)
    BY <1>13, <1>15, <2>3, <2>4 DEF CarefulPage, CarefulCall
  <2>6. g.at = "login" /\ g.step + Len(calls[p]) <= 5 /\ ~(g.step >= 3) /\ c.to # "check"
        /\ g.session <= Len(sessions)
    BY <1>5, <1>12, <1>15, <2>3, <2>4
  <2>7. QED
    BY <1>8, <1>14, <2>1, <2>3, <2>5, <2>6
<1>16. CASE c.to = "check"
  <2>0. c.status = "in" /\ cookie[p]
    BY <1>5, <1>16 DEF CallInv
  <2>1. ~done
    BY <1>4, <1>16
  <2>3. PICK known \in BOOLEAN : known
    OBVIOUS
  <2>4. g = Finished(p, known)
    <3>1. Taken(p, c) = Finished(p, c.status = "in")
      BY <1>16, TakesCheck
    <3>2. Finished(p, c.status = "in") = Finished(p, known)
      BY <2>0, <2>3 DEF Finished
    <3>3. QED
      BY <1>10, <3>1, <3>2, Zenon
  <2>5. g \in PageStates /\ g.at = "home" /\ g.step = 0 /\ g.session = 0 /\ CarefulPage(g)
    BY <2>0, <2>3, <2>4, FinishedShape
  <2>6. PICK cs \in Seq(Requests) : cs = <<>>
    BY NothingAsked, Zenon
  <2>7. calls' = [calls EXCEPT ![p] = cs]
    BY <1>1, <1>2, <1>4, <1>5, <1>16, <2>6
  <2>8. b
    BY <1>7, <2>0
  <2>9. EndsAt(p, i, g, cs)
    BY <2>5, <2>6 DEF EndsAt
  <2>10. QED
    BY <1>3, <1>9, <1>11, <2>5, <2>6, <2>7, <2>8, <2>9, TakesLast
<1>17. CASE done /\ Web(p)
  <2>1. g = page[p] /\ b
    BY <1>4, <1>7, <1>10, <1>17 DEF Taken
  <2>2. PICK n \in Nat : n = 0 /\ n \in 0 .. 2
    OBVIOUS
  <2>3. PICK k : k = Call("check", 0, 0, None, TRUE)
    OBVIOUS
  <2>4. k \in Requests /\ k.to = "check" /\ k.session = 0 /\ k.status = None
    <3>1. k = Call("check", n, n, None, TRUE)
      BY <2>2, <2>3
    <3>2. ASSUME NEW r \in BOOLEAN, k = Call("check", n, n, None, r)
          PROVE  k \in Requests /\ k.to = "check" /\ k.session = 0 /\ k.status = None
      BY <2>2, <3>2, CallShape
    <3>3. QED
      BY <3>1, <3>2, TRUE \in BOOLEAN, Zenon
  <2>5. PICK cs : cs = [calls[p] EXCEPT ![i] = k]
    OBVIOUS
  <2>6. /\ cs \in Seq(Requests) /\ Len(cs) = Len(calls[p]) /\ cs[i] = k
        /\ \A j \in DOMAIN calls[p] : j # i => cs[j] = calls[p][j]
    BY <1>5, <2>4, <2>5
  <2>7. calls' = [calls EXCEPT ![p] = cs]
    BY <1>1, <1>2, <1>4, <1>5, <1>17, <2>3, <2>5
  <2>8. /\ cs[i].to = "check" /\ cs[i].status = None /\ cs[i].session = 0
        /\ page' = [page EXCEPT ![p] = g] /\ g \in PageStates
    BY <1>5, <1>11, <2>1, <2>4, <2>6
  <2>9. EndsAt(p, i, g, cs)
    BY <1>5, <2>1, <2>6, <2>8 DEF EndsAt
  <2>10. QED
    BY <1>3, <1>9, <1>11, <2>1, <2>6, <2>7, <2>8, <2>9, TakesLast
<1>18. CASE done /\ ~Web(p)
  <2>1. g = Finished(p, TRUE) /\ b
    BY <1>4, <1>7, <1>10, <1>18 DEF Taken
  <2>2. PICK known \in BOOLEAN : known = TRUE
    BY Zenon
  <2>3. g = Finished(p, known)
    BY <2>1, <2>2, Zenon
  <2>4. g \in PageStates /\ g.at = "home" /\ g.step = 0 /\ g.session = 0 /\ CarefulPage(g)
    BY <2>2, <2>3, FinishedShape
  <2>5. PICK cs \in Seq(Requests) : cs = <<>>
    BY NothingAsked, Zenon
  <2>6. calls' = [calls EXCEPT ![p] = cs]
    BY <1>1, <1>2, <1>4, <1>5, <1>18, <2>5
  <2>7. EndsAt(p, i, g, cs)
    BY <2>4, <2>5 DEF EndsAt
  <2>8. QED
    BY <1>3, <1>9, <1>11, <2>1, <2>4, <2>5, <2>6, <2>7, TakesLast
<1>19. ASSUME g = OneStepFurther(p), c.to = "step", ~done, ~Web(p),
              d => /\ page[p].step = 1 /\ Stepped.step_2 # {}
                   /\ sessions[page[p].session].passed
       PROVE  SignInInv'
  <2>1. /\ g \in PageStates /\ g.at = page[p].at /\ g.session = page[p].session
        /\ g.step = page[p].step + 1 /\ (g.step >= 3 => g.method = None)
        /\ page[p].step = 1 /\ page[p].session # 0 => g.method \in Stepped.step_2 \cup {None}
    BY <1>12, <1>19, FurtherShape
  <2>2. d => CarefulPage(g)
    BY <1>8, <1>13, <1>19, <2>1 DEF CarefulPage
  <2>3. QED
    BY <1>5, <1>12, <1>14, <1>19, <2>1, <2>2
<1>20. CASE c.to = "step" /\ c.status = "more"
  <2>1. ~done /\ (careful[p] => /\ page[p].step = 1 /\ Stepped.step_2 # {}
                              /\ sessions[page[p].session].passed)
    BY <1>4, <1>13, <1>20 DEF CarefulCall
  <2>2. CASE Web(p)
    <3>1. g = SecondFactor(p)
      BY <1>10, <1>20, <2>2 DEF Taken
    <3>2. /\ g \in PageStates /\ g.at = page[p].at /\ g.session = page[p].session /\ g.step = 2
          /\ page[p].session # 0 => g.method \in Stepped.step_2 \cup {None}
      BY <3>1, SecondFactorShape
    <3>3. d => CarefulPage(g)
      BY <1>8, <1>13, <2>1, <3>2 DEF CarefulPage
    <3>4. g.at = "login" /\ g.session <= Len(sessions) /\ g.step + Len(calls[p]) <= 5
          /\ ~(g.step >= 3) /\ c.to # "check"
      <4>2. g.session <= Len(sessions) /\ g.at = "login"
        BY <1>5, <3>2
      <4>3. g.step + Len(calls[p]) <= 5 /\ ~(g.step >= 3)
        BY <1>12, <3>2
      <4>4. QED
        BY <1>20, <4>2, <4>3
    <3>5. QED
      BY <1>14, <2>1, <3>2, <3>3, <3>4
  <2>3. CASE ~Web(p)
    <3>1. g = OneStepFurther(p)
      BY <1>10, <1>20, <2>3 DEF Taken
    <3>2. d => /\ page[p].step = 1 /\ Stepped.step_2 # {}
               /\ sessions[page[p].session].passed
      BY <1>11, <2>1
    <3>3. QED
      BY <1>19, <1>20, <2>1, <2>3, <3>1, <3>2
  <2>4. QED
    BY <2>2, <2>3
<1>21. CASE c.to = "step" /\ c.status \notin {"in", "more"} /\ Legacy(p) /\ c.method = "BACKUP"
  <2>1. g = OneStepFurther(p) /\ ~done /\ ~Web(p) /\ ~d
    BY <1>4, <1>8, <1>10, <1>21 DEF Taken, Legacy, Web
  <2>2. QED
    BY <1>19, <1>21, <2>1
<1>22. CASE c.to = "step" /\ c.status \notin {"in", "more"} /\ ~(Legacy(p) /\ c.method = "BACKUP")
  <2>1. g = [page[p] EXCEPT !.rejected = Web(p)] /\ ~done
    BY <1>4, <1>10, <1>22 DEF Taken
  <2>2. PICK r \in BOOLEAN : r = Web(p)
    BY Zenon DEF Web
  <2>3. g = [page[p] EXCEPT !.rejected = r]
    BY <2>1, <2>2, Zenon
  <2>4. g \in PageStates /\ Same(g, page[p])
    BY <1>5, <2>3, RejectedGone
  <2>5. d => CarefulPage(g)
    BY <1>8, <1>13, <2>4 DEF CarefulPage, Same
  <2>6. g.at = "login" /\ g.session <= Len(sessions) /\ g.step + Len(calls[p]) <= 5
        /\ (g.step >= 3 => ~Web(p) /\ g.method = None)
    BY <1>5, <1>12, <2>4 DEF Same, WaitInv
  <2>7. QED
    BY <1>14, <1>22, <2>1, <2>4, <2>5, <2>6
<1>23. QED
  BY <1>4, <1>6, <1>15, <1>16, <1>17, <1>18, <1>20, <1>21, <1>22
-----------------------------------------------------------------------------
(* The specification. *)

\* A page that nobody opened stays as it was.
ClosedInv == \A p \in Pages : Web(p) \/ Legacy(p) \/ (page[p].step = 0 /\ calls[p] = <<>>)

\* No step opens such a page.
LEMMA ClosedStays ==
    ASSUME SignInInv, ClosedInv, [Next]_vars
    PROVE  ClosedInv'
<1>1. page \in [Pages -> PageStates] /\ calls \in [Pages -> Seq(Requests)]
  BY DEF SignInInv, SignInTypeOK
<1>3. ASSUME scene' = scene, NEW q \in Pages PROVE Web(q)' = Web(q) /\ Legacy(q)' = Legacy(q)
  BY <1>3 DEF Web, Legacy
<1>4. CASE UNCHANGED vars
  BY <1>3, <1>4 DEF vars, ClosedInv
<1>5. CASE Expire
  BY <1>3, <1>5 DEF Expire, ClosedInv
<1>6. ASSUME NEW p \in Pages,
             \/ page' = page
             \/ \E g : page' = [page EXCEPT ![p] = g],
             \/ calls' = calls
             \/ \E cs : calls' = [calls EXCEPT ![p] = cs],
             Web(p) \/ Legacy(p), scene' = scene
      PROVE  ClosedInv'
  BY <1>1, <1>3, <1>6 DEF ClosedInv
<1>7. ASSUME NEW p \in Pages, EmailStep(p) \/ StartLogin(p) \/ MethodStep(p) \/ SelectMethod(p)
      PROVE  ClosedInv'
  <2>1. Web(p) \/ Legacy(p)
    BY <1>7 DEF EmailStep, StartLogin, MethodStep, SelectMethod
  <2>2. /\ page' = page \/ \E g : page' = [page EXCEPT ![p] = g]
        /\ calls' = calls \/ \E cs : calls' = [calls EXCEPT ![p] = cs]
        /\ scene' = scene
    BY <1>7 DEF EmailStep, StartLogin, MethodStep, SelectMethod, Pick
  <2>3. QED
    BY <1>6, <2>1, <2>2
<1>8. ASSUME NEW p \in Pages, NEW right \in BOOLEAN, Factor(p, right) \/ BackupCode(p, right)
      PROVE  ClosedInv'
  <2>1. /\ Web(p) \/ Legacy(p)
        /\ \E m, r : Answer(p, m, r)
    BY <1>8, Zenon DEF Factor, BackupCode, PasswordStep, PasswordComponent, CodeStep, TotpComponent,
       PasskeyStep, WebauthnComponent, BackupComponent
  <2>2. /\ \E g : page' = [page EXCEPT ![p] = g]
        /\ \E cs : calls' = [calls EXCEPT ![p] = cs]
        /\ scene' = scene
    BY <2>1 DEF Answer
  <2>3. QED
    BY <1>6, <2>1, <2>2
<1>9. ASSUME NEW p \in Pages, OpenBackup(p) \/ CloseBackup(p) \/ Back(p) PROVE ClosedInv'
  <2>1. page[p].step # 0
    BY <1>9, ScreenFacts DEF OpenBackup, CloseBackup, Back
  <2>2. Web(p) \/ Legacy(p)
    BY <2>1 DEF ClosedInv
  <2>3. (\E g : page' = [page EXCEPT ![p] = g]) /\ calls' = calls /\ scene' = scene
    BY <1>9 DEF OpenBackup, CloseBackup, Back
  <2>4. QED
    BY <1>6, <2>2, <2>3
<1>10. ASSUME NEW p \in Pages, Handle(p) \/ Receive(p) \/ Lose(p) PROVE ClosedInv'
  <2>1. DOMAIN calls[p] # {}
    BY <1>10 DEF Handle, Receive, Lose
  <2>2. calls[p] # <<>>
    BY <2>1
  <2>3. Web(p) \/ Legacy(p)
    BY <2>2 DEF ClosedInv
  <2>4. ASSUME Handle(p)
        PROVE  page' = page /\ scene' = scene /\ \E cs : calls' = [calls EXCEPT ![p] = cs]
    <3>1. PICK i \in DOMAIN calls[p] :
             LET c == calls[p][i] IN
             CASE c.to = "start" ->
                    /\ sessions' = Append(sessions, NewSession)
                    /\ Reply(p, i, [c EXCEPT !.status = "ok", !.session = Len(sessions) + 1])
                    /\ UNCHANGED backup
               [] c.to = "step" ->
                    LET status == Status(c, sessions[c.session]) IN
                    /\ Reply(p, i, [c EXCEPT !.status = status])
                    /\ sessions' = [sessions EXCEPT ![c.session].passed = @ \/ status = "more"]
                    /\ backup' = (backup /\ ~(c.method = "BACKUP" /\ status = "in"))
               [] c.to = "check" ->
                    /\ Reply(p, i, [c EXCEPT !.status = IF cookie[p] THEN "in" ELSE "no"])
                    /\ UNCHANGED <<sessions, backup>>
      BY <2>4 DEF Handle
    <3>2. \E c : Reply(p, i, c)
      <4>1. calls[p][i].to \in {"start", "step", "check"}
        <5>1. calls[p] \in Seq(Requests)
          BY <1>1
        <5>2. calls[p][i] \in Requests
          BY <5>1
        <5>3. QED
          BY <5>2 DEF Requests
      <4>2. CASE calls[p][i].to = "start"
        BY <3>1, <4>2
      <4>3. CASE calls[p][i].to = "step"
        BY <3>1, <4>3
      <4>4. CASE calls[p][i].to = "check"
        BY <3>1, <4>4
      <4>5. QED
        BY <4>1, <4>2, <4>3, <4>4
    <3>3. QED
      BY <2>4, <3>2 DEF Handle, Reply
  <2>5. ASSUME Receive(p) \/ Lose(p)
        PROVE  /\ \E g : page' = [page EXCEPT ![p] = g]
               /\ \E cs : calls' = [calls EXCEPT ![p] = cs]
               /\ scene' = scene
    BY <2>5 DEF Receive, Lose
  <2>6. QED
    BY <1>6, <1>10, <2>3, <2>4, <2>5
<1>11. QED
  BY <1>4, <1>5, <1>7, <1>8, <1>9, <1>10, Zenon DEF Next

\* The invariant holds when the pages are opened.
LEMMA InitSignInInv == Init => SignInInv
<1> SUFFICES ASSUME Init PROVE SignInInv
  OBVIOUS
<1>1. /\ scene \in Scenes /\ sessions = <<>> /\ backup \in BOOLEAN /\ Len(sessions) = 0
      /\ page = [p \in Pages |-> FreshPage] /\ calls = [p \in Pages |-> <<>>]
      /\ cookie = [p \in Pages |-> FALSE] /\ careful = [p \in Pages |-> TRUE]
      /\ count = [wrong |-> 0, expire |-> 0, lost |-> 0]
  BY DEF Init
<1>2. /\ page \in [Pages -> PageStates] /\ sessions \in Seq(LoginSessions)
      /\ calls \in [Pages -> Seq(Requests)]
  BY <1>1, FreshShape, NothingAsked
<1>3. cookie \in [Pages -> BOOLEAN] /\ careful \in [Pages -> BOOLEAN]
  BY <1>1, TRUE \in BOOLEAN, FALSE \in BOOLEAN, Zenon
<1>4. count \in [wrong : Nat, expire : Nat, lost : Nat]
  BY <1>1
<1>5. ASSUME NEW p \in Pages
      PROVE  /\ page[p] = FreshPage /\ calls[p] = <<>> /\ DOMAIN calls[p] = {} /\ Len(calls[p]) = 0
             /\ ~cookie[p]
  BY <1>1
<1>6. ASSUME NEW p \in Pages PROVE PageInv(p)
  BY <1>1, <1>5, FreshShape DEF PageInv, WaitInv, TokenInv, CarefulInv
<1>7. SignInTypeOK
  BY <1>1, <1>2, <1>3, <1>5, FreshShape DEF SignInTypeOK
<1>8. OfferInv
  BY <1>1 DEF OfferInv
<1>9. QED
  BY <1>4, <1>6, <1>7, <1>8 DEF SignInInv

\* Every step keeps it.
LEMMA NextSignInInv == SignInInv /\ [Next]_vars => SignInInv'
<1> SUFFICES ASSUME SignInInv, [Next]_vars PROVE SignInInv'
  OBVIOUS
<1>1. CASE Expire
  BY <1>1, ExpireKeeps
<1>2. ASSUME NEW p \in Pages, EmailStep(p) \/ StartLogin(p) PROVE SignInInv'
  BY <1>2, AsksToStart
<1>3. ASSUME NEW p \in Pages, MethodStep(p) \/ SelectMethod(p) PROVE SignInInv'
  BY <1>3, Picks DEF MethodStep, SelectMethod
<1>4. ASSUME NEW p \in Pages, NEW right \in BOOLEAN, Factor(p, right) PROVE SignInInv'
  <2>1. \/ Answer(p, "PASSWORD", right) \/ Answer(p, "TOTP", right) \/ Answer(p, "PASSKEY", right)
        \/ Answer(p, "PASSKEY", TRUE)
    BY <1>4, Zenon DEF Factor, PasswordStep, PasswordComponent, CodeStep, TotpComponent, PasskeyStep,
                       WebauthnComponent
  <2>2. {"PASSWORD", "TOTP", "PASSKEY"} \subseteq Methods
    BY DEF Methods
  <2>3. CASE Answer(p, "PASSKEY", TRUE)
    <3>1. "PASSKEY" \in Methods
      BY <2>2
    <3>2. QED
      BY <2>3, <3>1, TRUE \in BOOLEAN, AsksToStep, Zenon
  <2>4. CASE Answer(p, "PASSWORD", right) \/ Answer(p, "TOTP", right) \/ Answer(p, "PASSKEY", right)
    BY <2>2, <2>4, AsksToStep
  <2>5. QED
    BY <2>1, <2>3, <2>4
<1>5. ASSUME NEW p \in Pages, NEW right \in BOOLEAN, BackupCode(p, right) PROVE SignInInv'
  <2>1. Answer(p, "BACKUP", right) /\ "BACKUP" \in Methods
    BY <1>5 DEF BackupCode, CodeStep, BackupComponent, Methods
  <2>2. QED
    BY <2>1, AsksToStep
<1>6. ASSUME NEW p \in Pages, OpenBackup(p) \/ CloseBackup(p) \/ Back(p) PROVE SignInInv'
  BY <1>6, OpensBackup, ClosesBackup, GoesBack
<1>7. ASSUME NEW p \in Pages, Handle(p) \/ Receive(p) \/ Lose(p) PROVE SignInInv'
  BY <1>7, HandleKeeps, ReceiveKeeps, LoseKeeps
<1>8. CASE UNCHANGED vars
  <2>1. UNCHANGED <<scene, sessions, backup, page, calls, cookie, careful, count>>
    BY <1>8 DEF vars
  <2>2. /\ sessions \in Seq(LoginSessions) /\ OfferInv /\ SignInTypeOK
        /\ count \in [wrong : Nat, expire : Nat, lost : Nat]
    BY DEF SignInInv, SignInTypeOK
  <2>3. OfferInv' /\ Grown
    BY <2>1, <2>2, SteppedStays DEF OfferInv, Grown
  <2>4. ASSUME NEW q \in Pages PROVE PageInv(q)'
    BY <2>1, <2>2, <2>3, OthersKeep
  <2>5. SignInTypeOK'
    BY <2>1, <2>2 DEF SignInTypeOK
  <2>6. QED
    BY <2>1, <2>2, <2>3, <2>4, <2>5 DEF SignInInv
<1>9. QED
  BY <1>1, <1>2, <1>3, <1>4, <1>5, <1>6, <1>7, <1>8, Zenon DEF Next

\* The invariant that the theorems of this module rest on: what pages, their
\* requests and the sessions of the server agree on, at every moment.
THEOREM SignInInvariant == SignInSpec => [](SignInInv /\ ClosedInv)
<1>1. Init => SignInInv /\ ClosedInv
  <2>1. Init => ClosedInv
    BY DEF Init, ClosedInv, FreshPage
  <2>2. QED
    BY <2>1, InitSignInInv
<1>2. SignInInv /\ ClosedInv /\ [Next]_vars => (SignInInv /\ ClosedInv)'
  BY NextSignInInv, ClosedStays
<1>3. QED
  BY <1>1, <1>2, PTL DEF SignInSpec

-----------------------------------------------------------------------------
(* What follows from it. *)

\* A page used with care is never ahead of its session, and a right answer is
\* never refused but a backup code that was used (step_1_endpoint, step += 1).
THEOREM StepsAlwaysAgree == SignInSpec => []StepsAgree
<1>1. SignInInv => StepsAgree
  <2> SUFFICES ASSUME SignInInv PROVE StepsAgree
    OBVIOUS
  <2>1. ASSUME NEW p \in Pages, careful[p], page[p].step >= 2
        PROVE  page[p].step = 2 /\ page[p].session # 0 /\ sessions[page[p].session].passed
    BY <2>1, TypedPage DEF CarefulPage
  <2>2. ASSUME NEW p \in Pages, NEW i \in DOMAIN calls[p], careful[p], calls[p][i].right,
               calls[p][i].status = "no"
        PROVE  calls[p][i].method = "BACKUP" /\ ~backup
    <3>1. PICK c : c = calls[p][i]
      OBVIOUS
    <3>2. c \in Requests /\ CallInv(p, c) /\ CarefulCall(page[p], c)
      <4>1. calls[p] \in Seq(Requests)
        BY DEF SignInInv, SignInTypeOK
      <4>2. QED
        BY <2>2, <3>1, <4>1 DEF SignInInv, PageInv, CarefulInv
    <3>3. c.to = "step"
      BY <2>2, <3>1, <3>2, NoneIsNothing DEF Requests, CallInv
    <3>4. QED
      BY <2>2, <3>1, <3>2, <3>3 DEF CarefulCall
  <2>3. SignInTypeOK
    BY DEF SignInInv
  <2>4. QED
    BY <2>1, <2>2, <2>3 DEF StepsAgree, StepTwoIsEarned, RightAnswersPass
<1>2. QED
  BY <1>1, SignInInvariant, PTL

\* Whoever waits for each answer always finds a next thing to do on the page
\* (hasUnsupportedOnly, check_auto).
THEOREM NobodyIsStranded == SignInSpec => []NeverStranded
<1>1. SignInInv /\ ClosedInv => NeverStranded
  <2> SUFFICES ASSUME SignInInv, ClosedInv, NEW p \in Pages, careful[p], Startable(p) PROVE ~Stranded(p)
    BY DEF NeverStranded
  <2>0. CarefulPage(page[p]) /\ page[p] \in PageStates
    BY TypedPage
  <2>1. /\ CarefulPage(page[p]) /\ page[p].at \in {"login", "home"}
        /\ page[p].step \in 0 .. 2 /\ page[p].method \in Methods \cup {None}
    BY <2>0, Fields DEF CarefulPage
  <2>2. Screen(p) # "CRASHED"
    BY <2>1 DEF Screen, WebScreen, LegacyScreen, Methods
  <2>3. ASSUME Screen(p) = "PICK" PROVE Usable(Offered(p)) # {}
    <3>1. page[p].step # 0 /\ page[p].session # 0 /\ page[p].step \in 1 .. 2
      BY <2>1, <2>3, ScreenFacts DEF CarefulPage
    <3>2. Offered(p) = IF page[p].step = 1 THEN Stepped.step_1 ELSE Stepped.step_2
      BY <3>1, OfferedSteps
    <3>3. Offered(p) # {}
      BY <2>1, <3>1, <3>2 DEF CarefulPage, Startable
    <3>4. CASE Web(p)
      <4>1. ~HasUnsupportedOnly(p)
        BY <2>3, <3>4 DEF Screen, WebScreen, Web
      <4>2. QED
        BY <3>3, <4>1 DEF HasUnsupportedOnly
    <3>5. CASE Legacy(p)
      BY <2>1, <3>1, <3>2, <3>5 DEF CarefulPage, Startable
    <3>6. QED
      BY <3>1, <3>4, <3>5 DEF ClosedInv
  <2>4. QED
    BY <2>2, <2>3 DEF Stranded
<1>2. QED
  BY <1>1, SignInInvariant, PTL

\* A browser that was given a token shows the page behind the login, or still
\* asks who is signed in (finish, requireAuth).
THEOREM SignedInIsAlwaysHome == SignInSpec => []SignedInIsHome
<1>1. SignInInv => SignedInIsHome
  <2> SUFFICES ASSUME SignInInv, NEW p \in Pages, cookie[p], ~Pending(p), count.lost = 0
               PROVE  page[p].at = "home"
    BY DEF SignedInIsHome
  <2>1. TokenInv(p) /\ calls[p] = <<>>
    BY TypedPage DEF Pending
  <2>2. DOMAIN calls[p] = {}
    BY <2>1
  <2>3. QED
    BY <2>1, <2>2 DEF TokenInv
<1>2. QED
  BY <1>1, SignInInvariant, PTL
=============================================================================
