---------------------------- MODULE GamePagesProofs ----------------------------
(***************************************************************************)
(* Theorems about GamePages, for any number of players and any games.      *)
(***************************************************************************)
EXTENDS GamePages, FiniteSetTheorems, TLAPS

(***************************************************************************)
(* Boxes                                                                   *)
(***************************************************************************)

Pages      == Players \cup Hosts
Places(g)  == 1..Len(inbox[g])
Slots(g)   == 1..Len(outbox[g])

\* How a box changes: one more at its end, one less at place i.
Plus(s, t, e) ==
    /\ Len(t) = Len(s) + 1 /\ t[Len(s) + 1] = e
    /\ \A i \in 1..Len(s) : t[i] = s[i]
Minus(s, t, n) ==
    /\ n \in 1..Len(s) /\ Len(t) = Len(s) - 1
    /\ \A i \in 1..(Len(s) - 1) : t[i] = s[IF i < n THEN i ELSE i + 1]

\* What is put at the end of a box follows what was there.
LEMMA Added ==
    ASSUME NEW S, NEW s \in Seq(S), NEW e \in S
    PROVE  /\ s \o <<e>> \in Seq(S) /\ Plus(s, s \o <<e>>, e)
           /\ Append(s, e) = s \o <<e>> /\ s \o <<>> = s /\ Len(s) \in Nat
           /\ \A i \in 1..Len(s) : s[i] \in S
BY DEF Plus

\* What is taken out of a box closes the gap.
LEMMA Removed ==
    ASSUME NEW S, NEW s \in Seq(S), NEW n \in 1..Len(s)
    PROVE  RemoveAt(s, n) \in Seq(S) /\ Minus(s, RemoveAt(s, n), n)
<1>1. SubSeq(s, 1, n - 1) \in Seq(S) /\ Len(SubSeq(s, 1, n - 1)) = n - 1
      /\ \A i \in 1..(n - 1) : SubSeq(s, 1, n - 1)[i] = s[i]
  OBVIOUS
<1>2. SubSeq(s, n + 1, Len(s)) \in Seq(S) /\ Len(SubSeq(s, n + 1, Len(s))) = Len(s) - n
      /\ \A i \in 1..(Len(s) - n) : SubSeq(s, n + 1, Len(s))[i] = s[i + n]
  OBVIOUS
<1> DEFINE a == SubSeq(s, 1, n - 1)
           b == SubSeq(s, n + 1, Len(s))
<1>3. /\ a \o b \in Seq(S) /\ Len(a \o b) = Len(s) - 1
      /\ \A i \in 1..(Len(s) - 1) : (a \o b)[i] = IF i < n THEN a[i] ELSE b[i - (n - 1)]
  <2> HIDE DEF a, b
  <2>1. a \in Seq(S) /\ b \in Seq(S) /\ Len(a) = n - 1 /\ Len(b) = Len(s) - n /\ n - 1 \in Nat
        /\ Len(s) - n \in Nat /\ Len(s) \in Nat /\ n \in Nat
    BY <1>1, <1>2 DEF a, b
  <2>2. QED
    BY <2>1
<1>4. \A i \in 1..(Len(s) - 1) : (a \o b)[i] = s[IF i < n THEN i ELSE i + 1]
  <2> TAKE i \in 1..(Len(s) - 1)
  <2> HIDE DEF a, b
  <2>1. (a \o b)[i] = IF i < n THEN a[i] ELSE b[i - (n - 1)]
    BY <1>3
  <2>2. i < n => a[i] = s[i]
    BY <1>1 DEF a
  <2>3. ~(i < n) => b[i - (n - 1)] = s[(i - (n - 1)) + n] /\ (i - (n - 1)) + n = i + 1
    BY <1>2 DEF b
  <2>4. QED
    BY <2>1, <2>2, <2>3
<1>5. QED
  BY <1>3, <1>4 DEF RemoveAt, Minus

\* What comes first is taken out first.
LEMMA Taken ==
    ASSUME NEW S, NEW s \in Seq(S), s # <<>>
    PROVE  /\ Tail(s) \in Seq(S) /\ Minus(s, Tail(s), 1)
           /\ Head(s) = s[1] /\ Head(s) \in S /\ 1 \in 1..Len(s)
BY DEF Minus

(***************************************************************************)
(* Types                                                                   *)
(***************************************************************************)

PlayEvents == {"joined_game", "rejoined_game", "start_game", "set_question_number",
               "question_results", "final_results", "everyone_answered", "solutions", "kick"}
HostEvents == {"player_joined", "start_game", "set_question_number", "everyone_answered",
               "solutions", "question_results", "final_results", "control_visibility",
               "results_saved_successfully"}
PlayRequests == {"join_game", "rejoin_game", "submit_answer"}
HostRequests == {"start_game", "set_question_number", "get_question_results", "show_solutions",
                 "get_final_results", "kick_player", "set_control_visibility", "save_quiz"}

Messages == [ev  : PlayEvents \cup HostEvents \cup PlayRequests \cup HostRequests,
             q   : Int \cup {None, "started", "lobby"},
             who : SUBSET Players]

Timers == {"unset", "runs", "0"}
Lists  == (SUBSET Players) \cup {None}

PlayPages == [inGame : BOOLEAN, started : BOOLEAN, q : Questions \cup {None}, timer : Timers,
              selected : BOOLEAN, results : Lists, finals : BOOLEAN, tally : [Players -> Nat],
              conn : Nat \ {0}, cookie : Nat, kicked : BOOLEAN]
HostPages == [started : BOOLEAN, list : SUBSET Players, selected : Nat \cup {-1},
              shown : Questions \cup {-1}, timer : Timers, results : Lists, finals : BOOLEAN,
              later : BOOLEAN, adding : BOOLEAN, tally : [Players -> Nat], visible : BOOLEAN,
              saved : BOOLEAN]
Servers   == [current : Nat \cup {-1}, started : BOOLEAN, answers : [Questions -> SUBSET Players],
              again : [Questions -> Nat], checked : [Questions -> [Players -> Nat]],
              keys : [Players -> Nat], counted : SUBSET Players, room : SUBSET Players,
              announce : Nat, others : 0..scene.others, stored : BOOLEAN]

\* The questions of a quiz, and those that play pages are told of.
Numbers(quiz) == 0..(Len(quiz) - 1)
Playable(quiz) == {q \in Numbers(quiz) : quiz[q + 1].type # "SLIDE"}

\* What travels to and from a page has what its reader uses: a question that is
\* told exists, and no play page is told of a slide.
PlayEventOK(quiz, e) ==
    /\ e.ev \in PlayEvents
    /\ e.ev = "set_question_number" => e.q \in Playable(quiz)
HostEventOK(quiz, e) ==
    /\ e.ev \in HostEvents
    /\ e.ev = "set_question_number" => e.q \in Numbers(quiz)
    /\ e.ev = "player_joined" => \E p \in Players : e.who = {p}
PlayRequestOK(quiz, e) ==
    /\ e.ev \in PlayRequests
    /\ e.ev = "submit_answer" => e.q \in Playable(quiz)
    /\ e.ev = "rejoin_game" => e.q \in Nat \ {0}
HostRequestOK(quiz, h, e) ==
    /\ e.ev \in HostRequests
    /\ e.ev = "set_question_number" => e.q \in Nat
    /\ e.ev = "get_question_results" => e.q \in Numbers(quiz) \cup {-1}
    /\ e.ev = "kick_player" => h = "admin" /\ \E p \in Players : e.who = {p}

InboxOK ==
    /\ inbox \in [Pages -> Seq(Messages)]
    /\ \A p \in Players : \A i \in Places(p) : PlayEventOK(scene.quiz, inbox[p][i])
    /\ \A h \in Hosts : \A i \in Places(h) : HostEventOK(scene.quiz, inbox[h][i])
OutboxOK ==
    /\ outbox \in [Pages -> Seq(Messages)]
    /\ \A p \in Players : \A i \in Slots(p) : PlayRequestOK(scene.quiz, outbox[p][i])
    /\ \A h \in Hosts : \A i \in Slots(h) : HostRequestOK(scene.quiz, h, outbox[h][i])

HostsOK   == "admin" \in Hosts /\ Hosts \subseteq {"admin", "remote"} /\ host \in [Hosts -> HostPages]
PlayOK    == /\ play \in [Players -> PlayPages]
             /\ \A p \in Players : play[p].q # None => play[p].q \in Playable(scene.quiz)
ServerOK  == server \in Servers /\ server.room \subseteq server.counted

TypeInv == scene \in Scenes /\ hasty \in Nat /\ HostsOK /\ PlayOK /\ ServerOK /\ InboxOK /\ OutboxOK

Static == scene' = scene /\ Hosts' = Hosts

\* What a step does to the boxes.
Sent(gs, e) == \A g \in Pages :
    IF g \in gs THEN Plus(inbox[g], inbox'[g], e) ELSE inbox'[g] = inbox[g]
Read(p)     == \A g \in Pages :
    IF g = p THEN Minus(inbox[g], inbox'[g], 1) ELSE inbox'[g] = inbox[g]
Asked(k, e) == \A g \in Pages :
    IF g = k THEN Plus(outbox[g], outbox'[g], e) ELSE outbox'[g] = outbox[g]
Done(k, i)  == \A g \in Pages :
    IF g = k THEN Minus(outbox[g], outbox'[g], i) ELSE outbox'[g] = outbox[g]

\* The questions are numbers, and the quiz stays.
LEMMA SceneFacts ==
    ASSUME scene \in Scenes
    PROVE  /\ N \in Nat /\ \A q \in Questions : q \in Nat /\ q < N /\ Type(q) = scene.quiz[q + 1].type
           /\ \A q : q \notin Questions => Type(q) = None
           /\ \A q \in Questions : Type(q) # None
           /\ None \notin Questions /\ -1 \notin Questions /\ None # "SLIDE"
           /\ \A n \in Nat : n < N => n \in Questions
<1>1. scene.quiz \in Seq([type : {"ABCD", "RANGE", "TEXT", "CHECK", "SLIDE"}, hidden : BOOLEAN])
  BY PagesAssumption
<1>2. N \in Nat
  BY <1>1 DEF N
<1>3. \A q \in Questions : q \in Nat /\ q < N /\ q + 1 \in 1..Len(scene.quiz)
  BY <1>2 DEF Questions, N
<1>4. \A q \in Questions : scene.quiz[q + 1].type \in {"ABCD", "RANGE", "TEXT", "CHECK", "SLIDE"}
  <2> DEFINE R == [type : {"ABCD", "RANGE", "TEXT", "CHECK", "SLIDE"}, hidden : BOOLEAN]
  <2>1. TAKE q \in Questions
  <2>2. scene.quiz[q + 1] \in R
    <3> HIDE DEF R
    <3>1. scene.quiz \in Seq(R) /\ q + 1 \in 1..Len(scene.quiz)
      BY <1>1, <1>3 DEF R
    <3>2. QED
      BY <3>1
  <2>3. QED
    BY <2>2
<1>5. None \notin Questions /\ -1 \notin Questions /\ None # "SLIDE"
  BY <1>2, NoneIsNothing DEF Questions
<1>6. \A q \in Questions : Type(q) # None
  BY <1>4, NoneIsNothing DEF Type
<1>7. QED
  BY <1>2, <1>3, <1>5, <1>6 DEF Type, Questions

\* The same, of the quiz.
LEMMA QuizFacts ==
    ASSUME scene \in Scenes
    PROVE  /\ Numbers(scene.quiz) = Questions
           /\ \A q : q \in Playable(scene.quiz) <=> q \in Questions /\ Type(q) # "SLIDE"
BY SceneFacts DEF Numbers, Playable, Questions, N

\* The names of the pages do not mix.
LEMMA PagesApart ==
    ASSUME HostsOK
    PROVE  /\ \A p \in Players : p \notin Hosts /\ p # "admin" /\ p # "remote" /\ p \in Pages
           /\ \A h \in Hosts : h \notin Players /\ h \in Pages
           /\ "admin" \in Pages
BY PagesAssumption DEF HostsOK, Pages

\* Emit puts the event into the boxes of gs.
LEMMA EmitView ==
    ASSUME InboxOK, NEW gs, NEW e \in Messages, inbox' = Emit(gs, <<e>>)
    PROVE  Sent(gs, e) /\ inbox' \in [Pages -> Seq(Messages)]
<1>1. DOMAIN inbox = Pages /\ \A g \in Pages : inbox[g] \in Seq(Messages)
  BY DEF InboxOK
<1>2. \A g \in Pages : inbox'[g] = IF g \in gs THEN inbox[g] \o <<e>> ELSE inbox[g]
  BY <1>1 DEF Emit
<1>3. \A g \in Pages : inbox[g] \o <<e>> \in Seq(Messages) /\ Plus(inbox[g], inbox[g] \o <<e>>, e)
  BY <1>1, Added
<1>4. inbox' \in [Pages -> Seq(Messages)]
  BY <1>1, <1>3 DEF Emit
<1>5. QED
  BY <1>2, <1>3, <1>4 DEF Sent

\* Ask puts the request at the end of the page's own.
LEMMA AskView ==
    ASSUME OutboxOK, NEW g \in Pages, NEW e \in Messages, Ask(g, <<e>>)
    PROVE  Asked(g, e) /\ outbox' \in [Pages -> Seq(Messages)]
<1>1. outbox[g] \in Seq(Messages)
  BY DEF OutboxOK
<1>2. outbox[g] \o <<e>> \in Seq(Messages) /\ Plus(outbox[g], outbox[g] \o <<e>>, e)
  BY <1>1, Added
<1>3. outbox' = [outbox EXCEPT ![g] = outbox[g] \o <<e>>]
  BY DEF Ask
<1>4. QED
  BY <1>2, <1>3 DEF Asked, OutboxOK

\* Asking for nothing changes nothing.
LEMMA AskNothing ==
    ASSUME OutboxOK, NEW g \in Pages, Ask(g, <<>>)
    PROVE  outbox' = outbox
<1>1. outbox[g] \in Seq(Messages)
  BY DEF OutboxOK
<1>2. outbox[g] \o <<>> = outbox[g]
  BY <1>1
<1>3. outbox' = [outbox EXCEPT ![g] = outbox[g]]
  BY <1>2 DEF Ask
<1>4. QED
  BY <1>3 DEF OutboxOK

\* A handled request is gone, and the others are still there.
LEMMA DoneView ==
    ASSUME OutboxOK, NEW g \in Pages, NEW i \in Slots(g),
           outbox' = [outbox EXCEPT ![g] = RemoveAt(@, i)]
    PROVE  Done(g, i) /\ outbox' \in [Pages -> Seq(Messages)]
<1>1. outbox[g] \in Seq(Messages)
  BY DEF OutboxOK
<1>2. RemoveAt(outbox[g], i) \in Seq(Messages) /\ Minus(outbox[g], RemoveAt(outbox[g], i), i)
  BY <1>1, Removed DEF Slots
<1>3. outbox' = [outbox EXCEPT ![g] = RemoveAt(outbox[g], i)]
  OBVIOUS
<1>4. QED
  BY <1>2, <1>3 DEF Done, OutboxOK

\* The event that is read is gone.
LEMMA ReadView ==
    ASSUME InboxOK, NEW g \in Pages, inbox[g] # <<>>, inbox' = [inbox EXCEPT ![g] = Tail(@)]
    PROVE  Read(g) /\ inbox' \in [Pages -> Seq(Messages)]
           /\ Head(inbox[g]) = inbox[g][1] /\ 1 \in Places(g)
<1>1. inbox[g] \in Seq(Messages)
  BY DEF InboxOK
<1>2. /\ Tail(inbox[g]) \in Seq(Messages) /\ Minus(inbox[g], Tail(inbox[g]), 1)
      /\ Head(inbox[g]) = inbox[g][1] /\ 1 \in 1..Len(inbox[g])
  BY <1>1, Taken
<1>3. inbox' = [inbox EXCEPT ![g] = Tail(inbox[g])]
  OBVIOUS
<1>4. QED
  BY <1>2, <1>3 DEF Read, InboxOK, Places

\* A scene that stays keeps the questions, their types and the pages.
LEMMA StaticFacts ==
    ASSUME Static
    PROVE  Questions' = Questions /\ N' = N /\ Pages' = Pages /\ (\A q : Type(q)' = Type(q))
           /\ InStep' = InStep
BY DEF Static, Questions, N, Pages, Type, InStep

\* A good request more leaves good requests.
LEMMA OutboxAsked ==
    ASSUME OutboxOK, HostsOK, Static, NEW g \in Pages, NEW e \in Messages, Ask(g, <<e>>),
           g \in Players => PlayRequestOK(scene.quiz, e), g \in Hosts => HostRequestOK(scene.quiz, g, e)
    PROVE  OutboxOK' /\ Asked(g, e)
<1>1. Asked(g, e) /\ outbox' \in [Pages -> Seq(Messages)]
  BY AskView
<1>2. Pages' = Pages /\ Hosts' = Hosts /\ Questions' = Questions
  BY StaticFacts DEF Static
<1>3. \A k \in Pages : Len(outbox[k]) \in Nat
  BY DEF OutboxOK
<1>4. ASSUME NEW p \in Players, NEW i \in 1..Len(outbox'[p])
      PROVE  PlayRequestOK(scene.quiz, outbox'[p][i])
  <2>1. p \in Pages
    BY DEF Pages
  <2>2. (outbox'[p][i] = e /\ g = p) \/ (i \in 1..Len(outbox[p]) /\ outbox'[p][i] = outbox[p][i])
    <3>1. CASE g # p
      BY <1>1, <1>4, <2>1, <3>1 DEF Asked
    <3>2. CASE g = p
      <4>1. Plus(outbox[p], outbox'[p], e) /\ Len(outbox[p]) \in Nat
        BY <1>1, <1>3, <2>1, <3>2 DEF Asked
      <4>2. QED
        BY <1>4, <3>2, <4>1 DEF Plus
    <3>3. QED
      BY <3>1, <3>2
  <2>3. QED
    BY <2>2 DEF OutboxOK, Slots
<1>5. ASSUME NEW h \in Hosts, NEW i \in 1..Len(outbox'[h])
      PROVE  HostRequestOK(scene.quiz, h, outbox'[h][i])
  <2>1. h \in Pages
    BY DEF Pages
  <2>2. (outbox'[h][i] = e /\ g = h) \/ (i \in 1..Len(outbox[h]) /\ outbox'[h][i] = outbox[h][i])
    <3>1. CASE g # h
      BY <1>1, <1>5, <2>1, <3>1 DEF Asked
    <3>2. CASE g = h
      <4>1. Plus(outbox[h], outbox'[h], e) /\ Len(outbox[h]) \in Nat
        BY <1>1, <1>3, <2>1, <3>2 DEF Asked
      <4>2. QED
        BY <1>5, <3>2, <4>1 DEF Plus
    <3>3. QED
      BY <3>1, <3>2
  <2>3. QED
    BY <2>2 DEF OutboxOK, Slots
<1>6. QED
  BY <1>1, <1>2, <1>4, <1>5 DEF OutboxOK, Slots, Static

\* A request less leaves good requests.
LEMMA OutboxDone ==
    ASSUME OutboxOK, HostsOK, Static, NEW g \in Pages, NEW i \in Slots(g),
           outbox' = [outbox EXCEPT ![g] = RemoveAt(@, i)]
    PROVE  OutboxOK' /\ Done(g, i)
<1>1. Done(g, i) /\ outbox' \in [Pages -> Seq(Messages)]
  BY DoneView
<1>2. Pages' = Pages /\ Hosts' = Hosts /\ Questions' = Questions
  BY StaticFacts DEF Static
<1>3. \A k \in Pages : Len(outbox[k]) \in Nat
  BY DEF OutboxOK
<1>4. ASSUME NEW k \in Pages, NEW j \in 1..Len(outbox'[k])
      PROVE  \E n \in 1..Len(outbox[k]) : outbox'[k][j] = outbox[k][n]
  <2>1. CASE k # g
    BY <1>1, <1>4, <2>1 DEF Done
  <2>2. CASE k = g
    <3>1. i \in 1..Len(outbox[g]) /\ Len(outbox'[g]) = Len(outbox[g]) - 1
          /\ outbox'[g][j] = outbox[g][IF j < i THEN j ELSE j + 1]
      BY <1>1, <1>4, <2>2 DEF Done, Minus
    <3>2. (IF j < i THEN j ELSE j + 1) \in 1..Len(outbox[g])
      BY <1>3, <1>4, <2>2, <3>1
    <3>3. QED
      BY <2>2, <3>1, <3>2
  <2>3. QED
    BY <2>1, <2>2
<1>5. QED
  BY <1>1, <1>2, <1>4, <1>3 DEF OutboxOK, Slots, Pages, Static

\* A good event more leaves good events.
LEMMA InboxSent ==
    ASSUME InboxOK, HostsOK, Static, NEW gs, NEW e \in Messages, inbox' = Emit(gs, <<e>>),
           \A p \in Players : p \in gs => PlayEventOK(scene.quiz, e),
           \A h \in Hosts : h \in gs => HostEventOK(scene.quiz, e)
    PROVE  InboxOK' /\ Sent(gs, e)
<1>1. Sent(gs, e) /\ inbox' \in [Pages -> Seq(Messages)]
  BY EmitView
<1>2. Pages' = Pages /\ Hosts' = Hosts /\ Questions' = Questions
  BY StaticFacts DEF Static
<1>3. \A k \in Pages : Len(inbox[k]) \in Nat
  BY DEF InboxOK
<1>4. ASSUME NEW k \in Pages, NEW i \in 1..Len(inbox'[k])
      PROVE  (inbox'[k][i] = e /\ k \in gs) \/ (i \in 1..Len(inbox[k]) /\ inbox'[k][i] = inbox[k][i])
  <2>1. CASE k \notin gs
    BY <1>1, <1>4, <2>1 DEF Sent
  <2>2. CASE k \in gs
    <3>1. Plus(inbox[k], inbox'[k], e) /\ Len(inbox[k]) \in Nat
      BY <1>1, <1>3, <2>2 DEF Sent
    <3>2. QED
      BY <1>4, <2>2, <3>1 DEF Plus
  <2>3. QED
    BY <2>1, <2>2
<1>5. ASSUME NEW p \in Players, NEW i \in 1..Len(inbox'[p])
      PROVE  PlayEventOK(scene.quiz, inbox'[p][i])
  BY <1>4, <1>5 DEF InboxOK, Places, Pages
<1>6. ASSUME NEW h \in Hosts, NEW i \in 1..Len(inbox'[h])
      PROVE  HostEventOK(scene.quiz, inbox'[h][i])
  BY <1>4, <1>6 DEF InboxOK, Places, Pages
<1>7. QED
  BY <1>1, <1>2, <1>5, <1>6 DEF InboxOK, Places, Static

\* An event less leaves good events.
LEMMA InboxRead ==
    ASSUME InboxOK, HostsOK, Static, NEW g \in Pages, inbox[g] # <<>>,
           inbox' = [inbox EXCEPT ![g] = Tail(@)]
    PROVE  InboxOK' /\ Read(g) /\ Head(inbox[g]) = inbox[g][1] /\ 1 \in Places(g)
<1>1. Read(g) /\ inbox' \in [Pages -> Seq(Messages)] /\ Head(inbox[g]) = inbox[g][1] /\ 1 \in Places(g)
  BY ReadView
<1>2. Pages' = Pages /\ Hosts' = Hosts /\ Questions' = Questions
  BY StaticFacts DEF Static
<1>3. \A k \in Pages : Len(inbox[k]) \in Nat
  BY DEF InboxOK
<1>4. ASSUME NEW k \in Pages, NEW j \in 1..Len(inbox'[k])
      PROVE  \E n \in 1..Len(inbox[k]) : inbox'[k][j] = inbox[k][n]
  <2>1. CASE k # g
    BY <1>1, <1>4, <2>1 DEF Read
  <2>2. CASE k = g
    <3>1. Len(inbox'[g]) = Len(inbox[g]) - 1 /\ inbox'[g][j] = inbox[g][j + 1]
      BY <1>1, <1>3, <1>4, <2>2 DEF Read, Minus
    <3>2. j + 1 \in 1..Len(inbox[g])
      BY <1>3, <1>4, <2>2, <3>1
    <3>3. QED
      BY <2>2, <3>1, <3>2
  <2>3. QED
    BY <2>1, <2>2
<1>5. QED
  BY <1>1, <1>2, <1>4, <1>3 DEF InboxOK, Places, Pages, Static

\* Boxes that stay are as good as before.
LEMMA BoxesStay ==
    ASSUME HostsOK, Static
    PROVE  /\ InboxOK /\ inbox' = inbox => InboxOK'
           /\ OutboxOK /\ outbox' = outbox => OutboxOK'
<1>1. Pages' = Pages /\ Hosts' = Hosts /\ Questions' = Questions
  BY StaticFacts DEF Static
<1>2. QED
  BY <1>1 DEF InboxOK, OutboxOK, Places, Slots, Static

\* The types of the pages depend on the scene alone.
LEMMA TypesStay ==
    ASSUME Static
    PROVE  PlayPages' = PlayPages /\ HostPages' = HostPages /\ Servers' = Servers
BY StaticFacts DEF PlayPages, HostPages, Servers, Static

(***************************************************************************)
(* The steps, by what they read and write                                  *)
(***************************************************************************)

\* The play pages keep all but the state of their timer and of their buttons.
PlayKept == \A r \in Players :
    /\ play'[r].inGame = play[r].inGame /\ play'[r].started = play[r].started
    /\ play'[r].q = play[r].q /\ play'[r].results = play[r].results
    /\ play'[r].finals = play[r].finals /\ play'[r].tally = play[r].tally
    /\ play'[r].conn = play[r].conn /\ play'[r].cookie = play[r].cookie
    /\ play'[r].kicked = play[r].kicked

JoinGuard(p) == ShowsJoin(p) /\ Len(outbox[p]) = 0 /\ Len(inbox[p]) = 0

\* A step of a play page, with no event: it may ask for something.
PlayActs(p) ==
    /\ PlayKept /\ UNCHANGED <<scene, server, host, inbox, hasty>>
    /\ \/ outbox' = outbox
       \/ JoinGuard(p) /\ Asked(p, Plain("join_game"))
       \/ ShowsQuestion(p) /\ Asked(p, Submit(p))

\* A play page takes an event that tells that the time is up.
PlayStops(p) ==
    /\ 1 \in Places(p) /\ inbox[p][1].ev \in {"everyone_answered", "solutions"}
    /\ Read(p) /\ PlayKept /\ UNCHANGED <<scene, server, host, hasty>>
    /\ \/ outbox' = outbox
       \/ ShowsQuestion(p) /\ Asked(p, Submit(p))

\* What a play page makes of the other events, field by field.
Turned(old, e, new) ==
    /\ new.inGame <=> old.inGame \/ e.ev \in {"joined_game", "rejoined_game"}
    /\ new.started <=> \/ old.started \/ e.ev = "start_game"
                       \/ e.ev = "rejoined_game" /\ e.q = "started"
    /\ new.q = IF e.ev = "set_question_number" THEN e.q ELSE old.q
    /\ new.results = IF e.ev = "set_question_number" THEN None
                     ELSE IF e.ev = "question_results" THEN e.who ELSE old.results
    /\ new.finals <=> old.finals \/ e.ev = "final_results"
    /\ new.tally = IF e.ev = "question_results" /\ ~old.finals /\ old.started /\ old.q # None
                   THEN Counted(old.tally, e.who) ELSE old.tally
    /\ new.conn = old.conn /\ new.kicked = old.kicked
    /\ new.cookie = IF e.ev = "joined_game" THEN old.conn
                    ELSE IF e.ev = "final_results" THEN 0 ELSE old.cookie

PlayTakes(p) ==
    /\ 1 \in Places(p) /\ inbox[p][1].ev \notin {"everyone_answered", "solutions", "kick"}
    /\ Read(p) /\ UNCHANGED <<scene, server, host, outbox, hasty>>
    /\ \A r \in Players : r # p => play'[r] = play[r]
    /\ Turned(play[p], inbox[p][1], play'[p])

\* A play page is opened anew.
PlayReopens(p) ==
    /\ UNCHANGED <<scene, host, hasty>>
    /\ server' = [server EXCEPT !.room = @ \ {p}]
    /\ \A r \in Players : r # p => play'[r] = play[r]
    /\ ~play'[p].inGame /\ ~play'[p].started /\ play'[p].q = None /\ play'[p].results = None
    /\ ~play'[p].finals /\ play'[p].tally = [x \in Players |-> 0]
    /\ play'[p].conn = play[p].conn + 1 /\ play'[p].cookie = play[p].cookie
    /\ \A g \in Pages : g # p => inbox'[g] = inbox[g] /\ outbox'[g] = outbox[g]
    /\ Len(inbox'[p]) = 0
    /\ IF play[p].cookie = 0 THEN Len(outbox'[p]) = 0
       ELSE /\ Len(outbox'[p]) = 1
            /\ outbox'[p][1] = Event("rejoin_game", play[p].cookie, {p})
    /\ \/ play[p].conn <= scene.reloads /\ Len(outbox[p]) = 0 /\ play'[p].kicked = play[p].kicked
       \/ 1 \in Places(p) /\ inbox[p][1].ev = "kick" /\ play'[p].kicked

\* Joining, ticking a box, answering and the end of the time.
LEMMA PlayRequestsFit ==
    ASSUME TypeInv, NEW p \in Players
    PROVE  /\ Plain("join_game") \in Messages /\ PlayRequestOK(scene.quiz, Plain("join_game"))
           /\ ShowsQuestion(p) => Submit(p) \in Messages /\ PlayRequestOK(scene.quiz, Submit(p))
           /\ p \in Pages /\ p \notin Hosts /\ Len(outbox[p]) \in Nat /\ Len(inbox[p]) \in Nat
<1>1. p \in Pages /\ p \notin Hosts
  BY PagesApart DEF TypeInv
<1>2. play[p].q # None => play[p].q \in Int /\ play[p].q \in Playable(scene.quiz)
  BY SceneFacts, QuizFacts DEF TypeInv, PlayOK
<1>3. Len(outbox[p]) \in Nat /\ Len(inbox[p]) \in Nat
  BY <1>1 DEF TypeInv, OutboxOK, InboxOK
<1>4. QED
  BY <1>1, <1>2, <1>3 DEF Plain, Submit, Event, Messages, PlayRequestOK, PlayRequests, ShowsQuestion

\* Pages that keep their fields and change in type only keep their type.
LEMMA PlayTypesKept ==
    ASSUME PlayOK, Static, NEW p \in Players, NEW page \in PlayPages,
           play' = [play EXCEPT ![p] = page], page.q # None => page.q \in Playable(scene.quiz)
    PROVE  PlayOK'
BY TypesStay DEF PlayOK, Static

\* The end of the time: a RANGE question may be answered by it.
LEMMA TimeUpView ==
    ASSUME TypeInv, Static, NEW p \in Players, TimeUp(p)
    PROVE  /\ PlayOK' /\ OutboxOK' /\ PlayKept
           /\ outbox' = outbox \/ (ShowsQuestion(p) /\ Asked(p, Submit(p)))
<1>0. /\ HostsOK /\ OutboxOK /\ PlayOK /\ p \in Pages /\ p \notin Hosts
      /\ ShowsQuestion(p) => Submit(p) \in Messages /\ PlayRequestOK(scene.quiz, Submit(p))
  BY PlayRequestsFit DEF TypeInv
<1>1. CASE ~ShowsQuestion(p)
  <2>1. play' = play /\ outbox' = outbox
    BY <1>1 DEF TimeUp
  <2>2. PlayOK' /\ OutboxOK'
    BY <1>0, <2>1, BoxesStay, TypesStay DEF PlayOK, Static
  <2>3. QED
    BY <2>1, <2>2 DEF PlayKept
<1>2. CASE ShowsQuestion(p)
  <2> DEFINE page == [play[p] EXCEPT !.timer = "0", !.selected = @ \/ AutoAnswers(p)]
  <2>1. play' = [play EXCEPT ![p] = page] /\ Ask(p, IF AutoAnswers(p) THEN <<Submit(p)>> ELSE <<>>)
    BY <1>2 DEF TimeUp
  <2>2. AutoAnswers(p) \in BOOLEAN
    BY DEF AutoAnswers
  <2>3. page \in PlayPages /\ page.q = play[p].q
    BY <1>0, <2>2 DEF PlayOK, PlayPages, Timers
  <2>4. PlayOK'
    <3> HIDE DEF page
    <3>1. QED
      BY <1>0, <2>1, <2>3, PlayTypesKept DEF PlayOK
  <2>5. PlayKept
    BY <1>0, <2>1, <2>2 DEF PlayKept, PlayOK, PlayPages
  <2>6. CASE AutoAnswers(p)
    BY <1>0, <1>2, <2>1, <2>4, <2>5, <2>6, OutboxAsked
  <2>7. CASE ~AutoAnswers(p)
    BY <1>0, <2>1, <2>4, <2>5, <2>7, AskNothing, BoxesStay
  <2>8. QED
    BY <2>6, <2>7
<1>3. QED
  BY <1>1, <1>2

\* What does not touch an actor leaves its part of the types.
LEMMA PartsStay ==
    ASSUME TypeInv, Static
    PROVE  /\ scene' \in Scenes
           /\ host' = host => HostsOK'
           /\ play' = play => PlayOK'
           /\ server' = server => ServerOK'
           /\ inbox' = inbox => InboxOK'
           /\ outbox' = outbox => OutboxOK'
           /\ hasty' = hasty => hasty' \in Nat
<1>1. scene' \in Scenes /\ scene'.quiz = scene.quiz
  BY DEF TypeInv, Static
<1>2. (host' = host => HostsOK') /\ (play' = play => PlayOK') /\ (server' = server => ServerOK')
  BY <1>1, TypesStay DEF TypeInv, HostsOK, PlayOK, ServerOK, Static
<1>3. QED
  BY <1>1, <1>2, BoxesStay DEF TypeInv

\* The steps of a play page without an event.
LEMMA PlayActsView ==
    ASSUME TypeInv, NEW p \in Players, Join(p) \/ Tick(p) \/ Answer(p) \/ PlayTick(p)
    PROVE  TypeInv' /\ Static /\ PlayActs(p)
<1>0. /\ HostsOK /\ OutboxOK /\ PlayOK /\ InboxOK /\ p \in Pages /\ p \notin Hosts
      /\ ShowsQuestion(p) => Submit(p) \in Messages /\ PlayRequestOK(scene.quiz, Submit(p))
      /\ Plain("join_game") \in Messages /\ PlayRequestOK(scene.quiz, Plain("join_game"))
  BY PlayRequestsFit DEF TypeInv
<1>1. Static /\ UNCHANGED <<scene, server, host, inbox, hasty>>
  BY DEF Static, Hosts, Join, Tick, Answer, PlayTick
<1>2. HostsOK' /\ ServerOK' /\ InboxOK' /\ hasty' \in Nat /\ scene' \in Scenes
  BY <1>1, PartsStay
<1>3. CASE Join(p)
  <2>1. play' = play /\ Ask(p, <<Plain("join_game")>>) /\ ShowsJoin(p) /\ outbox[p] = <<>> /\ inbox[p] = <<>>
    BY <1>3 DEF Join
  <2>2. OutboxOK' /\ Asked(p, Plain("join_game"))
    BY <1>0, <1>1, <2>1, OutboxAsked
  <2>3. PlayOK' /\ PlayKept /\ JoinGuard(p)
    BY <1>1, <2>1, PartsStay DEF PlayKept, JoinGuard
  <2>4. QED
    BY <1>1, <1>2, <2>2, <2>3 DEF TypeInv, PlayActs
<1>4. CASE Tick(p)
  <2>1. play' = [play EXCEPT ![p] = [play[p] EXCEPT !.selected = TRUE]] /\ outbox' = outbox
    BY <1>4 DEF Tick
  <2>2. [play[p] EXCEPT !.selected = TRUE] \in PlayPages
    BY <1>0 DEF PlayOK, PlayPages
  <2>3. PlayOK' /\ OutboxOK'
    BY <1>0, <1>1, <2>1, <2>2, PlayTypesKept, PartsStay DEF PlayOK, PlayPages
  <2>4. PlayKept
    BY <1>0, <2>1 DEF PlayKept, PlayOK, PlayPages
  <2>5. QED
    BY <1>1, <1>2, <2>1, <2>3, <2>4 DEF TypeInv, PlayActs
<1>5. CASE Answer(p)
  <2>1. play' = [play EXCEPT ![p] = [play[p] EXCEPT !.selected = TRUE]] /\ Ask(p, <<Submit(p)>>) /\ ShowsQuestion(p)
    BY <1>5 DEF Answer
  <2>2. [play[p] EXCEPT !.selected = TRUE] \in PlayPages
    BY <1>0 DEF PlayOK, PlayPages
  <2>3. PlayOK'
    BY <1>0, <1>1, <2>1, <2>2, PlayTypesKept, PartsStay DEF PlayOK, PlayPages
  <2>4. PlayKept
    BY <1>0, <2>1 DEF PlayKept, PlayOK, PlayPages
  <2>5. OutboxOK' /\ Asked(p, Submit(p))
    BY <1>0, <1>1, <2>1, OutboxAsked
  <2>6. QED
    BY <1>1, <1>2, <2>1, <2>3, <2>4, <2>5 DEF TypeInv, PlayActs
<1>6. CASE PlayTick(p)
  <2>1. TimeUp(p)
    BY <1>6 DEF PlayTick
  <2>2. QED
    BY <1>1, <1>2, <2>1, TimeUpView DEF TypeInv, PlayActs
<1>7. QED
  BY <1>3, <1>4, <1>5, <1>6

\* Reloading a page, or losing it to a kick.
LEMMA ReopenedView ==
    ASSUME TypeInv, Static, NEW p \in Players, NEW page \in PlayPages, Reopened(p, page),
           page.conn = play[p].conn, page.cookie = play[p].cookie
    PROVE  /\ PlayOK' /\ OutboxOK' /\ InboxOK' /\ ServerOK'
           /\ server' = [server EXCEPT !.room = @ \ {p}]
           /\ \A r \in Players : r # p => play'[r] = play[r]
           /\ ~play'[p].inGame /\ ~play'[p].started /\ play'[p].q = None /\ play'[p].results = None
           /\ ~play'[p].finals /\ play'[p].tally = [x \in Players |-> 0]
           /\ play'[p].conn = play[p].conn + 1 /\ play'[p].cookie = play[p].cookie
           /\ play'[p].kicked = page.kicked
           /\ \A g \in Pages : g # p => inbox'[g] = inbox[g] /\ outbox'[g] = outbox[g]
           /\ Len(inbox'[p]) = 0
           /\ IF play[p].cookie = 0 THEN Len(outbox'[p]) = 0
              ELSE /\ Len(outbox'[p]) = 1
                   /\ outbox'[p][1] = Event("rejoin_game", play[p].cookie, {p})
<1>0. /\ HostsOK /\ OutboxOK /\ PlayOK /\ InboxOK /\ ServerOK /\ p \in Pages /\ p \notin Hosts
      /\ scene'.quiz = scene.quiz /\ Hosts' = Hosts /\ Pages' = Pages
  BY PlayRequestsFit, StaticFacts DEF TypeInv, Static
<1> DEFINE new == [FreshPlay EXCEPT !.conn = page.conn + 1, !.cookie = page.cookie, !.kicked = page.kicked]
           req == Event("rejoin_game", play[p].cookie, {p})
<1>1. /\ FreshPlay \in [inGame : BOOLEAN, started : BOOLEAN, q : {None}, timer : {"unset"},
              selected : BOOLEAN, results : {None}, finals : BOOLEAN, tally : [Players -> Nat],
              conn : Nat \ {0}, cookie : Nat, kicked : BOOLEAN]
      /\ ~FreshPlay.inGame /\ ~FreshPlay.started /\ ~FreshPlay.finals
      /\ FreshPlay.q = None /\ FreshPlay.results = None /\ FreshPlay.tally = [x \in Players |-> 0]
  <2>1. [x \in Players |-> 0] \in [Players -> Nat]
    OBVIOUS
  <2>2. QED
    BY <2>1 DEF FreshPlay
<1>2. /\ new \in PlayPages /\ new.q = None /\ ~new.inGame /\ ~new.started /\ new.results = None /\ ~new.finals
      /\ new.tally = [x \in Players |-> 0] /\ new.conn = play[p].conn + 1 /\ new.cookie = play[p].cookie
      /\ new.kicked = page.kicked
  <2>1. page.conn \in Nat \ {0} /\ page.cookie \in Nat /\ page.kicked \in BOOLEAN
    BY DEF PlayPages
  <2>2. new \in PlayPages
    <3>1. PICK c \in Nat \ {0} : c = page.conn + 1
      BY <2>1
    <3>2. new = [FreshPlay EXCEPT !.conn = c, !.cookie = page.cookie, !.kicked = page.kicked]
      BY <3>1
    <3> HIDE DEF new
    <3>3. new \in [inGame : BOOLEAN, started : BOOLEAN, q : {None}, timer : {"unset"},
              selected : BOOLEAN, results : {None}, finals : BOOLEAN, tally : [Players -> Nat],
              conn : Nat \ {0}, cookie : Nat, kicked : BOOLEAN]
      BY <1>1, <2>1, <3>2
    <3>4. QED
      BY <3>3 DEF PlayPages, Timers, Lists
  <2>3. /\ new.q = FreshPlay.q /\ new.inGame = FreshPlay.inGame /\ new.started = FreshPlay.started
        /\ new.results = FreshPlay.results /\ new.finals = FreshPlay.finals /\ new.tally = FreshPlay.tally
    BY <1>1
  <2>4. new.conn = page.conn + 1 /\ new.cookie = page.cookie /\ new.kicked = page.kicked
    BY <1>1
  <2> HIDE DEF new
  <2>5. QED
    BY <1>1, <2>2, <2>3, <2>4
<1>3. play' = [play EXCEPT ![p] = new]
  BY DEF Reopened
<1>4. /\ inbox' = [inbox EXCEPT ![p] = <<>>]
      /\ server' = [server EXCEPT !.room = @ \ {p}]
      /\ outbox' = [outbox EXCEPT ![p] = IF play[p].cookie = 0 THEN <<>> ELSE <<req>>]
  BY DEF Reopened
<1>5. (\A r \in Players : r # p => play'[r] = play[r]) /\ play'[p] = new
  <2> HIDE DEF new
  <2>1. QED
    BY <1>0, <1>3 DEF PlayOK
<1>6. PlayOK'
  <2> HIDE DEF new
  <2>1. QED
    BY <1>0, <1>2, <1>3, PlayTypesKept
<1>7. InboxOK' /\ Len(inbox'[p]) = 0 /\ \A g \in Pages : g # p => inbox'[g] = inbox[g]
  <2>1. inbox' \in [Pages -> Seq(Messages)] /\ inbox'[p] = <<>> /\ \A g \in Pages : g # p => inbox'[g] = inbox[g]
    BY <1>0, <1>4 DEF InboxOK
  <2>2. \A g \in Pages : \A i \in 1..Len(inbox'[g]) : i \in 1..Len(inbox[g]) /\ inbox'[g][i] = inbox[g][i]
    BY <2>1
  <2>3. QED
    BY <1>0, <2>1, <2>2 DEF InboxOK, Places, Pages
<1>8. /\ OutboxOK' /\ \A g \in Pages : g # p => outbox'[g] = outbox[g]
      /\ IF play[p].cookie = 0 THEN Len(outbox'[p]) = 0 ELSE Len(outbox'[p]) = 1 /\ outbox'[p][1] = req
  <2>1. play[p].cookie \in Nat
    BY <1>0 DEF PlayOK, PlayPages
  <2>2. req \in Messages /\ (play[p].cookie # 0 => PlayRequestOK(scene.quiz, req))
    BY <2>1 DEF Event, Messages, PlayRequests, PlayRequestOK
  <2> HIDE DEF req
  <2>3. /\ outbox' \in [Pages -> Seq(Messages)] /\ \A g \in Pages : g # p => outbox'[g] = outbox[g]
        /\ outbox'[p] = IF play[p].cookie = 0 THEN <<>> ELSE <<req>>
    BY <1>0, <1>4, <2>2 DEF OutboxOK
  <2>4. IF play[p].cookie = 0 THEN Len(outbox'[p]) = 0 ELSE Len(outbox'[p]) = 1 /\ outbox'[p][1] = req
    BY <2>3
  <2>5. \A i \in 1..Len(outbox'[p]) : PlayRequestOK(scene.quiz, outbox'[p][i])
    BY <2>2, <2>4
  <2>6. QED
    BY <1>0, <2>3, <2>4, <2>5 DEF OutboxOK, Slots, Pages
<1>9. ServerOK'
  BY <1>0, <1>4, TypesStay DEF ServerOK, Servers
<1>10. QED
  BY <1>2, <1>4, <1>5, <1>6, <1>7, <1>8, <1>9

\* A reload.
LEMMA ReloadView ==
    ASSUME TypeInv, NEW p \in Players, Reload(p)
    PROVE  TypeInv' /\ Static /\ PlayReopens(p)
<1>1. Static /\ UNCHANGED <<scene, host, hasty>> /\ Reopened(p, play[p]) /\ play[p].conn <= scene.reloads
      /\ Len(outbox[p]) = 0
  BY DEF Reload, Static, Hosts
<1>2. play[p] \in PlayPages
  BY DEF TypeInv, PlayOK
<1>3. QED
  BY <1>1, <1>2, ReopenedView, PartsStay DEF PlayReopens, TypeInv

\* What Received makes of the page.
LEMMA ReceivedFields ==
    ASSUME TypeInv, NEW p \in Players, NEW e \in Messages, PlayEventOK(scene.quiz, e),
           e.ev \notin {"everyone_answered", "solutions", "kick"}, NEW new, new = Received(p, e)
    PROVE
           /\ new \in PlayPages /\ (new.q # None => new.q \in Playable(scene.quiz))
           /\ Turned(play[p], e, new)
<1> USE DEF Turned
<1>0. play[p] \in PlayPages /\ (play[p].q # None => play[p].q \in Playable(scene.quiz)) /\ e.who \in SUBSET Players
  BY DEF TypeInv, PlayOK, Messages
<1>1. e.ev \in {"joined_game", "rejoined_game", "start_game", "set_question_number", "question_results", "final_results"}
  BY DEF PlayEventOK, PlayEvents
<1>2. CASE e.ev = "joined_game"
  <2>1. new = [play[p] EXCEPT !.inGame = TRUE, !.cookie = play[p].conn]
    BY <1>2 DEF Received
  <2>2. QED
    BY <1>0, <1>2, <2>1 DEF PlayPages
<1>3. CASE e.ev = "rejoined_game"
  <2>1. new = [play[p] EXCEPT !.inGame = TRUE, !.started = @ \/ e.q = "started"]
    BY <1>3 DEF Received
  <2>2. QED
    BY <1>0, <1>3, <2>1 DEF PlayPages
<1>4. CASE e.ev = "start_game"
  <2>1. new = [play[p] EXCEPT !.started = TRUE]
    BY <1>4 DEF Received
  <2>2. QED
    BY <1>0, <1>4, <2>1 DEF PlayPages
<1>5. CASE e.ev = "set_question_number"
  <2>1. new = [play[p] EXCEPT !.q = e.q, !.results = None, !.timer = "runs", !.selected = FALSE]
    BY <1>5 DEF Received
  <2>2. e.q \in Playable(scene.quiz) /\ e.q \in Questions
    BY <1>5, QuizFacts DEF PlayEventOK, TypeInv
  <2>3. QED
    BY <1>0, <1>5, <2>1, <2>2 DEF PlayPages, Timers, Lists
<1>6. CASE e.ev = "question_results"
  <2> DEFINE t == IF ~play[p].finals /\ play[p].started /\ play[p].q # None
                  THEN Counted(play[p].tally, e.who) ELSE play[p].tally
  <2>1. new = [play[p] EXCEPT !.results = e.who, !.tally = t]
    BY <1>6 DEF Received
  <2>2. t \in [Players -> Nat]
    BY <1>0 DEF PlayPages, Counted
  <2>3. new.tally = t
    <3> HIDE DEF t
    <3>1. QED
      BY <1>0, <2>1 DEF PlayPages
  <2>4. /\ new \in PlayPages
        /\ new.inGame = play[p].inGame /\ new.started = play[p].started /\ new.q = play[p].q
        /\ new.finals = play[p].finals /\ new.conn = play[p].conn /\ new.kicked = play[p].kicked
        /\ new.cookie = play[p].cookie
        /\ new.results = e.who
    <3> HIDE DEF t
    <3>1. QED
      BY <1>0, <2>1, <2>2 DEF PlayPages, Lists
  <2>5. play[p].inGame \in BOOLEAN /\ play[p].started \in BOOLEAN /\ play[p].finals \in BOOLEAN
    BY <1>0 DEF PlayPages
  <2>6. new.tally = IF e.ev = "question_results" /\ ~play[p].finals /\ play[p].started /\ play[p].q # None
                      THEN Counted(play[p].tally, e.who) ELSE play[p].tally
    BY <1>6, <2>3
  <2> HIDE DEF t
  <2>7. QED
    BY <1>0, <1>6, <2>4, <2>5, <2>6
<1>7. CASE e.ev = "final_results"
  <2>1. new = [play[p] EXCEPT !.finals = TRUE, !.cookie = 0]
    BY <1>7 DEF Received
  <2>2. /\ new.q = play[p].q /\ new.results = play[p].results /\ new.tally = play[p].tally
        /\ new.inGame = play[p].inGame /\ new.started = play[p].started /\ new.finals = TRUE
        /\ new.conn = play[p].conn /\ new.kicked = play[p].kicked /\ new.cookie = 0
    BY <1>0, <2>1 DEF PlayPages
  <2>5. new \in PlayPages
    <3>1. PICK c \in Nat : c = 0
      OBVIOUS
    <3>2. new = [play[p] EXCEPT !.finals = TRUE, !.cookie = c]
      BY <2>1, <3>1
    <3>3. QED
      BY <1>0, <3>2 DEF PlayPages
  <2>3. play[p].inGame \in BOOLEAN /\ play[p].started \in BOOLEAN
    BY <1>0 DEF PlayPages
  <2>4. QED
    BY <1>0, <1>7, <2>2, <2>3, <2>5
<1>8. QED
  BY <1>1, <1>2, <1>3, <1>4, <1>5, <1>6, <1>7

\* The page takes its next event.
LEMMA PlayReceiveView ==
    ASSUME TypeInv, NEW p \in Players, PlayReceive(p)
    PROVE  TypeInv' /\ Static /\ (PlayStops(p) \/ PlayTakes(p) \/ PlayReopens(p))
<1>0. /\ HostsOK /\ OutboxOK /\ PlayOK /\ InboxOK /\ ServerOK /\ p \in Pages /\ play[p] \in PlayPages
  BY PlayRequestsFit DEF TypeInv, PlayOK
<1>1. Static /\ UNCHANGED <<scene, host, hasty>> /\ inbox[p] # <<>>
  BY DEF Static, Hosts, PlayReceive
<1>2. Head(inbox[p]) = inbox[p][1] /\ 1 \in Places(p) /\ inbox[p][1] \in Messages
  BY <1>0, <1>1, Taken DEF InboxOK, Places
<1>3. PlayEventOK(scene.quiz, inbox[p][1])
  BY <1>0, <1>2 DEF InboxOK
<1>4. CASE inbox[p][1].ev = "kick"
  <2> DEFINE page == [play[p] EXCEPT !.kicked = TRUE]
  <2>1. Reopened(p, page)
    BY <1>2, <1>4 DEF PlayReceive
  <2>2. page \in PlayPages /\ page.conn = play[p].conn /\ page.cookie = play[p].cookie /\ page.kicked
    BY <1>0 DEF PlayPages
  <2> HIDE DEF page
  <2>3. QED
    BY <1>1, <1>2, <1>4, <2>1, <2>2, ReopenedView, PartsStay DEF PlayReopens, TypeInv
<1>5. CASE inbox[p][1].ev # "kick"
  <2>1. inbox' = [inbox EXCEPT ![p] = Tail(@)] /\ server' = server
    BY <1>2, <1>5 DEF PlayReceive
  <2>2. InboxOK' /\ Read(p)
    BY <1>0, <1>1, <2>1, InboxRead
  <2>3. CASE inbox[p][1].ev \in {"everyone_answered", "solutions"}
    <3>1. TimeUp(p)
      BY <1>2, <1>5, <2>3 DEF PlayReceive
    <3>2. QED
      BY <1>1, <1>2, <2>1, <2>2, <2>3, <3>1, TimeUpView, PartsStay DEF PlayStops, TypeInv
  <2>4. CASE inbox[p][1].ev \notin {"everyone_answered", "solutions"}
    <3>1. play' = [play EXCEPT ![p] = Received(p, inbox[p][1])] /\ outbox' = outbox
      BY <1>2, <1>5, <2>4 DEF PlayReceive
    <3>2. /\ Received(p, inbox[p][1]) \in PlayPages
          /\ Received(p, inbox[p][1]).q # None => Received(p, inbox[p][1]).q \in Playable(scene.quiz)
      BY <1>2, <1>3, <1>5, <2>4, ReceivedFields
    <3>3. PlayOK'
      BY <1>0, <1>1, <3>1, <3>2, PlayTypesKept
    <3>4. play'[p] = Received(p, inbox[p][1]) /\ \A r \in Players : r # p => play'[r] = play[r]
      BY <1>0, <3>1 DEF PlayOK
    <3>5. TypeInv'
      BY <1>1, <2>1, <2>2, <3>1, <3>3, PartsStay DEF TypeInv
    <3>6. PlayTakes(p)
      <4>1. PICK new : new = Received(p, inbox[p][1])
        OBVIOUS
      <4>2. play'[p] = new
        BY <3>4, <4>1
      <4>3. PICK e \in Messages : e = inbox[p][1]
        BY <1>2
      <4>4. new = Received(p, e) /\ PlayEventOK(scene.quiz, e) /\ e.ev \notin {"everyone_answered", "solutions", "kick"}
        BY <1>3, <1>5, <2>4, <4>1, <4>3
      <4>5. Turned(play[p], inbox[p][1], play'[p])
        BY <4>2, <4>3, <4>4, ReceivedFields
      <4>6. QED
        BY <1>1, <1>2, <1>5, <2>1, <2>2, <2>4, <3>1, <3>4, <4>5 DEF PlayTakes
    <3>7. QED
      BY <1>1, <3>5, <3>6
  <2>5. QED
    BY <2>3, <2>4
<1>6. QED
  BY <1>4, <1>5

(***************************************************************************)
(* The steps of the hosts                                                  *)
(***************************************************************************)

\* What no press changes.
HostKept(h) ==
    /\ \A g \in Hosts : g # h => host'[g] = host[g]
    /\ host'[h].started = host[h].started /\ host'[h].selected = host[h].selected
    /\ host'[h].shown = host[h].shown /\ host'[h].results = host[h].results
    /\ host'[h].finals = host[h].finals /\ host'[h].adding = host[h].adding
    /\ host'[h].tally = host[h].tally

\* What the buttons and the keys ask of the page that offers them.
AsksNext(h)    == \/ host[h].selected = -1 /\ host[h].started
                  \/ ~LastSelected(h) /\ (ResultsVisible(h) \/ Slide(h))
AsksResults(h) == /\ host[h].results = None /\ host[h].selected # -1 /\ host[h].timer = "0" /\ ~Slide(h)
AsksFinals(h)  == LastSelected(h) /\ (ResultsVisible(h) \/ Slide(h))

\* A press of a host asks for e.
HostPresses(h, e) ==
    /\ UNCHANGED <<scene, server, play, inbox>> /\ Asked(h, e) /\ HostKept(h)
    /\ hasty' = 0 => Quiet /\ hasty = 0
    /\ host'[h].timer = host[h].timer \/ (host'[h].timer = "0" /\ host[h].selected # -1)
    /\ \/ /\ e = Plain("start_game") /\ ~host[h].started
          /\ host'[h].list = host[h].list /\ host'[h].later = host[h].later
       \/ /\ h = "admin" /\ ~host[h].started /\ host'[h].later = host[h].later
          /\ \E p \in host[h].list : /\ host'[h].list = host[h].list \ {p}
                                     /\ e = Event("kick_player", None, {p})
       \/ /\ e \in {Plain("set_control_visibility"), Plain("save_quiz")}
          /\ host'[h].list = host[h].list /\ host'[h].later = host[h].later
       \/ /\ host'[h].list = host[h].list /\ host'[h].later = host[h].later
          /\ \/ e = NextQuestion(h) /\ AsksNext(h)
             \/ e = Plain("show_solutions") /\ host[h].selected # -1
             \/ e = Plain("get_final_results") /\ AsksFinals(h)
       \/ /\ e = ShowResults(h) /\ AsksResults(h) /\ host'[h].list = host[h].list
          /\ host'[h].later => host[h].later \/ (h = "admin" /\ Hidden(host[h].selected))

\* The 200 ms after hidden results are over.
HostSkips(h) ==
    /\ UNCHANGED <<scene, server, play, inbox, hasty>> /\ Asked(h, NextQuestion(h)) /\ HostKept(h)
    /\ host[h].later /\ ~host'[h].later
    /\ host'[h].list = host[h].list /\ host'[h].timer = host[h].timer

\* The clock of the host's page, and the points it adds.
HostTicks(h) ==
    /\ UNCHANGED <<scene, server, play, inbox, outbox, hasty>>
    /\ \A g \in Hosts : g # h => host'[g] = host[g]
    /\ host'[h].started = host[h].started /\ host'[h].selected = host[h].selected
    /\ host'[h].shown = host[h].shown /\ host'[h].results = host[h].results
    /\ host'[h].finals = host[h].finals /\ host'[h].list = host[h].list /\ host'[h].later = host[h].later
    /\ \/ /\ host[h].timer = "runs" /\ host'[h].timer = "0"
          /\ host'[h].adding = host[h].adding /\ host'[h].tally = host[h].tally
       \/ /\ host[h].adding /\ ~host'[h].adding /\ host'[h].timer = host[h].timer
          /\ host'[h].tally = IF host[h].results = None THEN host[h].tally
                              ELSE Counted(host[h].tally, host[h].results)

\* A page of the host takes an event, field by field.
HostTurned(h, old, e, new) ==
    /\ new.list = IF e.ev = "player_joined" THEN old.list \cup e.who ELSE old.list
    /\ new.started <=> old.started \/ e.ev = "start_game"
    /\ new.selected = IF e.ev = "set_question_number" THEN old.selected + 1 ELSE old.selected
    /\ new.shown = IF e.ev = "set_question_number" THEN e.q ELSE old.shown
    /\ new.timer = IF e.ev = "set_question_number" THEN "runs"
                   ELSE IF e.ev \in {"everyone_answered", "solutions", "question_results", "final_results"}
                        THEN "0" ELSE old.timer
    /\ new.results = IF e.ev = "set_question_number" THEN None
                     ELSE IF e.ev = "question_results" THEN e.who ELSE old.results
    /\ new.finals <=> old.finals \/ e.ev = "final_results"
    /\ new.adding <=> old.adding \/ (e.ev = "question_results" /\ Mounts(h, old.selected))
    /\ new.tally = old.tally /\ new.later = old.later
HostTakes(h) ==
    /\ 1 \in Places(h) /\ Read(h) /\ UNCHANGED <<scene, server, play, outbox, hasty>>
    /\ \A g \in Hosts : g # h => host'[g] = host[g]
    /\ HostTurned(h, host[h], inbox[h][1], host'[h])

\* Host pages that change within their type keep it.
LEMMA HostTypesKept ==
    ASSUME HostsOK, scene' = scene, NEW h \in Hosts, NEW page \in HostPages,
           host' = [host EXCEPT ![h] = page]
    PROVE  HostsOK' /\ Static /\ host'[h] = page /\ \A g \in Hosts : g # h => host'[g] = host[g]
<1>1. Hosts' = Hosts
  BY DEF HostsOK, Hosts
<1>2. Static
  BY <1>1 DEF Static
<1>3. HostPages' = HostPages
  BY <1>2, TypesStay
<1>4. host' \in [Hosts -> HostPages]
  BY DEF HostsOK
<1>5. QED
  BY <1>1, <1>2, <1>3, <1>4 DEF HostsOK

\* A request of a host that fits.
LEMMA HostAsks ==
    ASSUME TypeInv, Static, NEW h \in Hosts, NEW e, Ask(h, <<e>>), HostsOK',
           e \in Messages, HostRequestOK(scene.quiz, h, e),
           UNCHANGED <<scene, server, play, inbox>>, hasty' \in Nat
    PROVE  TypeInv' /\ Asked(h, e)
<1>1. h \in Pages /\ h \notin Players /\ HostsOK /\ OutboxOK
  BY PagesApart DEF TypeInv
<1>2. OutboxOK' /\ Asked(h, e)
  BY <1>1, OutboxAsked
<1>3. QED
  BY <1>2, PartsStay DEF TypeInv

\* A press that waits finds everything quiet.
LEMMA PressedView ==
    ASSUME TypeInv, Pressed
    PROVE  hasty' \in Nat /\ (hasty' = 0 => Quiet /\ hasty = 0)
BY DEF Pressed, TypeInv

\* The requests of the hosts fit.
LEMMA HostRequestsFit ==
    ASSUME TypeInv, NEW h \in Hosts
    PROVE  /\ \A k \in {"start_game", "set_control_visibility", "save_quiz", "show_solutions", "get_final_results"} :
                 Plain(k) \in Messages /\ HostRequestOK(scene.quiz, h, Plain(k))
           /\ NextQuestion(h) \in Messages /\ HostRequestOK(scene.quiz, h, NextQuestion(h))
           /\ ShowResults(h) \in Messages /\ HostRequestOK(scene.quiz, h, ShowResults(h))
           /\ \A p \in Players : /\ Event("kick_player", None, {p}) \in Messages
                                 /\ HostRequestOK(scene.quiz, "admin", Event("kick_player", None, {p}))
           /\ host[h] \in HostPages
<1>1. host[h] \in HostPages
  BY DEF TypeInv, HostsOK
<1>2. host[h].selected + 1 \in Nat /\ host[h].shown \in Questions \cup {-1} /\ host[h].shown \in Int
  BY <1>1, SceneFacts DEF HostPages, TypeInv
<1>3. /\ NextQuestion(h) \in Messages /\ HostRequestOK(scene.quiz, h, NextQuestion(h))
  BY <1>2 DEF NextQuestion, Event, Messages, HostRequestOK, HostRequests
<1>4. ShowResults(h) \in Messages /\ HostRequestOK(scene.quiz, h, ShowResults(h))
  BY <1>2, QuizFacts DEF ShowResults, Event, Messages, HostRequestOK, HostRequests, TypeInv
<1>5. ASSUME NEW p \in Players
      PROVE  /\ Event("kick_player", None, {p}) \in Messages
             /\ HostRequestOK(scene.quiz, "admin", Event("kick_player", None, {p}))
  BY DEF Event, Messages, HostRequestOK, HostRequests
<1>6. ASSUME NEW k \in {"start_game", "set_control_visibility", "save_quiz", "show_solutions", "get_final_results"}
      PROVE  Plain(k) \in Messages /\ HostRequestOK(scene.quiz, h, Plain(k))
  BY DEF Plain, Event, Messages, HostRequestOK, HostRequests
<1>7. QED
  BY <1>1, <1>3, <1>4, <1>5, <1>6

\* "Start game", the controls of the remote and the export.
LEMMA PlainPressView ==
    ASSUME TypeInv, NEW h \in Hosts, NEW k \in {"start_game", "set_control_visibility", "save_quiz"},
           Ask(h, <<Plain(k)>>), Pressed, UNCHANGED <<scene, server, host, play, inbox>>,
           k = "start_game" => ~host[h].started
    PROVE  TypeInv' /\ Static /\ HostPresses(h, Plain(k))
<1>1. Static /\ HostsOK'
  BY PartsStay DEF Static, Hosts
<1>2. TypeInv' /\ Asked(h, Plain(k))
  BY <1>1, HostAsks, HostRequestsFit, PressedView
<1>3. QED
  BY <1>1, <1>2, PressedView DEF HostPresses, HostKept

\* A kick.
LEMMA KickView ==
    ASSUME TypeInv, NEW p \in Players, Kick(p)
    PROVE  TypeInv' /\ Static /\ HostPresses("admin", Event("kick_player", None, {p}))
<1>1. HostsOK /\ "admin" \in Hosts /\ host["admin"] \in HostPages
  BY DEF TypeInv, HostsOK
<1> DEFINE page == [host["admin"] EXCEPT !.list = @ \ {p}]
<1>2. /\ host' = [host EXCEPT !["admin"] = page] /\ Pressed /\ UNCHANGED <<scene, server, play, inbox>>
      /\ Ask("admin", <<Event("kick_player", None, {p})>>)
      /\ ~host["admin"].started /\ p \in host["admin"].list
  BY DEF Kick
<1>3. page \in HostPages /\ page.list = host["admin"].list \ {p}
      /\ page.timer = host["admin"].timer /\ page.later = host["admin"].later
  BY <1>1 DEF HostPages
<1>4. /\ page.started = host["admin"].started /\ page.selected = host["admin"].selected
      /\ page.shown = host["admin"].shown /\ page.results = host["admin"].results
      /\ page.finals = host["admin"].finals /\ page.adding = host["admin"].adding
      /\ page.tally = host["admin"].tally
  BY <1>1 DEF HostPages
<1> HIDE DEF page
<1>5. HostsOK' /\ Static /\ host'["admin"] = page /\ \A g \in Hosts : g # "admin" => host'[g] = host[g]
  BY <1>1, <1>2, <1>3, HostTypesKept
<1>6. TypeInv' /\ Asked("admin", Event("kick_player", None, {p}))
  BY <1>1, <1>2, <1>5, HostAsks, HostRequestsFit, PressedView
<1>7. HostKept("admin")
  BY <1>4, <1>5 DEF HostKept
<1>8. QED
  BY <1>2, <1>3, <1>5, <1>6, <1>7, PressedView DEF HostPresses

\* What the buttons and the keys are for.
LEMMA PressKinds ==
    ASSUME TypeInv, NEW h \in Hosts, NEW e, e \in Buttons(h) \cup (IF h = "admin" THEN Keyboard ELSE {})
    PROVE  \/ e = NextQuestion(h) /\ AsksNext(h)
           \/ e = Plain("show_solutions") /\ host[h].selected # -1
           \/ e = Plain("get_final_results") /\ AsksFinals(h)
           \/ e = ShowResults(h) /\ AsksResults(h)
           \/ e = Event("skip_results", host[h].shown, {}) /\ AsksResults(h) /\ h = "admin" /\ Hidden(host[h].selected)
<1>1. CASE e \in Buttons(h)
  BY <1>1 DEF Buttons, AsksNext, AsksFinals, AsksResults, ResultsVisible
<1>2. CASE h = "admin" /\ e \in Keyboard
  BY <1>2 DEF Keyboard, AsksNext, AsksFinals, AsksResults, ResultsVisible, Ongoing, Ended
<1>3. QED
  BY <1>1, <1>2

\* A press of a button or a key.
LEMMA PressView ==
    ASSUME TypeInv, NEW h \in Hosts, Press(h)
    PROVE  TypeInv' /\ Static /\ \E e \in Messages : HostPresses(h, e)
<1>1. PICK b \in Buttons(h) \cup (IF h = "admin" THEN Keyboard ELSE {}) :
        /\ Pressed
        /\ host' = [host EXCEPT
              ![h].timer = IF b.ev = "show_solutions" /\ h = "admin" THEN "0" ELSE @,
              ![h].later = @ \/ b.ev = "skip_results"]
        /\ Ask(h, <<IF b.ev = "skip_results" THEN ShowResults(h) ELSE b>>)
        /\ UNCHANGED <<scene, server, play, inbox>>
  BY DEF Press
<1>2. HostsOK /\ host[h] \in HostPages
  BY DEF TypeInv, HostsOK
<1> DEFINE stops == b.ev = "show_solutions" /\ h = "admin"
           skips == b.ev = "skip_results"
           e == IF skips THEN ShowResults(h) ELSE b
           page == [host[h] EXCEPT !.timer = IF stops THEN "0" ELSE @, !.later = @ \/ skips]
<1>3. host' = [host EXCEPT ![h] = page] /\ Ask(h, <<e>>)
  BY <1>1
<1>4. stops \in BOOLEAN /\ skips \in BOOLEAN
  OBVIOUS
<1>5. /\ page \in HostPages /\ page.list = host[h].list /\ page.later = (host[h].later \/ skips)
      /\ page.timer = IF stops THEN "0" ELSE host[h].timer
  <2> HIDE DEF stops, skips
  <2>1. QED
    BY <1>2, <1>4 DEF HostPages, Timers
<1>6. /\ page.started = host[h].started /\ page.selected = host[h].selected
      /\ page.shown = host[h].shown /\ page.results = host[h].results
      /\ page.finals = host[h].finals /\ page.adding = host[h].adding
      /\ page.tally = host[h].tally
  <2> HIDE DEF stops, skips
  <2>1. QED
    BY <1>2 DEF HostPages
<1>7. \/ b = NextQuestion(h) /\ AsksNext(h) /\ ~skips /\ ~stops /\ e = b
      \/ b = Plain("show_solutions") /\ host[h].selected # -1 /\ ~skips /\ e = b
      \/ b = Plain("get_final_results") /\ AsksFinals(h) /\ ~skips /\ ~stops /\ e = b
      \/ b = ShowResults(h) /\ AsksResults(h) /\ ~skips /\ ~stops /\ e = ShowResults(h)
      \/ AsksResults(h) /\ h = "admin" /\ Hidden(host[h].selected) /\ skips /\ ~stops /\ e = ShowResults(h)
  <2>1. \/ b = NextQuestion(h) /\ AsksNext(h)
        \/ b = Plain("show_solutions") /\ host[h].selected # -1
        \/ b = Plain("get_final_results") /\ AsksFinals(h)
        \/ b = ShowResults(h) /\ AsksResults(h)
        \/ b = Event("skip_results", host[h].shown, {}) /\ AsksResults(h) /\ h = "admin" /\ Hidden(host[h].selected)
    BY PressKinds
  <2>2. /\ b = NextQuestion(h) => b.ev = "set_question_number"
        /\ b = Plain("show_solutions") => b.ev = "show_solutions"
        /\ b = Plain("get_final_results") => b.ev = "get_final_results"
        /\ b = ShowResults(h) => b.ev = "get_question_results"
        /\ b = Event("skip_results", host[h].shown, {}) => b.ev = "skip_results"
    BY DEF Plain, Event, NextQuestion, ShowResults
  <2>3. ~skips => e = b
    OBVIOUS
  <2>4. skips => e = ShowResults(h)
    OBVIOUS
  <2> HIDE DEF e
  <2>5. QED
    BY <2>1, <2>2, <2>3, <2>4
<1> HIDE DEF page, e, stops, skips
<1>8. e \in Messages /\ HostRequestOK(scene.quiz, h, e)
  BY <1>7, HostRequestsFit
<1>9. HostsOK' /\ Static /\ host'[h] = page /\ \A g \in Hosts : g # h => host'[g] = host[g]
  BY <1>1, <1>2, <1>3, <1>5, HostTypesKept
<1>10. TypeInv' /\ Asked(h, e)
  BY <1>1, <1>3, <1>8, <1>9, HostAsks, PressedView
<1>11. HostKept(h) /\ host'[h].list = host[h].list
  BY <1>5, <1>6, <1>9 DEF HostKept
<1>12. host'[h].timer = host[h].timer \/ (host'[h].timer = "0" /\ host[h].selected # -1)
  BY <1>5, <1>7, <1>9
<1>13. host[h].later \in BOOLEAN
  BY <1>2 DEF HostPages
<1>14. host'[h].later => host[h].later \/ skips
  BY <1>5, <1>9, <1>13
<1>15. ~skips => host'[h].later = host[h].later
  BY <1>5, <1>9, <1>13
<1>16. HostPresses(h, e)
  BY <1>1, <1>7, <1>10, <1>11, <1>12, <1>14, <1>15, PressedView DEF HostPresses
<1>17. QED
  BY <1>8, <1>9, <1>10, <1>16

\* A host who pressed nothing: the 200 ms, the clock and the points.
LEMMA SkipOnView ==
    ASSUME TypeInv, NEW h \in Hosts, SkipOn(h)
    PROVE  TypeInv' /\ Static /\ HostSkips(h)
<1>1. HostsOK /\ host[h] \in HostPages
  BY DEF TypeInv, HostsOK
<1> DEFINE page == [host[h] EXCEPT !.later = FALSE]
<1>2. /\ host' = [host EXCEPT ![h] = page] /\ UNCHANGED <<scene, server, play, inbox, hasty>>
      /\ Ask(h, <<NextQuestion(h)>>) /\ host[h].later
  BY DEF SkipOn
<1>3. /\ page \in HostPages /\ page.list = host[h].list /\ ~page.later /\ page.timer = host[h].timer
      /\ page.started = host[h].started /\ page.selected = host[h].selected
      /\ page.shown = host[h].shown /\ page.results = host[h].results
      /\ page.finals = host[h].finals /\ page.adding = host[h].adding
      /\ page.tally = host[h].tally
  BY <1>1 DEF HostPages
<1> HIDE DEF page
<1>4. HostsOK' /\ Static /\ host'[h] = page /\ \A g \in Hosts : g # h => host'[g] = host[g]
  BY <1>1, <1>2, <1>3, HostTypesKept
<1>5. hasty' \in Nat
  BY <1>2 DEF TypeInv
<1>6. TypeInv' /\ Asked(h, NextQuestion(h))
  BY <1>2, <1>4, <1>5, HostAsks, HostRequestsFit
<1>7. QED
  BY <1>2, <1>3, <1>4, <1>6 DEF HostSkips, HostKept

\* The clock and the points.
LEMMA HostTicksView ==
    ASSUME TypeInv, NEW h \in Hosts, HostTick(h) \/ ShowNewScore(h)
    PROVE  TypeInv' /\ Static /\ HostTicks(h)
<1>1. HostsOK /\ host[h] \in HostPages
  BY DEF TypeInv, HostsOK
<1>2. UNCHANGED <<scene, server, play, inbox, outbox, hasty>>
  BY DEF HostTick, ShowNewScore
<1>3. CASE HostTick(h)
  <2> DEFINE page == [host[h] EXCEPT !.timer = "0"]
  <2>1. host' = [host EXCEPT ![h] = page] /\ host[h].timer = "runs"
    BY <1>3 DEF HostTick
  <2>2. /\ page \in HostPages /\ page.list = host[h].list /\ page.later = host[h].later /\ page.timer = "0"
        /\ page.started = host[h].started /\ page.selected = host[h].selected
        /\ page.shown = host[h].shown /\ page.results = host[h].results
        /\ page.finals = host[h].finals /\ page.adding = host[h].adding
        /\ page.tally = host[h].tally
    BY <1>1 DEF HostPages, Timers
  <2> HIDE DEF page
  <2>3. HostsOK' /\ Static /\ host'[h] = page /\ \A g \in Hosts : g # h => host'[g] = host[g]
    BY <1>1, <1>2, <2>1, <2>2, HostTypesKept
  <2>4. TypeInv'
    BY <1>2, <2>3, PartsStay DEF TypeInv
  <2>5. QED
    BY <1>2, <2>1, <2>2, <2>3, <2>4 DEF HostTicks
<1>4. CASE ShowNewScore(h)
  <2> DEFINE t == IF host[h].results = None THEN host[h].tally ELSE Counted(host[h].tally, host[h].results)
             page == [host[h] EXCEPT !.adding = FALSE, !.tally = t]
  <2>1. host' = [host EXCEPT ![h] = page] /\ host[h].adding
    BY <1>4 DEF ShowNewScore
  <2>2. t \in [Players -> Nat]
    BY <1>1 DEF HostPages, Counted
  <2>3. /\ page \in HostPages /\ page.list = host[h].list /\ page.later = host[h].later
        /\ page.timer = host[h].timer
        /\ page.started = host[h].started /\ page.selected = host[h].selected
        /\ page.shown = host[h].shown /\ page.results = host[h].results
        /\ page.finals = host[h].finals /\ ~page.adding
        /\ page.tally = t
    <3> HIDE DEF t
    <3>1. QED
      BY <1>1, <2>2 DEF HostPages
  <2> HIDE DEF page
  <2>4. HostsOK' /\ Static /\ host'[h] = page /\ \A g \in Hosts : g # h => host'[g] = host[g]
    BY <1>1, <1>2, <2>1, <2>3, HostTypesKept
  <2>5. TypeInv'
    BY <1>2, <2>4, PartsStay DEF TypeInv
  <2>6. QED
    BY <1>2, <2>1, <2>3, <2>4, <2>5 DEF HostTicks
<1>5. QED
  BY <1>3, <1>4

\* What HostReceived makes of the page.
LEMMA HostReceivedFields ==
    ASSUME TypeInv, NEW h \in Hosts, NEW e \in Messages, HostEventOK(scene.quiz, e),
           NEW new, new = HostReceived(h, e)
    PROVE  new \in HostPages /\ HostTurned(h, host[h], e, new)
<1>0. host[h] \in HostPages /\ e.who \in SUBSET Players
  BY DEF TypeInv, HostsOK, Messages
<1> USE DEF HostTurned
<1>1. e.ev \in HostEvents
  BY DEF HostEventOK
<1>2. CASE e.ev = "player_joined"
  <2>1. new = [host[h] EXCEPT !.list = @ \cup e.who]
    BY <1>2 DEF HostReceived
  <2>2. QED
    BY <1>0, <1>2, <2>1 DEF HostPages
<1>3. CASE e.ev = "start_game"
  <2>1. new = [host[h] EXCEPT !.started = TRUE]
    BY <1>3 DEF HostReceived
  <2>2. QED
    BY <1>0, <1>3, <2>1 DEF HostPages
<1>4. CASE e.ev = "set_question_number"
  <2>1. new = [host[h] EXCEPT !.results = None, !.shown = e.q, !.timer = "runs", !.selected = @ + 1]
    BY <1>4 DEF HostReceived, HostShown
  <2>2. e.q \in Questions \cup {-1} /\ host[h].selected + 1 \in Nat \cup {-1}
    BY <1>0, <1>4, QuizFacts DEF HostEventOK, TypeInv, HostPages
  <2>3. PICK s \in Nat \cup {-1} : s = host[h].selected + 1
    BY <2>2
  <2>4. new = [host[h] EXCEPT !.results = None, !.shown = e.q, !.timer = "runs", !.selected = s]
    BY <2>1, <2>3
  <2>5. QED
    BY <1>0, <1>4, <2>2, <2>3, <2>4 DEF HostPages, Timers, Lists
<1>5. CASE e.ev \in {"everyone_answered", "solutions"}
  <2>1. new = [host[h] EXCEPT !.timer = "0"]
    BY <1>5 DEF HostReceived
  <2>2. QED
    BY <1>0, <1>5, <2>1 DEF HostPages, Timers
<1>6. CASE e.ev = "question_results"
  <2> DEFINE m == Mounts(h, host[h].selected)
  <2>1. new = [host[h] EXCEPT !.results = e.who, !.timer = "0", !.adding = @ \/ m]
    BY <1>6 DEF HostReceived
  <2>2. m \in BOOLEAN
    BY DEF Mounts
  <2> HIDE DEF m
  <2>3. new \in HostPages
    BY <1>0, <2>1, <2>2 DEF HostPages, Timers, Lists
  <2>4. /\ new.list = host[h].list /\ new.started = host[h].started /\ new.selected = host[h].selected
        /\ new.shown = host[h].shown /\ new.timer = "0" /\ new.results = e.who /\ new.finals = host[h].finals
        /\ new.tally = host[h].tally /\ new.later = host[h].later /\ (new.adding <=> host[h].adding \/ m)
    BY <1>0, <2>1 DEF HostPages
  <2>5. QED
    BY <1>6, <2>3, <2>4 DEF m
<1>7. CASE e.ev = "final_results"
  <2>1. new = [host[h] EXCEPT !.finals = TRUE, !.timer = "0"]
    BY <1>7 DEF HostReceived
  <2>2. QED
    BY <1>0, <1>7, <2>1 DEF HostPages, Timers
<1>8. CASE e.ev = "control_visibility"
  <2>1. new = [host[h] EXCEPT !.visible = TRUE]
    BY <1>8 DEF HostReceived
  <2>2. QED
    BY <1>0, <1>8, <2>1 DEF HostPages
<1>9. CASE e.ev = "results_saved_successfully"
  <2>1. new = [host[h] EXCEPT !.saved = TRUE]
    BY <1>9 DEF HostReceived
  <2>2. QED
    BY <1>0, <1>9, <2>1 DEF HostPages
<1>10. QED
  BY <1>1, <1>2, <1>3, <1>4, <1>5, <1>6, <1>7, <1>8, <1>9 DEF HostEvents

\* A page of the host takes its next event.
LEMMA HostReceiveView ==
    ASSUME TypeInv, NEW h \in Hosts, HostReceive(h)
    PROVE  TypeInv' /\ Static /\ HostTakes(h)
<1>0. /\ HostsOK /\ InboxOK /\ h \in Pages /\ host[h] \in HostPages
  BY PagesApart DEF TypeInv, HostsOK
<1>1. /\ inbox[h] # <<>> /\ inbox' = [inbox EXCEPT ![h] = Tail(@)]
      /\ host' = [host EXCEPT ![h] = HostReceived(h, Head(inbox[h]))]
      /\ UNCHANGED <<scene, server, play, outbox, hasty>>
  BY DEF HostReceive
<1>2. Head(inbox[h]) = inbox[h][1] /\ 1 \in Places(h) /\ inbox[h][1] \in Messages
  BY <1>0, <1>1, Taken DEF InboxOK, Places
<1>3. HostEventOK(scene.quiz, inbox[h][1])
  BY <1>0, <1>2 DEF InboxOK
<1>4. PICK new : new = HostReceived(h, inbox[h][1])
  OBVIOUS
<1>5. new \in HostPages /\ HostTurned(h, host[h], inbox[h][1], new)
  BY <1>2, <1>3, <1>4, HostReceivedFields
<1>6. host' = [host EXCEPT ![h] = new]
  BY <1>1, <1>2, <1>4
<1>7. HostsOK' /\ Static /\ host'[h] = new /\ \A g \in Hosts : g # h => host'[g] = host[g]
  BY <1>0, <1>1, <1>5, <1>6, HostTypesKept
<1>8. InboxOK' /\ Read(h)
  BY <1>0, <1>1, <1>7, InboxRead
<1>9. TypeInv'
  BY <1>1, <1>7, <1>8, PartsStay DEF TypeInv
<1>10. QED
  BY <1>1, <1>2, <1>5, <1>7, <1>8, <1>9 DEF HostTakes

(***************************************************************************)
(* The handlers                                                            *)
(***************************************************************************)

\* What no handler changes, and the request that is done.
HandlesOne(g, i) ==
    /\ i \in Slots(g) /\ Done(g, i) /\ UNCHANGED <<scene, host, play, hasty>>

\* The handler changes nothing; a page that rejoins is not the one its name is kept for.
HandlesNothing(g, i) ==
    /\ server' = server /\ inbox' = inbox
    /\ outbox[g][i].ev = "rejoin_game" => server.keys[g] # outbox[g][i].q

HandlesJoin(p, i) ==
    /\ p \in Players /\ outbox[p][i].ev = "join_game" /\ ~server.started /\ server.keys[p] = 0
    /\ server'.current = server.current /\ server'.started = server.started
    /\ server'.answers = server.answers /\ server'.announce = server.announce
    /\ server'.checked = server.checked /\ server'.others = server.others
    /\ server'.keys = [server.keys EXCEPT ![p] = play[p].conn]
    /\ server'.counted = server.counted \cup {p} /\ server'.room = server.room \cup {p}
    /\ \A g \in Pages :
          IF g = p THEN Plus(inbox[g], inbox'[g], Plain("joined_game"))
          ELSE IF g \in Hosts THEN Plus(inbox[g], inbox'[g], Event("player_joined", None, {p}))
          ELSE inbox'[g] = inbox[g]

HandlesRejoin(p, i) ==
    /\ p \in Players /\ outbox[p][i].ev = "rejoin_game" /\ server.keys[p] = outbox[p][i].q
    /\ server'.current = server.current /\ server'.started = server.started
    /\ server'.answers = server.answers /\ server'.announce = server.announce
    /\ server'.checked = server.checked /\ server'.others = server.others
    /\ server'.keys = [server.keys EXCEPT ![p] = play[p].conn]
    /\ server'.counted = server.counted \cup {p} /\ server'.room = server.room \cup {p}
    /\ Sent({p}, RejoinNews)

\* Whose answers to question q are being listed.
Listing(q) == {p \in Players : server.checked[q][p] > 0}

HandlesSubmit(p, i) ==
    LET q == outbox[p][i].q IN
    /\ p \in Players /\ outbox[p][i].ev = "submit_answer" /\ Accepts(p, q) /\ q \in Questions /\ Type(q) # "SLIDE"
    /\ server'.current = server.current /\ server'.started = server.started
    /\ server'.keys = server.keys /\ server'.counted = server.counted /\ server'.room = server.room
    /\ server'.answers = server.answers /\ server'.announce = server.announce
    /\ server'.others = server.others
    /\ \A x \in Questions : Listing(x)' \subseteq Listing(x) \cup (IF x = q THEN {p} ELSE {})
    /\ inbox' = inbox

\* What a handler does not touch of the game, but for the players' names.
SameGame == /\ server'.answers = server.answers /\ server'.announce = server.announce
            /\ server'.keys = server.keys /\ server'.checked = server.checked
            /\ server'.others = server.others

HandlesStart(h, i) ==
    /\ h \in Hosts /\ outbox[h][i].ev = "start_game"
    /\ SameGame /\ server'.current = server.current /\ server'.started
    /\ server'.counted = server.counted /\ server'.room = server.room
    /\ Sent(ToRoom, Plain("start_game"))

HandlesQuestion(h, i) ==
    LET q == outbox[h][i].q IN
    /\ h \in Hosts /\ outbox[h][i].ev = "set_question_number" /\ q \in Nat
    /\ SameGame /\ server'.current = q /\ server'.started = server.started
    /\ server'.counted = server.counted /\ server'.room = server.room
    /\ IF q \notin Questions THEN inbox' = inbox
       ELSE Sent(IF Type(q) = "SLIDE" THEN {h} ELSE ToRoom, Event("set_question_number", q, {}))

HandlesResults(h, i) ==
    LET q == outbox[h][i].q IN
    /\ h \in Hosts /\ outbox[h][i].ev = "get_question_results" /\ server' = server
    /\ Sent(ToRoom, Event("question_results", q, ResultList(q)))

HandlesTold(h, i) ==
    /\ h \in Hosts /\ server' = server
    /\ \/ outbox[h][i].ev = "show_solutions" /\ Sent(ToRoom, Plain("solutions"))
       \/ outbox[h][i].ev = "get_final_results" /\ Sent(ToRoom, Plain("final_results"))

HandlesKick(h, i) ==
    /\ h = "admin" /\ outbox[h][i].ev = "kick_player"
    /\ \E p \in Players :
          /\ outbox[h][i].who = {p}
          /\ SameGame /\ server'.current = server.current /\ server'.started = server.started
          /\ server'.counted = server.counted \ {p} /\ server'.room = server.room \ {p}
          /\ Sent(IF Holds(p, play[p].conn) THEN {p} ELSE {}, Plain("kick"))

HandlesNews(h, i) ==
    /\ h \in Hosts
    /\ SameGame /\ server'.current = server.current /\ server'.started = server.started
    /\ server'.counted = server.counted /\ server'.room = server.room
    /\ \/ outbox[h][i].ev = "set_control_visibility" /\ Sent(Hosts, Plain("control_visibility"))
       \/ outbox[h][i].ev = "save_quiz" /\ Sent({"admin"}, Plain("results_saved_successfully"))

Handles(g, i) == HandlesOne(g, i) /\
    (\/ HandlesNothing(g, i) \/ HandlesJoin(g, i) \/ HandlesRejoin(g, i) \/ HandlesSubmit(g, i)
     \/ HandlesStart(g, i) \/ HandlesQuestion(g, i) \/ HandlesResults(g, i) \/ HandlesTold(g, i)
     \/ HandlesKick(g, i) \/ HandlesNews(g, i))

\* The rest of submit_answer, and the news of other games.
Stores ==
    \E p \in Players, q \in Questions :
        p \in Listing(q) /\ server'.answers = [server.answers EXCEPT ![q] = @ \cup {p}]
Announces ==
    /\ UNCHANGED <<scene, host, play, outbox, hasty>>
    /\ server'.current = server.current /\ server'.started = server.started
    /\ server'.keys = server.keys /\ server'.counted = server.counted /\ server'.room = server.room
    /\ server'.others <= server.others /\ \A x \in Questions : Listing(x)' \subseteq Listing(x)
    /\ \/ Stores /\ inbox' = inbox
       \/ /\ server'.answers = server.answers /\ server'.announce <= server.announce
          /\ \/ (server.announce > 0 \/ Disturbed') /\ Sent(Pages, Plain("everyone_answered"))
             \/ Sent({"admin"}, Plain("results_saved_successfully"))

\* The events the handlers send fit.
LEMMA EventsFit ==
    ASSUME TypeInv
    PROVE  /\ \A k \in {"start_game", "solutions", "final_results", "everyone_answered"} :
                 /\ Plain(k) \in Messages
                 /\ PlayEventOK(scene.quiz, Plain(k)) /\ HostEventOK(scene.quiz, Plain(k))
           /\ \A k \in {"joined_game", "kick"} : Plain(k) \in Messages /\ PlayEventOK(scene.quiz, Plain(k))
           /\ \A k \in {"control_visibility", "results_saved_successfully"} :
                 Plain(k) \in Messages /\ HostEventOK(scene.quiz, Plain(k))
           /\ RejoinNews \in Messages /\ PlayEventOK(scene.quiz, RejoinNews)
           /\ \A p \in Players : /\ Event("player_joined", None, {p}) \in Messages
                                 /\ HostEventOK(scene.quiz, Event("player_joined", None, {p}))
           /\ \A q \in Questions : /\ Event("set_question_number", q, {}) \in Messages
                                   /\ HostEventOK(scene.quiz, Event("set_question_number", q, {}))
                                   /\ Type(q) # "SLIDE" =>
                                        PlayEventOK(scene.quiz, Event("set_question_number", q, {}))
           /\ \A q \in Questions \cup {-1} :
                 /\ Event("question_results", q, ResultList(q)) \in Messages
                 /\ PlayEventOK(scene.quiz, Event("question_results", q, ResultList(q)))
                 /\ HostEventOK(scene.quiz, Event("question_results", q, ResultList(q)))
<1>0. scene \in Scenes /\ server \in Servers
  BY DEF TypeInv, ServerOK
<1>1. ASSUME NEW k \in {"start_game", "solutions", "final_results", "everyone_answered"}
      PROVE  /\ Plain(k) \in Messages
             /\ PlayEventOK(scene.quiz, Plain(k)) /\ HostEventOK(scene.quiz, Plain(k))
  BY DEF Plain, Event, Messages, PlayEventOK, HostEventOK, PlayEvents, HostEvents
<1>2. ASSUME NEW k \in {"joined_game", "kick"}
      PROVE  Plain(k) \in Messages /\ PlayEventOK(scene.quiz, Plain(k))
  BY DEF Plain, Event, Messages, PlayEventOK, PlayEvents
<1>3. ASSUME NEW k \in {"control_visibility", "results_saved_successfully"}
      PROVE  Plain(k) \in Messages /\ HostEventOK(scene.quiz, Plain(k))
  BY DEF Plain, Event, Messages, HostEventOK, HostEvents
<1>4. RejoinNews \in Messages /\ PlayEventOK(scene.quiz, RejoinNews)
  BY DEF RejoinNews, Event, Messages, PlayEventOK, PlayEvents
<1>5. ASSUME NEW p \in Players
      PROVE  /\ Event("player_joined", None, {p}) \in Messages
             /\ HostEventOK(scene.quiz, Event("player_joined", None, {p}))
  BY DEF Event, Messages, HostEventOK, HostEvents
<1>6. ASSUME NEW q \in Questions
      PROVE  /\ Event("set_question_number", q, {}) \in Messages
             /\ HostEventOK(scene.quiz, Event("set_question_number", q, {}))
             /\ Type(q) # "SLIDE" => PlayEventOK(scene.quiz, Event("set_question_number", q, {}))
  <2>1. q \in Int /\ q \in Numbers(scene.quiz) /\ (Type(q) # "SLIDE" => q \in Playable(scene.quiz))
    BY <1>0, SceneFacts, QuizFacts
  <2>2. QED
    BY <2>1 DEF Event, Messages, PlayEventOK, HostEventOK, PlayEvents, HostEvents
<1>7. ASSUME NEW q \in Questions \cup {-1}
      PROVE  /\ Event("question_results", q, ResultList(q)) \in Messages
             /\ PlayEventOK(scene.quiz, Event("question_results", q, ResultList(q)))
             /\ HostEventOK(scene.quiz, Event("question_results", q, ResultList(q)))
  <2>1. q \in Int /\ ResultList(q) \in SUBSET Players
    BY <1>0, SceneFacts DEF Servers, ResultList
  <2>2. QED
    BY <2>1 DEF Event, Messages, PlayEventOK, HostEventOK, PlayEvents, HostEvents
<1>8. QED
  BY <1>1, <1>2, <1>3, <1>4, <1>5, <1>6, <1>7

\* Whoever is in the room is a player.
LEMMA RoomFacts ==
    ASSUME TypeInv
    PROVE  /\ server.room \subseteq Players /\ ToRoom \subseteq Pages
           /\ \A h \in Hosts : h \in Pages /\ h \notin Players
           /\ \A p \in Players : p \in Pages /\ p \notin Hosts /\ p # "admin"
           /\ "admin" \in Hosts /\ DOMAIN inbox = Pages /\ DOMAIN outbox = Pages
<1>1. server.room \subseteq Players /\ "admin" \in Hosts /\ DOMAIN inbox = Pages /\ DOMAIN outbox = Pages
  BY DEF TypeInv, ServerOK, Servers, HostsOK, InboxOK, OutboxOK
<1>2. QED
  BY <1>1, PagesApart DEF ToRoom, Pages, TypeInv

\* A player enters the room under a name.
TakesPlace(p) ==
    /\ server'.current = server.current /\ server'.started = server.started
    /\ server'.answers = server.answers /\ server'.announce = server.announce
    /\ server'.checked = server.checked /\ server'.others = server.others
    /\ server'.keys = [server.keys EXCEPT ![p] = play[p].conn]
    /\ server'.counted = server.counted \cup {p} /\ server'.room = server.room \cup {p}

LEMMA EnterView ==
    ASSUME TypeInv, Static, NEW p \in Players, play' = play,
           server' = [server EXCEPT !.keys[p] = play[p].conn, !.counted = @ \cup {p}, !.room = @ \cup {p}]
    PROVE  ServerOK' /\ TakesPlace(p)
<1>1. server \in Servers /\ server.room \subseteq server.counted /\ play[p].conn \in Nat
  BY DEF TypeInv, ServerOK, PlayOK, PlayPages
<1>2. PICK keys \in [Players -> Nat] : keys = [server.keys EXCEPT ![p] = play[p].conn]
  BY <1>1 DEF Servers
<1>3. server' = [server EXCEPT !.keys = keys, !.counted = @ \cup {p}, !.room = @ \cup {p}]
  BY <1>1, <1>2 DEF Servers
<1>4. server' \in Servers
  <2>1. PICK c \in SUBSET Players, m \in SUBSET Players : c = server.counted \cup {p} /\ m = server.room \cup {p}
    BY <1>1 DEF Servers
  <2>2. server' = [server EXCEPT !.keys = keys, !.counted = c, !.room = m]
    BY <1>3, <2>1
  <2>3. QED
    BY <1>1, <2>2 DEF Servers
<1>5. /\ server'.current = server.current /\ server'.started = server.started
      /\ server'.answers = server.answers /\ server'.announce = server.announce
      /\ server'.checked = server.checked /\ server'.others = server.others
      /\ server'.keys = keys
      /\ server'.counted = server.counted \cup {p} /\ server'.room = server.room \cup {p}
  BY <1>1, <1>3 DEF Servers
<1>6. ServerOK'
  BY <1>1, <1>4, <1>5, TypesStay DEF ServerOK
<1>7. QED
  BY <1>2, <1>5, <1>6 DEF TakesPlace

\* join_game.
LEMMA HandleJoinView ==
    ASSUME TypeInv, Static, NEW p \in Players, NEW i, outbox[p][i].ev = "join_game", HandleJoin(p), play' = play
    PROVE  ServerOK' /\ InboxOK' /\ (HandlesNothing(p, i) \/ HandlesJoin(p, i))
<1>1. CASE server.started \/ server.keys[p] # 0
  <2>1. server' = server /\ inbox' = inbox
    BY <1>1 DEF HandleJoin
  <2>2. outbox[p][i].ev # "rejoin_game"
    OBVIOUS
  <2>3. QED
    BY <2>1, <2>2, PartsStay DEF HandlesNothing
<1>2. CASE ~(server.started \/ server.keys[p] # 0)
  <2>1. /\ server' = [server EXCEPT !.keys[p] = play[p].conn, !.counted = @ \cup {p}, !.room = @ \cup {p}]
        /\ inbox' = [g \in DOMAIN inbox |->
                        IF g = p THEN Append(inbox[g], Plain("joined_game"))
                        ELSE IF g = "admin" \/ g = "remote"
                             THEN Append(inbox[g], Event("player_joined", None, {p}))
                        ELSE inbox[g]]
    BY <1>2 DEF HandleJoin
  <2> DEFINE e == Plain("joined_game")
             j == Event("player_joined", None, {p})
  <2>2. /\ e \in Messages /\ PlayEventOK(scene.quiz, e) /\ j \in Messages /\ HostEventOK(scene.quiz, j)
    BY EventsFit
  <2>3. \A g \in Pages : inbox[g] \in Seq(Messages)
    BY DEF TypeInv, InboxOK
  <2>4. \A g \in Pages : (g = "admin" \/ g = "remote") <=> g \in Hosts
    BY PagesAssumption DEF Pages, TypeInv, HostsOK
  <2> HIDE DEF e, j
  <2>5. \A g \in Pages : /\ Append(inbox[g], e) \in Seq(Messages) /\ Plus(inbox[g], Append(inbox[g], e), e)
                         /\ Append(inbox[g], j) \in Seq(Messages) /\ Plus(inbox[g], Append(inbox[g], j), j)
    <3>1. TAKE g \in Pages
    <3>2. inbox[g] \in Seq(Messages)
      BY <2>3
    <3>3. Append(inbox[g], e) = inbox[g] \o <<e>> /\ inbox[g] \o <<e>> \in Seq(Messages) /\ Plus(inbox[g], inbox[g] \o <<e>>, e)
      BY <2>2, <3>2, Added
    <3>4. Append(inbox[g], j) = inbox[g] \o <<j>> /\ inbox[g] \o <<j>> \in Seq(Messages) /\ Plus(inbox[g], inbox[g] \o <<j>>, j)
      BY <2>2, <3>2, Added
    <3>5. QED
      BY Zenon, <3>3, <3>4
  <2>6. inbox' = [g \in Pages |-> IF g = p THEN Append(inbox[g], e)
                                  ELSE IF g \in Hosts THEN Append(inbox[g], j) ELSE inbox[g]]
    BY <2>1, <2>4, RoomFacts DEF e, j
  <2>7. \A g \in Pages : IF g = p THEN Plus(inbox[g], inbox'[g], e)
          ELSE IF g \in Hosts THEN Plus(inbox[g], inbox'[g], j) ELSE inbox'[g] = inbox[g]
    BY <2>5, <2>6
  <2>8. inbox' \in [Pages -> Seq(Messages)]
    BY <2>3, <2>5, <2>6
  <2>9. \A g \in Pages : Len(inbox[g]) \in Nat
    BY <2>3
  <2>10. ASSUME NEW r \in Players, NEW k \in 1..Len(inbox'[r])
         PROVE  PlayEventOK(scene.quiz, inbox'[r][k])
    <3>1. r \in Pages /\ r \notin Hosts
      BY RoomFacts
    <3>2. CASE r = p
      <4>1. Plus(inbox[r], inbox'[r], e) /\ Len(inbox[r]) \in Nat
        BY <2>7, <2>9, <3>1, <3>2
      <4>2. inbox'[r][k] = e \/ (k \in 1..Len(inbox[r]) /\ inbox'[r][k] = inbox[r][k])
        BY <2>10, <4>1 DEF Plus
      <4>3. QED
        BY <2>2, <4>2 DEF TypeInv, InboxOK, Places
    <3>3. CASE r # p
      BY <2>7, <2>10, <3>1, <3>3 DEF TypeInv, InboxOK, Places
    <3>4. QED
      BY <3>2, <3>3
  <2>11. ASSUME NEW h \in Hosts, NEW k \in 1..Len(inbox'[h])
         PROVE  HostEventOK(scene.quiz, inbox'[h][k])
    <3>1. h \in Pages /\ h # p
      BY RoomFacts
    <3>2. Plus(inbox[h], inbox'[h], j) /\ Len(inbox[h]) \in Nat
      BY <2>7, <2>9, <3>1
    <3>3. inbox'[h][k] = j \/ (k \in 1..Len(inbox[h]) /\ inbox'[h][k] = inbox[h][k])
      BY <2>11, <3>2 DEF Plus
    <3>4. QED
      BY <2>2, <3>3 DEF TypeInv, InboxOK, Places
  <2>12. InboxOK'
    BY <2>8, <2>10, <2>11, StaticFacts DEF InboxOK, Places, Static
  <2>14. ServerOK' /\ TakesPlace(p)
    BY <2>1, EnterView, Zenon
  <2>13. HandlesJoin(p, i)
    BY <1>2, <2>7, <2>14 DEF HandlesJoin, TakesPlace, e, j
  <2>15. QED
    BY <2>12, <2>13, <2>14
<1>3. QED
  BY <1>1, <1>2

\* rejoin_game.
LEMMA HandleRejoinView ==
    ASSUME TypeInv, Static, NEW p \in Players, NEW i, outbox[p][i].ev = "rejoin_game",
           HandleRejoin(p, outbox[p][i].q), play' = play
    PROVE  ServerOK' /\ InboxOK' /\ (HandlesNothing(p, i) \/ HandlesRejoin(p, i))
<1>1. CASE ~Holds(p, outbox[p][i].q)
  <2>1. server' = server /\ inbox' = inbox
    BY <1>1 DEF HandleRejoin
  <2>2. QED
    BY <1>1, <2>1, PartsStay DEF HandlesNothing, Holds
<1>2. CASE Holds(p, outbox[p][i].q)
  <2>1. /\ server' = [server EXCEPT !.keys[p] = play[p].conn, !.counted = @ \cup {p}, !.room = @ \cup {p}]
        /\ inbox' = Emit({p}, <<RejoinNews>>)
    BY <1>2 DEF HandleRejoin
  <2>2. InboxOK' /\ Sent({p}, RejoinNews)
    BY <2>1, InboxSent, EventsFit, RoomFacts DEF TypeInv
  <2>3. ServerOK' /\ TakesPlace(p)
    BY <2>1, EnterView, Zenon
  <2>4. QED
    BY <1>2, <2>2, <2>3 DEF HandlesRejoin, TakesPlace, Holds
<1>3. QED
  BY <1>1, <1>2

\* submit_answer.
LEMMA HandleSubmitView ==
    ASSUME TypeInv, Static, NEW p \in Players, NEW i \in Slots(p), outbox[p][i].ev = "submit_answer",
           HandleSubmit(p, outbox[p][i].q)
    PROVE  ServerOK' /\ InboxOK' /\ (HandlesNothing(p, i) \/ HandlesSubmit(p, i))
<1> DEFINE q == outbox[p][i].q
<1>1. inbox' = inbox /\ InboxOK'
  BY PartsStay DEF HandleSubmit
<1>2. CASE server' = server
  <2>1. outbox[p][i].ev # "rejoin_game"
    OBVIOUS
  <2>2. QED
    BY <1>1, <1>2, <2>1, PartsStay DEF HandlesNothing
<1>3. CASE server' # server
  <2>1. Accepts(p, q) /\ server' = [server EXCEPT !.checked[q][p] = @ + 1]
    BY <1>3 DEF HandleSubmit
  <2>2. PlayRequestOK(scene.quiz, outbox[p][i])
    BY DEF TypeInv, OutboxOK
  <2>3. q \in Questions /\ Type(q) # "SLIDE"
    BY <2>2, QuizFacts DEF PlayRequestOK, TypeInv
  <2>4. server \in Servers /\ server.room \subseteq server.counted
    BY DEF TypeInv, ServerOK
  <2> HIDE DEF q
  <2>5. PICK checked \in [Questions -> [Players -> Nat]] :
          checked = [server.checked EXCEPT ![q][p] = @ + 1]
    <3>1. server.checked \in [Questions -> [Players -> Nat]]
      BY <2>4 DEF Servers
    <3>2. PICK row \in [Players -> Nat] : row = [server.checked[q] EXCEPT ![p] = @ + 1]
      <4>1. server.checked[q] \in [Players -> Nat] /\ server.checked[q][p] + 1 \in Nat
        BY <2>3, <3>1
      <4>2. QED
        BY <4>1
    <3>3. [server.checked EXCEPT ![q][p] = @ + 1] = [server.checked EXCEPT ![q] = row]
      BY <3>2
    <3>4. QED
      BY <2>3, <3>1, <3>2, <3>3
  <2>6. server' = [server EXCEPT !.checked = checked]
    BY <2>1, <2>4, <2>5 DEF Servers
  <2>7. server' \in Servers
    BY <2>4, <2>6 DEF Servers
  <2>8. /\ server'.current = server.current /\ server'.started = server.started
        /\ server'.keys = server.keys /\ server'.counted = server.counted /\ server'.room = server.room
        /\ server'.answers = server.answers /\ server'.announce = server.announce
        /\ server'.others = server.others /\ server'.checked = checked
    BY <2>4, <2>6 DEF Servers
  <2>9. ServerOK'
    BY <2>4, <2>7, <2>8, TypesStay DEF ServerOK
  <2>10. \A x \in Questions, r \in Players : (x # q \/ r # p) => checked[x][r] = server.checked[x][r]
    BY <2>3, <2>4, <2>5 DEF Servers
  <2>11. \A x \in Questions : Listing(x)' \subseteq Listing(x) \cup (IF x = q THEN {p} ELSE {})
    BY <2>8, <2>10 DEF Listing
  <2>12. HandlesSubmit(p, i)
    BY <1>1, <2>1, <2>3, <2>8, <2>11 DEF HandlesSubmit, q
  <2>13. QED
    BY <1>1, <2>9, <2>12
<1>4. QED
  BY <1>2, <1>3

\* A change of one field of the game that is none of the players'.
LEMMA ServerField ==
    ASSUME TypeInv, Static
    PROVE  /\ server' = [server EXCEPT !.started = TRUE] =>
                /\ ServerOK' /\ SameGame /\ server'.current = server.current /\ server'.started
                /\ server'.counted = server.counted /\ server'.room = server.room
           /\ \A q \in Nat : server' = [server EXCEPT !.current = q] =>
                /\ ServerOK' /\ SameGame /\ server'.current = q /\ server'.started = server.started
                /\ server'.counted = server.counted /\ server'.room = server.room
           /\ server' = [server EXCEPT !.stored = TRUE] =>
                /\ ServerOK' /\ SameGame /\ server'.current = server.current /\ server'.started = server.started
                /\ server'.counted = server.counted /\ server'.room = server.room
           /\ \A p \in Players :
                server' = [server EXCEPT !.counted = @ \ {p}, !.room = @ \ {p}] =>
                /\ ServerOK' /\ SameGame /\ server'.current = server.current /\ server'.started = server.started
                /\ server'.counted = server.counted \ {p} /\ server'.room = server.room \ {p}
<1>1. server \in Servers /\ server.room \subseteq server.counted
  BY DEF TypeInv, ServerOK
<1>s. server' \in Servers /\ server'.room \subseteq server'.counted => ServerOK'
  BY TypesStay DEF ServerOK
<1>2. ASSUME server' = [server EXCEPT !.started = TRUE]
      PROVE  /\ ServerOK' /\ SameGame /\ server'.current = server.current /\ server'.started
             /\ server'.counted = server.counted /\ server'.room = server.room
  BY <1>1, <1>s, <1>2 DEF Servers, SameGame
<1>3. ASSUME NEW q \in Nat, server' = [server EXCEPT !.current = q]
      PROVE  /\ ServerOK' /\ SameGame /\ server'.current = q /\ server'.started = server.started
             /\ server'.counted = server.counted /\ server'.room = server.room
  BY <1>1, <1>s, <1>3 DEF Servers, SameGame
<1>4. ASSUME server' = [server EXCEPT !.stored = TRUE]
      PROVE  /\ ServerOK' /\ SameGame /\ server'.current = server.current /\ server'.started = server.started
             /\ server'.counted = server.counted /\ server'.room = server.room
  BY <1>1, <1>s, <1>4 DEF Servers, SameGame
<1>5. ASSUME NEW p \in Players, server' = [server EXCEPT !.counted = @ \ {p}, !.room = @ \ {p}]
      PROVE  /\ ServerOK' /\ SameGame /\ server'.current = server.current /\ server'.started = server.started
             /\ server'.counted = server.counted \ {p} /\ server'.room = server.room \ {p}
  <2>1. PICK c \in SUBSET Players, m \in SUBSET Players : c = server.counted \ {p} /\ m = server.room \ {p}
    BY <1>1 DEF Servers
  <2>2. server' = [server EXCEPT !.counted = c, !.room = m]
    BY <1>1, <1>5, <2>1 DEF Servers
  <2>3. /\ server' \in Servers /\ SameGame
        /\ server'.current = server.current /\ server'.started = server.started
        /\ server'.counted = c /\ server'.room = m
    BY <1>1, <2>2 DEF Servers, SameGame
  <2>4. QED
    BY <1>1, <1>s, <2>1, <2>3
<1>6. QED
  BY <1>2, <1>3, <1>4, <1>5, Zenon

\* The server runs a request.
LEMMA HandleView ==
    ASSUME TypeInv, NEW g \in Pages, Handle(g)
    PROVE  TypeInv' /\ Static /\ \E i \in Slots(g) : Handles(g, i)
<1>1. Static /\ UNCHANGED <<scene, host, play, hasty>>
  BY DEF Handle, Static, Hosts
<1>2. /\ HostsOK /\ OutboxOK /\ InboxOK /\ DOMAIN outbox = Pages /\ outbox[g] \in Seq(Messages)
      /\ (g \in Players \/ g \in Hosts) /\ scene \in Scenes
  BY RoomFacts DEF TypeInv, OutboxOK, Pages
<1>3. PICK i \in DOMAIN outbox[g] :
        LET e == outbox[g][i] IN
        /\ outbox' = [outbox EXCEPT ![g] = RemoveAt(@, i)]
        /\ \/ e.ev = "join_game" /\ HandleJoin(g)
           \/ e.ev = "rejoin_game" /\ HandleRejoin(g, e.q)
           \/ e.ev = "submit_answer" /\ HandleSubmit(g, e.q)
           \/ e.ev = "start_game" /\ HandleStart
           \/ e.ev = "set_question_number" /\ HandleQuestion(g, e.q)
           \/ e.ev = "get_question_results" /\ UNCHANGED server
                 /\ inbox' = Emit(ToRoom, <<Event("question_results", e.q, ResultList(e.q))>>)
           \/ e.ev = "show_solutions" /\ UNCHANGED server
                 /\ inbox' = Emit(ToRoom, <<Plain("solutions")>>)
           \/ e.ev = "get_final_results" /\ UNCHANGED server
                 /\ inbox' = Emit(ToRoom, <<Plain("final_results")>>)
           \/ e.ev = "kick_player" /\ \E p \in e.who : HandleKick(p)
           \/ e.ev = "set_control_visibility" /\ UNCHANGED server
                 /\ inbox' = Emit(Hosts, <<Plain("control_visibility")>>)
           \/ e.ev = "save_quiz" /\ HandleSave
  BY DEF Handle
<1> DEFINE e == outbox[g][i]
<1>4. i \in Slots(g)
  BY <1>2 DEF Slots
<1>5. OutboxOK' /\ Done(g, i)
  BY <1>1, <1>2, <1>3, <1>4, OutboxDone
<1>6. /\ g \in Players => PlayRequestOK(scene.quiz, e)
      /\ g \in Hosts => HostRequestOK(scene.quiz, g, e)
  BY <1>2, <1>4 DEF OutboxOK
<1>7. SUFFICES /\ ServerOK' /\ InboxOK'
               /\ \/ HandlesNothing(g, i) \/ HandlesJoin(g, i) \/ HandlesRejoin(g, i) \/ HandlesSubmit(g, i)
                  \/ HandlesStart(g, i) \/ HandlesQuestion(g, i) \/ HandlesResults(g, i) \/ HandlesTold(g, i)
                  \/ HandlesKick(g, i) \/ HandlesNews(g, i)
  <2>1. TypeInv'
    BY <1>1, <1>5, <1>7, PartsStay DEF TypeInv
  <2>2. HandlesOne(g, i)
    BY <1>1, <1>4, <1>5 DEF HandlesOne
  <2>3. QED
    BY <1>1, <1>4, <1>7, <2>1, <2>2 DEF Handles
<1>8. CASE g \in Players
  <2>1. e.ev \in {"join_game", "rejoin_game", "submit_answer"}
    BY <1>6, <1>8 DEF PlayRequestOK, PlayRequests
  <2>2. CASE e.ev = "join_game"
    BY <1>1, <1>3, <1>8, <2>2, HandleJoinView
  <2>3. CASE e.ev = "rejoin_game"
    BY <1>1, <1>3, <1>8, <2>3, HandleRejoinView
  <2>4. CASE e.ev = "submit_answer"
    BY <1>1, <1>3, <1>4, <1>8, <2>4, HandleSubmitView
  <2>5. QED
    BY <2>1, <2>2, <2>3, <2>4
<1>9. CASE g \in Hosts
  <2>0. HostRequestOK(scene.quiz, g, e)
    BY <1>6, <1>9
  <2>1. e.ev \in HostRequests
    BY <2>0 DEF HostRequestOK
  <2>2. CASE e.ev = "start_game"
    <3>1. server' = [server EXCEPT !.started = TRUE] /\ inbox' = Emit(ToRoom, <<Plain("start_game")>>)
      BY <1>3, <2>2 DEF HandleStart
    <3>2. InboxOK' /\ Sent(ToRoom, Plain("start_game"))
      BY <1>1, <1>2, <3>1, InboxSent, EventsFit
    <3>3. /\ ServerOK' /\ SameGame /\ server'.current = server.current /\ server'.started
          /\ server'.counted = server.counted /\ server'.room = server.room
      BY <1>1, <3>1, ServerField, Zenon
    <3>4. QED
      BY <1>9, <2>2, <3>2, <3>3 DEF HandlesStart
  <2>3. CASE e.ev = "set_question_number"
    <3>1. HandleQuestion(g, e.q) /\ e.q \in Nat
      BY <1>3, <2>0, <2>3 DEF HostRequestOK
    <3>2. /\ ServerOK' /\ SameGame /\ server'.current = e.q /\ server'.started = server.started
          /\ server'.counted = server.counted /\ server'.room = server.room
      <4>1. server' = [server EXCEPT !.current = e.q]
        BY <3>1 DEF HandleQuestion
      <4>2. QED
        BY <1>1, <3>1, <4>1, ServerField, Zenon
    <3>3. CASE e.q \notin Questions
      <4>1. inbox' = inbox
        BY <3>1, <3>3 DEF HandleQuestion
      <4>2. InboxOK'
        BY <1>1, <4>1, PartsStay
      <4>3. QED
        BY <1>9, <2>3, <3>1, <3>2, <3>3, <4>1, <4>2 DEF HandlesQuestion
    <3>4. CASE e.q \in Questions
      <4>1. inbox' = Emit(IF Type(e.q) = "SLIDE" THEN {g} ELSE ToRoom, <<Event("set_question_number", e.q, {})>>)
        BY <3>1, <3>4 DEF HandleQuestion
      <4>2. /\ Event("set_question_number", e.q, {}) \in Messages
            /\ HostEventOK(scene.quiz, Event("set_question_number", e.q, {}))
            /\ Type(e.q) # "SLIDE" => PlayEventOK(scene.quiz, Event("set_question_number", e.q, {}))
        BY <3>4, EventsFit
      <4>3. \A p \in Players : p # g
        BY <1>9, RoomFacts
      <4>4. CASE Type(e.q) = "SLIDE"
        <5>1. InboxOK' /\ Sent({g}, Event("set_question_number", e.q, {}))
          BY <1>1, <1>2, <4>1, <4>2, <4>3, <4>4, InboxSent
        <5>2. QED
          BY <1>9, <2>3, <3>1, <3>2, <3>4, <4>4, <5>1 DEF HandlesQuestion
      <4>5. CASE Type(e.q) # "SLIDE"
        <5>1. InboxOK' /\ Sent(ToRoom, Event("set_question_number", e.q, {}))
          BY <1>1, <1>2, <4>1, <4>2, <4>5, InboxSent
        <5>2. QED
          BY <1>9, <2>3, <3>1, <3>2, <3>4, <4>5, <5>1 DEF HandlesQuestion
      <4>6. QED
        BY <4>4, <4>5
    <3>5. QED
      BY <3>3, <3>4
  <2>4. CASE e.ev = "get_question_results"
    <3>1. e.q \in Questions \cup {-1}
      BY <1>2, <2>0, <2>4, QuizFacts DEF HostRequestOK
    <3>2. server' = server /\ inbox' = Emit(ToRoom, <<Event("question_results", e.q, ResultList(e.q))>>)
      BY <1>3, <2>4
    <3>3. InboxOK' /\ Sent(ToRoom, Event("question_results", e.q, ResultList(e.q)))
      BY <1>1, <1>2, <3>1, <3>2, InboxSent, EventsFit
    <3>4. QED
      BY <1>1, <1>9, <2>4, <3>2, <3>3, PartsStay DEF HandlesResults
  <2>5. CASE e.ev = "show_solutions"
    <3>1. server' = server /\ inbox' = Emit(ToRoom, <<Plain("solutions")>>)
      BY <1>3, <2>5
    <3>2. InboxOK' /\ Sent(ToRoom, Plain("solutions"))
      BY <1>1, <1>2, <3>1, InboxSent, EventsFit
    <3>3. QED
      BY <1>1, <1>9, <2>5, <3>1, <3>2, PartsStay DEF HandlesTold
  <2>6. CASE e.ev = "get_final_results"
    <3>1. server' = server /\ inbox' = Emit(ToRoom, <<Plain("final_results")>>)
      BY <1>3, <2>6
    <3>2. InboxOK' /\ Sent(ToRoom, Plain("final_results"))
      BY <1>1, <1>2, <3>1, InboxSent, EventsFit
    <3>3. QED
      BY <1>1, <1>9, <2>6, <3>1, <3>2, PartsStay DEF HandlesTold
  <2>7. CASE e.ev = "kick_player"
    <3>1. PICK p \in Players : e.who = {p}
      BY <2>0, <2>7 DEF HostRequestOK
    <3>2. HandleKick(p) /\ g = "admin"
      BY <1>3, <2>0, <2>7, <3>1 DEF HostRequestOK
    <3>3. /\ server' = [server EXCEPT !.counted = @ \ {p}, !.room = @ \ {p}]
          /\ inbox' = Emit(IF Holds(p, play[p].conn) THEN {p} ELSE {}, <<Plain("kick")>>)
      BY <3>2 DEF HandleKick
    <3> DEFINE gs == IF Holds(p, play[p].conn) THEN {p} ELSE {}
    <3>4. \A h \in Hosts : h \notin gs
      BY RoomFacts
    <3>5. InboxOK' /\ Sent(gs, Plain("kick"))
      <4>1. /\ Plain("kick") \in Messages /\ PlayEventOK(scene.quiz, Plain("kick"))
            /\ inbox' = Emit(gs, <<Plain("kick")>>)
        BY <3>3, EventsFit
      <4> HIDE DEF gs
      <4>2. QED
        BY <1>1, <1>2, <3>4, <4>1, InboxSent
    <3>6. QED
      <4>1. /\ ServerOK' /\ SameGame /\ server'.current = server.current /\ server'.started = server.started
            /\ server'.counted = server.counted \ {p} /\ server'.room = server.room \ {p}
        BY <1>1, <3>3, ServerField, Zenon
      <4>2. QED
        BY <2>7, <3>1, <3>2, <3>5, <4>1 DEF HandlesKick
  <2>8. CASE e.ev = "set_control_visibility"
    <3>1. server' = server /\ inbox' = Emit(Hosts, <<Plain("control_visibility")>>)
      BY <1>3, <2>8
    <3>2. InboxOK' /\ Sent(Hosts, Plain("control_visibility"))
      BY <1>1, <1>2, <3>1, InboxSent, EventsFit, RoomFacts
    <3>3. QED
      BY <1>1, <1>9, <2>8, <3>1, <3>2, PartsStay DEF HandlesNews, SameGame
  <2>9. CASE e.ev = "save_quiz"
    <3>1. server' = [server EXCEPT !.stored = TRUE] /\ inbox' = Emit({"admin"}, <<Plain("results_saved_successfully")>>)
      BY <1>3, <2>9 DEF HandleSave, Saved
    <3>2. InboxOK' /\ Sent({"admin"}, Plain("results_saved_successfully"))
      BY <1>1, <1>2, <3>1, InboxSent, EventsFit, RoomFacts
    <3>3. /\ ServerOK' /\ SameGame /\ server'.current = server.current /\ server'.started = server.started
          /\ server'.counted = server.counted /\ server'.room = server.room
      BY <1>1, <3>1, ServerField, Zenon
    <3>4. QED
      BY <1>9, <2>9, <3>2, <3>3 DEF HandlesNews
  <2>10. QED
    BY <2>1, <2>2, <2>3, <2>4, <2>5, <2>6, <2>7, <2>8, <2>9 DEF HostRequests
<1>10. QED
  BY <1>2, <1>8, <1>9

\* submit_answer lists the answer.
LEMMA StoreView ==
    ASSUME TypeInv, NEW p \in Players, Store(p)
    PROVE  TypeInv' /\ Static /\ Announces
<1>1. UNCHANGED <<scene, host, play, inbox, outbox, hasty>>
  BY DEF Store
<1>2. Static
  BY <1>1 DEF Static, Hosts
<1>3. PICK q \in Questions :
        /\ server.checked[q][p] > 0
        /\ server' = [server EXCEPT
               !.checked[q][p] = @ - 1, !.answers[q] = @ \cup {p},
               !.again[q] = IF p \in server.answers[q] THEN @ + 1 ELSE @,
               !.announce = IF AllAnswered(p, q) THEN @ + 1 ELSE @]
  BY Zenon DEF Store
<1>4. server \in Servers /\ server.room \subseteq server.counted
  BY DEF TypeInv, ServerOK
<1>5. PICK checked \in [Questions -> [Players -> Nat]] : checked = [server.checked EXCEPT ![q][p] = @ - 1]
  <2>1. server.checked \in [Questions -> [Players -> Nat]]
    BY <1>4 DEF Servers
  <2>2. PICK row \in [Players -> Nat] : row = [server.checked[q] EXCEPT ![p] = @ - 1]
    <3>1. server.checked[q] \in [Players -> Nat] /\ server.checked[q][p] - 1 \in Nat
      BY <1>3, <2>1
    <3>2. QED
      BY <3>1
  <2>3. [server.checked EXCEPT ![q][p] = @ - 1] = [server.checked EXCEPT ![q] = row]
    BY <2>2
  <2>4. QED
    BY <2>1, <2>2, <2>3
<1>6. PICK answers \in [Questions -> SUBSET Players] : answers = [server.answers EXCEPT ![q] = @ \cup {p}]
  BY <1>4 DEF Servers
<1>7. PICK again \in [Questions -> Nat] :
        again = [server.again EXCEPT ![q] = IF p \in server.answers[q] THEN @ + 1 ELSE @]
  <2>1. server.again \in [Questions -> Nat]
    BY <1>4 DEF Servers
  <2>2. PICK k \in Nat : k = IF p \in server.answers[q] THEN server.again[q] + 1 ELSE server.again[q]
    BY <2>1
  <2>3. [server.again EXCEPT ![q] = IF p \in server.answers[q] THEN @ + 1 ELSE @] = [server.again EXCEPT ![q] = k]
    BY <2>2
  <2>4. QED
    BY <2>1, <2>3
<1>8. PICK n \in Nat : n = IF AllAnswered(p, q) THEN server.announce + 1 ELSE server.announce
  BY <1>4 DEF Servers
<1>9. server' = [server EXCEPT !.checked = checked, !.answers = answers, !.again = again, !.announce = n]
  BY <1>3, <1>4, <1>5, <1>6, <1>7, <1>8 DEF Servers
<1>10. server' \in Servers
  BY <1>4, <1>9 DEF Servers
<1>11. /\ server'.current = server.current /\ server'.started = server.started
       /\ server'.keys = server.keys /\ server'.counted = server.counted /\ server'.room = server.room
       /\ server'.others = server.others /\ server'.answers = answers /\ server'.checked = checked
  BY <1>4, <1>9 DEF Servers
<1>12. ServerOK'
  BY <1>2, <1>4, <1>10, <1>11, TypesStay DEF ServerOK
<1>13. TypeInv'
  BY <1>1, <1>2, <1>12, PartsStay DEF TypeInv
<1>14. \A x \in Questions, r \in Players : checked[x][r] <= server.checked[x][r]
  BY <1>4, <1>5 DEF Servers
<1>15. \A x \in Questions : Listing(x)' \subseteq Listing(x)
  <2>1. \A x \in Questions, r \in Players : checked[x][r] \in Nat /\ server.checked[x][r] \in Nat
    BY <1>4 DEF Servers
  <2>2. QED
    BY <1>11, <1>14, <2>1 DEF Listing
<1>16. Stores /\ server'.others <= server.others
  <2>1. p \in Listing(q) /\ server'.answers = [server.answers EXCEPT ![q] = @ \cup {p}]
    BY <1>3, <1>6, <1>11 DEF Listing
  <2>2. server.others \in Int
    BY <1>4 DEF Servers
  <2>3. server'.others <= server.others
    BY <1>11, <2>2
  <2>4. QED
    BY <2>1, <2>3, Zenon DEF Stores
<1>17. QED
  BY <1>1, <1>2, <1>11, <1>13, <1>15, <1>16 DEF Announces

\* The end of submit_answer, in this game and in others.
LEMMA AnnounceView ==
    ASSUME TypeInv, Announce \/ AnnounceElsewhere
    PROVE  TypeInv' /\ Static /\ Announces
<1>1. /\ UNCHANGED <<scene, host, play, outbox, hasty>>
      /\ inbox' = Emit(Pages, <<Plain("everyone_answered")>>)
         \/ inbox' = Emit({"admin"}, <<Plain("results_saved_successfully")>>)
  BY RoomFacts DEF Announce, AnnounceElsewhere, Announced, Saved
<1>2. Static
  BY <1>1 DEF Static, Hosts
<1>3. server \in Servers /\ server.room \subseteq server.counted /\ scene.others \in Nat
  BY PagesAssumption DEF TypeInv, ServerOK
<1>4. /\ server' \in Servers
      /\ server'.current = server.current /\ server'.started = server.started
      /\ server'.answers = server.answers /\ server'.keys = server.keys
      /\ server'.counted = server.counted /\ server'.room = server.room
      /\ server'.checked = server.checked
      /\ server'.announce <= server.announce /\ server'.others <= server.others
      /\ server.announce > 0 \/ server'.others < scene.others
  <2>0. server.announce \in Nat /\ server.others \in 0..scene.others
    BY <1>3 DEF Servers
  <2>1. CASE Announce
    <3>1. PICK n \in Nat : n = server.announce - 1 /\ server.announce > 0
      BY <2>0, <2>1 DEF Announce
    <3>2. server' = [server EXCEPT !.announce = n]
      BY <2>1, <3>1 DEF Announce
    <3>3. server' \in Servers
      BY <1>3, <3>2 DEF Servers
    <3>4. /\ server'.current = server.current /\ server'.started = server.started
          /\ server'.answers = server.answers /\ server'.keys = server.keys
          /\ server'.counted = server.counted /\ server'.room = server.room
          /\ server'.checked = server.checked /\ server'.announce = n /\ server'.others = server.others
      BY <1>3, <3>2 DEF Servers
    <3>5. QED
      BY <1>3, <2>0, <3>1, <3>3, <3>4
  <2>2. CASE AnnounceElsewhere
    <3>1. PICK n \in 0..scene.others : n = server.others - 1 /\ server.others > 0
      BY <1>3, <2>0, <2>2 DEF AnnounceElsewhere
    <3>2. server' = [server EXCEPT !.others = n]
      BY <2>2, <3>1 DEF AnnounceElsewhere
    <3>3. server' \in Servers
      BY <1>3, <3>2 DEF Servers
    <3>4. /\ server'.current = server.current /\ server'.started = server.started
          /\ server'.answers = server.answers /\ server'.keys = server.keys
          /\ server'.counted = server.counted /\ server'.room = server.room
          /\ server'.checked = server.checked /\ server'.others = n /\ server'.announce = server.announce
      BY <1>3, <3>2 DEF Servers
    <3>5. QED
      BY <1>3, <2>0, <3>1, <3>3, <3>4
  <2>3. QED
    BY <2>1, <2>2
<1>5. ServerOK'
  BY <1>2, <1>3, <1>4, TypesStay DEF ServerOK
<1>6. InboxOK' /\ (Sent(Pages, Plain("everyone_answered")) \/ Sent({"admin"}, Plain("results_saved_successfully")))
  <2>1. InboxOK /\ HostsOK /\ \A p \in Players : p # "admin"
    BY RoomFacts DEF TypeInv
  <2>2. CASE inbox' = Emit(Pages, <<Plain("everyone_answered")>>)
    BY <1>2, <2>1, <2>2, InboxSent, EventsFit
  <2>3. CASE inbox' = Emit({"admin"}, <<Plain("results_saved_successfully")>>)
    BY <1>2, <2>1, <2>3, InboxSent, EventsFit
  <2>4. QED
    BY <1>1, <2>2, <2>3
<1>7. TypeInv'
  BY <1>1, <1>2, <1>5, <1>6, PartsStay DEF TypeInv
<1>8. server.announce > 0 \/ Disturbed'
  BY <1>2, <1>4 DEF Disturbed, Static
<1>9. \A x \in Questions : Listing(x)' \subseteq Listing(x)
  BY <1>4 DEF Listing
<1>10. QED
  BY <1>1, <1>2, <1>4, <1>6, <1>7, <1>8, <1>9 DEF Announces

\* Every step is one of these, or none.
Moves ==
    \/ \E p \in Players : PlayActs(p) \/ PlayStops(p) \/ PlayTakes(p) \/ PlayReopens(p)
    \/ \E h \in Hosts : HostSkips(h) \/ HostTicks(h) \/ HostTakes(h) \/ \E e \in Messages : HostPresses(h, e)
    \/ \E g \in Pages : \E i \in Slots(g) : Handles(g, i)
    \/ Announces
    \/ UNCHANGED vars

\* The types hold after every step, which is one of the moves.
LEMMA TypeStep ==
    ASSUME TypeInv, [Step]_vars
    PROVE  TypeInv' /\ Static /\ Moves
<1>0. "admin" \in Hosts /\ DOMAIN outbox = Pages
  BY RoomFacts
<1>1. CASE UNCHANGED vars
  <2>1. Static /\ UNCHANGED <<host, play, server, inbox, outbox, hasty>>
    BY <1>1 DEF Static, vars, Hosts
  <2>2. QED
    BY <1>1, <2>1, PartsStay DEF TypeInv, Moves
<1>2. ASSUME NEW p \in Players, PlayStep(p) \/ Kick(p) \/ Store(p)
      PROVE  TypeInv' /\ Static /\ Moves
  <2>1. CASE Join(p) \/ Tick(p) \/ Answer(p) \/ PlayTick(p)
    BY <2>1, PlayActsView DEF Moves
  <2>2. CASE Reload(p)
    BY <2>2, ReloadView DEF Moves
  <2>3. CASE PlayReceive(p)
    BY <2>3, PlayReceiveView DEF Moves
  <2>4. CASE Kick(p)
    BY <1>0, <2>4, KickView, HostRequestsFit DEF Moves
  <2>5. CASE Store(p)
    BY <2>5, StoreView DEF Moves
  <2>6. QED
    BY <1>2, <2>1, <2>2, <2>3, <2>4, <2>5 DEF PlayStep
<1>3. ASSUME NEW h \in Hosts, HostStep(h)
      PROVE  TypeInv' /\ Static /\ Moves
  <2>1. CASE StartGame(h)
    <3>1. TypeInv' /\ Static /\ HostPresses(h, Plain("start_game"))
      BY <2>1, PlainPressView DEF StartGame
    <3>2. QED
      BY <3>1, HostRequestsFit DEF Moves
  <2>2. CASE Press(h)
    BY <2>2, PressView DEF Moves
  <2>3. CASE SkipOn(h)
    BY <2>3, SkipOnView DEF Moves
  <2>4. CASE HostTick(h) \/ ShowNewScore(h)
    BY <2>4, HostTicksView DEF Moves
  <2>5. CASE HostReceive(h)
    BY <2>5, HostReceiveView DEF Moves
  <2>6. QED
    BY <1>3, <2>1, <2>2, <2>3, <2>4, <2>5 DEF HostStep
<1>4. CASE ShowControls
  <2>1. "remote" \in Hosts
    BY <1>4 DEF ShowControls
  <2>2. TypeInv' /\ Static /\ HostPresses("remote", Plain("set_control_visibility"))
    BY <1>4, <2>1, PlainPressView DEF ShowControls
  <2>3. QED
    BY <2>1, <2>2, HostRequestsFit DEF Moves
<1>5. CASE SaveResults
  <2>1. TypeInv' /\ Static /\ HostPresses("admin", Plain("save_quiz"))
    BY <1>0, <1>5, PlainPressView DEF SaveResults
  <2>2. QED
    BY <1>0, <2>1, HostRequestsFit DEF Moves
<1>6. CASE Announce \/ AnnounceElsewhere
  BY <1>6, AnnounceView DEF Moves
<1>7. ASSUME NEW g \in DOMAIN outbox, Handle(g)
      PROVE  TypeInv' /\ Static /\ Moves
  BY <1>0, <1>7, HandleView DEF Moves
<1>8. QED
  BY <1>1, <1>2, <1>3, <1>4, <1>5, <1>6, <1>7 DEF Step

\* The pages and the game begin with their types.
LEMMA TypeInit ==
    ASSUME Init
    PROVE  TypeInv
<1>1. scene \in Scenes /\ hasty \in Nat
  BY DEF Init
<1>2. Hosts = IF scene.remote THEN {"admin", "remote"} ELSE {"admin"}
  BY DEF Init, Hosts
<1>3. [x \in Players |-> 0] \in [Players -> Nat]
  OBVIOUS
<1>4. FreshPlay \in PlayPages /\ FreshPlay.q = None
  BY <1>3 DEF FreshPlay, PlayPages, Timers, Lists
<1>5. PlayOK
  BY <1>4 DEF Init, PlayOK
<1>6. FreshHost \in HostPages
  BY <1>3 DEF FreshHost, HostPages, Timers, Lists
<1>7. \A h \in Hosts : host[h] \in HostPages
  <2>1. ASSUME NEW h \in Hosts, NEW v \in BOOLEAN
        PROVE  [FreshHost EXCEPT !.visible = v] \in HostPages
    BY <1>6 DEF HostPages
  <2>2. ASSUME NEW h \in Hosts
        PROVE  host[h] = [FreshHost EXCEPT !.visible = (h = "remote") \/ ~scene.remote]
    BY <1>2, <2>2 DEF Init
  <2>3. QED
    BY <2>1, <2>2
<1>8. HostsOK
  <2>1. host = [h \in Hosts |-> host[h]]
    BY <1>2 DEF Init
  <2>2. host \in [Hosts -> HostPages]
    BY <1>7, <2>1
  <2>3. QED
    BY <1>2, <2>2 DEF HostsOK
<1>9. ServerOK
  <2>1. server = NewServer /\ [q \in Questions |-> {}] \in [Questions -> SUBSET Players]
        /\ [p \in Players |-> 0] \in [Players -> Nat] /\ [q \in Questions |-> 0] \in [Questions -> Nat]
    BY DEF Init
  <2>2. [q \in Questions |-> [p \in Players |-> 0]] \in [Questions -> [Players -> Nat]]
    BY <2>1
  <2>3. scene.others \in 0..scene.others
    BY <1>1, PagesAssumption
  <2>4. QED
    BY <2>1, <2>2, <2>3 DEF NewServer, Servers, ServerOK
<1>10. <<>> \in Seq(Messages) /\ Len(<<>>) = 0
  OBVIOUS
<1>11. /\ inbox = [g \in Pages |-> <<>>] /\ outbox = [g \in Pages |-> <<>>]
  BY DEF Init, Pages
<1>12. InboxOK /\ OutboxOK
  BY <1>10, <1>11 DEF InboxOK, OutboxOK, Places, Slots, Pages
<1>13. QED
  BY <1>1, <1>5, <1>8, <1>9, <1>12 DEF TypeInv

\* What the server says on its own.
LEMMA AnnounceNews ==
    ASSUME TypeInv, Announces
    PROVE  \/ inbox' = inbox
           \/ Sent(Pages, Plain("everyone_answered"))
           \/ Sent({"admin"}, Plain("results_saved_successfully"))
BY DEF Announces

\* It tells no question, no results and no end.
LEMMA AnnounceTells ==
    ASSUME TypeInv, Announces, NEW k \in Pages
    PROVE  \/ inbox'[k] = inbox[k]
           \/ \E e : /\ Plus(inbox[k], inbox'[k], e)
                    /\ e.ev \in {"everyone_answered", "results_saved_successfully"}
<1>1. CASE Sent(Pages, Plain("everyone_answered"))
  BY <1>1 DEF Sent, Plain, Event
<1>2. CASE Sent({"admin"}, Plain("results_saved_successfully"))
  BY <1>2 DEF Sent, Plain, Event
<1>3. QED
  BY <1>1, <1>2, AnnounceNews

\* No handler announces or lists an answer, nor sends news of another game.
LEMMA HandleKeeps ==
    ASSUME TypeInv, NEW g \in Pages, NEW i \in Slots(g), Handles(g, i)
    PROVE  /\ server'.answers = server.answers /\ server'.announce = server.announce
           /\ server'.others = server.others
           /\ \A q \in Questions : Listing(q)' \subseteq Listing(q) \/ q = server.current
<1>1. CASE HandlesSubmit(g, i)
  BY <1>1 DEF HandlesSubmit, Accepts
<1>2. CASE ~HandlesSubmit(g, i)
  <2>1. /\ server'.answers = server.answers /\ server'.announce = server.announce
        /\ server'.others = server.others /\ server'.checked = server.checked
    BY <1>2 DEF Handles, HandlesNothing, HandlesJoin, HandlesRejoin, HandlesStart, HandlesQuestion,
                HandlesResults, HandlesTold, HandlesKick, HandlesNews, SameGame
  <2>2. QED
    BY <2>1 DEF Listing
<1>3. QED
  BY <1>1, <1>2

(***************************************************************************)
(* What is in a box                                                        *)
(***************************************************************************)

\* Some message of S is in box s; at most one is; whatever of A is there comes after
\* something of B; the last one of K is there, and in E.
In(s, S)         == \E i \in 1..Len(s) : s[i] \in S
Once(s, S)       == \A i, j \in 1..Len(s) : s[i] \in S /\ s[j] \in S => i = j
Led(s, A, B)     == \A i \in 1..Len(s) : s[i] \in A => \E j \in 1..Len(s) : j < i /\ s[j] \in B
LastIs(s, K, E)  == \E i \in 1..Len(s) : /\ s[i] \in K /\ s[i] \in E
                                         /\ \A j \in 1..Len(s) : j > i => s[j] \notin K

\* An empty box.
LEMMA Empty ==
    ASSUME NEW s, Len(s) = 0
    PROVE  /\ \A S : ~In(s, S) /\ Once(s, S)
           /\ \A A, B : Led(s, A, B)
           /\ \A K, E : ~LastIs(s, K, E)
BY DEF In, Once, Led, LastIs

\* One more message at the end of a box.
LEMMA PlusFacts ==
    ASSUME NEW s, NEW t, NEW e, Len(s) \in Nat, Plus(s, t, e)
    PROVE  /\ \A S : In(t, S) <=> In(s, S) \/ e \in S
           /\ \A S : Once(s, S) /\ (e \in S => ~In(s, S)) => Once(t, S)
           /\ \A A, B : Led(s, A, B) /\ (e \in A => In(s, B)) => Led(t, A, B)
           /\ \A K, E : LastIs(t, K, E) <=> IF e \in K THEN e \in E ELSE LastIs(s, K, E)
<1> DEFINE n == Len(s)
<1>1. n \in Nat /\ Len(t) = n + 1 /\ t[n + 1] = e /\ \A i \in 1..n : t[i] = s[i]
  BY DEF Plus
<1>2. \A i \in 1..(n + 1) : i \in 1..n \/ i = n + 1
  BY <1>1
<1>3. \A i \in 1..n : i \in 1..(n + 1) /\ i < n + 1
  BY <1>1
<1>4. ASSUME NEW S PROVE In(t, S) <=> In(s, S) \/ e \in S
  <2>1. n + 1 \in 1..(n + 1)
    BY <1>1
  <2> HIDE DEF n
  <2>2. In(t, S) <=> \E i \in 1..(n + 1) : t[i] \in S
    BY <1>1 DEF In
  <2>3. In(s, S) <=> \E i \in 1..n : s[i] \in S
    BY DEF In, n
  <2>4. QED
    BY <1>1, <1>2, <1>3, <2>1, <2>2, <2>3
<1>5. ASSUME NEW S, Once(s, S), e \in S => ~In(s, S) PROVE Once(t, S)
  <2> SUFFICES ASSUME NEW i \in 1..(n + 1), NEW j \in 1..(n + 1), t[i] \in S, t[j] \in S PROVE i = j
    BY <1>1 DEF Once
  <2>1. CASE i \in 1..n /\ j \in 1..n
    BY <1>1, <1>5, <2>1 DEF Once
  <2>2. CASE (i \in 1..n /\ j = n + 1) \/ (j \in 1..n /\ i = n + 1)
    BY <1>1, <1>5, <2>2 DEF In
  <2>3. QED
    BY <1>2, <2>1, <2>2
<1>6. ASSUME NEW A, NEW B, Led(s, A, B), e \in A => In(s, B) PROVE Led(t, A, B)
  <2> SUFFICES ASSUME NEW i \in 1..(n + 1), t[i] \in A
               PROVE  \E j \in 1..(n + 1) : j < i /\ t[j] \in B
    BY <1>1 DEF Led
  <2>1. CASE i \in 1..n
    BY <1>1, <1>3, <1>6, <2>1 DEF Led
  <2>2. CASE i = n + 1
    BY <1>1, <1>3, <1>6, <2>2 DEF In
  <2>3. QED
    BY <1>2, <2>1, <2>2
<1>7. ASSUME NEW K, NEW E PROVE LastIs(t, K, E) <=> IF e \in K THEN e \in E ELSE LastIs(s, K, E)
  <2>1. LastIs(t, K, E) <=> \E i \in 1..(n + 1) : /\ t[i] \in K /\ t[i] \in E
                                                  /\ \A j \in 1..(n + 1) : j > i => t[j] \notin K
    BY <1>1 DEF LastIs
  <2>2. n + 1 \in 1..(n + 1) /\ \A j \in 1..(n + 1) : ~(j > n + 1)
    BY <1>1
  <2>3. CASE e \in K
    <3>1. \A i \in 1..n : n + 1 > i
      BY <1>1
    <3> HIDE DEF n
    <3>2. QED
      BY <1>1, <1>2, <2>1, <2>2, <2>3, <3>1
  <2>4. CASE e \notin K
    <3>1. LastIs(s, K, E) <=> \E i \in 1..n : /\ s[i] \in K /\ s[i] \in E
                                              /\ \A j \in 1..n : j > i => s[j] \notin K
      BY DEF LastIs
    <3> HIDE DEF n
    <3>2. QED
      BY <1>1, <1>2, <1>3, <2>1, <2>2, <2>4, <3>1
  <2>5. QED
    BY <2>3, <2>4
<1>8. QED
  BY <1>4, <1>5, <1>6, <1>7

\* A message less.
LEMMA MinusFacts ==
    ASSUME NEW s, NEW t, NEW n, Len(s) \in Nat, Minus(s, t, n)
    PROVE  /\ \A S : In(s, S) <=> In(t, S) \/ s[n] \in S
           /\ \A S : Once(s, S) => Once(t, S) /\ (s[n] \in S => ~In(t, S))
<1> DEFINE m == Len(s)
           o(i) == IF i < n THEN i ELSE i + 1
<1>1. n \in 1..m /\ Len(t) = m - 1 /\ m \in Nat /\ \A i \in 1..(m - 1) : t[i] = s[o(i)]
  BY DEF Minus
<1>2. \A i \in 1..(m - 1) : o(i) \in 1..m /\ o(i) # n
  BY <1>1
<1>3. \A i \in 1..m : i # n => \E j \in 1..(m - 1) : o(j) = i
  <2> TAKE i \in 1..m
  <2> SUFFICES ASSUME i # n PROVE \E j \in 1..(m - 1) : o(j) = i
    OBVIOUS
  <2>1. CASE i < n
    <3>1. i \in 1..(m - 1) /\ o(i) = i
      BY <1>1, <2>1
    <3>2. QED
      BY <3>1
  <2>2. CASE i > n
    <3>1. i - 1 \in 1..(m - 1) /\ o(i - 1) = i
      BY <1>1, <2>2
    <3>2. QED
      BY <3>1
  <2>3. QED
    BY <1>1, <2>1, <2>2
<1>4. \A i, j \in 1..(m - 1) : o(i) = o(j) => i = j
  BY <1>1
<1> HIDE DEF o
<1>5. ASSUME NEW S PROVE In(s, S) <=> In(t, S) \/ s[n] \in S
  <2>1. (In(s, S) <=> \E i \in 1..m : s[i] \in S) /\ (In(t, S) <=> \E i \in 1..(m - 1) : t[i] \in S)
    BY <1>1 DEF In
  <2> HIDE DEF m
  <2>2. QED
    BY <1>1, <1>2, <1>3, <2>1
<1>6. ASSUME NEW S, Once(s, S) PROVE Once(t, S) /\ (s[n] \in S => ~In(t, S))
  <2>1. \A i, j \in 1..m : s[i] \in S /\ s[j] \in S => i = j
    BY <1>6 DEF Once
  <2>2. /\ Once(t, S) <=> \A i, j \in 1..(m - 1) : t[i] \in S /\ t[j] \in S => i = j
        /\ In(t, S) <=> \E i \in 1..(m - 1) : t[i] \in S
    BY <1>1 DEF In, Once
  <2> HIDE DEF m
  <2>3. QED
    BY <1>1, <1>2, <1>4, <2>1, <2>2
<1>7. QED
  BY <1>5, <1>6

\* The first message is gone.
LEMMA FirstFacts ==
    ASSUME NEW s, NEW t, Len(s) \in Nat, Minus(s, t, 1)
    PROVE  /\ \A A, B : Led(s, A, B) => s[1] \notin A /\ (s[1] \notin B => Led(t, A, B))
           /\ \A K, E : LastIs(s, K, E) => IF In(t, K) THEN LastIs(t, K, E) ELSE s[1] \in K /\ s[1] \in E
<1> DEFINE m == Len(s)
<1>1. 1 \in 1..m /\ Len(t) = m - 1 /\ m \in Nat /\ \A i \in 1..(m - 1) : t[i] = s[i + 1] /\ i + 1 \in 1..m
  BY DEF Minus
<1>2. \A i \in 1..m : i # 1 => i - 1 \in 1..(m - 1) /\ t[i - 1] = s[i]
  BY <1>1
<1>3. ASSUME NEW A, NEW B, Led(s, A, B) PROVE s[1] \notin A /\ (s[1] \notin B => Led(t, A, B))
  <2>1. \A i \in 1..m : s[i] \in A => \E j \in 1..m : j < i /\ s[j] \in B
    BY <1>3 DEF Led
  <2>2. s[1] \notin A
    BY <1>1, <2>1
  <2>3. ASSUME s[1] \notin B, NEW i \in 1..(m - 1), t[i] \in A
        PROVE  \E j \in 1..(m - 1) : j < i /\ t[j] \in B
    <3>1. PICK j \in 1..m : j < i + 1 /\ s[j] \in B
      BY <1>1, <2>1, <2>3
    <3>2. j # 1 /\ j - 1 < i
      BY <2>3, <3>1
    <3>3. QED
      BY <1>2, <3>1, <3>2
  <2>4. QED
    BY <1>1, <2>2, <2>3 DEF Led
<1>4. ASSUME NEW K, NEW E, LastIs(s, K, E)
      PROVE  IF In(t, K) THEN LastIs(t, K, E) ELSE s[1] \in K /\ s[1] \in E
  <2>1. PICK i \in 1..m : s[i] \in K /\ s[i] \in E /\ \A j \in 1..m : j > i => s[j] \notin K
    BY <1>4 DEF LastIs
  <2>2. CASE i = 1
    <3>1. \A j \in 1..(m - 1) : t[j] \notin K
      BY <1>1, <2>1, <2>2
    <3>2. QED
      BY <1>1, <2>1, <2>2, <3>1 DEF In
  <2>3. CASE i # 1
    <3>1. i - 1 \in 1..(m - 1) /\ t[i - 1] \in K /\ t[i - 1] \in E
      BY <1>2, <2>1, <2>3
    <3>2. \A j \in 1..(m - 1) : j > i - 1 => t[j] \notin K
      BY <1>1, <2>1
    <3>3. LastIs(t, K, E) /\ In(t, K)
      BY <1>1, <3>1, <3>2 DEF LastIs, In
    <3>4. QED
      BY <3>3
  <2>4. QED
    BY <2>2, <2>3
<1>5. QED
  BY <1>3, <1>4

\* An event is sent.
LEMMA SentFacts ==
    ASSUME TypeInv, NEW gs, NEW e, Sent(gs, e), NEW g \in Pages
    PROVE  /\ g \notin gs => inbox'[g] = inbox[g]
           /\ \A S : In(inbox'[g], S) <=> In(inbox[g], S) \/ (g \in gs /\ e \in S)
           /\ \A S : Once(inbox[g], S) /\ (g \in gs /\ e \in S => ~In(inbox[g], S)) => Once(inbox'[g], S)
           /\ \A A, B : Led(inbox[g], A, B) /\ (g \in gs /\ e \in A => In(inbox[g], B)) => Led(inbox'[g], A, B)
           /\ \A K, E : LastIs(inbox'[g], K, E) <=>
                        IF g \in gs /\ e \in K THEN e \in E ELSE LastIs(inbox[g], K, E)
<1>1. Len(inbox[g]) \in Nat
  BY DEF TypeInv, InboxOK
<1>2. CASE g \in gs
  <2>1. Plus(inbox[g], inbox'[g], e)
    BY <1>2 DEF Sent
  <2>2. QED
    BY <1>1, <1>2, <2>1, PlusFacts
<1>3. CASE g \notin gs
  BY <1>3 DEF Sent
<1>4. QED
  BY <1>2, <1>3

\* A page takes the first of its events.
LEMMA ReadFacts ==
    ASSUME TypeInv, NEW p \in Pages, Read(p), NEW g \in Pages
    PROVE  /\ g # p => inbox'[g] = inbox[g]
           /\ \A S : In(inbox[g], S) <=> In(inbox'[g], S) \/ (g = p /\ inbox[g][1] \in S)
           /\ \A S : Once(inbox[g], S) => Once(inbox'[g], S) /\ (g = p /\ inbox[g][1] \in S => ~In(inbox'[g], S))
           /\ \A A, B : Led(inbox[g], A, B) =>
                 /\ g = p => inbox[g][1] \notin A
                 /\ ~(g = p /\ inbox[g][1] \in B) => Led(inbox'[g], A, B)
           /\ \A K, E : LastIs(inbox[g], K, E) =>
                 IF In(inbox'[g], K) THEN LastIs(inbox'[g], K, E)
                 ELSE g = p /\ inbox[g][1] \in K /\ inbox[g][1] \in E
<1>1. Len(inbox[g]) \in Nat
  BY DEF TypeInv, InboxOK
<1>2. CASE g = p
  <2>1. Minus(inbox[g], inbox'[g], 1)
    BY <1>2 DEF Read
  <2>2. QED
    BY <1>1, <1>2, <2>1, MinusFacts, FirstFacts
<1>3. CASE g # p
  <2>1. inbox'[g] = inbox[g]
    BY <1>3 DEF Read
  <2>2. ASSUME NEW K, NEW E, LastIs(inbox[g], K, E) PROVE In(inbox[g], K)
    BY <2>2 DEF LastIs, In
  <2>3. QED
    BY <1>3, <2>1, <2>2
<1>4. QED
  BY <1>2, <1>3

\* A page asks for something.
LEMMA AskedFacts ==
    ASSUME TypeInv, NEW k \in Pages, NEW e, Asked(k, e), NEW g \in Pages
    PROVE  /\ g # k => outbox'[g] = outbox[g]
           /\ \A S : In(outbox'[g], S) <=> In(outbox[g], S) \/ (g = k /\ e \in S)
           /\ \A S : Once(outbox[g], S) /\ (g = k /\ e \in S => ~In(outbox[g], S)) => Once(outbox'[g], S)
<1>1. Len(outbox[g]) \in Nat
  BY DEF TypeInv, OutboxOK
<1>2. CASE g = k
  <2>1. Plus(outbox[g], outbox'[g], e)
    BY <1>2 DEF Asked
  <2>2. QED
    BY <1>1, <1>2, <2>1, PlusFacts
<1>3. CASE g # k
  BY <1>3 DEF Asked
<1>4. QED
  BY <1>2, <1>3

\* A request is done.
LEMMA DoneFacts ==
    ASSUME TypeInv, NEW k \in Pages, NEW i \in Slots(k), Done(k, i), NEW g \in Pages
    PROVE  /\ g # k => outbox'[g] = outbox[g]
           /\ \A S : In(outbox[g], S) <=> In(outbox'[g], S) \/ (g = k /\ outbox[g][i] \in S)
           /\ \A S : Once(outbox[g], S) => Once(outbox'[g], S) /\ (g = k /\ outbox[g][i] \in S => ~In(outbox'[g], S))
<1>1. Len(outbox[g]) \in Nat
  BY DEF TypeInv, OutboxOK
<1>2. CASE g = k
  <2>1. Minus(outbox[g], outbox'[g], i)
    BY <1>2 DEF Done
  <2>2. QED
    BY <1>1, <1>2, <2>1, MinusFacts
<1>3. CASE g # k
  BY <1>3 DEF Done
<1>4. QED
  BY <1>2, <1>3

\* A page that is opened anew has lost what it had.
LEMMA ReopenFacts ==
    ASSUME TypeInv, NEW p \in Players, PlayReopens(p), NEW g \in Pages
    PROVE  /\ g # p => inbox'[g] = inbox[g] /\ outbox'[g] = outbox[g]
           /\ \A S : ~In(inbox'[p], S) /\ Once(inbox'[p], S)
           /\ \A A, B : Led(inbox'[p], A, B)
           /\ \A K, E : ~LastIs(inbox'[p], K, E)
           /\ \A S : Once(outbox'[p], S)
           /\ \A S : In(outbox'[p], S) <=> play[p].cookie # 0 /\ Event("rejoin_game", play[p].cookie, {p}) \in S
<1>1. Len(inbox'[p]) = 0
  BY DEF PlayReopens
<1>2. CASE play[p].cookie = 0
  <2>1. Len(outbox'[p]) = 0
    BY <1>2 DEF PlayReopens
  <2>2. QED
    BY <1>1, <1>2, <2>1, Empty DEF PlayReopens
<1>3. CASE play[p].cookie # 0
  <2>1. Len(outbox'[p]) = 1 /\ outbox'[p][1] = Event("rejoin_game", play[p].cookie, {p})
    BY <1>3 DEF PlayReopens
  <2>2. \A S : Once(outbox'[p], S)
    BY <2>1 DEF Once
  <2>3. \A S : In(outbox'[p], S) <=> Event("rejoin_game", play[p].cookie, {p}) \in S
    BY <2>1 DEF In
  <2>4. QED
    BY <1>1, <1>3, <2>2, <2>3, Empty DEF PlayReopens
<1>4. QED
  BY <1>2, <1>3

\* A page has one event more.
LEMMA GotFacts ==
    ASSUME TypeInv, NEW g \in Pages, NEW e, Plus(inbox[g], inbox'[g], e)
    PROVE  /\ \A S : In(inbox'[g], S) <=> In(inbox[g], S) \/ e \in S
           /\ \A S : Once(inbox[g], S) /\ (e \in S => ~In(inbox[g], S)) => Once(inbox'[g], S)
           /\ \A A, B : Led(inbox[g], A, B) /\ (e \in A => In(inbox[g], B)) => Led(inbox'[g], A, B)
           /\ \A K, E : LastIs(inbox'[g], K, E) <=> IF e \in K THEN e \in E ELSE LastIs(inbox[g], K, E)
<1>1. Len(inbox[g]) \in Nat
  BY DEF TypeInv, InboxOK
<1>2. QED
  BY <1>1, PlusFacts

Kind(k)  == {e \in Messages : e.ev = k}
Kinds(K) == {e \in Messages : e.ev \in K}

\* Whether a message is of a kind its name tells.
LEMMA KindFacts ==
    ASSUME TypeInv, NEW g \in Pages
    PROVE  /\ \A i \in Places(g) : inbox[g][i] \in Messages
           /\ \A i \in Slots(g) : outbox[g][i] \in Messages
           /\ Places(g) = 1..Len(inbox[g]) /\ Len(inbox[g]) \in Nat /\ Len(outbox[g]) \in Nat
           /\ \A S : \A i \in Places(g) : inbox[g][i] \in S => In(inbox[g], S)
           /\ \A S : \A i \in Slots(g) : outbox[g][i] \in S => In(outbox[g], S)
<1>1. inbox[g] \in Seq(Messages) /\ outbox[g] \in Seq(Messages)
  BY DEF TypeInv, InboxOK, OutboxOK
<1>2. QED
  BY <1>1 DEF Places, Slots, In

(***************************************************************************)
(* A player is kicked once                                                 *)
(***************************************************************************)

\* Between the join of a player and the end of its page there is one news of it: that
\* it came, its name on the host's list, the request to kick it or the kick itself.
Joining(p)   == {e \in Messages : e.ev = "player_joined" /\ e.who = {p}}
KickAsked(p) == {e \in Messages : e.ev = "kick_player" /\ e.who = {p}}

Comes(p)     == In(inbox["admin"], Joining(p))
Listed(p)    == p \in host["admin"].list
Leaves(p)    == In(outbox["admin"], KickAsked(p))
IsKicked(p)  == In(inbox[p], Kind("kick"))

KickAt(p) ==
    /\ Once(inbox["admin"], Joining(p)) /\ Once(outbox["admin"], KickAsked(p)) /\ Once(inbox[p], Kind("kick"))
    /\ Comes(p) => ~Listed(p) /\ ~Leaves(p) /\ ~IsKicked(p)
    /\ Listed(p) => ~Leaves(p) /\ ~IsKicked(p)
    /\ Leaves(p) => ~IsKicked(p)
    /\ server.keys[p] = 0 \/ play[p].kicked => ~Comes(p) /\ ~Listed(p) /\ ~Leaves(p) /\ ~IsKicked(p)
    /\ play[p].kicked => server.keys[p] # 0
    /\ play[p].conn <= scene.reloads + (IF play[p].kicked THEN 2 ELSE 1)
KickInv == \A p \in Players : KickAt(p)

\* Messages that are no news of a player change nothing.
LEMMA KickSame ==
    ASSUME NEW p \in Players, KickAt(p), Static,
           Once(inbox["admin"], Joining(p)) => Once(inbox'["admin"], Joining(p)),
           Once(outbox["admin"], KickAsked(p)) => Once(outbox'["admin"], KickAsked(p)),
           Once(inbox[p], Kind("kick")) => Once(inbox'[p], Kind("kick")),
           In(inbox'["admin"], Joining(p)) => In(inbox["admin"], Joining(p)),
           In(outbox'["admin"], KickAsked(p)) => In(outbox["admin"], KickAsked(p)),
           In(inbox'[p], Kind("kick")) => In(inbox[p], Kind("kick")),
           p \in host'["admin"].list => p \in host["admin"].list,
           server'.keys[p] = server.keys[p] \/ (server'.keys[p] # 0 /\ server.keys[p] # 0),
           play'[p].kicked = play[p].kicked, play'[p].conn = play[p].conn
    PROVE  KickAt(p)'
<1>1. Joining(p)' = Joining(p) /\ KickAsked(p)' = KickAsked(p) /\ Kind("kick")' = Kind("kick")
  BY DEF Joining, KickAsked, Kind
<1>2. QED
  BY <1>1 DEF KickAt, Comes, Listed, Leaves, IsKicked, Static

\* The news of a player stay one through every step.
LEMMA KickStep ==
    ASSUME TypeInv, TypeInv', Static, Moves, NEW p \in Players, KickAt(p)
    PROVE  KickAt(p)'
<1>0. /\ "admin" \in Pages /\ p \in Pages /\ p # "admin" /\ p \notin Hosts /\ "admin" \in Hosts /\ "admin" \notin Players
      /\ \A h \in Hosts : h \in Pages /\ h \notin Players
      /\ \A r \in Players : r \in Pages /\ r \notin Hosts /\ r # "admin"
  BY RoomFacts
<1>1. ASSUME NEW r \in Players, PlayActs(r) \/ PlayStops(r)
      PROVE  KickAt(p)'
  <2>1. UNCHANGED <<server, host>> /\ play'[p].kicked = play[p].kicked /\ play'[p].conn = play[p].conn
    BY <1>1 DEF PlayActs, PlayStops, PlayKept
  <2>2. inbox' = inbox \/ Read(r)
    BY <1>1 DEF PlayActs, PlayStops
  <2>3. inbox'["admin"] = inbox["admin"] /\ (Once(inbox[p], Kind("kick")) => Once(inbox'[p], Kind("kick")))
        /\ (In(inbox'[p], Kind("kick")) => In(inbox[p], Kind("kick")))
    BY <1>0, <2>2, ReadFacts
  <2>4. outbox'["admin"] = outbox["admin"]
    BY <1>0, <1>1 DEF PlayActs, PlayStops, Asked
  <2>5. QED
    BY <2>1, <2>3, <2>4, KickSame
<1>2. ASSUME NEW r \in Players, PlayTakes(r)
      PROVE  KickAt(p)'
  <2>1. UNCHANGED <<server, host, outbox>> /\ play'[p].kicked = play[p].kicked /\ play'[p].conn = play[p].conn
    BY <1>2 DEF PlayTakes, Turned
  <2>2. Read(r)
    BY <1>2 DEF PlayTakes
  <2>3. inbox'["admin"] = inbox["admin"] /\ (Once(inbox[p], Kind("kick")) => Once(inbox'[p], Kind("kick")))
        /\ (In(inbox'[p], Kind("kick")) => In(inbox[p], Kind("kick")))
    BY <1>0, <2>2, ReadFacts
  <2>5. QED
    BY <2>1, <2>3, KickSame
<1>3. ASSUME NEW r \in Players, PlayReopens(r)
      PROVE  KickAt(p)'
  <2>1. host' = host /\ server'.keys = server.keys /\ inbox'["admin"] = inbox["admin"] /\ outbox'["admin"] = outbox["admin"]
    BY <1>0, <1>3 DEF PlayReopens, TypeInv, ServerOK, Servers
  <2>2. CASE r # p
    <3>1. inbox'[p] = inbox[p] /\ play'[p] = play[p]
      BY <1>0, <1>3, <2>2 DEF PlayReopens
    <3>2. QED
      BY <2>1, <3>1, KickSame
  <2>3. CASE r = p
    <3>1. ~In(inbox'[p], Kind("kick")) /\ Once(inbox'[p], Kind("kick"))
      BY <1>0, <1>3, <2>3, ReopenFacts
    <3>2. scene.reloads \in Nat /\ play[p].conn \in Nat /\ play[p].kicked \in BOOLEAN
      BY PagesAssumption DEF TypeInv, PlayOK, PlayPages
    <3>3. play'[p].conn = play[p].conn + 1
      BY <1>3, <2>3 DEF PlayReopens
    <3>4. CASE play[p].conn <= scene.reloads /\ play'[p].kicked = play[p].kicked
      <4>1. play'[p].conn <= scene.reloads + (IF play'[p].kicked THEN 2 ELSE 1)
        BY <3>2, <3>3, <3>4
      <4>2. QED
        BY <2>1, <3>1, <3>4, <4>1 DEF KickAt, Comes, Listed, Leaves, IsKicked, Static, Joining, KickAsked, Kind
    <3>5. CASE 1 \in Places(p) /\ inbox[p][1].ev = "kick" /\ play'[p].kicked
      <4>1. IsKicked(p)
        BY <1>0, <3>5, KindFacts DEF IsKicked, Kind
      <4>2. ~play[p].kicked /\ play[p].conn <= scene.reloads + 1
        BY <3>2, <4>1 DEF KickAt
      <4>3. play'[p].conn <= scene.reloads + (IF play'[p].kicked THEN 2 ELSE 1)
        BY <3>2, <3>3, <3>5, <4>2
      <4>4. QED
        BY <2>1, <3>1, <4>1, <4>3 DEF KickAt, Comes, Listed, Leaves, IsKicked, Static, Joining, KickAsked, Kind
    <3>6. QED
      BY <1>3, <2>3, <3>4, <3>5 DEF PlayReopens
  <2>4. QED
    BY <2>2, <2>3
<1>4. ASSUME NEW h \in Hosts, NEW e \in Messages, HostPresses(h, e)
      PROVE  KickAt(p)'
  <2>1. UNCHANGED <<scene, server, play, inbox>> /\ Asked(h, e) /\ h \in Pages
    BY <1>0, <1>4 DEF HostPresses
  <2>2. /\ In(outbox'["admin"], KickAsked(p)) <=> In(outbox["admin"], KickAsked(p)) \/ (h = "admin" /\ e \in KickAsked(p))
        /\ Once(outbox["admin"], KickAsked(p)) /\ (h = "admin" /\ e \in KickAsked(p) => ~In(outbox["admin"], KickAsked(p)))
               => Once(outbox'["admin"], KickAsked(p))
    BY <1>0, <2>1, AskedFacts
  <2>3. CASE h = "admin" /\ e \in KickAsked(p)
    <3>1. PICK r \in host["admin"].list : host'["admin"].list = host["admin"].list \ {r} /\ e = Event("kick_player", None, {r})
      BY <1>4, <2>3 DEF HostPresses, KickAsked, Plain, Event, NextQuestion, ShowResults
    <3>2. r = p
      BY <2>3, <3>1 DEF KickAsked, Event
    <3>3. QED
      BY <2>1, <2>2, <2>3, <3>1, <3>2 DEF KickAt, Comes, Listed, Leaves, IsKicked, Static, Joining, KickAsked, Kind
  <2>4. CASE ~(h = "admin" /\ e \in KickAsked(p))
    <3>1. p \in host'["admin"].list => p \in host["admin"].list
      BY <1>0, <1>4 DEF HostPresses, HostKept
    <3>2. QED
      BY <2>1, <2>2, <2>4, <3>1, KickSame
  <2>5. QED
    BY <2>3, <2>4
<1>5. ASSUME NEW h \in Hosts, HostSkips(h) \/ HostTicks(h)
      PROVE  KickAt(p)'
  <2>1. UNCHANGED <<scene, server, play, inbox>> /\ h \in Pages /\ host'["admin"].list = host["admin"].list
    BY <1>0, <1>5 DEF HostSkips, HostTicks, HostKept
  <2>2. outbox' = outbox \/ Asked(h, NextQuestion(h))
    BY <1>5 DEF HostSkips, HostTicks
  <2>3. NextQuestion(h) \notin KickAsked(p)
    BY DEF NextQuestion, Event, KickAsked
  <2>4. /\ In(outbox'["admin"], KickAsked(p)) => In(outbox["admin"], KickAsked(p))
        /\ Once(outbox["admin"], KickAsked(p)) => Once(outbox'["admin"], KickAsked(p))
    BY <1>0, <2>1, <2>2, <2>3, AskedFacts
  <2>5. QED
    BY <2>1, <2>4, KickSame
<1>6. ASSUME NEW h \in Hosts, HostTakes(h)
      PROVE  KickAt(p)'
  <2>1. UNCHANGED <<scene, server, play, outbox>> /\ Read(h) /\ h \in Pages /\ 1 \in Places(h)
    BY <1>0, <1>6 DEF HostTakes
  <2>2. /\ inbox'[p] = inbox[p]
        /\ In(inbox["admin"], Joining(p)) <=> In(inbox'["admin"], Joining(p)) \/ (h = "admin" /\ inbox["admin"][1] \in Joining(p))
        /\ Once(inbox["admin"], Joining(p)) => /\ Once(inbox'["admin"], Joining(p))
                                               /\ h = "admin" /\ inbox["admin"][1] \in Joining(p) => ~In(inbox'["admin"], Joining(p))
    BY <1>0, <2>1, ReadFacts
  <2>3. CASE h = "admin" /\ inbox["admin"][1] \in Joining(p)
    <3>1. host'["admin"].list = host["admin"].list \cup {p}
      BY <1>6, <2>3 DEF HostTakes, HostTurned, Joining
    <3>2. QED
      BY <2>1, <2>2, <2>3, <3>1 DEF KickAt, Comes, Listed, Leaves, IsKicked, Static, Joining, KickAsked, Kind
  <2>4. CASE ~(h = "admin" /\ inbox["admin"][1] \in Joining(p))
    <3>1. p \in host'["admin"].list => p \in host["admin"].list
      <4>1. CASE h # "admin"
        BY <1>0, <1>6, <4>1 DEF HostTakes
      <4>2. CASE h = "admin"
        <5>1. inbox["admin"][1] \in Messages
          BY <1>0, <2>1, <4>2, KindFacts
        <5>2. HostEventOK(scene.quiz, inbox["admin"][1])
          BY <1>0, <2>1, <4>2 DEF TypeInv, InboxOK
        <5>3. inbox["admin"][1].ev = "player_joined" => p \notin inbox["admin"][1].who
          BY <2>4, <4>2, <5>1, <5>2 DEF HostEventOK, Joining
        <5>4. QED
          BY <1>6, <4>2, <5>3 DEF HostTakes, HostTurned
      <4>3. QED
        BY <4>1, <4>2
    <3>2. QED
      BY <2>1, <2>2, <2>4, <3>1, KickSame
  <2>5. QED
    BY <2>3, <2>4
<1>7. ASSUME NEW g \in Pages, NEW i \in Slots(g), Handles(g, i)
      PROVE  KickAt(p)'
  <2>0. UNCHANGED <<scene, host, play, hasty>> /\ Done(g, i)
    BY <1>7 DEF Handles, HandlesOne
  <2>1. /\ In(outbox["admin"], KickAsked(p)) <=> In(outbox'["admin"], KickAsked(p)) \/ (g = "admin" /\ outbox[g][i] \in KickAsked(p))
        /\ Once(outbox["admin"], KickAsked(p)) => /\ Once(outbox'["admin"], KickAsked(p))
                                                  /\ g = "admin" /\ outbox[g][i] \in KickAsked(p) => ~In(outbox'["admin"], KickAsked(p))
    BY <1>0, <1>7, <2>0, DoneFacts
  <2>2. ASSUME NEW gs, NEW e, Sent(gs, e), e.ev \notin {"player_joined", "kick"}, server'.keys = server.keys
        PROVE  KickAt(p)'
    <3>1. e \notin Joining(p) /\ e \notin Kind("kick")
      BY <2>2 DEF Joining, Kind
    <3>2. /\ In(inbox'["admin"], Joining(p)) => In(inbox["admin"], Joining(p))
          /\ Once(inbox["admin"], Joining(p)) => Once(inbox'["admin"], Joining(p))
          /\ In(inbox'[p], Kind("kick")) => In(inbox[p], Kind("kick"))
          /\ Once(inbox[p], Kind("kick")) => Once(inbox'[p], Kind("kick"))
      BY <1>0, <2>2, <3>1, SentFacts
    <3>3. QED
      BY <2>0, <2>1, <2>2, <3>2, KickSame
  <2>3. CASE inbox' = inbox /\ server'.keys = server.keys
    BY <2>0, <2>1, <2>3, KickSame
  <2>4. CASE HandlesNothing(g, i) \/ HandlesSubmit(g, i)
    BY <2>3, <2>4 DEF HandlesNothing, HandlesSubmit
  <2>5. CASE HandlesStart(g, i) \/ HandlesTold(g, i) \/ HandlesNews(g, i)
    BY <2>2, <2>5 DEF HandlesStart, HandlesTold, HandlesNews, SameGame, Plain, Event
  <2>6. CASE HandlesQuestion(g, i)
    BY <2>2, <2>3, <2>6 DEF HandlesQuestion, SameGame, Event
  <2>7. CASE HandlesResults(g, i)
    BY <2>2, <2>7 DEF HandlesResults, Event
  <2>8. CASE HandlesJoin(g, i)
    <3> DEFINE news == Event("player_joined", None, {g})
    <3>1. /\ g \in Players /\ server.keys[g] = 0 /\ server'.keys = [server.keys EXCEPT ![g] = play[g].conn]
          /\ DOMAIN server.keys = Players /\ play[g].conn # 0
      BY <2>8 DEF HandlesJoin, TypeInv, ServerOK, Servers, PlayOK, PlayPages
    <3>2. /\ In(inbox'["admin"], Joining(p)) <=> In(inbox["admin"], Joining(p)) \/ news \in Joining(p)
          /\ Once(inbox["admin"], Joining(p)) /\ (news \in Joining(p) => ~In(inbox["admin"], Joining(p)))
                => Once(inbox'["admin"], Joining(p))
      <4>1. Plus(inbox["admin"], inbox'["admin"], news)
        BY <1>0, <2>8, <3>1 DEF HandlesJoin
      <4> HIDE DEF news
      <4>2. QED
        BY <1>0, <4>1, GotFacts
    <3>3. /\ In(inbox'[p], Kind("kick")) => In(inbox[p], Kind("kick"))
          /\ Once(inbox[p], Kind("kick")) => Once(inbox'[p], Kind("kick"))
      <4>1. Plain("joined_game") \notin Kind("kick")
        BY DEF Plain, Event, Kind
      <4>2. CASE g # p
        BY <1>0, <2>8, <4>2 DEF HandlesJoin
      <4>3. CASE g = p
        <5>a. /\ g \in Pages
              /\ \A k \in Pages : k = g => Plus(inbox[k], inbox'[k], Plain("joined_game"))
          BY <1>0, <2>8 DEF HandlesJoin
        <5>1. Plus(inbox[p], inbox'[p], Plain("joined_game"))
          BY <4>3, <5>a
        <5>2. PICK e, K : e = Plain("joined_game") /\ K = Kind("kick")
          OBVIOUS
        <5>3. Plus(inbox[p], inbox'[p], e) /\ e \notin K /\ p \in Pages
          BY <1>0, <4>1, <5>1, <5>2
        <5>4. (In(inbox'[p], K) => In(inbox[p], K)) /\ (Once(inbox[p], K) => Once(inbox'[p], K))
          BY <5>3, GotFacts
        <5>5. QED
          BY <5>2, <5>4
      <4>4. QED
        BY <4>2, <4>3
    <3>4. CASE g = p
      <4>1. server'.keys[p] # 0
        BY <3>1, <3>4
      <4>2. ~play[p].kicked /\ ~Comes(p) /\ ~Listed(p) /\ ~Leaves(p) /\ ~IsKicked(p)
        BY <3>1, <3>4 DEF KickAt
      <4>3. QED
        BY <2>0, <2>1, <3>2, <3>3, <4>1, <4>2 DEF KickAt, Comes, Listed, Leaves, IsKicked, Static, Joining, KickAsked, Kind
    <3>5. CASE g # p
      <4>1. server'.keys[p] = server.keys[p] /\ news \notin Joining(p)
        BY <3>1, <3>5 DEF Joining, Event
      <4>2. QED
        BY <2>0, <2>1, <3>2, <3>3, <4>1, KickSame
    <3>6. QED
      BY <3>4, <3>5
  <2>9. CASE HandlesRejoin(g, i)
    <3>1. g \in Players /\ server.keys[g] = outbox[g][i].q /\ server'.keys = [server.keys EXCEPT ![g] = play[g].conn]
          /\ DOMAIN server.keys = Players /\ play[g].conn # 0 /\ outbox[g][i].ev = "rejoin_game"
      BY <2>9 DEF HandlesRejoin, TypeInv, ServerOK, Servers, PlayOK, PlayPages
    <3>2. server.keys[g] # 0
      BY <3>1 DEF TypeInv, OutboxOK, PlayRequestOK
    <3>3. server'.keys[p] = server.keys[p] \/ (server'.keys[p] # 0 /\ server.keys[p] # 0)
      BY <3>1, <3>2
    <3>4. Sent({g}, RejoinNews)
      BY <2>9 DEF HandlesRejoin
    <3>5. RejoinNews \notin Joining(p) /\ RejoinNews \notin Kind("kick")
      BY DEF RejoinNews, Event, Joining, Kind
    <3>6. /\ In(inbox'["admin"], Joining(p)) => In(inbox["admin"], Joining(p))
          /\ Once(inbox["admin"], Joining(p)) => Once(inbox'["admin"], Joining(p))
          /\ In(inbox'[p], Kind("kick")) => In(inbox[p], Kind("kick"))
          /\ Once(inbox[p], Kind("kick")) => Once(inbox'[p], Kind("kick"))
      BY <1>0, <3>4, <3>5, SentFacts
    <3>7. QED
      BY <2>0, <2>1, <3>3, <3>6, KickSame
  <2>10. CASE HandlesKick(g, i)
    <3>1. PICK r \in Players :
            /\ outbox[g][i].who = {r} /\ g = "admin" /\ outbox[g][i].ev = "kick_player" /\ server'.keys = server.keys
            /\ Sent(IF Holds(r, play[r].conn) THEN {r} ELSE {}, Plain("kick"))
      BY <2>10 DEF HandlesKick, SameGame
    <3> DEFINE gs == IF Holds(r, play[r].conn) THEN {r} ELSE {}
    <3>2. /\ In(inbox'["admin"], Joining(p)) => In(inbox["admin"], Joining(p))
          /\ Once(inbox["admin"], Joining(p)) => Once(inbox'["admin"], Joining(p))
      <4>1. "admin" \notin gs
        BY <1>0
      <4> HIDE DEF gs
      <4>2. Sent(gs, Plain("kick"))
        BY <3>1 DEF gs
      <4>3. QED
        BY <1>0, <4>1, <4>2, SentFacts
    <3>3. /\ In(inbox'[p], Kind("kick")) <=> In(inbox[p], Kind("kick")) \/ (p \in gs /\ Plain("kick") \in Kind("kick"))
          /\ Once(inbox[p], Kind("kick")) /\ (p \in gs /\ Plain("kick") \in Kind("kick") => ~In(inbox[p], Kind("kick")))
                => Once(inbox'[p], Kind("kick"))
      <4> HIDE DEF gs
      <4>2. Sent(gs, Plain("kick"))
        BY <3>1 DEF gs
      <4>3. QED
        BY <1>0, <4>2, SentFacts
    <3>4. outbox[g][i] \in KickAsked(r)
      BY <1>0, <1>7, <3>1, KindFacts DEF KickAsked
    <3>5. CASE r = p
      <4>1. (Leaves(p) /\ ~In(outbox'["admin"], KickAsked(p))) \/ ~Once(outbox["admin"], KickAsked(p))
        BY <2>1, <3>1, <3>4, <3>5 DEF Leaves
      <4>2. Leaves(p) /\ ~In(outbox'["admin"], KickAsked(p)) /\ ~Comes(p) /\ ~Listed(p) /\ ~IsKicked(p)
        BY <4>1 DEF KickAt
      <4>3. QED
        BY <2>0, <2>1, <3>1, <3>2, <3>3, <4>2 DEF KickAt, Comes, Listed, Leaves, IsKicked, Static, Joining, KickAsked, Kind
    <3>6. CASE r # p
      <4>1. p \notin gs
        BY <3>6
      <4>2. QED
        BY <2>0, <2>1, <3>1, <3>2, <3>3, <4>1, KickSame
    <3>7. QED
      BY <3>5, <3>6
  <2>11. QED
    BY <1>7, <2>4, <2>5, <2>6, <2>7, <2>8, <2>9, <2>10 DEF Handles
<1>8. CASE Announces
  <2>1. UNCHANGED <<scene, host, play, outbox, hasty>> /\ server'.keys = server.keys
    BY <1>8 DEF Announces
  <2>2. /\ Plain("everyone_answered") \notin Joining(p) /\ Plain("everyone_answered") \notin Kind("kick")
        /\ Plain("results_saved_successfully") \notin Joining(p)
        /\ Plain("results_saved_successfully") \notin Kind("kick")
    BY DEF Plain, Event, Joining, Kind
  <2>3. \/ inbox' = inbox \/ Sent(Pages, Plain("everyone_answered"))
        \/ Sent({"admin"}, Plain("results_saved_successfully"))
    BY <1>8, AnnounceNews
  <2>4. /\ In(inbox'["admin"], Joining(p)) => In(inbox["admin"], Joining(p))
        /\ Once(inbox["admin"], Joining(p)) => Once(inbox'["admin"], Joining(p))
        /\ In(inbox'[p], Kind("kick")) => In(inbox[p], Kind("kick"))
        /\ Once(inbox[p], Kind("kick")) => Once(inbox'[p], Kind("kick"))
    BY <1>0, <2>2, <2>3, SentFacts
  <2>5. QED
    BY <2>1, <2>4, KickSame
<1>9. CASE UNCHANGED vars
  BY <1>9, KickSame DEF vars
<1>10. QED
  BY <1>1, <1>2, <1>3, <1>4, <1>5, <1>6, <1>7, <1>8, <1>9 DEF Moves

(***************************************************************************)
(* What a step leaves alone                                                *)
(***************************************************************************)

\* A play page whose fields, but for its timer and its buttons, stay.
Stays(p) ==
    /\ play'[p].inGame = play[p].inGame /\ play'[p].started = play[p].started
    /\ play'[p].q = play[p].q /\ play'[p].results = play[p].results
    /\ play'[p].finals = play[p].finals /\ play'[p].tally = play[p].tally
    /\ play'[p].conn = play[p].conn /\ play'[p].cookie = play[p].cookie
    /\ play'[p].kicked = play[p].kicked

\* A play page works on its own boxes.
LEMMA PlayApart ==
    ASSUME TypeInv, NEW r \in Players, PlayActs(r) \/ PlayStops(r) \/ PlayTakes(r) \/ PlayReopens(r)
    PROVE  /\ host' = host /\ hasty' = hasty /\ scene' = scene
           /\ \A g \in Pages : g # r => inbox'[g] = inbox[g] /\ outbox'[g] = outbox[g]
           /\ \A p \in Players : p # r => Stays(p)
           /\ server'.keys = server.keys /\ server'.started = server.started /\ server'.current = server.current
           /\ server'.answers = server.answers /\ server'.announce = server.announce
           /\ server'.checked = server.checked /\ server'.others = server.others
           /\ server'.counted = server.counted
           /\ server'.room = IF PlayReopens(r) THEN server.room \ {r} ELSE server.room
<1>0. server \in Servers
  BY DEF TypeInv, ServerOK
<1>1. CASE PlayReopens(r)
  BY <1>0, <1>1 DEF PlayReopens, Stays, Servers
<1>2. CASE PlayActs(r) /\ ~PlayReopens(r)
  BY <1>2 DEF PlayActs, PlayKept, Stays, Asked
<1>3. CASE PlayStops(r) /\ ~PlayReopens(r)
  BY <1>3 DEF PlayStops, PlayKept, Stays, Asked, Read
<1>4. CASE PlayTakes(r) /\ ~PlayReopens(r)
  BY <1>4 DEF PlayTakes, Stays, Read
<1>5. QED
  BY <1>1, <1>2, <1>3, <1>4

\* So do the pages of the hosts.
HostMoves(h) == HostSkips(h) \/ HostTicks(h) \/ HostTakes(h) \/ \E e \in Messages : HostPresses(h, e)

\* They leave the rest.
LEMMA HostApart ==
    ASSUME TypeInv, NEW h \in Hosts, HostMoves(h)
    PROVE  /\ UNCHANGED <<scene, server, play>>
           /\ \A g \in Pages : g # h => inbox'[g] = inbox[g] /\ outbox'[g] = outbox[g]
           /\ \A p \in Players : Stays(p)
           /\ \A k \in Hosts : k # h => host'[k] = host[k]
<1>1. CASE HostSkips(h)
  BY <1>1 DEF HostSkips, Stays, Asked, HostKept
<1>2. CASE HostTicks(h)
  BY <1>2 DEF HostTicks, Stays
<1>3. CASE HostTakes(h)
  BY <1>3 DEF HostTakes, Stays, Read
<1>4. CASE \E e \in Messages : HostPresses(h, e)
  BY <1>4 DEF HostPresses, Stays, Asked, HostKept
<1>5. QED
  BY <1>1, <1>2, <1>3, <1>4 DEF HostMoves

\* A handler and an announcement leave the pages to themselves.
LEMMA ServerApart ==
    ASSUME Announces \/ \E g \in Pages : \E i \in Slots(g) : Handles(g, i)
    PROVE  UNCHANGED <<scene, host, play, hasty>> /\ \A p \in Players : Stays(p)
BY DEF Announces, Handles, HandlesOne, Stays

(***************************************************************************)
(* A page, its connection and its place in the game                        *)
(***************************************************************************)

Enters  == Kinds({"joined_game", "rejoined_game"})
Entries == Kinds({"join_game", "rejoin_game"})
Loud    == {e \in Messages : e.ev # "everyone_answered"}

Entered(p) == play[p].inGame \/ In(inbox[p], Enters)
Waits(p)   == In(outbox[p], Entries)

\* The name is kept for the connection of the page that the room holds; a page that
\* waits to enter has another one, and is told nothing yet.
LinkAt(p) ==
    /\ server.keys[p] <= play[p].conn
    /\ p \in server.room => server.keys[p] = play[p].conn
    /\ server.keys[p] = play[p].conn => Entered(p)
    /\ Once(outbox[p], Entries)
    /\ Waits(p) => /\ server.keys[p] < play[p].conn /\ ~play[p].inGame /\ ~play[p].started
                   /\ ~In(inbox[p], Loud)
LinkInv == \A p \in Players : LinkAt(p)

\* Nothing about the page changed but the requests that are no entries, and the news
\* that everyone has answered.
LEMMA LinkSame ==
    ASSUME NEW p \in Players, LinkAt(p), Stays(p), server'.keys[p] = server.keys[p],
           p \in server'.room => p \in server.room,
           In(inbox[p], Enters) => In(inbox'[p], Enters),
           In(outbox'[p], Entries) => In(outbox[p], Entries),
           Once(outbox[p], Entries) => Once(outbox'[p], Entries),
           Waits(p) /\ In(inbox'[p], Loud) => In(inbox[p], Loud)
    PROVE  LinkAt(p)'
<1>1. Enters' = Enters /\ Entries' = Entries /\ Loud' = Loud
  BY DEF Enters, Entries, Loud, Kinds
<1>2. QED
  BY <1>1 DEF LinkAt, Stays, Entered, Waits

\* A page keeps its place through every step.
LEMMA LinkStep ==
    ASSUME TypeInv, TypeInv', Static, Moves, NEW p \in Players, LinkAt(p)
    PROVE  LinkAt(p)'
<1>0. /\ p \in Pages /\ p # "admin" /\ p \notin Hosts
      /\ \A h \in Hosts : h \in Pages /\ h \notin Players
      /\ \A r \in Players : r \in Pages /\ r \notin Hosts
      /\ server.keys[p] \in Nat /\ play[p].conn \in Nat /\ play[p].conn # 0
  BY RoomFacts DEF TypeInv, ServerOK, Servers, PlayOK, PlayPages
<1> DEFINE Fixed == Enters' = Enters /\ Entries' = Entries /\ Loud' = Loud
<1>f. Fixed
  BY DEF Enters, Entries, Loud, Kinds
<1>1. ASSUME NEW r \in Players, r # p, PlayActs(r) \/ PlayStops(r) \/ PlayTakes(r) \/ PlayReopens(r)
      PROVE  LinkAt(p)'
  <2>1. Stays(p) /\ inbox'[p] = inbox[p] /\ outbox'[p] = outbox[p] /\ server'.keys = server.keys /\ server'.room \subseteq server.room
    BY <1>0, <1>1, PlayApart
  <2>2. QED
    BY <2>1, LinkSame
<1>2. CASE PlayActs(p) \/ PlayStops(p)
  <2>1. Stays(p) /\ server' = server
    BY <1>2 DEF PlayActs, PlayStops, PlayKept, Stays
  <2>2. /\ In(inbox[p], Enters) => In(inbox'[p], Enters)
        /\ In(inbox'[p], Loud) => In(inbox[p], Loud)
    <3>1. CASE inbox' = inbox
      BY <3>1
    <3>2. CASE Read(p) /\ 1 \in Places(p) /\ inbox[p][1].ev \in {"everyone_answered", "solutions"}
      <4>1. inbox[p][1] \notin Enters
        BY <3>2 DEF Enters, Kinds
      <4>2. QED
        BY <1>0, <3>2, <4>1, ReadFacts
    <3>3. QED
      BY <1>2, <3>1, <3>2 DEF PlayActs, PlayStops
  <2>3. CASE outbox' = outbox \/ (ShowsQuestion(p) /\ Asked(p, Submit(p)))
    <3>1. Submit(p) \notin Entries
      BY DEF Submit, Event, Entries, Kinds
    <3>2. /\ In(outbox'[p], Entries) => In(outbox[p], Entries)
          /\ Once(outbox[p], Entries) => Once(outbox'[p], Entries)
      BY <1>0, <2>3, <3>1, AskedFacts
    <3>3. QED
      BY <2>1, <2>2, <3>2, LinkSame
  <2>4. CASE JoinGuard(p) /\ Asked(p, Plain("join_game")) /\ inbox' = inbox
    <3>1. ~In(inbox[p], Loud) /\ ~In(inbox[p], Enters) /\ ~In(outbox[p], Entries) /\ ~play[p].started /\ ~play[p].inGame
      BY <2>4, Empty DEF JoinGuard, ShowsJoin
    <3>2. server.keys[p] # play[p].conn
      BY <3>1 DEF LinkAt, Entered
    <3>3. Once(outbox'[p], Entries)
      BY <1>0, <2>4, <3>1, AskedFacts DEF LinkAt
    <3>4. QED
      BY <1>0, <1>f, <2>1, <2>4, <3>1, <3>2, <3>3 DEF LinkAt, Waits, Entered, Stays
  <2>5. QED
    BY <1>2, <2>3, <2>4 DEF PlayActs, PlayStops
<1>3. CASE PlayTakes(p)
  <2>1. Read(p) /\ 1 \in Places(p) /\ inbox[p][1].ev # "everyone_answered" /\ Turned(play[p], inbox[p][1], play'[p])
        /\ outbox' = outbox /\ server' = server
    BY <1>3 DEF PlayTakes
  <2>2. inbox[p][1] \in Messages /\ (inbox[p][1] \in Loud => In(inbox[p], Loud))
    BY <1>0, <2>1, KindFacts
  <2>3. ~Waits(p)
    BY <2>1, <2>2 DEF LinkAt, Loud
  <2>4. In(inbox[p], Enters) => In(inbox'[p], Enters) \/ inbox[p][1] \in Enters
    BY <1>0, <2>1, ReadFacts
  <2>5. Entered(p) => Entered(p)'
    BY <1>f, <2>1, <2>2, <2>4 DEF Entered, Turned, Enters, Kinds
  <2>6. QED
    BY <1>f, <2>1, <2>3, <2>5 DEF LinkAt, Waits, Turned
<1>4. CASE PlayReopens(p)
  <2>1. server'.keys = server.keys /\ p \notin server'.room
    BY <1>0, <1>4, PlayApart
  <2>2. play'[p].conn = play[p].conn + 1 /\ ~play'[p].inGame /\ ~play'[p].started
    BY <1>4 DEF PlayReopens
  <2>3. Once(outbox'[p], Entries) /\ ~In(inbox'[p], Loud)
    BY <1>0, <1>4, ReopenFacts
  <2>4. server'.keys[p] < play'[p].conn
    BY <1>0, <2>1, <2>2 DEF LinkAt
  <2>5. server'.keys[p] <= play'[p].conn /\ server'.keys[p] # play'[p].conn
    BY <1>0, <2>1, <2>2, <2>4
  <2>6. QED
    BY <1>f, <2>1, <2>2, <2>3, <2>4, <2>5 DEF LinkAt, Waits
<1>5. ASSUME NEW h \in Hosts, HostMoves(h)
      PROVE  LinkAt(p)'
  <2>1. server' = server /\ Stays(p) /\ inbox'[p] = inbox[p] /\ outbox'[p] = outbox[p]
    BY <1>0, <1>5, HostApart
  <2>2. QED
    BY <2>1, LinkSame
<1>6. ASSUME NEW g \in Pages, NEW i \in Slots(g), Handles(g, i)
      PROVE  LinkAt(p)'
  <2>0. Stays(p) /\ Done(g, i)
    BY <1>6, ServerApart DEF Handles, HandlesOne
  <2>1. /\ In(outbox[p], Entries) <=> In(outbox'[p], Entries) \/ (g = p /\ outbox[g][i] \in Entries)
        /\ Once(outbox[p], Entries) => /\ Once(outbox'[p], Entries)
                                       /\ g = p /\ outbox[g][i] \in Entries => ~In(outbox'[p], Entries)
    BY <1>0, <1>6, <2>0, DoneFacts
  <2>2. ASSUME NEW gs, NEW e, Sent(gs, e), server'.keys = server.keys, server'.room \subseteq server.room,
               p \in gs => server.keys[p] = play[p].conn
        PROVE  LinkAt(p)'
    <3>1. In(inbox[p], Enters) => In(inbox'[p], Enters)
      BY <1>0, <2>2, SentFacts
    <3>2. p \notin gs => inbox'[p] = inbox[p]
      BY <1>0, <2>2, SentFacts
    <3>3. p \in gs => ~Waits(p)
      BY <1>0, <2>2 DEF LinkAt
    <3>4. QED
      BY <2>0, <2>1, <2>2, <3>1, <3>2, <3>3, LinkSame
  <2>3. CASE inbox' = inbox /\ server'.keys = server.keys /\ server'.room = server.room
    BY <2>0, <2>1, <2>3, LinkSame
  <2>4. CASE HandlesNothing(g, i) \/ HandlesSubmit(g, i)
    BY <2>3, <2>4 DEF HandlesNothing, HandlesSubmit
  <2>5. p \in ToRoom => server.keys[p] = play[p].conn
    BY <1>0 DEF ToRoom, LinkAt
  <2>6. CASE HandlesStart(g, i) \/ HandlesTold(g, i) \/ HandlesResults(g, i)
    BY <2>2, <2>5, <2>6 DEF HandlesStart, HandlesTold, HandlesResults, SameGame
  <2>7. CASE HandlesNews(g, i)
    BY <1>0, <2>2, <2>7 DEF HandlesNews, SameGame
  <2>8. CASE HandlesQuestion(g, i)
    <3>1. CASE inbox' = inbox
      BY <2>3, <2>8, <3>1 DEF HandlesQuestion, SameGame
    <3>2. CASE outbox[g][i].q \in Questions
      <4> DEFINE gs == IF Type(outbox[g][i].q) = "SLIDE" THEN {g} ELSE ToRoom
      <4>1. Sent(gs, Event("set_question_number", outbox[g][i].q, {})) /\ g \in Hosts
            /\ server'.keys = server.keys /\ server'.room = server.room
        BY <2>8, <3>2 DEF HandlesQuestion, SameGame
      <4>2. p \in gs => server.keys[p] = play[p].conn
        BY <1>0, <2>5, <4>1
      <4> HIDE DEF gs
      <4>3. QED
        BY <2>2, <4>1, <4>2
    <3>3. QED
      BY <2>8, <3>1, <3>2 DEF HandlesQuestion
  <2>9. CASE HandlesKick(g, i)
    <3>1. PICK r \in Players :
            /\ server'.keys = server.keys /\ server'.room = server.room \ {r}
            /\ Sent(IF Holds(r, play[r].conn) THEN {r} ELSE {}, Plain("kick"))
      BY <2>9 DEF HandlesKick, SameGame
    <3> DEFINE gs == IF Holds(r, play[r].conn) THEN {r} ELSE {}
    <3>2. p \in gs => server.keys[p] = play[p].conn
      BY DEF Holds
    <3>3. Sent(gs, Plain("kick"))
      BY <3>1
    <3> HIDE DEF gs
    <3>4. QED
      BY <2>2, <3>1, <3>2, <3>3
  <2>10. CASE HandlesJoin(g, i) \/ HandlesRejoin(g, i)
    <3>1. /\ g \in Players /\ server'.keys = [server.keys EXCEPT ![g] = play[g].conn]
          /\ server'.room = server.room \cup {g} /\ server.keys \in [Players -> Nat]
          /\ outbox[g][i].ev \in {"join_game", "rejoin_game"}
      BY <2>10 DEF HandlesJoin, HandlesRejoin, TypeInv, ServerOK, Servers
    <3>2. CASE g # p
      <4>1. inbox'[p] = inbox[p]
        BY <1>0, <2>10, <3>2 DEF HandlesJoin, HandlesRejoin, Sent
      <4>2. server'.keys[p] = server.keys[p] /\ (p \in server'.room => p \in server.room)
        BY <3>1, <3>2
      <4>3. QED
        BY <2>0, <2>1, <4>1, <4>2, LinkSame
    <3>3. CASE g = p
      <4>1. outbox[p][i] \in Entries
        BY <1>0, <1>6, <3>1, <3>3, KindFacts DEF Entries, Kinds
      <4>2. ~In(outbox'[p], Entries) /\ Once(outbox'[p], Entries)
        BY <2>1, <3>3, <4>1 DEF LinkAt
      <4>3. server'.keys[p] = play'[p].conn
        BY <2>0, <3>1, <3>3 DEF Stays
      <4>4. In(inbox'[p], Enters)
        <5>1. CASE HandlesJoin(p, i)
          <6>1. Plus(inbox[p], inbox'[p], Plain("joined_game"))
            BY <1>0, <5>1 DEF HandlesJoin
          <6>2. Plain("joined_game") \in Enters
            BY EventsFit DEF Enters, Kinds, Plain, Event
          <6>3. QED
            BY <1>0, <6>1, <6>2, GotFacts
        <5>2. CASE HandlesRejoin(p, i)
          <6>1. Plus(inbox[p], inbox'[p], RejoinNews)
            BY <1>0, <5>2 DEF HandlesRejoin, Sent
          <6>2. RejoinNews \in Enters
            BY EventsFit DEF Enters, Kinds, RejoinNews, Event
          <6>3. QED
            BY <1>0, <6>1, <6>2, GotFacts
        <5>3. QED
          BY <2>10, <3>3, <5>1, <5>2
      <4>5. server'.keys[p] <= play'[p].conn
        BY <1>0, <2>0, <4>3 DEF Stays
      <4>6. QED
        BY <1>f, <4>2, <4>3, <4>4, <4>5 DEF LinkAt, Waits, Entered
    <3>4. QED
      BY <3>2, <3>3
  <2>11. QED
    BY <1>6, <2>4, <2>6, <2>7, <2>8, <2>9, <2>10 DEF Handles
<1>7. CASE Announces
  <2>1. Stays(p) /\ server'.keys = server.keys /\ server'.room = server.room /\ outbox' = outbox
    BY <1>7, ServerApart DEF Announces
  <2>2. Plain("everyone_answered") \notin Loud
    BY DEF Plain, Event, Loud
  <2>3. inbox'[p] = inbox[p] \/ Plus(inbox[p], inbox'[p], Plain("everyone_answered"))
    <3>1. p \in Pages /\ p # "admin"
      BY RoomFacts
    <3>2. QED
      BY <1>7, <3>1, AnnounceNews DEF Sent
  <2>4. /\ In(inbox[p], Enters) => In(inbox'[p], Enters)
        /\ In(inbox'[p], Loud) => In(inbox[p], Loud)
    BY <1>0, <2>2, <2>3, GotFacts
  <2>5. QED
    BY <2>1, <2>4, LinkSame
<1>8. CASE UNCHANGED vars
  BY <1>8, LinkSame DEF vars, Stays
<1>9. QED
  BY <1>1, <1>2, <1>3, <1>4, <1>5, <1>6, <1>7, <1>8 DEF Moves, HostMoves

(***************************************************************************)
(* Before the start                                                        *)
(***************************************************************************)

Early        == {"player_joined", "control_visibility", "results_saved_successfully", "everyone_answered"}
Late         == {e \in Messages : e.ev \notin Early}
LateRequests == {e \in Messages : e.ev \notin {"start_game", "kick_player", "set_control_visibility", "save_quiz"}}

\* Until the game is started the hosts ask for no question, nobody is told of one or
\* answers it; only other games are heard of.
Idle(h) ==
    /\ ~host[h].started /\ host[h].selected = -1 /\ host[h].results = None
    /\ ~host[h].later /\ ~host[h].adding /\ host[h].tally = [x \in Players |-> 0]
    /\ ~In(inbox[h], Late) /\ ~In(outbox[h], LateRequests)
StartedInv == ~server.started =>
    /\ server.current = -1 /\ server.announce = 0
    /\ \A q \in Questions : server.answers[q] = {} /\ Listing(q) = {}
    /\ \A h \in Hosts : Idle(h)

\* Before the start nothing but the start starts anything.
LEMMA StartedStep ==
    ASSUME TypeInv, TypeInv', Static, Moves, StartedInv
    PROVE  StartedInv'
<1>0. /\ \A h \in Hosts : h \in Pages /\ h \notin Players
      /\ \A r \in Players : r \in Pages /\ r \notin Hosts
      /\ Late' = Late /\ LateRequests' = LateRequests /\ Hosts' = Hosts /\ Questions' = Questions
      /\ -1 \notin Questions /\ Type(-1) # "SLIDE"
  BY RoomFacts, StaticFacts, SceneFacts DEF Late, LateRequests, Static, TypeInv
<1> SUFFICES ASSUME ~server'.started
             PROVE  /\ server'.current = -1 /\ server'.announce = 0
                    /\ \A q \in Questions : server'.answers[q] = {} /\ Listing(q)' = {}
                    /\ \A h \in Hosts : Idle(h)'
  BY <1>0 DEF StartedInv
<1> DEFINE Calm == /\ server.current = -1 /\ server.announce = 0
                   /\ \A q \in Questions : server.answers[q] = {} /\ Listing(q) = {}
                   /\ \A h \in Hosts : Idle(h)
           Goal == /\ server'.current = -1 /\ server'.announce = 0
                   /\ \A q \in Questions : server'.answers[q] = {} /\ Listing(q)' = {}
                   /\ \A h \in Hosts : Idle(h)'
<1>s. ~server.started => Calm
  BY DEF StartedInv
<1>b. ASSUME NEW h \in Hosts, Idle(h), host'[h] = host[h], inbox'[h] = inbox[h], outbox'[h] = outbox[h]
      PROVE  Idle(h)'
  BY <1>0, <1>b DEF Idle
<1>1. ASSUME NEW r \in Players, PlayActs(r) \/ PlayStops(r) \/ PlayTakes(r) \/ PlayReopens(r)
      PROVE  Goal
  <2>1. /\ server'.current = server.current /\ server'.announce = server.announce /\ server'.answers = server.answers
        /\ server'.started = server.started /\ host' = host /\ server'.checked = server.checked
        /\ \A h \in Hosts : inbox'[h] = inbox[h] /\ outbox'[h] = outbox[h]
    BY <1>0, <1>1, PlayApart
  <2>2. \A q : Listing(q)' = Listing(q)
    BY <2>1 DEF Listing
  <2>3. QED
    BY <1>s, <1>b, <2>1, <2>2
<1>2. ASSUME NEW h \in Hosts, HostMoves(h)
      PROVE  Goal
  <2>1. server' = server /\ \A k \in Hosts : k # h => inbox'[k] = inbox[k] /\ outbox'[k] = outbox[k] /\ host'[k] = host[k]
    BY <1>0, <1>2, HostApart
  <2>2. Calm /\ Idle(h) /\ \A q : Listing(q)' = Listing(q)
    BY <1>s, <2>1 DEF Listing
  <2>3. Idle(h)'
    <3>1. CASE \E e \in Messages : HostPresses(h, e)
      <4>1. PICK e \in Messages : HostPresses(h, e)
        BY <3>1
      <4>2. ~AsksNext(h) /\ ~AsksFinals(h) /\ ~AsksResults(h) /\ host[h].selected = -1
        BY <1>0, <2>2 DEF Idle, AsksNext, AsksFinals, AsksResults, ResultsVisible, Slide
      <4>3. e \notin LateRequests /\ host'[h].later = host[h].later
        BY <4>1, <4>2 DEF HostPresses, LateRequests, Plain, Event
      <4>4. Asked(h, e) /\ inbox' = inbox
        BY <4>1 DEF HostPresses
      <4>5. ~In(outbox'[h], LateRequests)
        BY <1>0, <2>2, <4>3, <4>4, AskedFacts DEF Idle
      <4>6. QED
        BY <1>0, <2>2, <4>1, <4>3, <4>4, <4>5 DEF Idle, HostPresses, HostKept
    <3>2. CASE HostSkips(h)
      BY <2>2, <3>2 DEF HostSkips, Idle
    <3>3. CASE HostTicks(h)
      <4>1. ~host[h].adding
        BY <2>2 DEF Idle
      <4>2. QED
        BY <1>0, <2>2, <3>3, <4>1 DEF HostTicks, Idle
    <3>4. CASE HostTakes(h)
      <4>1. Read(h) /\ 1 \in Places(h) /\ HostTurned(h, host[h], inbox[h][1], host'[h]) /\ outbox' = outbox
        BY <3>4 DEF HostTakes
      <4>2. inbox[h][1] \in Messages /\ (inbox[h][1] \in Late => In(inbox[h], Late))
        BY <1>0, <4>1, KindFacts
      <4>3. inbox[h][1].ev \in Early
        BY <2>2, <4>2 DEF Idle, Late
      <4>4. ~In(inbox'[h], Late)
        BY <1>0, <2>2, <4>1, ReadFacts DEF Idle
      <4>5. QED
        BY <1>0, <2>2, <4>1, <4>3, <4>4 DEF Idle, HostTurned, Early
    <3>5. QED
      BY <1>2, <3>1, <3>2, <3>3, <3>4 DEF HostMoves
  <2>4. QED
    BY <1>b, <2>1, <2>2, <2>3
<1>3. ASSUME NEW g \in Pages, NEW i \in Slots(g), Handles(g, i)
      PROVE  Goal
  <2>0. host' = host /\ Done(g, i)
    BY <1>3, ServerApart DEF Handles, HandlesOne
  <2>1. CASE HandlesStart(g, i)
    BY <2>1 DEF HandlesStart
  <2>2. CASE ~HandlesStart(g, i)
    <3>1. server'.started = server.started
      BY <1>3, <2>2 DEF Handles, HandlesNothing, HandlesJoin, HandlesRejoin, HandlesSubmit, HandlesQuestion,
                        HandlesResults, HandlesTold, HandlesKick, HandlesNews
    <3>2. Calm /\ server'.answers = server.answers /\ server'.announce = server.announce
          /\ \A q \in Questions : Listing(q)' = {}
      BY <1>0, <1>3, <1>s, <3>1, HandleKeeps
    <3>3. \A h \in Hosts : ~In(outbox'[h], LateRequests)
      BY <1>0, <1>3, <2>0, <3>2, DoneFacts DEF Idle
    <3>4. g \in Hosts => outbox[g][i].ev \in {"start_game", "kick_player", "set_control_visibility", "save_quiz"}
      <4>1. outbox[g][i] \in Messages /\ (outbox[g][i] \in LateRequests => In(outbox[g], LateRequests))
        BY <1>0, <1>3, KindFacts
      <4>2. QED
        BY <3>2, <4>1 DEF Idle, LateRequests
    <3>5. ASSUME \A h \in Hosts : ~In(inbox'[h], Late) PROVE \A h \in Hosts : Idle(h)'
      BY <1>0, <2>0, <3>2, <3>3, <3>5 DEF Idle
    <3>6. CASE HandlesNothing(g, i)
      <4>1. \A h \in Hosts : ~In(inbox'[h], Late)
        BY <3>2, <3>6 DEF HandlesNothing, Idle
      <4>2. QED
        BY <3>2, <3>5, <3>6, <4>1 DEF HandlesNothing
    <3>7. CASE HandlesJoin(g, i)
      <4>1. g \in Players /\ Event("player_joined", None, {g}) \notin Late
        BY <3>7 DEF HandlesJoin, Late, Early, Event
      <4>2. ASSUME NEW h \in Hosts PROVE ~In(inbox'[h], Late)
        <5>1. Plus(inbox[h], inbox'[h], Event("player_joined", None, {g}))
          BY <1>0, <3>7, <4>1 DEF HandlesJoin
        <5>2. ~In(inbox[h], Late)
          BY <3>2 DEF Idle
        <5>3. QED
          BY <1>0, <4>1, <5>1, <5>2, GotFacts
      <4>3. QED
        BY <3>2, <3>5, <3>7, <4>2 DEF HandlesJoin
    <3>8. CASE HandlesRejoin(g, i)
      <4>1. \A h \in Hosts : inbox'[h] = inbox[h]
        BY <1>0, <3>8 DEF HandlesRejoin, Sent
      <4>2. QED
        BY <3>2, <3>5, <3>8, <4>1 DEF HandlesRejoin, Idle
    <3>9. CASE HandlesSubmit(g, i)
      BY <1>0, <3>2, <3>9 DEF HandlesSubmit, Accepts
    <3>10. CASE HandlesQuestion(g, i) \/ HandlesResults(g, i) \/ HandlesTold(g, i)
      BY <3>4, <3>10 DEF HandlesQuestion, HandlesResults, HandlesTold
    <3>11. CASE HandlesKick(g, i)
      <4>1. \A h \in Hosts : inbox'[h] = inbox[h]
        BY <1>0, <3>11 DEF HandlesKick, Sent
      <4>2. QED
        BY <3>2, <3>5, <3>11, <4>1 DEF HandlesKick, SameGame, Idle
    <3>12. CASE HandlesNews(g, i)
      <4>1. PICK gs, e : Sent(gs, e) /\ e.ev \in {"control_visibility", "results_saved_successfully"}
        BY <3>12 DEF HandlesNews, Plain, Event
      <4>2. e \notin Late
        BY <4>1 DEF Late, Early
      <4>3. \A h \in Hosts : ~In(inbox'[h], Late)
        BY <1>0, <3>2, <4>1, <4>2, SentFacts DEF Idle
      <4>4. QED
        BY <3>2, <3>5, <3>12, <4>3 DEF HandlesNews, SameGame
    <3>13. QED
      BY <1>3, <2>2, <3>6, <3>7, <3>8, <3>9, <3>10, <3>11, <3>12 DEF Handles
  <2>3. QED
    BY <2>1, <2>2
<1>4. CASE Announces
  <2>1. Calm /\ UNCHANGED <<host, outbox>> /\ server'.current = server.current
        /\ \A q \in Questions : Listing(q)' = {}
    BY <1>4, <1>s DEF Announces
  <2>2. server'.answers = server.answers /\ server'.announce = 0
    <3>1. ~Stores
      BY <2>1 DEF Stores
    <3>2. server.announce \in Nat /\ server'.announce \in Nat
      BY DEF TypeInv, ServerOK, Servers
    <3>3. QED
      BY <1>4, <2>1, <3>1, <3>2 DEF Announces
  <2>3. Plain("everyone_answered") \notin Late /\ Plain("results_saved_successfully") \notin Late
    BY DEF Late, Early, Plain, Event
  <2>4. \A h \in Hosts : ~In(inbox'[h], Late)
    BY <1>0, <1>4, <2>1, <2>3, AnnounceNews, SentFacts DEF Idle
  <2>5. QED
    BY <1>0, <2>1, <2>2, <2>4 DEF Idle
<1>5. CASE UNCHANGED vars
  BY <1>0, <1>5, <1>s, <1>b DEF vars, Listing
<1>6. QED
  BY <1>1, <1>2, <1>3, <1>4, <1>5 DEF Moves, HostMoves

(***************************************************************************)
(* No page is blank                                                        *)
(***************************************************************************)

Starts    == {e \in Messages : e.ev = "start_game" \/ (e.ev = "rejoined_game" /\ e.q = "started")}
Questioned == Kind("set_question_number")

\* A page that is told of the start has entered, and one that is told of a question is
\* told of the start before.
BlankAt(p) ==
    /\ play[p].started => play[p].inGame
    /\ ~play[p].started => play[p].q = None /\ play[p].tally = [x \in Players |-> 0]
    /\ play[p].inGame \/ Led(inbox[p], Kind("start_game"), Enters)
    /\ play[p].started \/ Led(inbox[p], Questioned, Starts)
    /\ p \in server.room /\ server.started => play[p].started \/ In(inbox[p], Starts)
BlankInv == \A p \in Players : BlankAt(p)

\* What is neither the start nor a question changes nothing.
LEMMA BlankSame ==
    ASSUME NEW p \in Players, BlankAt(p), Stays(p),
           p \in server'.room /\ server'.started => p \in server.room /\ server.started,
           play[p].inGame \/ (Led(inbox[p], Kind("start_game"), Enters) => Led(inbox'[p], Kind("start_game"), Enters)),
           play[p].started \/ (Led(inbox[p], Questioned, Starts) => Led(inbox'[p], Questioned, Starts)),
           In(inbox[p], Starts) => In(inbox'[p], Starts)
    PROVE  BlankAt(p)'
<1>1. Enters' = Enters /\ Starts' = Starts /\ Questioned' = Questioned /\ Kind("start_game")' = Kind("start_game")
  BY DEF Enters, Starts, Questioned, Kinds, Kind
<1>2. QED
  BY <1>1 DEF BlankAt, Stays

\* Pages are told in this order through every step.
LEMMA BlankStep ==
    ASSUME TypeInv, TypeInv', Static, Moves, StartedInv, NEW p \in Players, LinkAt(p), BlankAt(p)
    PROVE  BlankAt(p)'
<1>0. /\ p \in Pages /\ p # "admin" /\ p \notin Hosts
      /\ \A h \in Hosts : h \in Pages /\ h \notin Players
      /\ \A r \in Players : r \in Pages /\ r \notin Hosts
      /\ play[p].inGame \in BOOLEAN /\ play[p].started \in BOOLEAN
      /\ Enters' = Enters /\ Starts' = Starts /\ Questioned' = Questioned /\ Kind("start_game")' = Kind("start_game")
  BY RoomFacts DEF TypeInv, PlayOK, PlayPages, Enters, Starts, Questioned, Kinds, Kind
<1>s. ASSUME NEW gs, NEW e, Sent(gs, e), Stays(p),
             p \in server'.room /\ server'.started => p \in server.room /\ server.started,
             p \in gs /\ e \in Kind("start_game") => Entered(p),
             p \in gs /\ e \in Questioned => play[p].started \/ In(inbox[p], Starts)
      PROVE  BlankAt(p)'
  <2>1. /\ In(inbox[p], Starts) => In(inbox'[p], Starts)
        /\ Led(inbox[p], Kind("start_game"), Enters) /\ (p \in gs /\ e \in Kind("start_game") => In(inbox[p], Enters))
             => Led(inbox'[p], Kind("start_game"), Enters)
        /\ Led(inbox[p], Questioned, Starts) /\ (p \in gs /\ e \in Questioned => In(inbox[p], Starts))
             => Led(inbox'[p], Questioned, Starts)
    BY <1>0, <1>s, SentFacts
  <2>2. QED
    BY <1>s, <2>1, BlankSame DEF Entered
<1>1. ASSUME NEW r \in Players, r # p, PlayActs(r) \/ PlayStops(r) \/ PlayTakes(r) \/ PlayReopens(r)
      PROVE  BlankAt(p)'
  <2>1. Stays(p) /\ inbox'[p] = inbox[p] /\ server'.started = server.started /\ server'.room \subseteq server.room
    BY <1>0, <1>1, PlayApart
  <2>2. QED
    BY <2>1, BlankSame
<1>2. CASE PlayActs(p) \/ PlayStops(p)
  <2>1. Stays(p) /\ server' = server
    BY <1>2 DEF PlayActs, PlayStops, PlayKept, Stays
  <2>2. CASE inbox' = inbox
    BY <2>1, <2>2, BlankSame
  <2>3. CASE Read(p) /\ 1 \in Places(p) /\ inbox[p][1].ev \in {"everyone_answered", "solutions"}
    <3>1. inbox[p][1] \notin Enters /\ inbox[p][1] \notin Starts
      BY <2>3 DEF Enters, Kinds, Starts
    <3>2. /\ In(inbox[p], Starts) => In(inbox'[p], Starts)
          /\ Led(inbox[p], Kind("start_game"), Enters) => Led(inbox'[p], Kind("start_game"), Enters)
          /\ Led(inbox[p], Questioned, Starts) => Led(inbox'[p], Questioned, Starts)
      BY <1>0, <2>3, <3>1, ReadFacts
    <3>3. QED
      BY <2>1, <3>2, BlankSame
  <2>4. QED
    BY <1>2, <2>2, <2>3 DEF PlayActs, PlayStops
<1>3. CASE PlayTakes(p)
  <2>1. Read(p) /\ 1 \in Places(p) /\ Turned(play[p], inbox[p][1], play'[p]) /\ server' = server
    BY <1>3 DEF PlayTakes
  <2> DEFINE e == inbox[p][1]
  <2>2. e \in Messages
    BY <1>0, <2>1, KindFacts
  <2>3. /\ In(inbox[p], Starts) => In(inbox'[p], Starts) \/ e \in Starts
        /\ Led(inbox[p], Kind("start_game"), Enters) =>
              /\ e \notin Kind("start_game")
              /\ e \notin Enters => Led(inbox'[p], Kind("start_game"), Enters)
        /\ Led(inbox[p], Questioned, Starts) =>
              /\ e \notin Questioned
              /\ e \notin Starts => Led(inbox'[p], Questioned, Starts)
    BY <1>0, <2>1, ReadFacts
  <2>4. /\ e \in Enters <=> e.ev \in {"joined_game", "rejoined_game"}
        /\ e \in Starts <=> e.ev = "start_game" \/ (e.ev = "rejoined_game" /\ e.q = "started")
        /\ e \in Questioned <=> e.ev = "set_question_number"
        /\ e \in Kind("start_game") <=> e.ev = "start_game"
    BY <2>2 DEF Enters, Starts, Questioned, Kinds, Kind
  <2>5. Turned(play[p], e, play'[p])
    BY <2>1
  <2>6. /\ play'[p].inGame <=> play[p].inGame \/ e \in Enters
        /\ play'[p].started <=> play[p].started \/ e \in Starts
        /\ ~play[p].started /\ e \notin Questioned => play'[p].q = play[p].q
        /\ ~play[p].started => play'[p].tally = play[p].tally
    BY <2>4, <2>5 DEF Turned
  <2>7. e \in Starts => e \in Enters \/ e \in Kind("start_game")
    BY <2>4
  <2> HIDE DEF e
  <2>8. play'[p].started => play'[p].inGame
    BY <2>3, <2>6, <2>7 DEF BlankAt
  <2>9. ~play'[p].started => play'[p].q = None /\ play'[p].tally = [x \in Players |-> 0]
    BY <2>3, <2>6 DEF BlankAt
  <2>10. play'[p].inGame \/ Led(inbox'[p], Kind("start_game"), Enters)
    BY <2>3, <2>6 DEF BlankAt
  <2>11. play'[p].started \/ Led(inbox'[p], Questioned, Starts)
    BY <2>3, <2>6 DEF BlankAt
  <2>12. p \in server'.room /\ server'.started => play'[p].started \/ In(inbox'[p], Starts)
    BY <2>1, <2>3, <2>6 DEF BlankAt
  <2>13. QED
    BY <1>0, <2>8, <2>9, <2>10, <2>11, <2>12 DEF BlankAt
<1>4. CASE PlayReopens(p)
  <2>1. p \notin server'.room
    BY <1>0, <1>4, PlayApart
  <2>2. ~play'[p].inGame /\ ~play'[p].started /\ play'[p].q = None /\ play'[p].tally = [x \in Players |-> 0]
    BY <1>4 DEF PlayReopens
  <2>3. Led(inbox'[p], Kind("start_game"), Enters) /\ Led(inbox'[p], Questioned, Starts)
    BY <1>0, <1>4, ReopenFacts
  <2>4. QED
    BY <1>0, <2>1, <2>2, <2>3 DEF BlankAt
<1>5. ASSUME NEW h \in Hosts, HostMoves(h)
      PROVE  BlankAt(p)'
  <2>1. server' = server /\ Stays(p) /\ inbox'[p] = inbox[p]
    BY <1>0, <1>5, HostApart
  <2>2. QED
    BY <2>1, BlankSame
<1>6. ASSUME NEW g \in Pages, NEW i \in Slots(g), Handles(g, i)
      PROVE  BlankAt(p)'
  <2>0. Stays(p)
    BY <1>6, ServerApart
  <2>1. CASE inbox' = inbox /\ server'.started = server.started /\ server'.room = server.room
    BY <2>0, <2>1, BlankSame
  <2>2. CASE HandlesNothing(g, i) \/ HandlesSubmit(g, i)
    BY <2>1, <2>2 DEF HandlesNothing, HandlesSubmit
  <2>3. CASE HandlesTold(g, i) \/ HandlesResults(g, i) \/ HandlesNews(g, i)
    <3>1. PICK gs, e : Sent(gs, e) /\ e.ev \notin {"start_game", "set_question_number"}
      BY <2>3 DEF HandlesTold, HandlesResults, HandlesNews, Plain, Event
    <3>2. server'.started = server.started /\ server'.room = server.room
      BY <2>3 DEF HandlesTold, HandlesResults, HandlesNews
    <3>3. e \notin Kind("start_game") /\ e \notin Questioned
      BY <3>1 DEF Kind, Questioned
    <3>4. QED
      BY <1>s, <2>0, <3>1, <3>2, <3>3
  <2>4. CASE HandlesKick(g, i)
    <3>1. PICK gs, e : Sent(gs, e) /\ e.ev = "kick"
      BY <2>4 DEF HandlesKick, Plain, Event
    <3>2. server'.started = server.started /\ server'.room \subseteq server.room
      BY <2>4 DEF HandlesKick
    <3>3. e \notin Kind("start_game") /\ e \notin Questioned
      BY <3>1 DEF Kind, Questioned
    <3>4. QED
      BY <1>s, <2>0, <3>1, <3>2, <3>3
  <2>5. CASE HandlesStart(g, i)
    <3>1. Sent(ToRoom, Plain("start_game")) /\ server'.room = server.room
      BY <2>5 DEF HandlesStart
    <3>2. Plain("start_game") \notin Questioned /\ Plain("start_game") \in Starts
      BY EventsFit DEF Kind, Questioned, Starts, Plain, Event
    <3>3. p \in ToRoom <=> p \in server.room
      BY <1>0 DEF ToRoom
    <3>4. p \in server.room => Entered(p)
      BY DEF LinkAt
    <3>5. p \in server.room => In(inbox'[p], Starts)
      BY <1>0, <3>1, <3>2, <3>3, SentFacts
    <3>6. /\ Led(inbox[p], Kind("start_game"), Enters) /\ (p \in server.room => In(inbox[p], Enters))
              => Led(inbox'[p], Kind("start_game"), Enters)
          /\ Led(inbox[p], Questioned, Starts) => Led(inbox'[p], Questioned, Starts)
          /\ In(inbox[p], Starts) => In(inbox'[p], Starts)
      BY <1>0, <3>1, <3>2, <3>3, SentFacts
    <3>7. QED
      BY <1>0, <2>0, <3>1, <3>4, <3>5, <3>6 DEF BlankAt, Stays, Entered
  <2>6. CASE HandlesQuestion(g, i)
    <3>1. server'.started = server.started /\ server'.room = server.room
      BY <2>6 DEF HandlesQuestion
    <3>2. CASE inbox' = inbox
      BY <2>1, <3>1, <3>2
    <3>3. CASE outbox[g][i].q \in Questions
      <4> DEFINE gs == IF Type(outbox[g][i].q) = "SLIDE" THEN {g} ELSE ToRoom
      <4>1. Sent(gs, Event("set_question_number", outbox[g][i].q, {})) /\ g \in Hosts
            /\ outbox[g][i].ev = "set_question_number"
        BY <2>6, <3>3 DEF HandlesQuestion
      <4>2. p \in gs => p \in server.room
        BY <1>0, <4>1 DEF ToRoom
      <4>3. server.started
        <5>1. outbox[g][i] \in LateRequests => In(outbox[g], LateRequests)
          BY <1>0, <1>6, KindFacts
        <5>2. outbox[g][i] \in LateRequests
          BY <1>0, <1>6, <4>1, KindFacts DEF LateRequests
        <5>3. QED
          BY <4>1, <5>1, <5>2 DEF StartedInv, Idle
      <4>4. Event("set_question_number", outbox[g][i].q, {}) \notin Kind("start_game")
        BY DEF Event, Kind
      <4>5. PICK e : Sent(gs, e) /\ e \notin Kind("start_game")
        BY <4>1, <4>4
      <4> HIDE DEF gs
      <4>6. QED
        BY <1>s, <2>0, <3>1, <4>2, <4>3, <4>5 DEF BlankAt
    <3>4. QED
      BY <2>6, <3>2, <3>3 DEF HandlesQuestion
  <2>7. CASE HandlesJoin(g, i)
    <3>1. g \in Players /\ ~server'.started
      BY <2>7 DEF HandlesJoin
    <3>2. CASE g # p
      <4>1. inbox'[p] = inbox[p]
        BY <1>0, <2>7, <3>1, <3>2 DEF HandlesJoin
      <4>2. QED
        BY <2>0, <3>1, <4>1, BlankSame
    <3>3. CASE g = p
      <4>1. Plus(inbox[p], inbox'[p], Plain("joined_game"))
        BY <1>0, <2>7, <3>3 DEF HandlesJoin
      <4>2. Plain("joined_game") \notin Kind("start_game") /\ Plain("joined_game") \notin Questioned
        BY DEF Plain, Event, Kind, Questioned
      <4>3. /\ Led(inbox[p], Kind("start_game"), Enters) => Led(inbox'[p], Kind("start_game"), Enters)
            /\ Led(inbox[p], Questioned, Starts) => Led(inbox'[p], Questioned, Starts)
            /\ In(inbox[p], Starts) => In(inbox'[p], Starts)
        <5>1. PICK e : Plus(inbox[p], inbox'[p], e) /\ e \notin Kind("start_game") /\ e \notin Questioned
          BY <4>1, <4>2
        <5>0. p \in Pages
          BY <1>0
        <5>2. Led(inbox[p], Kind("start_game"), Enters) => Led(inbox'[p], Kind("start_game"), Enters)
          BY <5>0, <5>1, GotFacts
        <5>3. Led(inbox[p], Questioned, Starts) => Led(inbox'[p], Questioned, Starts)
          BY <1>0, <5>1, GotFacts
        <5>4. In(inbox[p], Starts) => In(inbox'[p], Starts)
          BY <1>0, <5>1, GotFacts
        <5>5. QED
          BY <5>2, <5>3, <5>4
      <4>4. QED
        BY <2>0, <3>1, <4>3, BlankSame
    <3>4. QED
      BY <3>2, <3>3
  <2>8. CASE HandlesRejoin(g, i)
    <3>1. g \in Players /\ server'.started = server.started /\ server'.room = server.room \cup {g} /\ Sent({g}, RejoinNews)
      BY <2>8 DEF HandlesRejoin
    <3>2. RejoinNews \notin Kind("start_game") /\ RejoinNews \notin Questioned
      BY DEF RejoinNews, Event, Kind, Questioned
    <3>3. server.started => RejoinNews \in Starts
      BY EventsFit DEF RejoinNews, Event, Starts
    <3>4. CASE g # p
      BY <1>s, <2>0, <3>1, <3>2, <3>4
    <3>5. CASE g = p
      <4>1. /\ Led(inbox[p], Kind("start_game"), Enters) => Led(inbox'[p], Kind("start_game"), Enters)
            /\ Led(inbox[p], Questioned, Starts) => Led(inbox'[p], Questioned, Starts)
            /\ In(inbox'[p], Starts) <=> In(inbox[p], Starts) \/ RejoinNews \in Starts
        BY <1>0, <3>1, <3>2, <3>5, SentFacts
      <4>2. QED
        BY <1>0, <2>0, <3>1, <3>3, <4>1 DEF BlankAt, Stays
    <3>6. QED
      BY <3>4, <3>5
  <2>9. QED
    BY <1>6, <2>2, <2>3, <2>4, <2>5, <2>6, <2>7, <2>8 DEF Handles
<1>7. CASE Announces
  <2>1. Stays(p) /\ server'.started = server.started /\ server'.room = server.room
    BY <1>7, ServerApart DEF Announces
  <2>2. Plain("everyone_answered") \notin Kind("start_game") /\ Plain("everyone_answered") \notin Questioned
    BY DEF Plain, Event, Kind, Questioned
  <2>3. CASE inbox'[p] = inbox[p]
    BY <2>1, <2>3, BlankSame
  <2>4. CASE Sent(Pages, Plain("everyone_answered"))
    BY <1>s, <2>1, <2>2, <2>4
  <2>5. QED
    BY <1>0, <1>7, <2>3, <2>4, AnnounceNews DEF Sent
<1>8. CASE UNCHANGED vars
  BY <1>8, BlankSame DEF vars, Stays
<1>9. QED
  BY <1>1, <1>2, <1>3, <1>4, <1>5, <1>6, <1>7, <1>8 DEF Moves, HostMoves

(***************************************************************************)
(* What the pages show                                                     *)
(***************************************************************************)

At(n) == {e \in Messages : e.q = n}

\* A page shows the question that is played, or is going to when it has caught up.
ShownHost(h) == IF In(inbox[h], Questioned) THEN LastIs(inbox[h], Questioned, At(server.current))
                ELSE host[h].shown = server.current
ShownPlay(p) == p \in server.room =>
                IF In(inbox[p], Questioned) THEN LastIs(inbox[p], Questioned, At(server.current))
                ELSE play[p].q \in {None, server.current}
Played       == server.current \in Questions /\ Type(server.current) # "SLIDE"
ShownInv     == Played => (\A h \in Hosts : ShownHost(h)) /\ (\A p \in Players : ShownPlay(p))

\* No page loses the question that is played through any step.
LEMMA ShownStep ==
    ASSUME TypeInv, TypeInv', Static, Moves, LinkInv, BlankInv, ShownInv
    PROVE  ShownInv'
<1>0. /\ \A h \in Hosts : h \in Pages /\ h \notin Players
      /\ \A r \in Players : r \in Pages /\ r \notin Hosts
      /\ Questioned' = Questioned /\ (\A n : At(n)' = At(n)) /\ Hosts' = Hosts /\ Questions' = Questions
      /\ \A q : Type(q)' = Type(q)
  BY RoomFacts, StaticFacts DEF Questioned, Kind, At, Static
<1> SUFFICES ASSUME Played'
             PROVE  /\ \A h \in Hosts : ShownHost(h)'
                    /\ \A p \in Players : ShownPlay(p)'
  BY <1>0 DEF ShownInv
<1> DEFINE Calm == server'.current = server.current
<1>h. ASSUME NEW h \in Hosts, Calm, ShownHost(h), inbox'[h] = inbox[h], host'[h].shown = host[h].shown
      PROVE  ShownHost(h)'
  BY <1>0, <1>h DEF ShownHost
<1>p. ASSUME NEW p \in Players, Calm, ShownPlay(p), inbox'[p] = inbox[p], play'[p].q = play[p].q,
             p \in server'.room => p \in server.room
      PROVE  ShownPlay(p)'
  BY <1>0, <1>p DEF ShownPlay
<1>q. Calm => Played /\ (\A h \in Hosts : ShownHost(h)) /\ (\A p \in Players : ShownPlay(p))
  BY <1>0 DEF Played, ShownInv
<1>s. ASSUME NEW gs, NEW e, Sent(gs, e), e.ev # "set_question_number", Calm, UNCHANGED <<host, play>>,
             server'.room \subseteq server.room
      PROVE  (\A h \in Hosts : ShownHost(h)') /\ (\A p \in Players : ShownPlay(p)')
  <2>1. e \notin Questioned
    BY <1>s DEF Questioned, Kind
  <2>2. ASSUME NEW g \in Pages
        PROVE  /\ In(inbox'[g], Questioned) <=> In(inbox[g], Questioned)
               /\ LastIs(inbox'[g], Questioned, At(server.current)) <=> LastIs(inbox[g], Questioned, At(server.current))
    BY <1>s, <2>1, SentFacts
  <2>3. QED
    BY <1>0, <1>q, <1>s, <2>2 DEF ShownHost, ShownPlay
<1>1. ASSUME NEW r \in Players, PlayActs(r) \/ PlayStops(r) \/ PlayTakes(r) \/ PlayReopens(r)
      PROVE  (\A h \in Hosts : ShownHost(h)') /\ (\A p \in Players : ShownPlay(p)')
  <2>1. /\ Calm /\ host' = host /\ (\A g \in Pages : g # r => inbox'[g] = inbox[g])
        /\ \A p \in Players : p # r => Stays(p)
        /\ server'.room \subseteq server.room
    BY <1>0, <1>1, PlayApart
  <2>2. \A h \in Hosts : ShownHost(h)'
    BY <1>0, <1>h, <1>q, <2>1
  <2>3. \A p \in Players : p # r => ShownPlay(p)'
    BY <1>0, <1>p, <1>q, <2>1 DEF Stays
  <2>4. ShownPlay(r)'
    <3>1. CASE PlayReopens(r)
      BY <1>0, <3>1, PlayApart DEF ShownPlay
    <3>2. CASE (PlayActs(r) \/ PlayStops(r)) /\ inbox' = inbox
      <4>1. play'[r].q = play[r].q
        BY <3>2 DEF PlayActs, PlayStops, PlayKept
      <4>2. QED
        BY <1>p, <1>q, <2>1, <3>2, <4>1
    <3>3. CASE PlayStops(r)
      <4>1. play'[r].q = play[r].q /\ Read(r) /\ inbox[r][1].ev # "set_question_number"
        BY <3>3 DEF PlayStops, PlayKept
      <4>2. inbox[r][1] \notin Questioned
        BY <4>1 DEF Questioned, Kind
      <4>3. /\ In(inbox[r], Questioned) => In(inbox'[r], Questioned)
            /\ In(inbox'[r], Questioned) => In(inbox[r], Questioned)
            /\ LastIs(inbox[r], Questioned, At(server.current)) => LastIs(inbox'[r], Questioned, At(server.current))
        BY <1>0, <4>1, <4>2, ReadFacts
      <4>4. QED
        BY <1>0, <1>q, <2>1, <4>1, <4>3 DEF ShownPlay
    <3>4. CASE PlayTakes(r)
      <4>1. Read(r) /\ 1 \in Places(r) /\ Turned(play[r], inbox[r][1], play'[r])
        BY <3>4 DEF PlayTakes
      <4> DEFINE e == inbox[r][1]
      <4>2. e \in Messages
        BY <1>0, <4>1, KindFacts
      <4>3. /\ In(inbox[r], Questioned) <=> In(inbox'[r], Questioned) \/ e \in Questioned
            /\ LastIs(inbox[r], Questioned, At(server.current)) =>
                 IF In(inbox'[r], Questioned) THEN LastIs(inbox'[r], Questioned, At(server.current))
                 ELSE e \in Questioned /\ e \in At(server.current)
        BY <1>0, <4>1, ReadFacts
      <4>4. Turned(play[r], e, play'[r])
        BY <4>1
      <4>5. /\ e \in Questioned /\ e \in At(server.current) => play'[r].q = server.current
            /\ e \notin Questioned => play'[r].q = play[r].q
        BY <4>2, <4>4 DEF Turned, Questioned, Kind, At
      <4> HIDE DEF e
      <4>6. QED
        BY <1>0, <1>q, <2>1, <4>3, <4>5 DEF ShownPlay
    <3>5. QED
      BY <1>1, <3>1, <3>2, <3>3, <3>4 DEF PlayActs
  <2>5. QED
    BY <2>2, <2>3, <2>4
<1>2. ASSUME NEW k \in Hosts, HostMoves(k)
      PROVE  (\A h \in Hosts : ShownHost(h)') /\ (\A p \in Players : ShownPlay(p)')
  <2>1. /\ server' = server /\ play' = play
        /\ \A g \in Pages : g # k => inbox'[g] = inbox[g]
        /\ \A h \in Hosts : h # k => host'[h] = host[h]
    BY <1>2, HostApart
  <2>2. \A p \in Players : ShownPlay(p)'
    BY <1>0, <1>p, <1>q, <2>1
  <2>3. \A h \in Hosts : h # k => ShownHost(h)'
    BY <1>0, <1>h, <1>q, <2>1
  <2>4. ShownHost(k)'
    <3>1. CASE HostSkips(k) \/ HostTicks(k) \/ \E e \in Messages : HostPresses(k, e)
      <4>1. host'[k].shown = host[k].shown /\ inbox' = inbox
        BY <3>1 DEF HostSkips, HostTicks, HostPresses, HostKept
      <4>2. QED
        BY <1>h, <1>q, <2>1, <4>1
    <3>2. CASE HostTakes(k)
      <4>1. Read(k) /\ 1 \in Places(k) /\ HostTurned(k, host[k], inbox[k][1], host'[k])
        BY <3>2 DEF HostTakes
      <4> DEFINE e == inbox[k][1]
      <4>2. e \in Messages
        BY <1>0, <4>1, KindFacts
      <4>3. /\ In(inbox[k], Questioned) <=> In(inbox'[k], Questioned) \/ e \in Questioned
            /\ LastIs(inbox[k], Questioned, At(server.current)) =>
                 IF In(inbox'[k], Questioned) THEN LastIs(inbox'[k], Questioned, At(server.current))
                 ELSE e \in Questioned /\ e \in At(server.current)
        BY <1>0, <4>1, ReadFacts
      <4>4. HostTurned(k, host[k], e, host'[k])
        BY <4>1
      <4>5. /\ e \in Questioned /\ e \in At(server.current) => host'[k].shown = server.current
            /\ e \notin Questioned => host'[k].shown = host[k].shown
        BY <4>2, <4>4 DEF HostTurned, Questioned, Kind, At
      <4> HIDE DEF e
      <4>6. QED
        BY <1>0, <1>q, <2>1, <4>3, <4>5 DEF ShownHost
    <3>3. QED
      BY <1>2, <3>1, <3>2 DEF HostMoves
  <2>5. QED
    BY <2>2, <2>3, <2>4
<1>3. ASSUME NEW g \in Pages, NEW i \in Slots(g), Handles(g, i)
      PROVE  (\A h \in Hosts : ShownHost(h)') /\ (\A p \in Players : ShownPlay(p)')
  <2>0. UNCHANGED <<host, play>>
    BY <1>3, ServerApart
  <2>1. CASE inbox' = inbox /\ Calm /\ server'.room = server.room
    BY <1>h, <1>p, <1>q, <2>0, <2>1
  <2>2. CASE HandlesNothing(g, i) \/ HandlesSubmit(g, i)
    BY <2>1, <2>2 DEF HandlesNothing, HandlesSubmit
  <2>3. CASE HandlesTold(g, i) \/ HandlesResults(g, i) \/ HandlesNews(g, i) \/ HandlesStart(g, i)
    <3>1. PICK gs, e : Sent(gs, e) /\ e.ev # "set_question_number"
      BY <2>3 DEF HandlesTold, HandlesResults, HandlesNews, HandlesStart, Plain, Event
    <3>2. Calm /\ server'.room = server.room
      BY <2>3 DEF HandlesTold, HandlesResults, HandlesNews, HandlesStart
    <3>3. QED
      BY <1>s, <2>0, <3>1, <3>2
  <2>4. CASE HandlesKick(g, i)
    <3>1. PICK gs, e : Sent(gs, e) /\ e.ev = "kick"
      BY <2>4 DEF HandlesKick, Plain, Event
    <3>2. Calm /\ server'.room \subseteq server.room
      BY <2>4 DEF HandlesKick
    <3>3. QED
      BY <1>s, <2>0, <3>1, <3>2
  <2>5. CASE HandlesQuestion(g, i)
    <3> DEFINE e == Event("set_question_number", outbox[g][i].q, {})
    <3>1. server'.current = outbox[g][i].q /\ server'.room = server.room
      BY <2>5 DEF HandlesQuestion
    <3>2. outbox[g][i].q \in Questions /\ Type(outbox[g][i].q) # "SLIDE"
      BY <1>0, <3>1 DEF Played
    <3>3. Sent(ToRoom, e)
      BY <2>5, <3>2 DEF HandlesQuestion
    <3>4. e \in Questioned /\ e \in At(server'.current)
      BY <3>1, <3>2, EventsFit DEF Questioned, Kind, At, Event
    <3> HIDE DEF e
    <3>5. ASSUME NEW k \in Pages, k \in ToRoom
          PROVE  In(inbox'[k], Questioned) /\ LastIs(inbox'[k], Questioned, At(server'.current))
      BY <3>3, <3>4, <3>5, SentFacts
    <3>6. \A h \in Hosts : h \in ToRoom
      BY DEF ToRoom
    <3>7. \A p \in Players : p \in server.room => p \in ToRoom
      BY DEF ToRoom
    <3>8. QED
      BY <1>0, <3>1, <3>5, <3>6, <3>7 DEF ShownHost, ShownPlay
  <2>6. CASE HandlesJoin(g, i) \/ HandlesRejoin(g, i)
    <3>1. /\ g \in Players /\ Calm /\ server'.room = server.room \cup {g}
          /\ outbox[g][i].ev \in {"join_game", "rejoin_game"}
      BY <2>6 DEF HandlesJoin, HandlesRejoin
    <3>2. outbox[g][i] \in Entries
      BY <1>0, <1>3, <3>1, KindFacts DEF Entries, Kinds
    <3>3. Waits(g)
      BY <1>0, <1>3, <3>2, KindFacts DEF Waits
    <3>4. ~In(inbox[g], Loud) /\ play[g].q = None
      BY <3>1, <3>3 DEF LinkInv, LinkAt, BlankInv, BlankAt
    <3>5. ~In(inbox[g], Questioned)
      BY <3>4 DEF In, Loud, Questioned, Kind
    <3>6. ASSUME NEW k \in Pages
          PROVE  /\ In(inbox'[k], Questioned) <=> In(inbox[k], Questioned)
                 /\ LastIs(inbox'[k], Questioned, At(server.current)) <=> LastIs(inbox[k], Questioned, At(server.current))
      <4>1. inbox'[k] = inbox[k] \/ \E e : Plus(inbox[k], inbox'[k], e) /\ e.ev # "set_question_number"
        BY <2>6 DEF HandlesJoin, HandlesRejoin, Sent, Plain, Event, RejoinNews
      <4>2. CASE inbox'[k] = inbox[k]
        BY <4>2
      <4>3. ASSUME NEW e, Plus(inbox[k], inbox'[k], e), e.ev # "set_question_number"
            PROVE  /\ In(inbox'[k], Questioned) <=> In(inbox[k], Questioned)
                   /\ LastIs(inbox'[k], Questioned, At(server.current)) <=> LastIs(inbox[k], Questioned, At(server.current))
        <5>1. e \notin Questioned
          BY <4>3 DEF Questioned, Kind
        <5>2. QED
          BY <4>3, <5>1, GotFacts
      <4>4. QED
        BY <4>1, <4>2, <4>3
    <3>7. \A h \in Hosts : ShownHost(h)'
      BY <1>0, <1>q, <2>0, <3>1, <3>6 DEF ShownHost
    <3>8. \A p \in Players : p # g => ShownPlay(p)'
      BY <1>0, <1>q, <2>0, <3>1, <3>6 DEF ShownPlay
    <3>9. ShownPlay(g)'
      BY <1>0, <2>0, <3>1, <3>4, <3>5, <3>6 DEF ShownPlay
    <3>10. QED
      BY <3>7, <3>8, <3>9
  <2>7. QED
    BY <1>3, <2>2, <2>3, <2>4, <2>5, <2>6 DEF Handles
<1>4. CASE Announces
  <2>1. UNCHANGED <<host, play>> /\ Calm /\ server'.room = server.room
    BY <1>4 DEF Announces
  <2>2. CASE inbox' = inbox
    BY <1>h, <1>p, <1>q, <2>1, <2>2
  <2>3. CASE Sent(Pages, Plain("everyone_answered"))
    <3>1. Plain("everyone_answered").ev # "set_question_number"
      BY DEF Plain, Event
    <3>2. QED
      BY <1>s, <2>1, <2>3, <3>1
  <2>4. CASE Sent({"admin"}, Plain("results_saved_successfully"))
    <3>1. Plain("results_saved_successfully").ev # "set_question_number"
      BY DEF Plain, Event
    <3>2. QED
      BY <1>s, <2>1, <2>4, <3>1
  <2>5. QED
    BY <1>4, <2>2, <2>3, <2>4, AnnounceNews
<1>5. CASE UNCHANGED vars
  BY <1>h, <1>p, <1>q, <1>5 DEF vars
<1>6. QED
  BY <1>1, <1>2, <1>3, <1>4, <1>5 DEF Moves, HostMoves

(***************************************************************************)
(* The first theorem                                                       *)
(***************************************************************************)

\* What holds however hasty the hosts are.
CoreInv == TypeInv /\ KickInv /\ LinkInv /\ StartedInv /\ BlankInv /\ ShownInv

\* Nothing travels before anybody joins.
LEMMA CoreInit ==
    ASSUME Init
    PROVE  CoreInv
<1>1. TypeInv
  BY TypeInit
<1>2. \A g \in Pages : Len(inbox[g]) = 0 /\ Len(outbox[g]) = 0
  BY DEF Init, Pages
<1>3. "admin" \in Pages /\ (\A p \in Players : p \in Pages) /\ \A h \in Hosts : h \in Pages
  BY <1>1, RoomFacts
<1>4. \A g \in Pages : /\ \A S : ~In(inbox[g], S) /\ Once(inbox[g], S) /\ ~In(outbox[g], S) /\ Once(outbox[g], S)
                       /\ \A A, B : Led(inbox[g], A, B)
  BY <1>2, Empty
<1>5. \A p \in Players : play[p] = FreshPlay
  BY DEF Init
<1>6. ASSUME NEW h \in Hosts
      PROVE  /\ host[h].list = {} /\ ~host[h].started /\ host[h].selected = -1 /\ host[h].shown = -1
             /\ host[h].results = None /\ ~host[h].later /\ ~host[h].adding
             /\ host[h].tally = [x \in Players |-> 0]
             /\ host[h].timer = "unset" /\ ~host[h].finals
  <2>1. PICK v : host[h] = [FreshHost EXCEPT !.visible = v]
    BY DEF Init, Hosts
  <2>2. QED
    BY <2>1 DEF FreshHost
<1>7. /\ server.current = -1 /\ server.announce = 0 /\ ~server.started /\ server.room = {} /\ server.counted = {}
      /\ \A q \in Questions : server.answers[q] = {} /\ Listing(q) = {}
      /\ \A p \in Players : server.keys[p] = 0
  BY DEF Init, NewServer, Listing
<1>8. scene.reloads \in Nat
  BY <1>1, PagesAssumption DEF TypeInv
<1>9. KickInv
  <2>1. "admin" \in Hosts
    BY <1>1, RoomFacts
  <2>2. \A p \in Players : ~play[p].kicked /\ play[p].conn = 1
    BY <1>5 DEF FreshPlay
  <2>3. QED
    BY <1>3, <1>4, <1>6, <1>8, <2>1, <2>2 DEF KickInv, KickAt, Comes, Listed, Leaves, IsKicked
<1>10. LinkInv
  <2>1. \A p \in Players : play[p].conn = 1
    BY <1>5 DEF FreshPlay
  <2>2. QED
    BY <1>3, <1>4, <1>7, <2>1 DEF LinkInv, LinkAt, Waits
<1>11. StartedInv
  BY <1>3, <1>4, <1>6, <1>7 DEF StartedInv, Idle
<1>12. BlankInv
  <2>1. \A p \in Players : ~play[p].started /\ play[p].q = None /\ play[p].tally = [x \in Players |-> 0]
    BY <1>5 DEF FreshPlay
  <2>2. QED
    BY <1>3, <1>4, <1>7, <2>1 DEF BlankInv, BlankAt
<1>13. ShownInv
  <2>1. ~Played
    BY <1>1, <1>7, SceneFacts DEF Played, TypeInv
  <2>2. QED
    BY <2>1 DEF ShownInv
<1>14. QED
  BY <1>1, <1>9, <1>10, <1>11, <1>12, <1>13 DEF CoreInv

\* No step breaks it.
LEMMA CoreStep ==
    ASSUME CoreInv, [Step]_vars
    PROVE  CoreInv' /\ Static /\ Moves
<1>1. TypeInv' /\ Static /\ Moves /\ TypeInv
  BY TypeStep DEF CoreInv
<1>2. KickInv'
  BY <1>1, KickStep DEF CoreInv, KickInv
<1>3. LinkInv'
  BY <1>1, LinkStep DEF CoreInv, LinkInv
<1>4. StartedInv'
  BY <1>1, StartedStep DEF CoreInv
<1>5. BlankInv'
  BY <1>1, BlankStep DEF CoreInv, LinkInv, BlankInv
<1>6. ShownInv'
  BY <1>1, ShownStep DEF CoreInv
<1>7. QED
  BY <1>1, <1>2, <1>3, <1>4, <1>5, <1>6 DEF CoreInv

\* The invariant gives what a run checks of the types.
LEMMA CoreTypes ==
    ASSUME CoreInv
    PROVE  PagesTypeOK
<1>1. TypeInv /\ KickInv
  BY DEF CoreInv
<1>2. server \in Servers /\ server.room \subseteq server.counted
  BY <1>1 DEF TypeInv, ServerOK
<1>3. scene.reloads \in Nat
  BY <1>1, PagesAssumption DEF TypeInv
<1>4. ASSUME NEW p \in Players
      PROVE  /\ play[p].q \in Questions \cup {None} /\ play[p].conn \in 1..(scene.reloads + 2)
             /\ play[p].results \in (SUBSET Players) \cup {None}
             /\ play[p].timer \in {"unset", "runs", "0"}
  <2>1. play[p] \in PlayPages
    BY <1>1 DEF TypeInv, PlayOK
  <2>2. play[p].conn \in Nat \ {0} /\ play[p].conn <= scene.reloads + 2
    <3>1. play[p].conn \in Nat \ {0} /\ play[p].conn <= scene.reloads + (IF play[p].kicked THEN 2 ELSE 1)
      BY <1>1, <2>1 DEF KickInv, KickAt, PlayPages
    <3>2. QED
      BY <1>3, <3>1
  <2>3. QED
    BY <1>3, <2>1, <2>2 DEF PlayPages, Lists, Timers
<1>5. ASSUME NEW h \in Hosts
      PROVE  /\ host[h].shown \in Questions \cup {-1} /\ host[h].selected \in Nat \cup {-1}
             /\ host[h].results \in (SUBSET Players) \cup {None}
  BY <1>1 DEF TypeInv, HostsOK, HostPages, Lists
<1>6. QED
  BY <1>2, <1>4, <1>5 DEF PagesTypeOK, Servers

\* No page is ever blank, and when all is quiet all pages that were told of a question
\* show the one that is played.
LEMMA CoreShows ==
    ASSUME CoreInv
    PROVE  PagesAgree /\ NeverBlank
<1>1. TypeInv /\ BlankInv /\ ShownInv
  BY DEF CoreInv
<1>2. /\ \A h \in Hosts : h \in Pages
      /\ \A r \in Players : r \in Pages
      /\ DOMAIN inbox = Pages
  BY <1>1, RoomFacts
<1>3. ASSUME Quiet, Type(server.current) \notin {None, "SLIDE"}
      PROVE  (\A p \in server.room : play[p].q \in {None, server.current}) /\ \A h \in Hosts : host[h].shown = server.current
  <2>1. Played
    BY <1>1, <1>3, SceneFacts DEF Played, TypeInv
  <2>2. \A g \in Pages : ~In(inbox[g], Questioned)
    <3>1. \A g \in Pages : Len(inbox[g]) = 0
      BY <1>2, <1>3 DEF Quiet
    <3>2. QED
      BY <3>1, Empty
  <2>3. server.room \subseteq Players
    BY <1>1, RoomFacts
  <2>4. QED
    BY <1>1, <1>2, <2>1, <2>2, <2>3 DEF ShownInv, ShownHost, ShownPlay
<1>4. ASSUME NEW p \in Players
      PROVE  ShowsJoin(p) \/ ShowsFinals(p) \/ ShowsTitle(p) \/ ShowsQuestion(p) \/ ShowsResults(p)
  <2>1. (play[p].started => play[p].inGame) /\ (~play[p].started => play[p].q = None)
    BY <1>1 DEF BlankInv, BlankAt
  <2>2. QED
    BY <2>1 DEF ShowsJoin, ShowsFinals, ShowsTitle, ShowsQuestion, ShowsResults
<1>5. QED
  BY <1>3, <1>4 DEF PagesAgree, NeverBlank

\* Pages, game and messages keep their types; no page is told to show a question the quiz
\* does not have, and none is opened more often than by its reloads and one kick.
THEOREM PagesTyped == PagesSpec => []PagesTypeOK
<1>1. Init => CoreInv
  BY CoreInit
<1>2. CoreInv /\ [Step]_vars => CoreInv'
  BY CoreStep
<1>3. CoreInv => PagesTypeOK
  BY CoreTypes
<1>4. QED
  BY <1>1, <1>2, <1>3, PTL DEF PagesSpec

(***************************************************************************)
(* Questions, as the hosts see them                                        *)
(***************************************************************************)

\* What a handler tells that is neither a question nor its results.
LEMMA OtherNews ==
    ASSUME TypeInv, NEW g \in Pages, NEW i \in Slots(g), Handles(g, i),
           ~HandlesQuestion(g, i), ~HandlesResults(g, i)
    PROVE  /\ server'.current = server.current
           /\ \A k \in Pages : \/ inbox'[k] = inbox[k]
                  \/ \E e : /\ Plus(inbox[k], inbox'[k], e)
                            /\ e.ev \notin {"set_question_number", "question_results", "everyone_answered"}
                            /\ e.ev = "solutions" => g \in Hosts /\ outbox[g][i].ev = "show_solutions"
                            /\ e.ev = "final_results" => g \in Hosts /\ outbox[g][i].ev = "get_final_results"
                            /\ e.ev = "kick" => g = "admin" /\ outbox[g][i].ev = "kick_player"
                            /\ e.ev = "start_game" => g \in Hosts /\ outbox[g][i].ev = "start_game"
<1>0. "admin" \in Hosts
  BY RoomFacts
<1>1. CASE HandlesNothing(g, i) \/ HandlesSubmit(g, i)
  BY <1>1 DEF HandlesNothing, HandlesSubmit
<1>2. CASE HandlesJoin(g, i)
  BY <1>2 DEF HandlesJoin, Plain, Event
<1>3. CASE HandlesRejoin(g, i)
  BY <1>3 DEF HandlesRejoin, Sent, RejoinNews, Event
<1>4. CASE HandlesStart(g, i)
  BY <1>4 DEF HandlesStart, Sent, Plain, Event
<1>5. CASE HandlesTold(g, i)
  BY <1>5 DEF HandlesTold, Sent, Plain, Event
<1>6. CASE HandlesKick(g, i)
  BY <1>0, <1>6 DEF HandlesKick, Sent, Plain, Event
<1>7. CASE HandlesNews(g, i)
  BY <1>7 DEF HandlesNews, Sent, Plain, Event
<1>8. QED
  BY <1>1, <1>2, <1>3, <1>4, <1>5, <1>6, <1>7 DEF Handles

\* Where the hosts are in step, a question is told to all of them.
LEMMA QuestionNews ==
    ASSUME TypeInv, InStep, NEW g \in Pages, NEW i \in Slots(g), HandlesQuestion(g, i)
    PROVE  LET q == outbox[g][i].q IN
           /\ g \in Hosts /\ server'.current = q /\ q \in Nat
           /\ outbox[g][i] \in Questioned
           /\ q \notin Questions => inbox' = inbox
           /\ q \in Questions =>
                 \E gs : \E e \in Messages :
                    /\ Sent(gs, e) /\ e.ev = "set_question_number" /\ e.q = q
                    /\ \A h \in Hosts : h \in gs
                    /\ \A p \in Players : p \in gs <=> p \in server.room /\ Type(q) # "SLIDE"
<1> DEFINE q == outbox[g][i].q
<1>1. g \in Hosts /\ server'.current = q /\ q \in Nat
      /\ outbox[g][i].ev = "set_question_number"
  BY DEF HandlesQuestion
<1>2. outbox[g][i] \in Questioned
  BY <1>1, KindFacts DEF Questioned, Kind
<1>3. q \notin Questions => inbox' = inbox
  BY DEF HandlesQuestion
<1>4. ASSUME q \in Questions
      PROVE  \E gs : \E e \in Messages :
                    /\ Sent(gs, e) /\ e.ev = "set_question_number" /\ e.q = q
                    /\ \A h \in Hosts : h \in gs
                    /\ \A p \in Players : p \in gs <=> p \in server.room /\ Type(q) # "SLIDE"
  <2>0. /\ \A h \in Hosts : h \notin Players
        /\ \A p \in Players : p \notin Hosts
    BY RoomFacts
  <2>1. Event("set_question_number", q, {}) \in Messages
    BY <1>4, EventsFit
  <2>2. Event("set_question_number", q, {}).ev = "set_question_number" /\ Event("set_question_number", q, {}).q = q
    BY DEF Event
  <2>3. CASE Type(q) = "SLIDE"
    <3>1. Sent({g}, Event("set_question_number", q, {}))
      BY <1>4, <2>3 DEF HandlesQuestion
    <3>2. Hosts = {"admin"}
      BY <1>4, <2>3 DEF InStep
    <3>3. (\A h \in Hosts : h \in {g}) /\ \A p \in Players : p \notin {g}
      BY <1>1, <2>0, <3>2
    <3>4. QED
      BY <2>1, <2>2, <2>3, <3>1, <3>3
  <2>4. CASE Type(q) # "SLIDE"
    <3>1. Sent(ToRoom, Event("set_question_number", q, {}))
      BY <1>4, <2>4 DEF HandlesQuestion
    <3>2. (\A h \in Hosts : h \in ToRoom) /\ \A p \in Players : p \in ToRoom <=> p \in server.room
      BY <2>0 DEF ToRoom
    <3>3. QED
      BY <2>1, <2>2, <2>4, <3>1, <3>2
  <2>5. QED
    BY <2>3, <2>4
<1>5. QED
  BY <1>1, <1>2, <1>3, <1>4

Laters == Kinds({"solutions", "question_results", "final_results"})
Stops  == Kind("everyone_answered")
Follow == Kinds({"show_solutions", "get_question_results", "get_final_results"})

\* Host h is told of a question, or was.
Begun(h) == host[h].selected # -1 \/ In(inbox[h], Questioned)
AnyBegun == \/ server.announce > 0 \/ server.current \in Questions
            \/ \E q \in Questions : Listing(q) # {}
            \/ \E g \in Hosts : Begun(g) \/ In(outbox[g], Follow)

\* Nothing is asked or told of a question before all hosts are told of it, but that
\* everyone answered one of another game.
BegunAt(h) ==
    /\ host[h].selected # -1 \/ Led(inbox[h], Laters, Questioned)
    /\ host[h].selected # -1 \/ Disturbed \/ Led(inbox[h], Stops, Questioned)
    /\ host[h].results # None \/ host[h].later => host[h].selected # -1
    /\ host[h].timer # "unset" => host[h].selected # -1 \/ Disturbed
    /\ host[h].results # None => host[h].timer = "0"
BegunInv == InStep => (AnyBegun => \A h \in Hosts : Begun(h)) /\ \A h \in Hosts : BegunAt(h)

\* It is so through every step.
LEMMA BegunStep ==
    ASSUME TypeInv, TypeInv', Static, Moves, BegunInv
    PROVE  BegunInv'
<1>0. /\ \A h \in Hosts : h \in Pages /\ h \notin Players
      /\ \A r \in Players : r \in Pages /\ r \notin Hosts
      /\ Questioned' = Questioned /\ Laters' = Laters /\ Stops' = Stops /\ Follow' = Follow
      /\ Hosts' = Hosts /\ Questions' = Questions /\ InStep' = InStep
      /\ -1 \notin Questions /\ Type(-1) # "SLIDE"
      /\ \A h \in Hosts : host[h] \in HostPages
  BY RoomFacts, StaticFacts, SceneFacts
     DEF Questioned, Kind, Laters, Stops, Follow, Kinds, Static, TypeInv, HostsOK
<1>d. ASSUME server'.others <= server.others PROVE Disturbed => Disturbed'
  <2>1. server.others \in Int /\ server'.others \in Int /\ scene.others \in Int /\ scene' = scene
    BY PagesAssumption DEF TypeInv, ServerOK, Servers, Static
  <2>2. QED
    BY <1>d, <2>1 DEF Disturbed
<1> SUFFICES ASSUME InStep
             PROVE  (AnyBegun' => \A h \in Hosts : Begun(h)') /\ \A h \in Hosts : BegunAt(h)'
  BY <1>0 DEF BegunInv
<1> DEFINE Goal == (AnyBegun' => \A h \in Hosts : Begun(h)') /\ \A h \in Hosts : BegunAt(h)'
<1>i. (AnyBegun => \A h \in Hosts : Begun(h)) /\ \A h \in Hosts : BegunAt(h)
  BY DEF BegunInv
<1>1. ASSUME NEW r \in Players, PlayActs(r) \/ PlayStops(r) \/ PlayTakes(r) \/ PlayReopens(r)
      PROVE  Goal
  <2>1. /\ server'.current = server.current /\ server'.announce = server.announce /\ host' = host
        /\ server'.checked = server.checked /\ server'.others = server.others
        /\ \A h \in Hosts : inbox'[h] = inbox[h] /\ outbox'[h] = outbox[h]
    BY <1>0, <1>1, PlayApart
  <2>2. (Disturbed' <=> Disturbed) /\ \A q : Listing(q)' = Listing(q)
    BY <2>1 DEF Disturbed, Static, Listing
  <2>3. QED
    BY <1>0, <1>i, <2>1, <2>2 DEF AnyBegun, Begun, BegunAt
<1>2. ASSUME NEW h \in Hosts, HostMoves(h)
      PROVE  Goal
  <2>1. server' = server /\ \A k \in Hosts : k # h => inbox'[k] = inbox[k] /\ outbox'[k] = outbox[k] /\ host'[k] = host[k]
    BY <1>0, <1>2, HostApart
  <2>d. (Disturbed' <=> Disturbed) /\ \A q : Listing(q)' = Listing(q)
    BY <2>1 DEF Disturbed, Static, Listing
  <2>2. ASSUME BegunAt(h)', Begun(h) => Begun(h)', Begun(h)' => Begun(h),
               In(outbox'[h], Follow) => In(outbox[h], Follow) \/ Begun(h)
        PROVE  Goal
    <3>1. \A k \in Hosts : k # h => (Begun(k)' <=> Begun(k)) /\ (BegunAt(k)' <=> BegunAt(k))
      BY <1>0, <2>1, <2>d DEF Begun, BegunAt
    <3>2. AnyBegun' => AnyBegun
      BY <1>0, <2>1, <2>2, <2>d, <3>1 DEF AnyBegun
    <3>3. QED
      BY <1>0, <1>i, <2>2, <3>1, <3>2
  <2>3. CASE \E e \in Messages : HostPresses(h, e)
    <3>1. PICK e \in Messages : HostPresses(h, e)
      BY <2>3
    <3>2. inbox' = inbox /\ Asked(h, e) /\ HostKept(h)
      BY <3>1 DEF HostPresses
    <3>3. Begun(h)' <=> Begun(h)
      BY <1>0, <3>2 DEF Begun, HostKept
    <3>4. e \in Follow => host[h].selected # -1
      <4>1. AsksFinals(h) => host[h].selected # -1
        BY <1>0, <1>i DEF AsksFinals, ResultsVisible, Slide, BegunAt
      <4>2. QED
        BY <3>1, <4>1 DEF HostPresses, Follow, Kinds, Plain, Event, NextQuestion, AsksResults
    <3>5. In(outbox'[h], Follow) => In(outbox[h], Follow) \/ Begun(h)
      BY <1>0, <3>2, <3>4, AskedFacts DEF Begun
    <3>6. BegunAt(h)'
      <4>1. host'[h].later => host[h].later \/ host[h].selected # -1
        BY <3>1 DEF HostPresses, AsksResults
      <4>2. host'[h].timer = host[h].timer \/ (host'[h].timer = "0" /\ host[h].selected # -1)
        BY <3>1 DEF HostPresses
      <4>3. QED
        BY <1>0, <1>i, <2>d, <3>2, <4>1, <4>2 DEF BegunAt, HostKept
    <3>7. QED
      BY <2>2, <3>3, <3>5, <3>6
  <2>4. CASE HostSkips(h)
    <3>1. inbox' = inbox /\ Asked(h, NextQuestion(h)) /\ HostKept(h) /\ host[h].later /\ host'[h].timer = host[h].timer
      BY <2>4 DEF HostSkips
    <3>2. Begun(h) /\ Begun(h)'
      BY <1>0, <1>i, <3>1 DEF Begun, HostKept, BegunAt
    <3>3. BegunAt(h)'
      BY <1>0, <1>i, <2>d, <3>1 DEF BegunAt, HostKept
    <3>4. QED
      BY <2>2, <3>2, <3>3
  <2>5. CASE HostTicks(h)
    <3>1. inbox' = inbox /\ outbox' = outbox /\ (Begun(h)' <=> Begun(h))
      BY <1>0, <2>5 DEF HostTicks, Begun
    <3>2. BegunAt(h)'
      BY <1>0, <1>i, <2>d, <2>5 DEF BegunAt, HostTicks
    <3>3. QED
      BY <2>2, <3>1, <3>2
  <2>6. CASE HostTakes(h)
    <3>1. Read(h) /\ 1 \in Places(h) /\ HostTurned(h, host[h], inbox[h][1], host'[h]) /\ outbox' = outbox
      BY <2>6 DEF HostTakes
    <3> DEFINE e == inbox[h][1]
    <3>2. e \in Messages
      BY <1>0, <3>1, KindFacts
    <3>3. /\ In(inbox[h], Questioned) <=> In(inbox'[h], Questioned) \/ e \in Questioned
          /\ Led(inbox[h], Laters, Questioned) =>
                e \notin Laters /\ (e \notin Questioned => Led(inbox'[h], Laters, Questioned))
          /\ Led(inbox[h], Stops, Questioned) =>
                e \notin Stops /\ (e \notin Questioned => Led(inbox'[h], Stops, Questioned))
      BY <1>0, <3>1, ReadFacts
    <3>4. HostTurned(h, host[h], e, host'[h])
      BY <3>1
    <3>5. /\ e \in Questioned <=> e.ev = "set_question_number"
          /\ e \in Laters <=> e.ev \in {"solutions", "question_results", "final_results"}
          /\ e \in Stops <=> e.ev = "everyone_answered"
      BY <3>2 DEF Questioned, Kind, Laters, Kinds, Stops
    <3>6. /\ host'[h].selected # -1 <=> host[h].selected # -1 \/ e \in Questioned
          /\ host'[h].later = host[h].later
          /\ e \in Questioned => host'[h].results = None
          /\ e \notin Questioned /\ e \notin Laters =>
                /\ host'[h].results = host[h].results
                /\ host'[h].timer = IF e \in Stops THEN "0" ELSE host[h].timer
          /\ e \in Laters => host'[h].timer = "0"
      <4>1. host[h].selected \in Nat \cup {-1}
        BY <1>0 DEF HostPages
      <4>2. QED
        BY <3>4, <3>5, <4>1 DEF HostTurned
    <3> HIDE DEF e
    <3>7. Begun(h)' <=> Begun(h)
      BY <1>0, <3>3, <3>6 DEF Begun
    <3>8. BegunAt(h)'
      <4>1. host'[h].selected # -1 \/ Led(inbox'[h], Laters, Questioned)
        BY <1>i, <3>3, <3>6 DEF BegunAt
      <4>2. host'[h].results # None \/ host'[h].later => host'[h].selected # -1
        BY <1>i, <3>3, <3>6 DEF BegunAt
      <4>3. host'[h].results # None => host'[h].timer = "0"
        BY <1>i, <3>3, <3>6 DEF BegunAt
      <4>4. host'[h].selected # -1 \/ Disturbed \/ Led(inbox'[h], Stops, Questioned)
        BY <1>i, <3>3, <3>6 DEF BegunAt
      <4>5. host'[h].timer # "unset" => host'[h].selected # -1 \/ Disturbed
        BY <1>i, <3>3, <3>6 DEF BegunAt
      <4>6. QED
        BY <1>0, <2>d, <4>1, <4>2, <4>3, <4>4, <4>5 DEF BegunAt
    <3>9. QED
      BY <2>2, <3>1, <3>7, <3>8
  <2>7. QED
    BY <1>2, <2>3, <2>4, <2>5, <2>6 DEF HostMoves
<1>3. ASSUME host' = host, \A h \in Hosts : Begun(h) => Begun(h)',
             Disturbed => Disturbed',
             \A h \in Hosts : Led(inbox[h], Laters, Questioned) => host[h].selected # -1 \/ Led(inbox'[h], Laters, Questioned),
             \A h \in Hosts : Led(inbox[h], Stops, Questioned) =>
                                 host[h].selected # -1 \/ Disturbed' \/ Led(inbox'[h], Stops, Questioned)
      PROVE  \A h \in Hosts : BegunAt(h)'
  BY <1>0, <1>i, <1>3 DEF BegunAt
<1>4. ASSUME NEW g \in Pages, NEW i \in Slots(g), Handles(g, i)
      PROVE  Goal
  <2>0. host' = host /\ Done(g, i)
    BY <1>4, ServerApart DEF Handles, HandlesOne
  <2>d. Disturbed => Disturbed'
    BY <1>4, HandleKeeps DEF Disturbed, Static
  <2>a. /\ server'.announce = server.announce
        /\ (\E q \in Questions : Listing(q)' # {}) =>
              server.current \in Questions \/ \E q \in Questions : Listing(q) # {}
    BY <1>4, HandleKeeps
  <2>1. /\ \A h \in Hosts : In(outbox'[h], Follow) => In(outbox[h], Follow)
        /\ g \in Hosts /\ outbox[g][i] \in Follow => In(outbox[g], Follow)
    BY <1>0, <1>4, <2>0, DoneFacts
  <2>2. /\ outbox[g][i] \in Follow <=> outbox[g][i].ev \in {"show_solutions", "get_question_results", "get_final_results"}
    BY <1>0, <1>4, KindFacts DEF Follow, Kinds
  <2>3. CASE HandlesQuestion(g, i)
    <3>1. /\ server'.current = outbox[g][i].q
          /\ outbox[g][i].q \notin Questions => inbox' = inbox
      BY <1>4, <2>3, QuestionNews
    <3>2. CASE outbox[g][i].q \notin Questions
      <4>1. \A h \in Hosts : Begun(h)' <=> Begun(h)
        BY <1>0, <2>0, <3>1, <3>2 DEF Begun
      <4>2. AnyBegun' => AnyBegun
        BY <1>0, <2>1, <2>a, <3>1, <3>2, <4>1 DEF AnyBegun
      <4>3. QED
        BY <1>3, <1>i, <2>0, <2>d, <3>1, <3>2, <4>1, <4>2
    <3>3. CASE outbox[g][i].q \in Questions
      <4>1. PICK gs : \E e \in Messages : Sent(gs, e) /\ e.ev = "set_question_number" /\ \A h \in Hosts : h \in gs
        BY <1>4, <2>3, <3>3, QuestionNews
      <4>2. PICK e \in Messages : Sent(gs, e) /\ e.ev = "set_question_number"
        BY <4>1
      <4>3. e \in Questioned /\ e \notin Laters /\ e \notin Stops
        BY <4>2 DEF Questioned, Kind, Laters, Kinds, Stops
      <4>4. \A h \in Hosts : In(inbox'[h], Questioned)
        BY <1>0, <4>1, <4>2, <4>3, SentFacts
      <4>5. \A h \in Hosts : /\ Led(inbox[h], Laters, Questioned) => Led(inbox'[h], Laters, Questioned)
                             /\ Led(inbox[h], Stops, Questioned) => Led(inbox'[h], Stops, Questioned)
        BY <1>0, <4>2, <4>3, SentFacts
      <4>6. \A h \in Hosts : Begun(h)'
        BY <1>0, <4>4 DEF Begun
      <4>7. QED
        BY <1>3, <2>0, <2>d, <4>5, <4>6
    <3>4. QED
      BY <3>2, <3>3
  <2>4. CASE ~HandlesQuestion(g, i)
    <3>1. server'.current = server.current
      <4>1. CASE HandlesResults(g, i)
        BY <4>1 DEF HandlesResults
      <4>2. QED
        BY <1>4, <2>4, <4>1, OtherNews
    <3>2. \A h \in Hosts : \/ inbox'[h] = inbox[h]
                           \/ \E e : /\ Plus(inbox[h], inbox'[h], e)
                                     /\ e.ev \notin {"set_question_number", "everyone_answered"}
                                     /\ e \in Laters => g \in Hosts /\ outbox[g][i] \in Follow
      <4>1. CASE HandlesResults(g, i)
        <5>1. PICK gs, e : Sent(gs, e) /\ e.ev = "question_results"
          BY <4>1 DEF HandlesResults, Event
        <5>2. g \in Hosts /\ outbox[g][i] \in Follow
          BY <2>2, <4>1 DEF HandlesResults
        <5>3. \A h \in Hosts : inbox'[h] = inbox[h] \/ Plus(inbox[h], inbox'[h], e)
          BY <1>0, <5>1 DEF Sent
        <5>4. QED
          BY <5>1, <5>2, <5>3
      <4>2. CASE ~HandlesResults(g, i)
        <5>1. TAKE h \in Hosts
        <5>2. \/ inbox'[h] = inbox[h]
              \/ \E e : /\ Plus(inbox[h], inbox'[h], e)
                        /\ e.ev \notin {"set_question_number", "question_results", "everyone_answered"}
                        /\ e.ev = "solutions" => g \in Hosts /\ outbox[g][i].ev = "show_solutions"
                        /\ e.ev = "final_results" => g \in Hosts /\ outbox[g][i].ev = "get_final_results"
          BY <1>0, <1>4, <2>4, <4>2, OtherNews
        <5>3. QED
          BY <2>2, <5>2 DEF Laters, Kinds
      <4>3. QED
        BY <4>1, <4>2
    <3>3. ASSUME NEW h \in Hosts
          PROVE  /\ In(inbox'[h], Questioned) <=> In(inbox[h], Questioned)
                 /\ Led(inbox[h], Laters, Questioned) => host[h].selected # -1 \/ Led(inbox'[h], Laters, Questioned)
                 /\ Led(inbox[h], Stops, Questioned) => Led(inbox'[h], Stops, Questioned)
      <4>1. CASE inbox'[h] = inbox[h]
        BY <4>1
      <4>2. ASSUME NEW e, Plus(inbox[h], inbox'[h], e), e.ev \notin {"set_question_number", "everyone_answered"},
                   e \in Laters => g \in Hosts /\ outbox[g][i] \in Follow
            PROVE  /\ In(inbox'[h], Questioned) <=> In(inbox[h], Questioned)
                   /\ Led(inbox[h], Laters, Questioned) => host[h].selected # -1 \/ Led(inbox'[h], Laters, Questioned)
                   /\ Led(inbox[h], Stops, Questioned) => Led(inbox'[h], Stops, Questioned)
        <5>1. e \notin Questioned /\ e \notin Stops
          BY <4>2 DEF Questioned, Kind, Stops
        <5>2. e \in Laters => Begun(h)
          BY <1>i, <2>1, <4>2 DEF AnyBegun
        <5>3. /\ In(inbox'[h], Questioned) <=> In(inbox[h], Questioned) \/ e \in Questioned
              /\ Led(inbox[h], Laters, Questioned) /\ (e \in Laters => In(inbox[h], Questioned)) => Led(inbox'[h], Laters, Questioned)
              /\ Led(inbox[h], Stops, Questioned) /\ (e \in Stops => In(inbox[h], Questioned)) => Led(inbox'[h], Stops, Questioned)
          BY <1>0, <4>2, GotFacts
        <5>4. QED
          BY <5>1, <5>2, <5>3 DEF Begun
      <4>3. QED
        BY <3>2, <4>1, <4>2
    <3>4. \A h \in Hosts : Begun(h)' <=> Begun(h)
      BY <1>0, <2>0, <3>3 DEF Begun
    <3>5. AnyBegun' => AnyBegun
      BY <1>0, <2>1, <2>a, <3>1, <3>4 DEF AnyBegun
    <3>6. QED
      BY <1>3, <1>i, <2>0, <2>d, <3>3, <3>4, <3>5
  <2>5. QED
    BY <2>3, <2>4
<1>5. CASE Announces
  <2>1. /\ host' = host /\ outbox' = outbox /\ server'.current = server.current
        /\ server'.others <= server.others /\ \A q \in Questions : Listing(q)' \subseteq Listing(q)
    BY <1>5 DEF Announces
  <2>2. /\ Plain("everyone_answered") \notin Questioned /\ Plain("everyone_answered") \notin Laters
        /\ Plain("results_saved_successfully") \notin Questioned /\ Plain("results_saved_successfully") \notin Laters
        /\ Plain("results_saved_successfully") \notin Stops
    BY DEF Questioned, Kind, Laters, Kinds, Stops, Plain, Event
  <2>3. Disturbed => Disturbed'
    BY <1>d, <2>1
  <2>4. ASSUME NEW h \in Hosts
        PROVE  /\ In(inbox[h], Questioned) <=> In(inbox'[h], Questioned)
               /\ Led(inbox[h], Laters, Questioned) => Led(inbox'[h], Laters, Questioned)
    <3>1. CASE inbox' = inbox
      BY <3>1
    <3>2. CASE Sent({"admin"}, Plain("results_saved_successfully"))
      BY <1>0, <2>2, <3>2, SentFacts
    <3>3. CASE Sent(Pages, Plain("everyone_answered"))
      BY <1>0, <2>2, <3>3, SentFacts
    <3>4. QED
      BY <1>5, <3>1, <3>2, <3>3, AnnounceNews
  <2>5. ASSUME NEW h \in Hosts, Led(inbox[h], Stops, Questioned)
        PROVE  host[h].selected # -1 \/ Disturbed' \/ Led(inbox'[h], Stops, Questioned)
    <3>1. CASE inbox' = inbox
      BY <2>5, <3>1
    <3>2. CASE Sent({"admin"}, Plain("results_saved_successfully"))
      BY <1>0, <2>2, <2>5, <3>2, SentFacts
    <3>3. CASE Sent(Pages, Plain("everyone_answered")) /\ server.announce > 0
      <4>1. Begun(h)
        BY <1>i, <3>3 DEF AnyBegun
      <4>2. Led(inbox[h], Stops, Questioned) /\ In(inbox[h], Questioned) => Led(inbox'[h], Stops, Questioned)
        BY <1>0, <3>3, SentFacts
      <4>3. QED
        BY <2>5, <4>1, <4>2 DEF Begun
    <3>4. QED
      BY <1>5, <3>1, <3>2, <3>3 DEF Announces
  <2>6. \A h \in Hosts : Begun(h)' <=> Begun(h)
    BY <1>0, <2>1, <2>4 DEF Begun
  <2>7. AnyBegun' => AnyBegun
    <3>1. server'.announce > 0 => server.announce > 0 \/ \E q \in Questions : Listing(q) # {}
      <4>1. server.announce \in Nat /\ server'.announce \in Nat
        BY DEF TypeInv, ServerOK, Servers
      <4>2. Stores => \E q \in Questions : Listing(q) # {}
        BY DEF Stores
      <4>3. QED
        BY <1>5, <4>1, <4>2 DEF Announces
    <3>2. QED
      BY <1>0, <2>1, <2>6, <3>1 DEF AnyBegun
  <2>8. \A h \in Hosts : BegunAt(h)'
    BY <1>3, <2>1, <2>3, <2>4, <2>5, <2>6
  <2>9. QED
    BY <1>0, <1>i, <2>6, <2>7, <2>8
<1>6. CASE UNCHANGED vars
  BY <1>0, <1>6, <1>i DEF vars, AnyBegun, Begun, BegunAt, Disturbed, Listing, Static
<1>7. QED
  BY <1>1, <1>2, <1>4, <1>5, <1>6 DEF Moves, HostMoves

(***************************************************************************)
(* The turn of the questions                                               *)
(***************************************************************************)

Wrong(n)  == {e \in Messages : e.ev = "set_question_number" /\ e.q # n}
Told(g)   == In(inbox[g], Questioned)
Asking(g) == In(outbox[g], Questioned)

\* The question that host h selects when it has caught up.
Expect(h) == IF Told(h) THEN host[h].selected + 1 ELSE host[h].selected

\* What is on its way to host h is the question after the one it selects, once.
HostTurn(h) ==
    /\ host[h].selected = host[h].shown
    /\ Once(inbox[h], Questioned) /\ ~In(inbox[h], Wrong(host[h].selected + 1))

\* All hosts expect the same question, and the next one is asked for once, when all
\* hosts were told of the last.
TurnInv == hasty = 0 /\ InStep =>
    /\ \A h \in Hosts : HostTurn(h)
    /\ \A g, h \in Hosts : Expect(g) = Expect(h)
    /\ \A g \in Hosts : Once(outbox[g], Questioned) /\ ~In(outbox[g], Wrong(Expect(g) + 1))
    /\ \A g, h \in Hosts : Asking(g) => ~Told(h) /\ (Asking(h) => h = g)
    /\ \A g, h \in Hosts : host[g].later => g = "admin" /\ ~Told(h) /\ ~Asking(h)

\* Nothing travels when all is quiet.
LEMMA QuietFacts ==
    ASSUME TypeInv, Quiet
    PROVE  /\ \A g \in Pages : Len(inbox[g]) = 0 /\ Len(outbox[g]) = 0
           /\ \A g \in Pages : \A S : ~In(inbox[g], S) /\ ~In(outbox[g], S) /\ Once(inbox[g], S) /\ Once(outbox[g], S)
           /\ server.announce = 0 /\ \A h \in Hosts : ~host[h].later /\ ~host[h].adding
<1>1. DOMAIN inbox = Pages
  BY RoomFacts
<1>2. \A g \in Pages : Len(inbox[g]) = 0 /\ Len(outbox[g]) = 0
  BY <1>1 DEF Quiet
<1>3. QED
  BY <1>2, Empty DEF Quiet

\* Where everything is as before for the hosts, but for what no turn hangs on.
LEMMA TurnSame ==
    ASSUME TypeInv, Static, TurnInv, hasty' = 0 => hasty = 0,
           \A h \in Hosts : /\ host'[h].selected = host[h].selected /\ host'[h].shown = host[h].shown
                            /\ host'[h].later => host[h].later,
           \A h \in Hosts : /\ Told(h)' <=> Told(h)
                            /\ In(inbox'[h], Wrong(host[h].selected + 1)) => In(inbox[h], Wrong(host[h].selected + 1))
                            /\ Once(inbox[h], Questioned) => Once(inbox'[h], Questioned),
           \A h \in Hosts : /\ Asking(h)' => Asking(h)
                            /\ In(outbox'[h], Wrong(Expect(h) + 1)) => In(outbox[h], Wrong(Expect(h) + 1))
                            /\ Once(outbox[h], Questioned) => Once(outbox'[h], Questioned)
    PROVE  TurnInv'
<1>1. Questioned' = Questioned /\ (\A n : Wrong(n)' = Wrong(n)) /\ Hosts' = Hosts /\ InStep' = InStep
  BY StaticFacts DEF Questioned, Kind, Wrong, Static
<1>2. \A h \in Hosts : Expect(h)' = Expect(h)
  BY DEF Expect
<1>3. SUFFICES ASSUME hasty' = 0, InStep
               PROVE  /\ \A h \in Hosts : HostTurn(h)'
                      /\ \A g, h \in Hosts : Expect(g)' = Expect(h)'
                      /\ \A g \in Hosts : Once(outbox'[g], Questioned) /\ ~In(outbox'[g], Wrong(Expect(g)' + 1))
                      /\ \A g, h \in Hosts : Asking(g)' => ~Told(h)' /\ (Asking(h)' => h = g)
                      /\ \A g, h \in Hosts : host'[g].later => g = "admin" /\ ~Told(h)' /\ ~Asking(h)'
  BY <1>1 DEF TurnInv
<1>4. /\ \A h \in Hosts : HostTurn(h)
      /\ \A g, h \in Hosts : Expect(g) = Expect(h)
      /\ \A g \in Hosts : Once(outbox[g], Questioned) /\ ~In(outbox[g], Wrong(Expect(g) + 1))
      /\ \A g, h \in Hosts : Asking(g) => ~Told(h) /\ (Asking(h) => h = g)
      /\ \A g, h \in Hosts : host[g].later => g = "admin" /\ ~Told(h) /\ ~Asking(h)
  BY <1>3 DEF TurnInv
<1>5. \A h \in Hosts : HostTurn(h)'
  BY <1>1, <1>4 DEF HostTurn
<1>6. \A g \in Hosts : Once(outbox'[g], Questioned) /\ ~In(outbox'[g], Wrong(Expect(g)' + 1))
  BY <1>2, <1>4
<1>7. QED
  BY <1>2, <1>4, <1>5, <1>6

\* The questions take their turns through every step.
LEMMA TurnStep ==
    ASSUME TypeInv, TypeInv', Static, Moves, TurnInv
    PROVE  TurnInv'
<1>0. /\ \A h \in Hosts : h \in Pages /\ h \notin Players
      /\ \A r \in Players : r \in Pages /\ r \notin Hosts
      /\ Questioned' = Questioned /\ (\A n : Wrong(n)' = Wrong(n)) /\ Hosts' = Hosts /\ InStep' = InStep
      /\ \A h \in Hosts : host[h] \in HostPages /\ host[h].selected \in Nat \cup {-1}
  BY RoomFacts, StaticFacts DEF Questioned, Kind, Wrong, Static, TypeInv, HostsOK, HostPages
<1>w. \A s, n : ~In(s, Questioned) => ~In(s, Wrong(n))
  BY DEF In, Questioned, Kind, Wrong
<1>1. ASSUME NEW r \in Players, PlayActs(r) \/ PlayStops(r) \/ PlayTakes(r) \/ PlayReopens(r)
      PROVE  TurnInv'
  <2>1. host' = host /\ hasty' = hasty /\ \A h \in Hosts : inbox'[h] = inbox[h] /\ outbox'[h] = outbox[h]
    BY <1>0, <1>1, PlayApart
  <2>2. QED
    BY <1>0, <2>1, TurnSame DEF Told, Asking
<1> DEFINE Turned5 ==
      /\ \A h \in Hosts : HostTurn(h)
      /\ \A g, h \in Hosts : Expect(g) = Expect(h)
      /\ \A g \in Hosts : Once(outbox[g], Questioned) /\ ~In(outbox[g], Wrong(Expect(g) + 1))
      /\ \A g, h \in Hosts : Asking(g) => ~Told(h) /\ (Asking(h) => h = g)
      /\ \A g, h \in Hosts : host[g].later => g = "admin" /\ ~Told(h) /\ ~Asking(h)
<1>t. hasty = 0 /\ InStep => Turned5
  BY DEF TurnInv
<1>2. ASSUME NEW h \in Hosts, HostMoves(h)
      PROVE  TurnInv'
  <2>1. \A k \in Hosts : k # h => inbox'[k] = inbox[k] /\ outbox'[k] = outbox[k] /\ host'[k] = host[k]
    BY <1>0, <1>2, HostApart
  <2>2. CASE \E e \in Messages : HostPresses(h, e)
    <3>1. PICK e \in Messages : HostPresses(h, e)
      BY <2>2
    <3>2. inbox' = inbox /\ Asked(h, e) /\ HostKept(h) /\ (hasty' = 0 => Quiet /\ hasty = 0)
      BY <3>1 DEF HostPresses
    <3>3. SUFFICES ASSUME hasty' = 0, InStep PROVE TurnInv'
      BY <1>0 DEF TurnInv
    <3>4. Turned5 /\ Quiet
      BY <1>t, <3>2, <3>3
    <3>5. \A g \in Hosts : ~Told(g) /\ ~Asking(g) /\ ~host[g].later /\ Expect(g) = host[g].selected
      BY <1>0, <3>4, QuietFacts DEF Told, Asking, Expect
    <3>6. \A g \in Hosts : /\ ~Told(g)' /\ host'[g].selected = host[g].selected /\ host'[g].shown = host[g].shown
                           /\ Expect(g)' = host[g].selected
      BY <1>0, <2>1, <3>2, <3>5 DEF Told, Expect, HostKept
    <3>7. \A g \in Hosts : HostTurn(g)'
      BY <1>0, <1>w, <3>2, <3>4, <3>6 DEF HostTurn, Told
    <3>8. \A g \in Hosts : g # h => ~Asking(g)' /\ ~host'[g].later /\ outbox'[g] = outbox[g]
      BY <1>0, <2>1, <3>5 DEF Asking
    <3>9. Asking(h)' <=> e \in Questioned
      BY <1>0, <3>2, <3>5, AskedFacts DEF Asking
    <3>10. ~In(outbox'[h], Wrong(host[h].selected + 1))
      <4>1. e \notin Wrong(host[h].selected + 1)
        BY <3>1 DEF HostPresses, Wrong, Plain, Event, NextQuestion, ShowResults
      <4>2. ~In(outbox[h], Wrong(host[h].selected + 1))
        BY <1>w, <3>5 DEF Asking
      <4>3. QED
        BY <1>0, <3>2, <4>1, <4>2, AskedFacts
    <3>11. Once(outbox'[h], Questioned)
      BY <1>0, <3>2, <3>4, <3>5, AskedFacts DEF Asking
    <3>12. host'[h].later => h = "admin" /\ e \notin Questioned
      <4>1. host'[h].later => h = "admin" /\ e = ShowResults(h)
        BY <3>1, <3>5 DEF HostPresses
      <4>2. ShowResults(h) \notin Questioned
        BY DEF Questioned, Kind, Event, ShowResults
      <4>3. QED
        BY <4>1, <4>2
    <3>13. \A g \in Hosts : Once(outbox'[g], Questioned) /\ ~In(outbox'[g], Wrong(Expect(g)' + 1))
      BY <1>w, <3>4, <3>6, <3>8, <3>10, <3>11 DEF Asking
    <3>14. QED
      BY <1>0, <3>4, <3>5, <3>6, <3>7, <3>8, <3>9, <3>12, <3>13 DEF TurnInv
  <2>3. CASE HostSkips(h)
    <3>1. inbox' = inbox /\ Asked(h, NextQuestion(h)) /\ HostKept(h) /\ host[h].later /\ ~host'[h].later /\ hasty' = hasty
      BY <2>3 DEF HostSkips
    <3>2. SUFFICES ASSUME hasty' = 0, InStep PROVE TurnInv'
      BY <1>0 DEF TurnInv
    <3>3. Turned5
      BY <1>t, <3>1, <3>2
    <3>4. h = "admin" /\ \A g \in Hosts : ~Told(g) /\ ~Asking(g) /\ Expect(g) = host[g].selected
      BY <3>1, <3>3 DEF Expect
    <3>5. \A g \in Hosts : /\ ~Told(g)' /\ host'[g].selected = host[g].selected /\ host'[g].shown = host[g].shown
                           /\ Expect(g)' = host[g].selected /\ ~host'[g].later
      BY <1>0, <2>1, <3>1, <3>3, <3>4 DEF Told, Expect, HostKept
    <3>6. \A g \in Hosts : HostTurn(g)'
      BY <1>0, <1>w, <3>1, <3>3, <3>5 DEF HostTurn, Told
    <3>7. \A g \in Hosts : g # h => ~Asking(g)' /\ outbox'[g] = outbox[g]
      BY <1>0, <2>1, <3>4 DEF Asking
    <3>8. PICK e : Asked(h, e) /\ e \notin Wrong(host[h].selected + 1)
      BY <3>1 DEF Wrong, NextQuestion, Event
    <3>9. ~In(outbox'[h], Wrong(host[h].selected + 1)) /\ Once(outbox'[h], Questioned)
      BY <1>0, <1>w, <3>3, <3>4, <3>8, AskedFacts DEF Asking
    <3>10. \A g \in Hosts : Once(outbox'[g], Questioned) /\ ~In(outbox'[g], Wrong(Expect(g)' + 1))
      BY <1>w, <3>3, <3>5, <3>7, <3>9 DEF Asking
    <3>11. \A g, k \in Hosts : Expect(g)' = Expect(k)'
      <4>1. ASSUME NEW g \in Hosts, NEW k \in Hosts PROVE Expect(g)' = Expect(k)'
        <5>1. Expect(g)' = host[g].selected /\ Expect(k)' = host[k].selected
          BY <3>5
        <5>2. Expect(g) = Expect(k) /\ Expect(g) = host[g].selected /\ Expect(k) = host[k].selected
          BY <3>3, <3>4
        <5>3. QED
          BY <5>1, <5>2
      <4>2. QED
        BY <4>1
    <3>12. \A g, k \in Hosts : Asking(g)' => ~Told(k)' /\ (Asking(k)' => k = g)
      BY <3>5, <3>7
    <3>13. \A g, k \in Hosts : host'[g].later => g = "admin" /\ ~Told(k)' /\ ~Asking(k)'
      BY <3>5
    <3>14. QED
      BY <1>0, <3>6, <3>10, <3>11, <3>12, <3>13 DEF TurnInv
  <2>4. CASE HostTicks(h)
    BY <1>0, <2>1, <2>4, TurnSame DEF HostTicks, Told, Asking
  <2>5. CASE HostTakes(h)
    <3>1. /\ Read(h) /\ 1 \in Places(h) /\ HostTurned(h, host[h], inbox[h][1], host'[h]) /\ outbox' = outbox
          /\ hasty' = hasty
      BY <2>5 DEF HostTakes
    <3> DEFINE e == inbox[h][1]
    <3>2. e \in Messages
      BY <1>0, <3>1, KindFacts
    <3>3. \A S : /\ In(inbox[h], S) <=> In(inbox'[h], S) \/ e \in S
                 /\ Once(inbox[h], S) => Once(inbox'[h], S) /\ (e \in S => ~In(inbox'[h], S))
      BY <1>0, <3>1, ReadFacts
    <3>4. HostTurned(h, host[h], e, host'[h])
      BY <3>1
    <3>5. /\ e \in Questioned <=> e.ev = "set_question_number"
          /\ \A n : e \in Wrong(n) <=> e.ev = "set_question_number" /\ e.q # n
      BY <3>2 DEF Questioned, Kind, Wrong
    <3>6. /\ host'[h].later = host[h].later
          /\ e \notin Questioned => host'[h].selected = host[h].selected /\ host'[h].shown = host[h].shown
          /\ e \in Questioned => host'[h].selected = host[h].selected + 1
          /\ e \in Questioned /\ e \notin Wrong(host[h].selected + 1) => host'[h].shown = host[h].selected + 1
      BY <3>4, <3>5 DEF HostTurned
    <3> HIDE DEF e
    <3>7. CASE e \notin Questioned
      <4>1. \A n : e \notin Wrong(n)
        BY <3>5, <3>7
      <4>2. \A k \in Hosts : /\ host'[k].selected = host[k].selected /\ host'[k].shown = host[k].shown
                             /\ host'[k].later => host[k].later
        BY <2>1, <3>6, <3>7
      <4>3. \A k \in Hosts : /\ Told(k)' <=> Told(k)
                             /\ In(inbox'[k], Wrong(host[k].selected + 1)) => In(inbox[k], Wrong(host[k].selected + 1))
                             /\ Once(inbox[k], Questioned) => Once(inbox'[k], Questioned)
        BY <1>0, <2>1, <3>3, <3>7, <4>1 DEF Told
      <4>4. \A k \in Hosts : Asking(k)' <=> Asking(k)
        BY <1>0, <3>1 DEF Asking
      <4>5. QED
        BY <3>1, <4>2, <4>3, <4>4, TurnSame
    <3>8. CASE e \in Questioned
      <4>1. SUFFICES ASSUME hasty' = 0, InStep PROVE TurnInv'
        BY <1>0 DEF TurnInv
      <4>2. Turned5
        BY <1>t, <3>1, <4>1
      <4>3. Told(h) /\ e \notin Wrong(host[h].selected + 1) /\ ~In(inbox'[h], Questioned)
        BY <3>3, <3>8, <4>2 DEF Told, HostTurn
      <4>4. host'[h].selected = host[h].selected + 1 /\ host'[h].shown = host[h].selected + 1
        BY <3>6, <3>8, <4>3
      <4>5. \A k \in Hosts : Expect(k)' = Expect(k)
        BY <1>0, <2>1, <4>3, <4>4 DEF Expect, Told
      <4>6. \A k \in Hosts : (Told(k)' => Told(k)) /\ (Asking(k)' <=> Asking(k)) /\ host'[k].later = host[k].later
        BY <1>0, <2>1, <3>1, <3>6, <4>3 DEF Told, Asking
      <4>7. \A k \in Hosts : HostTurn(k)'
        BY <1>0, <1>w, <2>1, <3>3, <4>2, <4>3, <4>4 DEF HostTurn
      <4>8. \A g \in Hosts : Once(outbox'[g], Questioned) /\ ~In(outbox'[g], Wrong(Expect(g)' + 1))
        BY <3>1, <4>2, <4>5
      <4>9. QED
        BY <1>0, <4>2, <4>5, <4>6, <4>7, <4>8 DEF TurnInv
    <3>9. QED
      BY <3>7, <3>8
  <2>6. QED
    BY <1>2, <2>2, <2>3, <2>4, <2>5 DEF HostMoves
<1>3. ASSUME NEW g \in Pages, NEW i \in Slots(g), Handles(g, i)
      PROVE  TurnInv'
  <2>0. host' = host /\ Done(g, i) /\ hasty' = hasty
    BY <1>3, ServerApart DEF Handles, HandlesOne
  <2>1. \A h \in Hosts : \A S :
            /\ In(outbox[h], S) <=> In(outbox'[h], S) \/ (g = h /\ outbox[g][i] \in S)
            /\ Once(outbox[h], S) => Once(outbox'[h], S) /\ (g = h /\ outbox[g][i] \in S => ~In(outbox'[h], S))
    BY <1>0, <1>3, <2>0, DoneFacts
  <2>2. ASSUME \A h \in Hosts : /\ Told(h)' <=> Told(h)
                                /\ In(inbox'[h], Wrong(host[h].selected + 1)) => In(inbox[h], Wrong(host[h].selected + 1))
                                /\ Once(inbox[h], Questioned) => Once(inbox'[h], Questioned)
        PROVE  TurnInv'
    <3>1. \A h \in Hosts : /\ Asking(h)' => Asking(h)
                           /\ In(outbox'[h], Wrong(Expect(h) + 1)) => In(outbox[h], Wrong(Expect(h) + 1))
                           /\ Once(outbox[h], Questioned) => Once(outbox'[h], Questioned)
      BY <1>0, <2>1 DEF Asking
    <3>2. QED
      BY <2>0, <2>2, <3>1, TurnSame
  <2>3. CASE ~HandlesQuestion(g, i)
    <3>1. \A h \in Hosts : inbox'[h] = inbox[h] \/ \E e : Plus(inbox[h], inbox'[h], e) /\ e.ev # "set_question_number"
      <4>1. CASE HandlesResults(g, i)
        BY <1>0, <4>1 DEF HandlesResults, Sent, Event
      <4>2. CASE ~HandlesResults(g, i)
        BY <1>0, <1>3, <2>3, <4>2, OtherNews
      <4>3. QED
        BY <4>1, <4>2
    <3>2. ASSUME NEW h \in Hosts
          PROVE  /\ Told(h)' <=> Told(h)
                 /\ In(inbox'[h], Wrong(host[h].selected + 1)) => In(inbox[h], Wrong(host[h].selected + 1))
                 /\ Once(inbox[h], Questioned) => Once(inbox'[h], Questioned)
      <4>1. CASE inbox'[h] = inbox[h]
        BY <1>0, <4>1 DEF Told
      <4>2. ASSUME NEW e, Plus(inbox[h], inbox'[h], e), e.ev # "set_question_number"
            PROVE  /\ Told(h)' <=> Told(h)
                   /\ In(inbox'[h], Wrong(host[h].selected + 1)) => In(inbox[h], Wrong(host[h].selected + 1))
                   /\ Once(inbox[h], Questioned) => Once(inbox'[h], Questioned)
        <5>1. e \notin Questioned /\ \A n : e \notin Wrong(n)
          BY <4>2 DEF Questioned, Kind, Wrong
        <5>0. h \in Pages
          BY <1>0
        <5>2. Told(h)' <=> Told(h)
          BY <1>0, <5>0, <4>2, <5>1, GotFacts DEF Told
        <5>3. In(inbox'[h], Wrong(host[h].selected + 1)) => In(inbox[h], Wrong(host[h].selected + 1))
          BY <5>0, <4>2, <5>1, GotFacts
        <5>4. Once(inbox[h], Questioned) => Once(inbox'[h], Questioned)
          BY <5>0, <4>2, <5>1, GotFacts
        <5>5. QED
          BY <5>2, <5>3, <5>4
      <4>3. QED
        BY <3>1, <4>1, <4>2
    <3>3. QED
      BY <2>2, <3>2
  <2>4. CASE HandlesQuestion(g, i)
    <3>1. SUFFICES ASSUME hasty' = 0, InStep PROVE TurnInv'
      BY <1>0 DEF TurnInv
    <3> DEFINE q == outbox[g][i].q
    <3>2. g \in Hosts /\ outbox[g][i] \in Questioned /\ (q \notin Questions => inbox' = inbox)
      BY <1>3, <2>4, <3>1, QuestionNews
    <3>3. CASE q \notin Questions
      BY <1>0, <2>2, <3>2, <3>3 DEF Told
    <3>4. CASE q \in Questions
      <4>1. Turned5
        BY <1>t, <2>0, <3>1
      <4>2. Asking(g)
        BY <1>0, <1>3, <3>2, KindFacts DEF Asking
      <4>3. q = host[g].selected + 1
        <5>1. outbox[g][i] \notin Wrong(Expect(g) + 1)
          BY <1>0, <2>1, <3>2, <4>1
        <5>2. q = Expect(g) + 1
          BY <3>2, <5>1 DEF Wrong, Questioned, Kind
        <5>3. QED
          BY <3>2, <4>1, <4>2, <5>2 DEF Expect
      <4>4. \A h \in Hosts : ~Told(h) /\ host[h].selected = host[g].selected /\ (h # g => ~Asking(h)) /\ ~host[h].later
        BY <3>2, <4>1, <4>2 DEF Expect
      <4>5. PICK gs : \E e \in Messages : /\ Sent(gs, e) /\ e.ev = "set_question_number" /\ e.q = q
                                          /\ \A h \in Hosts : h \in gs
        BY <1>3, <2>4, <3>1, <3>4, QuestionNews
      <4>6. PICK e \in Messages : /\ Sent(gs, e) /\ e.ev = "set_question_number" /\ e.q = q
                                  /\ \A h \in Hosts : h \in gs
        BY <4>5
      <4>7. e \in Questioned /\ e \notin Wrong(host[g].selected + 1)
        BY <4>3, <4>6 DEF Questioned, Kind, Wrong
      <4>8. ASSUME NEW h \in Hosts
            PROVE  Told(h)' /\ Once(inbox'[h], Questioned) /\ ~In(inbox'[h], Wrong(host[h].selected + 1))
        <5>1. ~In(inbox[h], Questioned) /\ ~In(inbox[h], Wrong(host[h].selected + 1)) /\ Once(inbox[h], Questioned)
          BY <1>w, <4>1, <4>4 DEF Told, HostTurn
        <5>2. In(inbox'[h], Questioned) /\ Once(inbox'[h], Questioned)
          BY <1>0, <4>6, <4>7, <5>1, SentFacts
        <5>3. ~In(inbox'[h], Wrong(host[h].selected + 1))
          BY <1>0, <4>4, <4>6, <4>7, <5>1, SentFacts
        <5>4. QED
          BY <1>0, <5>2, <5>3 DEF Told
      <4>9. \A h \in Hosts : ~Asking(h)'
        BY <1>0, <2>1, <3>2, <4>1, <4>4 DEF Asking
      <4>10. \A h \in Hosts : HostTurn(h)'
        BY <1>0, <2>0, <4>1, <4>8 DEF HostTurn
      <4>11. \A h \in Hosts : Expect(h)' = host[g].selected + 1
        BY <2>0, <4>4, <4>8 DEF Expect
      <4>12. \A h \in Hosts : Once(outbox'[h], Questioned) /\ ~In(outbox'[h], Wrong(Expect(h)' + 1))
        BY <1>0, <1>w, <2>1, <4>1, <4>9 DEF Asking
      <4>13. QED
        BY <1>0, <2>0, <4>4, <4>9, <4>10, <4>11, <4>12 DEF TurnInv
    <3>5. QED
      BY <3>3, <3>4
  <2>5. QED
    BY <2>3, <2>4
<1>4. CASE Announces
  <2>1. host' = host /\ outbox' = outbox /\ hasty' = hasty
    BY <1>4 DEF Announces
  <2>2. ASSUME NEW h \in Hosts
        PROVE  /\ Told(h)' <=> Told(h)
               /\ In(inbox'[h], Wrong(host[h].selected + 1)) => In(inbox[h], Wrong(host[h].selected + 1))
               /\ Once(inbox[h], Questioned) => Once(inbox'[h], Questioned)
    <3>1. CASE inbox'[h] = inbox[h]
      BY <1>0, <3>1 DEF Told
    <3>2. ASSUME NEW e, Plus(inbox[h], inbox'[h], e), e.ev \in {"everyone_answered", "results_saved_successfully"}
          PROVE  /\ Told(h)' <=> Told(h)
                 /\ In(inbox'[h], Wrong(host[h].selected + 1)) => In(inbox[h], Wrong(host[h].selected + 1))
                 /\ Once(inbox[h], Questioned) => Once(inbox'[h], Questioned)
      <4>1. e \notin Questioned /\ e \notin Wrong(host[h].selected + 1) /\ h \in Pages
        BY <1>0, <3>2 DEF Questioned, Kind, Wrong
      <4>2. /\ In(inbox'[h], Questioned) <=> In(inbox[h], Questioned)
            /\ In(inbox'[h], Wrong(host[h].selected + 1)) <=> In(inbox[h], Wrong(host[h].selected + 1))
            /\ Once(inbox[h], Questioned) => Once(inbox'[h], Questioned)
        BY <3>2, <4>1, GotFacts
      <4>3. QED
        BY <1>0, <4>2, Zenon DEF Told
    <3>3. QED
      BY <1>0, <1>4, <3>1, <3>2, AnnounceTells
  <2>3. \A h \in Hosts : /\ Told(h)' <=> Told(h)
                         /\ In(inbox'[h], Wrong(host[h].selected + 1)) => In(inbox[h], Wrong(host[h].selected + 1))
                         /\ Once(inbox[h], Questioned) => Once(inbox'[h], Questioned)
    BY <2>2
  <2>4. \A h \in Hosts : Asking(h)' <=> Asking(h)
    BY <1>0, <2>1 DEF Asking
  <2>5. QED
    BY <2>1, <2>3, <2>4, TurnSame
<1>5. CASE UNCHANGED vars
  BY <1>0, <1>5, TurnSame DEF vars, Told, Asking
<1>6. QED
  BY <1>1, <1>2, <1>3, <1>4, <1>5 DEF Moves, HostMoves

(***************************************************************************)
(* The second theorem                                                      *)
(***************************************************************************)

ScreenInv == CoreInv /\ BegunInv /\ TurnInv

\* No question is asked for before the first press.
LEMMA ScreenInit ==
    ASSUME Init
    PROVE  ScreenInv
<1>1. CoreInv /\ TypeInv
  BY CoreInit DEF CoreInv
<1>2. \A g \in Pages : Len(inbox[g]) = 0 /\ Len(outbox[g]) = 0
  BY DEF Init, Pages
<1>3. \A h \in Hosts : h \in Pages
  BY <1>1, RoomFacts
<1>4. \A g \in Pages : /\ \A S : ~In(inbox[g], S) /\ Once(inbox[g], S) /\ ~In(outbox[g], S) /\ Once(outbox[g], S)
                       /\ \A A, B : Led(inbox[g], A, B)
  BY <1>2, Empty
<1>5. ASSUME NEW h \in Hosts
      PROVE  /\ host[h].selected = -1 /\ host[h].shown = -1
             /\ host[h].results = None /\ ~host[h].later /\ host[h].timer = "unset"
  <2>1. PICK v : host[h] = [FreshHost EXCEPT !.visible = v]
    BY DEF Init, Hosts
  <2>2. QED
    BY <2>1 DEF FreshHost
<1>6. server.current = -1 /\ server.announce = 0 /\ \A q \in Questions : Listing(q) = {}
  BY DEF Init, NewServer, Listing
<1>7. -1 \notin Questions
  BY <1>1, SceneFacts DEF TypeInv
<1>8. BegunInv
  BY <1>3, <1>4, <1>5, <1>6, <1>7 DEF BegunInv, BegunAt, AnyBegun, Begun
<1>9. TurnInv
  BY <1>3, <1>4, <1>5 DEF TurnInv, HostTurn, Expect, Told, Asking
<1>10. QED
  BY <1>1, <1>8, <1>9 DEF ScreenInv

\* Every step keeps it.
LEMMA ScreenStep ==
    ASSUME ScreenInv, [Step]_vars
    PROVE  ScreenInv'
<1>1. CoreInv' /\ Static /\ Moves /\ TypeInv /\ TypeInv'
  BY CoreStep DEF ScreenInv, CoreInv
<1>2. QED
  BY <1>1, BegunStep, TurnStep DEF ScreenInv

\* Hosts who wait select what is played, and never what does not exist.
LEMMA ScreenShows ==
    ASSUME ScreenInv
    PROVE  ScreensAgree
<1>1. TypeInv /\ CoreInv /\ BegunInv /\ TurnInv
  BY DEF ScreenInv, CoreInv
<1>2. PagesAgree /\ NeverBlank
  BY <1>1, CoreShows
<1>3. ASSUME hasty = 0, InStep, NEW h \in Hosts
      PROVE  host[h].selected = host[h].shown /\ (Crashed(h) => host[h].selected = -1 /\ Disturbed)
  <2>1. host[h].selected = host[h].shown /\ host[h].shown \in Questions \cup {-1}
    BY <1>1, <1>3 DEF TurnInv, HostTurn, TypeInv, HostsOK, HostPages
  <2>2. host[h].timer # "unset" => host[h].selected # -1 \/ Disturbed
    BY <1>1, <1>3 DEF BegunInv, BegunAt
  <2>3. QED
    BY <2>1, <2>2 DEF Crashed
<1>4. SelectedIsPlayed /\ ScreenLives
  BY <1>3 DEF SelectedIsPlayed, ScreenLives
<1>5. QED
  BY <1>2, <1>4 DEF ScreensAgree

\* The screens show what is played: the host's page that presses, all pages that were
\* told of a question, and no page is blank or breaks, but a host's that another game
\* disturbs before the first question.
THEOREM ScreensAgreeAlways == PagesSpec => []ScreensAgree
<1>1. Init => ScreenInv
  BY ScreenInit
<1>2. ScreenInv /\ [Step]_vars => ScreenInv'
  BY ScreenStep
<1>3. ScreenInv => ScreensAgree
  BY ScreenShows
<1>4. QED
  BY <1>1, <1>2, <1>3, PTL DEF PagesSpec

(***************************************************************************)
(* Results, as the hosts see them                                          *)
(***************************************************************************)

\* The last of a kind, seen from before the first message is taken.
LEMMA LastBack ==
    ASSUME NEW s, NEW t, Len(s) \in Nat, Minus(s, t, 1)
    PROVE  \A K, E : /\ LastIs(t, K, E) => LastIs(s, K, E)
                     /\ ~In(t, K) /\ s[1] \in K /\ s[1] \in E => LastIs(s, K, E)
<1> DEFINE m == Len(s)
<1>1. 1 \in 1..m /\ Len(t) = m - 1 /\ m \in Nat /\ \A i \in 1..(m - 1) : t[i] = s[i + 1] /\ i + 1 \in 1..m
  BY DEF Minus
<1>2. \A i \in 1..m : i # 1 => i - 1 \in 1..(m - 1) /\ t[i - 1] = s[i]
  BY <1>1
<1>3. ASSUME NEW K, NEW E, LastIs(t, K, E) PROVE LastIs(s, K, E)
  <2>1. PICK i \in 1..(m - 1) : t[i] \in K /\ t[i] \in E /\ \A j \in 1..(m - 1) : j > i => t[j] \notin K
    BY <1>1, <1>3 DEF LastIs
  <2>2. i + 1 \in 1..m /\ s[i + 1] \in K /\ s[i + 1] \in E
    BY <1>1, <2>1
  <2>3. ASSUME NEW j \in 1..m, j > i + 1 PROVE s[j] \notin K
    <3>1. j # 1 /\ j - 1 > i
      BY <2>3
    <3>2. QED
      BY <1>2, <2>1, <3>1
  <2>4. QED
    BY <2>2, <2>3 DEF LastIs
<1>4. ASSUME NEW K, NEW E, ~In(t, K), s[1] \in K, s[1] \in E PROVE LastIs(s, K, E)
  <2>1. ASSUME NEW j \in 1..m, j > 1 PROVE s[j] \notin K
    <3>1. j - 1 \in 1..(m - 1) /\ t[j - 1] = s[j]
      BY <1>2, <2>1
    <3>2. QED
      BY <1>1, <1>4, <3>1 DEF In
  <2>2. QED
    BY <1>1, <1>4, <2>1 DEF LastIs
<1>5. QED
  BY <1>3, <1>4

Resulted == Kind("question_results")
Marks    == Kinds({"set_question_number", "question_results"})

\* Host h has results, when it has caught up.
After(h) == IF In(inbox[h], Marks) THEN LastIs(inbox[h], Marks, Resulted) ELSE host[h].results # None
AfterInv == InStep => \A g, h \in Hosts : After(g) => After(h)

\* Results come to all hosts or to none.
LEMMA AfterStep ==
    ASSUME TypeInv, TypeInv', Static, Moves, AfterInv
    PROVE  AfterInv'
<1>0. /\ \A h \in Hosts : h \in Pages /\ h \notin Players /\ h \in ToRoom
      /\ \A r \in Players : r \in Pages /\ r \notin Hosts
      /\ Resulted' = Resulted /\ Marks' = Marks /\ Hosts' = Hosts /\ InStep' = InStep
      /\ \A who \in SUBSET Players : who # None
  BY RoomFacts, StaticFacts, NoneIsNothing DEF Resulted, Kind, Marks, Kinds, Static, ToRoom
<1> SUFFICES ASSUME InStep
             PROVE  \A g, h \in Hosts : After(g)' => After(h)'
  BY <1>0 DEF AfterInv
<1>i. \A g, h \in Hosts : After(g) => After(h)
  BY DEF AfterInv
<1>s. ASSUME \A h \in Hosts : After(h)' <=> After(h)
      PROVE  \A g, h \in Hosts : After(g)' => After(h)'
  BY <1>i, <1>s
<1>e. ASSUME NEW h \in Hosts, host'[h].results = host[h].results,
             inbox'[h] = inbox[h] \/ \E e : Plus(inbox[h], inbox'[h], e) /\ e.ev \notin {"set_question_number", "question_results"}
      PROVE  After(h)' <=> After(h)
  <2>1. CASE inbox'[h] = inbox[h]
    BY <1>0, <1>e, <2>1 DEF After
  <2>2. ASSUME NEW e, Plus(inbox[h], inbox'[h], e), e.ev \notin {"set_question_number", "question_results"}
        PROVE  After(h)' <=> After(h)
    <3>1. e \notin Marks /\ h \in Pages
      BY <1>0, <2>2 DEF Marks, Kinds
    <3>2. /\ In(inbox'[h], Marks) <=> In(inbox[h], Marks)
          /\ LastIs(inbox'[h], Marks, Resulted) <=> LastIs(inbox[h], Marks, Resulted)
      BY <2>2, <3>1, GotFacts
    <3>3. QED
      BY <1>0, <1>e, <3>2 DEF After
  <2>3. QED
    BY <1>e, <2>1, <2>2
<1>1. ASSUME NEW r \in Players, PlayActs(r) \/ PlayStops(r) \/ PlayTakes(r) \/ PlayReopens(r)
      PROVE  \A g, h \in Hosts : After(g)' => After(h)'
  <2>1. host' = host /\ \A h \in Hosts : inbox'[h] = inbox[h]
    BY <1>0, <1>1, PlayApart
  <2>2. QED
    BY <1>s, <1>e, <2>1
<1>2. ASSUME NEW h \in Hosts, HostMoves(h)
      PROVE  \A g, k \in Hosts : After(g)' => After(k)'
  <2>1. \A k \in Hosts : k # h => inbox'[k] = inbox[k] /\ host'[k] = host[k]
    BY <1>0, <1>2, HostApart
  <2>2. \A k \in Hosts : k # h => (After(k)' <=> After(k))
    BY <1>e, <2>1
  <2>3. CASE HostSkips(h) \/ HostTicks(h) \/ \E e \in Messages : HostPresses(h, e)
    <3>1. inbox' = inbox /\ host'[h].results = host[h].results
      BY <2>3 DEF HostSkips, HostTicks, HostPresses, HostKept
    <3>2. QED
      BY <1>s, <1>e, <2>2, <3>1
  <2>4. CASE HostTakes(h)
    <3>1. Read(h) /\ 1 \in Places(h) /\ HostTurned(h, host[h], inbox[h][1], host'[h])
      BY <2>4 DEF HostTakes
    <3> DEFINE e == inbox[h][1]
    <3>2. e \in Messages /\ Len(inbox[h]) \in Nat
      BY <1>0, <3>1, KindFacts
    <3>3. /\ In(inbox[h], Marks) <=> In(inbox'[h], Marks) \/ e \in Marks
          /\ LastIs(inbox[h], Marks, Resulted) =>
               IF In(inbox'[h], Marks) THEN LastIs(inbox'[h], Marks, Resulted) ELSE e \in Marks /\ e \in Resulted
      BY <1>0, <3>1, ReadFacts
    <3>4. /\ LastIs(inbox'[h], Marks, Resulted) => LastIs(inbox[h], Marks, Resulted)
          /\ ~In(inbox'[h], Marks) /\ e \in Marks /\ e \in Resulted => LastIs(inbox[h], Marks, Resulted)
      <4>1. Minus(inbox[h], inbox'[h], 1)
        BY <1>0, <3>1 DEF Read
      <4>2. QED
        BY <3>2, <4>1, LastBack
    <3>5. HostTurned(h, host[h], e, host'[h])
      BY <3>1
    <3>6. /\ e \notin Marks => host'[h].results = host[h].results
          /\ e \in Resulted => host'[h].results # None
          /\ e \in Marks /\ e \notin Resulted => host'[h].results = None
      <4>1. e.who \in SUBSET Players
        BY <3>2 DEF Messages
      <4>2. QED
        BY <1>0, <3>2, <3>5, <4>1 DEF HostTurned, Marks, Kinds, Resulted, Kind
    <3> HIDE DEF e
    <3>7. After(h)' <=> After(h)
      BY <1>0, <3>3, <3>4, <3>6 DEF After
    <3>8. QED
      BY <1>s, <2>2, <3>7
  <2>5. QED
    BY <1>2, <2>3, <2>4 DEF HostMoves
<1>3. ASSUME NEW g \in Pages, NEW i \in Slots(g), Handles(g, i)
      PROVE  \A k, h \in Hosts : After(k)' => After(h)'
  <2>0. host' = host
    BY <1>3, ServerApart
  <2>1. CASE HandlesResults(g, i)
    <3>1. PICK e : Sent(ToRoom, e) /\ e.ev = "question_results" /\ e \in Messages
      <4>1. outbox[g][i].ev = "get_question_results" /\ g \in Hosts
        BY <2>1 DEF HandlesResults
      <4>2. outbox[g][i].q \in Questions \cup {-1}
        BY <1>3, <4>1, QuizFacts DEF TypeInv, OutboxOK, HostRequestOK
      <4>3. QED
        BY <2>1, <4>2, EventsFit DEF HandlesResults, Event
    <3>2. e \in Marks /\ e \in Resulted
      BY <3>1 DEF Marks, Kinds, Resulted, Kind
    <3>3. \A h \in Hosts : In(inbox'[h], Marks) /\ LastIs(inbox'[h], Marks, Resulted)
      BY <1>0, <3>1, <3>2, SentFacts
    <3>4. QED
      BY <1>0, <3>3 DEF After
  <2>2. CASE HandlesQuestion(g, i) /\ ~HandlesResults(g, i)
    <3>1. CASE inbox' = inbox
      BY <1>s, <1>e, <2>0, <3>1
    <3>2. CASE outbox[g][i].q \in Questions
      <4>1. PICK gs : \E e \in Messages : Sent(gs, e) /\ e.ev = "set_question_number" /\ \A h \in Hosts : h \in gs
        BY <1>3, <2>2, <3>2, QuestionNews
      <4>2. PICK e \in Messages : Sent(gs, e) /\ e.ev = "set_question_number"
        BY <4>1
      <4>3. e \in Marks /\ e \notin Resulted
        BY <4>2 DEF Marks, Kinds, Resulted, Kind
      <4>4. \A h \in Hosts : In(inbox'[h], Marks) /\ ~LastIs(inbox'[h], Marks, Resulted)
        BY <1>0, <4>1, <4>2, <4>3, SentFacts
      <4>5. QED
        BY <1>0, <4>4 DEF After
    <3>3. QED
      BY <1>3, <2>2, <3>1, <3>2, QuestionNews
  <2>3. CASE ~HandlesQuestion(g, i) /\ ~HandlesResults(g, i)
    <3>1. \A h \in Hosts : inbox'[h] = inbox[h] \/ \E e : Plus(inbox[h], inbox'[h], e) /\ e.ev \notin {"set_question_number", "question_results"}
      BY <1>0, <1>3, <2>3, OtherNews
    <3>2. QED
      BY <1>s, <1>e, <2>0, <3>1
  <2>4. QED
    BY <2>1, <2>2, <2>3
<1>4. CASE Announces
  <2>1. host' = host
    BY <1>4 DEF Announces
  <2>2. ASSUME NEW h \in Hosts
        PROVE  inbox'[h] = inbox[h] \/ \E e : Plus(inbox[h], inbox'[h], e) /\ e.ev \notin {"set_question_number", "question_results"}
    BY <1>0, <1>4, AnnounceTells
  <2>3. QED
    BY <1>s, <1>e, <2>1, <2>2
<1>5. CASE UNCHANGED vars
  BY <1>s, <1>e, <1>5 DEF vars
<1>6. QED
  BY <1>1, <1>2, <1>3, <1>4, <1>5 DEF Moves, HostMoves

(***************************************************************************)
(* The results on their way                                                *)
(***************************************************************************)

Reckoning == Kind("get_question_results")
Astray(n) == {e \in Messages : e.ev = "get_question_results" /\ ~(e.q \in Questions /\ e.q <= n)}

Reckons(g) == In(outbox[g], Reckoning)

\* Results are asked for once, of a question that is over, when the last ones have
\* reached everybody and are added; each page gets them once.
ReckonInv == hasty = 0 /\ InStep =>
    /\ \A g \in Hosts : Once(outbox[g], Reckoning) /\ ~In(outbox[g], Astray(host["admin"].selected))
    /\ \A g, h \in Hosts : Reckons(g) => (Reckons(h) => h = g) /\ ~host[h].adding
    /\ \A g \in Hosts : \A k \in Pages : Reckons(g) => ~In(inbox[k], Resulted)
    /\ \A k \in Pages : Once(inbox[k], Resulted)
    /\ host["admin"].adding => ~In(inbox["admin"], Resulted)
    /\ \A h \in Hosts : h # "admin" => ~host[h].adding /\ host[h].tally = [x \in Players |-> 0]

\* What a press asks for, by its kind.
LEMMA PressAsks ==
    ASSUME NEW h, NEW e, HostPresses(h, e)
    PROVE  /\ e.ev = "get_question_results" => e.q = host[h].shown /\ AsksResults(h)
           /\ e.ev = "set_question_number" => AsksNext(h)
           /\ e.ev = "get_final_results" => AsksFinals(h)
           /\ host'[h].later => host[h].later \/ Hidden(host[h].selected)
BY DEF HostPresses, Plain, Event, NextQuestion, ShowResults

\* The names of what travels stay.
LEMMA KindsStay ==
    ASSUME Static
    PROVE  /\ Resulted' = Resulted /\ Questioned' = Questioned /\ Reckoning' = Reckoning
           /\ \A n : Astray(n)' = Astray(n)
           /\ Pages' = Pages /\ Hosts' = Hosts /\ Questions' = Questions /\ InStep' = InStep
BY StaticFacts DEF Static, Resulted, Questioned, Reckoning, Kind, Astray

\* Where neither results nor requests for them come, it stays so.
LEMMA ReckonSame ==
    ASSUME TypeInv, Static, hasty = 0, InStep, ReckonInv, "admin" \in Hosts,
           host["admin"].selected \in Int, host'["admin"].selected \in Int,
           host["admin"].selected <= host'["admin"].selected,
           \A g \in Hosts : /\ Once(outbox[g], Reckoning) => Once(outbox'[g], Reckoning)
                            /\ \A S : S \subseteq Reckoning /\ In(outbox'[g], S) => In(outbox[g], S),
           \A k \in Pages : /\ Once(inbox[k], Resulted) => Once(inbox'[k], Resulted)
                            /\ In(inbox'[k], Resulted) => In(inbox[k], Resulted),
           \A h \in Hosts : /\ host'[h].adding => host[h].adding
                            /\ h # "admin" => host'[h].tally = host[h].tally
    PROVE  ReckonInv'
<1>1. /\ Resulted' = Resulted /\ Reckoning' = Reckoning /\ (\A n : Astray(n)' = Astray(n))
      /\ Pages' = Pages /\ Hosts' = Hosts
  BY KindsStay
<1>2. /\ \A g \in Hosts : Once(outbox[g], Reckoning) /\ ~In(outbox[g], Astray(host["admin"].selected))
      /\ \A g, h \in Hosts : Reckons(g) => (Reckons(h) => h = g) /\ ~host[h].adding
      /\ \A g \in Hosts : \A k \in Pages : Reckons(g) => ~In(inbox[k], Resulted)
      /\ \A k \in Pages : Once(inbox[k], Resulted)
      /\ host["admin"].adding => ~In(inbox["admin"], Resulted)
      /\ \A h \in Hosts : h # "admin" => ~host[h].adding /\ host[h].tally = [x \in Players |-> 0]
  BY DEF ReckonInv
<1>3. ASSUME NEW g \in Hosts PROVE ~In(outbox'[g], Astray(host'["admin"].selected))
  <2>1. SUFFICES ASSUME In(outbox'[g], Astray(host'["admin"].selected)) PROVE FALSE
    OBVIOUS
  <2>2. PICK i \in 1..Len(outbox'[g]) : outbox'[g][i] \in Astray(host'["admin"].selected)
    BY <2>1 DEF In
  <2>3. outbox'[g][i] \in Astray(host["admin"].selected) /\ outbox'[g][i] \in Reckoning
    <3>1. PICK e \in Messages : e = outbox'[g][i] /\ e \in Astray(host'["admin"].selected)
      BY <2>2 DEF Astray
    <3>2. \A q \in Questions : q \in Int
      BY SceneFacts DEF TypeInv
    <3>3. e \in Astray(host["admin"].selected) /\ e \in Reckoning
      BY <3>1, <3>2 DEF Astray, Reckoning, Kind
    <3>4. QED
      BY <3>1, <3>3
  <2>4. In(outbox'[g], Astray(host["admin"].selected)) /\ Astray(host["admin"].selected) \subseteq Reckoning
    BY <2>2, <2>3 DEF In, Astray, Reckoning, Kind
  <2>5. QED
    BY <1>2, <2>4
<1>4. "admin" \in Pages
  BY DEF Pages
<1>5. /\ \A g \in Hosts : Once(outbox'[g], Reckoning)
      /\ \A k \in Pages : Once(inbox'[k], Resulted)
      /\ \A h \in Hosts : h # "admin" => ~host'[h].adding /\ host'[h].tally = [x \in Players |-> 0]
  BY <1>2
<1>7. \A g \in Hosts : Reckons(g)' => Reckons(g)
  BY <1>1 DEF Reckons
<1>6. /\ \A g, h \in Hosts : Reckons(g)' => (Reckons(h)' => h = g) /\ ~host'[h].adding
      /\ \A g \in Hosts : \A k \in Pages : Reckons(g)' => ~In(inbox'[k], Resulted)
      /\ host'["admin"].adding => ~In(inbox'["admin"], Resulted)
  BY <1>2, <1>4, <1>7
<1>8. QED
  BY <1>1, <1>3, <1>5, <1>6 DEF ReckonInv

\* Results are asked for and told in turn, through every step.
LEMMA ReckonStep ==
    ASSUME TypeInv, TypeInv', Static, Moves, TurnInv, ReckonInv
    PROVE  ReckonInv'
<1>0. /\ \A h \in Hosts : h \in Pages /\ h \notin Players /\ h \in ToRoom
      /\ \A r \in Players : r \in Pages /\ r \notin Hosts
      /\ "admin" \in Hosts /\ (\A h \in Hosts : host[h].selected \in Int /\ host'[h].selected \in Int)
  <2>1. host \in [Hosts -> HostPages] /\ host' \in [Hosts -> HostPages]
    BY TypesStay DEF TypeInv, HostsOK, Static
  <2>2. \A h \in Hosts : host[h].selected \in Int /\ host'[h].selected \in Int
    BY <2>1 DEF HostPages
  <2>3. QED
    BY <2>2, RoomFacts DEF ToRoom
<1>k. /\ Resulted' = Resulted /\ Questioned' = Questioned /\ Reckoning' = Reckoning
      /\ \A n : Astray(n)' = Astray(n)
      /\ Pages' = Pages /\ Hosts' = Hosts /\ Questions' = Questions /\ InStep' = InStep
  BY KindsStay
<1> SUFFICES ASSUME hasty' = 0, InStep
             PROVE  ReckonInv'
  BY <1>k DEF ReckonInv
<1>h. hasty = 0
  <2>1. CASE \E h \in Hosts : \E e \in Messages : HostPresses(h, e)
    BY <2>1 DEF HostPresses
  <2>2. CASE UNCHANGED vars
    BY <2>2 DEF vars
  <2>3. CASE ~\E h \in Hosts : \E e \in Messages : HostPresses(h, e)
    BY <2>2, <2>3 DEF Moves, PlayActs, PlayStops, PlayTakes, PlayReopens, HostSkips, HostTicks, HostTakes,
                  Handles, HandlesOne, Announces
  <2>4. QED
    BY <2>1, <2>3
<1> DEFINE Reckon6 ==
      /\ \A g \in Hosts : Once(outbox[g], Reckoning) /\ ~In(outbox[g], Astray(host["admin"].selected))
      /\ \A g, h \in Hosts : Reckons(g) => (Reckons(h) => h = g) /\ ~host[h].adding
      /\ \A g \in Hosts : \A k \in Pages : Reckons(g) => ~In(inbox[k], Resulted)
      /\ \A k \in Pages : Once(inbox[k], Resulted)
      /\ host["admin"].adding => ~In(inbox["admin"], Resulted)
      /\ \A h \in Hosts : h # "admin" => ~host[h].adding /\ host[h].tally = [x \in Players |-> 0]
<1>r. Reckon6
  BY <1>h DEF ReckonInv
<1>t. /\ \A h \in Hosts : HostTurn(h)
      /\ \A g, h \in Hosts : Expect(g) = Expect(h)
  BY <1>h DEF TurnInv
<1>1. ASSUME NEW r \in Players, PlayActs(r) \/ PlayStops(r) \/ PlayTakes(r) \/ PlayReopens(r)
      PROVE  ReckonInv'
  <2>1. host' = host /\ \A g \in Pages : g # r => inbox'[g] = inbox[g] /\ outbox'[g] = outbox[g]
    BY <1>0, <1>1, PlayApart
  <2>2. (Once(inbox[r], Resulted) => Once(inbox'[r], Resulted)) /\ (In(inbox'[r], Resulted) => In(inbox[r], Resulted))
    <3>1. CASE PlayActs(r)
      BY <3>1 DEF PlayActs
    <3>2. CASE PlayStops(r) \/ PlayTakes(r)
      <4>1. Read(r) /\ r \in Pages
        BY <1>0, <3>2 DEF PlayStops, PlayTakes
      <4>2. QED
        BY <4>1, ReadFacts
    <3>3. CASE PlayReopens(r)
      BY <1>0, <3>3, ReopenFacts
    <3>4. QED
      BY <1>1, <3>1, <3>2, <3>3
  <2>3. \A g \in Hosts : outbox'[g] = outbox[g]
    BY <1>0, <2>1
  <2>4. \A k \in Pages : (Once(inbox[k], Resulted) => Once(inbox'[k], Resulted)) /\ (In(inbox'[k], Resulted) => In(inbox[k], Resulted))
    BY <2>1, <2>2
  <2>5. QED
    BY <1>0, <1>h, <2>1, <2>3, <2>4, ReckonSame
<1>2. ASSUME NEW h \in Hosts, HostMoves(h)
      PROVE  ReckonInv'
  <2>1. \A k \in Hosts : k # h => inbox'[k] = inbox[k] /\ outbox'[k] = outbox[k] /\ host'[k] = host[k]
    BY <1>0, <1>2, HostApart
  <2>2. ASSUME NEW e, HostKept(h), inbox' = inbox, Asked(h, e), e.ev # "get_question_results"
        PROVE  ReckonInv'
    <3>1. e \notin Reckoning
      BY <2>2 DEF Reckoning, Kind
    <3>2. \A g \in Hosts : /\ Once(outbox[g], Reckoning) => Once(outbox'[g], Reckoning)
                           /\ \A S : S \subseteq Reckoning /\ In(outbox'[g], S) => In(outbox[g], S)
      BY <1>0, <2>2, <3>1, AskedFacts
    <3>3. \A k \in Hosts : host'[k].adding = host[k].adding /\ host'[k].tally = host[k].tally /\ host'[k].selected = host[k].selected
      BY <2>2 DEF HostKept
    <3>4. QED
      BY <1>0, <1>h, <2>2, <3>2, <3>3, ReckonSame
  <2>3. CASE \E e \in Messages : HostPresses(h, e) /\ e.ev # "get_question_results"
    BY <2>2, <2>3 DEF HostPresses
  <2>4. CASE HostSkips(h)
    <3>1. NextQuestion(h).ev # "get_question_results"
      BY DEF NextQuestion, Event
    <3>2. QED
      BY <2>2, <2>4, <3>1 DEF HostSkips
  <2>5. ASSUME NEW e \in Messages, HostPresses(h, e), e.ev = "get_question_results"
        PROVE  ReckonInv'
    <3>1. Quiet /\ inbox' = inbox /\ Asked(h, e) /\ HostKept(h) /\ host' = host' /\ e.q = host[h].shown /\ AsksResults(h)
      BY <2>5, PressAsks DEF HostPresses
    <3>2. \A g \in Pages : \A S : ~In(inbox[g], S) /\ ~In(outbox[g], S) /\ Once(inbox[g], S) /\ Once(outbox[g], S)
      BY <3>1, QuietFacts
    <3>3. \A g \in Hosts : ~host[g].adding
      BY <3>1, QuietFacts
    <3>4. \A g \in Hosts : ~host'[g].adding /\ host'[g].tally = host[g].tally /\ host'[g].selected = host[g].selected
      BY <3>1, <3>3 DEF HostKept
    <3>5. \A g \in Hosts : g # h => ~Reckons(g)' /\ outbox'[g] = outbox[g]
      BY <1>0, <1>k, <2>1, <3>2 DEF Reckons
    <3>6. Once(outbox'[h], Reckoning)
      BY <1>0, <3>1, <3>2, AskedFacts
    <3>7. ~In(outbox'[h], Astray(host["admin"].selected))
      <4>1. host[h].selected # -1 /\ host[h].selected = host[h].shown /\ host[h].shown \in Questions \cup {-1}
        BY <1>t, <3>1 DEF AsksResults, HostTurn, TypeInv, HostsOK, HostPages
      <4>2. host[h].selected = host["admin"].selected
        BY <1>0, <1>t, <3>2 DEF Expect, Told
      <4>3. e.q \in Questions /\ e.q <= host["admin"].selected
        BY <1>0, <3>1, <4>1, <4>2
      <4>4. e \notin Astray(host["admin"].selected)
        BY <4>3 DEF Astray
      <4>5. QED
        BY <1>0, <3>1, <3>2, <4>4, AskedFacts
    <3>8. \A g \in Hosts : Once(outbox'[g], Reckoning) /\ ~In(outbox'[g], Astray(host'["admin"].selected))
      BY <1>0, <3>2, <3>4, <3>5, <3>6, <3>7
    <3>9. \A k \in Pages : Once(inbox'[k], Resulted) /\ ~In(inbox'[k], Resulted)
      BY <3>1, <3>2
    <3>10. \A g \in Hosts : g # "admin" => ~host'[g].adding /\ host'[g].tally = [x \in Players |-> 0]
      BY <1>r, <3>4
    <3>11. \A g, k \in Hosts : Reckons(g)' => (Reckons(k)' => k = g) /\ ~host'[k].adding
      BY <3>4, <3>5
    <3>12. QED
      BY <1>0, <1>k, <3>4, <3>8, <3>9, <3>10, <3>11 DEF ReckonInv
  <2>6. CASE HostTicks(h)
    <3>1. inbox' = inbox /\ outbox' = outbox
      BY <2>6 DEF HostTicks
    <3>2. \A k \in Hosts : host'[k].selected = host[k].selected /\ (host'[k].adding => host[k].adding)
      BY <2>1, <2>6 DEF HostTicks
    <3>3. \A k \in Hosts : k # "admin" => host'[k].tally = host[k].tally
      BY <1>r, <2>1, <2>6 DEF HostTicks
    <3>4. QED
      BY <1>0, <1>h, <3>1, <3>2, <3>3, ReckonSame
  <2>7. CASE HostTakes(h)
    <3>1. Read(h) /\ 1 \in Places(h) /\ HostTurned(h, host[h], inbox[h][1], host'[h]) /\ outbox' = outbox
      BY <2>7 DEF HostTakes
    <3> DEFINE e == inbox[h][1]
    <3>2. e \in Messages
      BY <1>0, <3>1, KindFacts
    <3>3. \A k \in Pages : \A S : /\ In(inbox'[k], S) => In(inbox[k], S)
                                  /\ Once(inbox[k], S) => Once(inbox'[k], S) /\ (k = h /\ e \in S => ~In(inbox'[k], S))
      BY <1>0, <3>1, ReadFacts
    <3>4. HostTurned(h, host[h], e, host'[h]) /\ (e \in Resulted <=> e.ev = "question_results")
          /\ (e \in Resulted => In(inbox[h], Resulted))
      BY <1>0, <3>1, <3>2, KindFacts DEF Resulted, Kind
    <3>5. /\ host'[h].tally = host[h].tally /\ host[h].selected <= host'[h].selected
          /\ (host'[h].adding => host[h].adding \/ (e \in Resulted /\ h = "admin"))
      BY <1>0, <3>4 DEF HostTurned, Mounts
    <3> HIDE DEF e
    <3>6. CASE e \notin Resulted
      <4>1. \A k \in Hosts : host'[k].tally = host[k].tally /\ (host'[k].adding => host[k].adding)
        BY <2>1, <3>5, <3>6
      <4>2. host["admin"].selected <= host'["admin"].selected
        BY <1>0, <2>1, <3>5
      <4>3. QED
        BY <1>0, <1>h, <3>1, <3>3, <4>1, <4>2, ReckonSame
    <3>7. CASE e \in Resulted
      <4>1. (\A g \in Hosts : ~Reckons(g)) /\ (\A g \in Hosts : ~Reckons(g)') /\ ~In(inbox'[h], Resulted)
        BY <1>0, <1>k, <1>r, <3>1, <3>3, <3>4, <3>7 DEF Reckons
      <4>2. \A g \in Hosts : Once(outbox'[g], Reckoning) /\ ~In(outbox'[g], Astray(host'["admin"].selected))
        <5>1. \A g \in Hosts : ~In(outbox'[g], Reckoning)
          BY <1>k, <4>1 DEF Reckons
        <5>2. \A n : Astray(n) \subseteq Reckoning
          BY DEF Astray, Reckoning, Kind
        <5>3. QED
          BY <1>r, <3>1, <5>1, <5>2 DEF In
      <4>3. \A k \in Pages : Once(inbox'[k], Resulted)
        BY <1>r, <3>3
      <4>4. host'["admin"].adding => ~In(inbox'["admin"], Resulted)
        <5>1. CASE h = "admin"
          BY <4>1, <5>1
        <5>2. CASE h # "admin"
          <6>1. inbox'["admin"] = inbox["admin"] /\ host'["admin"] = host["admin"]
            BY <1>0, <2>1, <5>2
          <6>2. QED
            BY <1>r, <6>1
        <5>3. QED
          BY <5>1, <5>2
      <4>5. \A k \in Hosts : k # "admin" => ~host'[k].adding /\ host'[k].tally = [x \in Players |-> 0]
        <5>1. \A k \in Hosts : host'[k].tally = host[k].tally /\ (host'[k].adding => host[k].adding \/ k = "admin")
          BY <2>1, <3>5
        <5>2. QED
          BY <1>r, <5>1
      <4>6. QED
        BY <1>k, <4>1, <4>2, <4>3, <4>4, <4>5 DEF ReckonInv
    <3>8. QED
      BY <3>6, <3>7
  <2>8. QED
    BY <1>2, <2>3, <2>4, <2>5, <2>6, <2>7 DEF HostMoves
<1>3. ASSUME NEW g \in Pages, NEW i \in Slots(g), Handles(g, i)
      PROVE  ReckonInv'
  <2>0. host' = host /\ Done(g, i)
    BY <1>3, ServerApart DEF Handles, HandlesOne
  <2>1. \A h \in Hosts : \A S :
            /\ In(outbox[h], S) <=> In(outbox'[h], S) \/ (g = h /\ outbox[g][i] \in S)
            /\ Once(outbox[h], S) => Once(outbox'[h], S) /\ (g = h /\ outbox[g][i] \in S => ~In(outbox'[h], S))
    BY <1>0, <1>3, <2>0, DoneFacts
  <2>2. CASE ~HandlesResults(g, i)
    <3>1. \A k \in Pages : inbox'[k] = inbox[k] \/ \E e : Plus(inbox[k], inbox'[k], e) /\ e.ev # "question_results"
      <4>1. CASE HandlesQuestion(g, i)
        BY <4>1 DEF HandlesQuestion, Sent, Event
      <4>2. CASE ~HandlesQuestion(g, i)
        BY <1>0, <1>3, <2>2, <4>2, OtherNews
      <4>3. QED
        BY <4>1, <4>2
    <3>2. ASSUME NEW k \in Pages
          PROVE  (Once(inbox[k], Resulted) => Once(inbox'[k], Resulted)) /\ (In(inbox'[k], Resulted) => In(inbox[k], Resulted))
      <4>1. CASE inbox'[k] = inbox[k]
        BY <4>1
      <4>2. ASSUME NEW e, Plus(inbox[k], inbox'[k], e), e.ev # "question_results"
            PROVE  (Once(inbox[k], Resulted) => Once(inbox'[k], Resulted)) /\ (In(inbox'[k], Resulted) => In(inbox[k], Resulted))
        <5>1. e \notin Resulted
          BY <4>2 DEF Resulted, Kind
        <5>2. Once(inbox[k], Resulted) => Once(inbox'[k], Resulted)
          BY <4>2, <5>1, GotFacts
        <5>3. In(inbox'[k], Resulted) => In(inbox[k], Resulted)
          BY <4>2, <5>1, GotFacts
        <5>4. QED
          BY <5>2, <5>3
      <4>3. QED
        BY <3>1, <4>1, <4>2
    <3>3. QED
      BY <1>0, <1>h, <2>0, <2>1, <3>2, ReckonSame
  <2>3. CASE HandlesResults(g, i)
    <3>1. g \in Hosts /\ outbox[g][i].ev = "get_question_results"
      BY <2>3 DEF HandlesResults
    <3>2. outbox[g][i] \in Reckoning /\ Reckons(g)
      BY <1>0, <1>3, <3>1, KindFacts DEF Reckoning, Kind, Reckons
    <3>3. \A h \in Hosts : ~Reckons(h)'
      BY <1>k, <1>r, <2>1, <3>1, <3>2 DEF Reckons
    <3>4. PICK e : Sent(ToRoom, e)
      BY <2>3 DEF HandlesResults
    <3>5. \A k \in Pages : Once(inbox'[k], Resulted)
      BY <1>r, <3>1, <3>2, <3>4, SentFacts
    <3>6. \A h \in Hosts : Once(outbox'[h], Reckoning) /\ ~In(outbox'[h], Astray(host'["admin"].selected))
      BY <1>r, <2>0, <2>1
    <3>7. \A h \in Hosts : ~host'[h].adding /\ host'[h].tally = host[h].tally
      BY <1>r, <2>0, <3>1, <3>2
    <3>8. \A h \in Hosts : h # "admin" => host'[h].tally = [x \in Players |-> 0]
      BY <1>r, <3>7
    <3>9. QED
      BY <1>0, <1>k, <3>3, <3>5, <3>6, <3>7, <3>8 DEF ReckonInv
  <2>4. QED
    BY <2>2, <2>3
<1>4. CASE Announces
  <2>1. host' = host /\ outbox' = outbox
    BY <1>4 DEF Announces
  <2>2. Plain("everyone_answered") \notin Resulted /\ Plain("results_saved_successfully") \notin Resulted
    BY DEF Resulted, Kind, Plain, Event
  <2>3. ASSUME NEW k \in Pages
        PROVE  (Once(inbox[k], Resulted) => Once(inbox'[k], Resulted)) /\ (In(inbox'[k], Resulted) => In(inbox[k], Resulted))
    BY <1>4, <2>2, AnnounceNews, SentFacts
  <2>4. QED
    BY <1>0, <1>h, <2>1, <2>3, ReckonSame
<1>5. CASE UNCHANGED vars
  BY <1>0, <1>h, <1>5, ReckonSame DEF vars
<1>6. QED
  BY <1>1, <1>2, <1>3, <1>4, <1>5 DEF Moves, HostMoves

(***************************************************************************)
(* The scores on the pages                                                 *)
(***************************************************************************)

Bears(x)  == {e \in Messages : e.ev = "question_results" /\ x \in e.who}

\* What page g is about to count for player x: a result on its way, and the one the
\* host's page shows and has not added yet.
Owed(g, x) == IF In(inbox[g], Bears(x)) THEN 1 ELSE 0
Adding(x)  == IF host["admin"].adding /\ host["admin"].results # None /\ x \in host["admin"].results
              THEN 1 ELSE 0

\* The score of player x on a play page and on the host's page, when they have caught up.
DuePlay(p, x) == play[p].tally[x] + Owed(p, x)
DueHost(x)    == host["admin"].tally[x] + Owed("admin", x) + Adding(x)

\* These are numbers.
LEMMA DueTypes ==
    ASSUME TypeInv, NEW x \in Players
    PROVE  /\ \A p \in Players : play[p].tally \in [Players -> Nat] /\ play[p].tally[x] \in Nat /\ DuePlay(p, x) \in Nat
           /\ \A h \in Hosts : host[h].tally \in [Players -> Nat] /\ host[h].tally[x] \in Nat
           /\ DueHost(x) \in Nat /\ Adding(x) \in {0, 1} /\ \A g : Owed(g, x) \in {0, 1}
<1>1. "admin" \in Hosts
  BY RoomFacts
<1>2. \A p \in Players : play[p].tally \in [Players -> Nat]
  BY DEF TypeInv, PlayOK, PlayPages
<1>3. \A h \in Hosts : host[h].tally \in [Players -> Nat]
  BY DEF TypeInv, HostsOK, HostPages
<1>4. Adding(x) \in {0, 1} /\ \A g : Owed(g, x) \in {0, 1}
  BY DEF Adding, Owed
<1>5. QED
  BY <1>1, <1>2, <1>3, <1>4 DEF DuePlay, DueHost

\* What is no result bears none, and a result bears the points of its list.
LEMMA BearsFacts ==
    /\ \A x, e : e \in Bears(x) => e \in Resulted
    /\ \A x : \A e \in Messages : e \in Bears(x) <=> e \in Resulted /\ x \in e.who
    /\ \A x, s : In(s, Bears(x)) => In(s, Resulted)
    /\ \A x, s : Once(s, Resulted) => Once(s, Bears(x))
BY DEF Bears, Resulted, Kind, In, Once

\* A page counts each player of a list.
LEMMA CountedFacts ==
    ASSUME NEW tally \in [Players -> Nat], NEW who, NEW x \in Players
    PROVE  Counted(tally, who)[x] = tally[x] + (IF x \in who THEN 1 ELSE 0)
BY DEF Counted

\* A play page adds what it is told, once: its score, caught up, stays.
LEMMA DuePlayMoves ==
    ASSUME TypeInv, TypeInv', Static, NEW r \in Players, Once(inbox[r], Resulted),
           PlayActs(r) \/ PlayStops(r) \/ PlayTakes(r) \/ PlayReopens(r), NEW x \in Players
    PROVE  /\ \A p \in Players : p # r => DuePlay(p, x)' = DuePlay(p, x)
           /\ DuePlay(r, x)' <= DuePlay(r, x)
           /\ \/ DuePlay(r, x)' = DuePlay(r, x)
              \/ PlayReopens(r)
              \/ 1 \in Places(r) /\ inbox[r][1] \in Resulted
                   /\ ~(~play[r].finals /\ play[r].started /\ play[r].q # None)
           /\ DueHost(x)' = DueHost(x)
<1>0. /\ r \in Pages /\ "admin" \in Pages /\ "admin" # r
      /\ \A p \in Players : p \in Pages
      /\ Bears(x)' = Bears(x)
  BY RoomFacts, PagesApart DEF TypeInv, Bears
<1>1. /\ host' = host /\ \A g \in Pages : g # r => inbox'[g] = inbox[g]
      /\ \A p \in Players : p # r => Stays(p)
  BY PlayApart
<1>2. \A g \in Pages : g # r => Owed(g, x)' = Owed(g, x)
  BY <1>0, <1>1 DEF Owed
<1>3. DueHost(x)' = DueHost(x)
  BY <1>0, <1>1, <1>2 DEF DueHost, Adding
<1>4. \A p \in Players : p # r => DuePlay(p, x)' = DuePlay(p, x)
  BY <1>0, <1>1, <1>2 DEF DuePlay, Stays
<1>5. /\ play[r].tally \in [Players -> Nat] /\ play[r].tally[x] \in Nat
      /\ Owed(r, x) \in {0, 1} /\ Owed(r, x)' \in {0, 1}
  BY DueTypes DEF Owed
<1>6. ASSUME play'[r].tally = play[r].tally, In(inbox'[r], Bears(x)) <=> In(inbox[r], Bears(x))
      PROVE  DuePlay(r, x)' = DuePlay(r, x) /\ DuePlay(r, x)' <= DuePlay(r, x)
  BY <1>0, <1>5, <1>6 DEF DuePlay, Owed
<1>7. CASE PlayActs(r)
  BY <1>3, <1>4, <1>6, <1>7 DEF PlayActs, PlayKept
<1>8. CASE PlayReopens(r)
  <2>0. ~In(inbox'[r], Bears(x))
    BY <1>0, <1>8, ReopenFacts
  <2>1. play'[r].tally = [y \in Players |-> 0] /\ ~In(inbox'[r], Bears(x))
    BY <1>8, <2>0 DEF PlayReopens
  <2>2. DuePlay(r, x)' = 0
    BY <1>0, <2>1 DEF DuePlay, Owed
  <2>3. QED
    BY <1>3, <1>4, <1>5, <1>8, <2>2 DEF DuePlay
<1>9. CASE PlayStops(r) \/ PlayTakes(r)
  <2>1. 1 \in Places(r) /\ Read(r)
    BY <1>9 DEF PlayStops, PlayTakes
  <2> DEFINE e == inbox[r][1]
  <2>2. e \in Messages
    BY <1>0, <2>1, KindFacts
  <2>3. /\ In(inbox[r], Bears(x)) <=> In(inbox'[r], Bears(x)) \/ e \in Bears(x)
        /\ Once(inbox[r], Bears(x)) => (e \in Bears(x) => ~In(inbox'[r], Bears(x)))
        /\ Once(inbox[r], Resulted) => (e \in Resulted => ~In(inbox'[r], Resulted))
    BY <1>0, <2>1, ReadFacts
  <2>4. e \in Bears(x) <=> e \in Resulted /\ x \in e.who
    BY <2>2, BearsFacts
  <2>5. e \in Resulted <=> e.ev = "question_results"
    BY <2>2 DEF Resulted, Kind
  <2>6. CASE e \notin Resulted
    <3>1. play'[r].tally = play[r].tally
      <4>1. CASE PlayStops(r)
        BY <4>1 DEF PlayStops, PlayKept
      <4>2. CASE PlayTakes(r)
        BY <2>5, <2>6, <4>2 DEF PlayTakes, Turned
      <4>3. QED
        BY <1>9, <4>1, <4>2
    <3>2. In(inbox'[r], Bears(x)) <=> In(inbox[r], Bears(x))
      BY <2>3, <2>4, <2>6
    <3>3. QED
      BY <1>3, <1>4, <1>6, <3>1, <3>2
  <2>7. CASE e \in Resulted
    <3>1. ~In(inbox'[r], Bears(x)) /\ (In(inbox[r], Bears(x)) <=> x \in e.who)
      BY <2>3, <2>4, <2>7, BearsFacts
    <3>2. Owed(r, x)' = 0 /\ Owed(r, x) = IF x \in e.who THEN 1 ELSE 0
      BY <1>0, <3>1 DEF Owed
    <3>3. PlayTakes(r)
      BY <1>9, <2>5, <2>7 DEF PlayStops
    <3>4. play'[r].tally = IF ~play[r].finals /\ play[r].started /\ play[r].q # None
                           THEN Counted(play[r].tally, e.who) ELSE play[r].tally
      BY <2>5, <2>7, <3>3 DEF PlayTakes, Turned
    <3>5. Counted(play[r].tally, e.who)[x] = play[r].tally[x] + (IF x \in e.who THEN 1 ELSE 0)
      BY <1>5, CountedFacts
    <3> HIDE DEF e
    <3>6. CASE ~play[r].finals /\ play[r].started /\ play[r].q # None
      <4>1. play'[r].tally[x] = play[r].tally[x] + (IF x \in e.who THEN 1 ELSE 0)
        BY <3>4, <3>5, <3>6
      <4>2. DuePlay(r, x)' = DuePlay(r, x) /\ DuePlay(r, x)' <= DuePlay(r, x)
        BY <1>5, <3>2, <4>1 DEF DuePlay
      <4>3. QED
        BY <1>3, <1>4, <4>2
    <3>7. CASE ~(~play[r].finals /\ play[r].started /\ play[r].q # None)
      <4>1. play'[r].tally = play[r].tally
        BY <3>4, <3>7
      <4>2. DuePlay(r, x)' <= DuePlay(r, x)
        BY <1>5, <3>2, <4>1 DEF DuePlay
      <4>3. QED
        BY <1>3, <1>4, <2>1, <2>7, <3>7, <4>2 DEF e
    <3>8. QED
      BY <3>6, <3>7
  <2>8. QED
    BY <2>6, <2>7
<1>10. QED
  BY <1>7, <1>8, <1>9

\* So does the host's page.
LEMMA DueHostMoves ==
    ASSUME TypeInv, TypeInv', Static, NEW h \in Hosts, HostMoves(h), Once(inbox["admin"], Resulted),
           host["admin"].adding => ~In(inbox["admin"], Resulted), NEW x \in Players
    PROVE  /\ \A p \in Players : DuePlay(p, x)' = DuePlay(p, x)
           /\ DueHost(x)' <= DueHost(x)
           /\ \/ DueHost(x)' = DueHost(x)
              \/ 1 \in Places("admin") /\ HostTakes("admin")
                   /\ \/ inbox["admin"][1] \in Resulted /\ ~Mounts("admin", host["admin"].selected)
                      \/ inbox["admin"][1] \in Questioned /\ host["admin"].adding
<1>0. /\ h \in Pages /\ h \notin Players /\ "admin" \in Pages /\ "admin" \in Hosts
      /\ \A p \in Players : p \in Pages /\ p # h
      /\ Bears(x)' = Bears(x)
  BY RoomFacts, PagesApart DEF TypeInv, Bears
<1>1. /\ play' = play /\ \A g \in Pages : g # h => inbox'[g] = inbox[g]
      /\ \A k \in Hosts : k # h => host'[k] = host[k]
  BY HostApart
<1>2. \A p \in Players : DuePlay(p, x)' = DuePlay(p, x)
  BY <1>0, <1>1 DEF DuePlay, Owed
<1>3. /\ host["admin"].tally \in [Players -> Nat] /\ host["admin"].tally[x] \in Nat
      /\ Owed("admin", x) \in {0, 1} /\ Owed("admin", x)' \in {0, 1} /\ Adding(x) \in {0, 1}
      /\ DueHost(x) \in Nat
  BY <1>0, DueTypes DEF Owed
<1>4. ASSUME host'["admin"].tally[x] = host["admin"].tally[x], Adding(x)' = Adding(x), Owed("admin", x)' = Owed("admin", x)
      PROVE  DueHost(x)' = DueHost(x) /\ DueHost(x)' <= DueHost(x)
  BY <1>3, <1>4 DEF DueHost
<1>5. CASE h # "admin"
  <2>1. host'["admin"] = host["admin"] /\ inbox'["admin"] = inbox["admin"]
    BY <1>0, <1>1, <1>5
  <2>2. QED
    BY <1>0, <1>2, <1>4, <2>1 DEF Adding, Owed
<1>6. CASE h = "admin" /\ ~HostTakes(h)
  <2>1. CASE HostSkips(h) \/ \E e \in Messages : HostPresses(h, e)
    <3>1. inbox' = inbox /\ host'["admin"].tally = host["admin"].tally
          /\ host'["admin"].adding = host["admin"].adding /\ host'["admin"].results = host["admin"].results
      BY <1>6, <2>1 DEF HostSkips, HostPresses, HostKept
    <3>2. QED
      BY <1>0, <1>2, <1>4, <3>1 DEF Adding, Owed
  <2>2. CASE HostTicks(h)
    <3>1. inbox' = inbox /\ host'["admin"].results = host["admin"].results
      BY <1>6, <2>2 DEF HostTicks
    <3>2. Owed("admin", x)' = Owed("admin", x)
      BY <1>0, <3>1 DEF Owed
    <3>3. CASE host'["admin"].adding = host["admin"].adding /\ host'["admin"].tally = host["admin"].tally
      BY <1>2, <1>4, <3>1, <3>2, <3>3 DEF Adding
    <3>4. CASE /\ host["admin"].adding /\ ~host'["admin"].adding
               /\ host'["admin"].tally = IF host["admin"].results = None THEN host["admin"].tally
                                         ELSE Counted(host["admin"].tally, host["admin"].results)
      <4>1. Adding(x)' = 0
        BY <3>4 DEF Adding
      <4>2. CASE host["admin"].results = None
        BY <1>2, <1>4, <3>2, <3>4, <4>1, <4>2 DEF Adding
      <4>3. CASE host["admin"].results # None
        <5>1. host'["admin"].tally[x] = host["admin"].tally[x] + (IF x \in host["admin"].results THEN 1 ELSE 0)
          BY <1>3, <3>4, <4>3, CountedFacts
        <5>2. Adding(x) = IF x \in host["admin"].results THEN 1 ELSE 0
          BY <3>4, <4>3 DEF Adding
        <5>3. DueHost(x)' = DueHost(x)
          BY <1>3, <3>2, <4>1, <5>1, <5>2 DEF DueHost
        <5>4. QED
          BY <1>2, <1>3, <5>3
      <4>4. QED
        BY <4>2, <4>3
    <3>5. QED
      BY <1>6, <2>2, <3>3, <3>4 DEF HostTicks
  <2>3. QED
    BY <1>6, <2>1, <2>2 DEF HostMoves
<1>7. CASE h = "admin" /\ HostTakes(h)
  <2>1. 1 \in Places("admin") /\ Read("admin") /\ HostTurned("admin", host["admin"], inbox["admin"][1], host'["admin"])
    BY <1>7 DEF HostTakes
  <2> DEFINE e == inbox["admin"][1]
  <2>2. e \in Messages
    BY <1>0, <2>1, KindFacts
  <2>3. /\ In(inbox["admin"], Bears(x)) <=> In(inbox'["admin"], Bears(x)) \/ e \in Bears(x)
        /\ e \in Resulted => ~In(inbox'["admin"], Resulted) /\ In(inbox["admin"], Resulted)
    BY <1>0, <2>1, ReadFacts
  <2>4. e \in Bears(x) <=> e \in Resulted /\ x \in e.who
    BY <2>2, BearsFacts
  <2>5. (e \in Resulted <=> e.ev = "question_results") /\ (e \in Questioned <=> e.ev = "set_question_number")
        /\ e.who # None
    BY <2>2, NoneIsNothing DEF Resulted, Questioned, Kind, Messages
  <2>6. HostTurned("admin", host["admin"], e, host'["admin"])
    BY <2>1
  <2>t. host'["admin"].tally[x] = host["admin"].tally[x]
    BY <2>6 DEF HostTurned
  <2> HIDE DEF e
  <2>7. CASE e \notin Resulted
    <3>1. Owed("admin", x)' = Owed("admin", x)
      BY <1>0, <2>3, <2>4, <2>7 DEF Owed
    <3>2. (host'["admin"].adding <=> host["admin"].adding)
          /\ (host'["admin"].results = IF e \in Questioned THEN None ELSE host["admin"].results)
      BY <2>5, <2>6, <2>7 DEF HostTurned
    <3>3. CASE e \notin Questioned \/ ~host["admin"].adding
      <4>1. Adding(x)' = Adding(x)
        BY <3>2, <3>3 DEF Adding
      <4>2. QED
        BY <1>2, <1>4, <2>t, <3>1, <4>1
    <3>4. CASE e \in Questioned /\ host["admin"].adding
      <4>1. Adding(x)' = 0
        BY <3>2, <3>4 DEF Adding
      <4>2. DueHost(x)' <= DueHost(x)
        BY <1>3, <2>t, <3>1, <4>1 DEF DueHost
      <4>3. QED
        BY <1>2, <1>7, <2>1, <3>4, <4>2 DEF e
    <3>5. QED
      BY <3>3, <3>4
  <2>8. CASE e \in Resulted
    <3>1. ~host["admin"].adding /\ Adding(x) = 0
      BY <2>3, <2>8 DEF Adding
    <3>2. Owed("admin", x)' = 0 /\ Owed("admin", x) = IF x \in e.who THEN 1 ELSE 0
      <4>1. ~In(inbox'["admin"], Bears(x)) /\ (In(inbox["admin"], Bears(x)) <=> x \in e.who)
        BY <2>3, <2>4, <2>8, BearsFacts
      <4>2. QED
        BY <1>0, <4>1 DEF Owed
    <3>3. host'["admin"].results = e.who /\ (host'["admin"].adding <=> Mounts("admin", host["admin"].selected))
      BY <2>5, <2>6, <2>8, <3>1 DEF HostTurned
    <3>4. CASE Mounts("admin", host["admin"].selected)
      <4>1. Adding(x)' = IF x \in e.who THEN 1 ELSE 0
        BY <2>5, <3>3, <3>4 DEF Adding
      <4>2. DueHost(x)' = DueHost(x) /\ DueHost(x)' <= DueHost(x)
        BY <1>3, <2>t, <3>1, <3>2, <4>1 DEF DueHost
      <4>3. QED
        BY <1>2, <4>2
    <3>5. CASE ~Mounts("admin", host["admin"].selected)
      <4>1. Adding(x)' = 0
        BY <3>3, <3>5 DEF Adding
      <4>2. DueHost(x)' <= DueHost(x)
        BY <1>3, <2>t, <3>1, <3>2, <4>1 DEF DueHost
      <4>3. QED
        BY <1>2, <1>7, <2>1, <2>8, <3>5, <4>2 DEF e
    <3>6. QED
      BY <3>4, <3>5
  <2>9. QED
    BY <2>7, <2>8
<1>8. QED
  BY <1>5, <1>6, <1>7

\* Results that are sent are owed by the pages that get them, and nothing else is.
LEMMA DueServer ==
    ASSUME TypeInv, TypeInv', Static, NEW x \in Players,
           Announces \/ \E g \in Pages : \E i \in Slots(g) : Handles(g, i) /\ ~HandlesResults(g, i)
    PROVE  DueHost(x)' = DueHost(x) /\ \A p \in Players : DuePlay(p, x)' = DuePlay(p, x)
<1>0. /\ "admin" \in Pages /\ \A p \in Players : p \in Pages
      /\ Bears(x)' = Bears(x)
  BY RoomFacts, PagesApart DEF TypeInv, Bears
<1>1. host' = host /\ play' = play
  BY ServerApart
<1>2. \A k \in Pages : inbox'[k] = inbox[k] \/ \E e : Plus(inbox[k], inbox'[k], e) /\ e.ev # "question_results"
  <2>1. CASE Announces
    <3>1. QED
      BY <2>1, AnnounceTells
  <2>2. ASSUME NEW g \in Pages, NEW i \in Slots(g), Handles(g, i), ~HandlesResults(g, i)
        PROVE  \A k \in Pages : inbox'[k] = inbox[k] \/ \E e : Plus(inbox[k], inbox'[k], e) /\ e.ev # "question_results"
    <3>1. CASE HandlesQuestion(g, i)
      BY <3>1 DEF HandlesQuestion, Sent, Event
    <3>2. CASE ~HandlesQuestion(g, i)
      BY <2>2, <3>2, OtherNews
    <3>3. QED
      BY <3>1, <3>2
  <2>3. QED
    BY <2>1, <2>2
<1>3. ASSUME NEW k \in Pages PROVE Owed(k, x)' = Owed(k, x)
  <2>1. CASE inbox'[k] = inbox[k]
    BY <1>0, <2>1 DEF Owed
  <2>2. ASSUME NEW e, Plus(inbox[k], inbox'[k], e), e.ev # "question_results"
        PROVE  Owed(k, x)' = Owed(k, x)
    <3>1. e \notin Bears(x)
      BY <2>2 DEF Bears
    <3>2. In(inbox'[k], Bears(x)) <=> In(inbox[k], Bears(x))
      BY <2>2, <3>1, GotFacts
    <3>3. QED
      BY <1>0, <3>2 DEF Owed
  <2>3. QED
    BY <1>2, <2>1, <2>2
<1>4. QED
  BY <1>0, <1>1, <1>3 DEF DueHost, DuePlay, Adding

\* Every page that is told owes a point to those who answered.
LEMMA DueResults ==
    ASSUME TypeInv, TypeInv', Static, NEW x \in Players, NEW g \in Pages, NEW i \in Slots(g),
           Handles(g, i), HandlesResults(g, i), outbox[g][i].q \in Questions,
           \A k \in Pages : ~In(inbox[k], Resulted)
    PROVE  LET one == IF x \in server.answers[outbox[g][i].q] THEN 1 ELSE 0 IN
           /\ DueHost(x)' = DueHost(x) + one
           /\ \A p \in Players : DuePlay(p, x)' = DuePlay(p, x) + (IF p \in server.room THEN one ELSE 0)
<1>0. /\ "admin" \in Pages /\ "admin" \in ToRoom /\ \A p \in Players : p \in Pages /\ p \notin Hosts
      /\ Bears(x)' = Bears(x)
  BY RoomFacts, PagesApart DEF TypeInv, Bears, ToRoom
<1>1. host' = host /\ play' = play
  BY ServerApart
<1> DEFINE q == outbox[g][i].q
<1>2. PICK e \in Messages : Sent(ToRoom, e) /\ e.ev = "question_results" /\ e.who = server.answers[q]
  <2>1. ResultList(q) = server.answers[q]
    BY DEF ResultList
  <2>2. Event("question_results", q, ResultList(q)) \in Messages
    BY EventsFit
  <2>3. QED
    BY <2>1, <2>2 DEF HandlesResults, Event
<1>3. e \in Bears(x) <=> x \in server.answers[q]
  BY <1>2 DEF Bears
<1> DEFINE one == IF x \in server.answers[q] THEN 1 ELSE 0
<1>4. \A k \in Pages : Owed(k, x) = 0 /\ Owed(k, x)' = IF k \in ToRoom THEN one ELSE 0
  <2>1. \A k \in Pages : ~In(inbox[k], Bears(x))
    BY BearsFacts
  <2>2. \A k \in Pages : In(inbox'[k], Bears(x)) <=> k \in ToRoom /\ e \in Bears(x)
    BY <1>2, <2>1, SentFacts
  <2>3. QED
    BY <1>0, <1>3, <2>1, <2>2 DEF Owed
<1>5. \A p \in Players : p \in ToRoom <=> p \in server.room
  BY <1>0 DEF ToRoom
<1>6. one \in {0, 1} /\ (\A p \in Players : play[p].tally[x] \in Nat) /\ host["admin"].tally[x] \in Nat /\ Adding(x) \in {0, 1}
  BY DueTypes, RoomFacts
<1>7. Adding(x)' = Adding(x)
  BY <1>1 DEF Adding
<1> HIDE DEF one
<1>8. DueHost(x)' = DueHost(x) + one
  BY <1>0, <1>1, <1>4, <1>6, <1>7 DEF DueHost
<1>9. \A p \in Players : DuePlay(p, x)' = DuePlay(p, x) + (IF p \in server.room THEN one ELSE 0)
  BY <1>0, <1>1, <1>4, <1>5, <1>6 DEF DuePlay
<1>10. QED
  BY <1>8, <1>9 DEF one

\* The questions before question c that player x has answered.
Upto(x, c) == {q \in Questions : q < c /\ x \in server.answers[q]}

\* They are finitely many.
LEMMA UptoFinite ==
    ASSUME TypeInv, NEW x, NEW c \in Int
    PROVE  IsFiniteSet(Upto(x, c)) /\ Cardinality(Upto(x, c)) \in Nat
<1>1. N \in Nat
  BY SceneFacts DEF TypeInv
<1>2. IsFiniteSet(0..(N - 1))
  BY <1>1, FS_Interval
<1>3. Upto(x, c) \subseteq 0..(N - 1)
  BY DEF Upto, Questions
<1>4. QED
  BY <1>2, <1>3, FS_Subset, FS_CardinalityType

\* More questions, or more answers, are no fewer.
LEMMA UptoGrows ==
    ASSUME TypeInv, TypeInv', Static, NEW x, NEW c \in Int, NEW d \in Int, c <= d,
           \A q \in Questions : server.answers[q] \subseteq server'.answers[q]
    PROVE  Cardinality(Upto(x, c)) <= Cardinality(Upto(x, d)')
<1>1. Questions' = Questions /\ \A q \in Questions : q \in Int
  BY StaticFacts, SceneFacts DEF TypeInv
<1>2. Upto(x, c) \subseteq Upto(x, d)'
  BY <1>1 DEF Upto
<1>3. Upto(x, d)' \subseteq 0..(N - 1)
  BY <1>1 DEF Upto, Questions
<1>4. IsFiniteSet(Upto(x, d)')
  <2>1. N \in Nat
    BY SceneFacts DEF TypeInv
  <2>2. IsFiniteSet(0..(N - 1))
    BY <2>1, FS_Interval
  <2>3. QED
    BY <1>3, <2>2, FS_Subset
<1>5. QED
  BY <1>2, <1>4, FS_Subset

\* The question that is counted next is one more for those who answered it.
LEMMA UptoNext ==
    ASSUME TypeInv, NEW x, NEW c \in Questions, NEW d \in Int, c < d
    PROVE  Cardinality(Upto(x, c)) + (IF x \in server.answers[c] THEN 1 ELSE 0) <= Cardinality(Upto(x, d))
<1>1. \A q \in Questions : q \in Int
  BY SceneFacts DEF TypeInv
<1>2. IsFiniteSet(Upto(x, c)) /\ IsFiniteSet(Upto(x, d)) /\ Cardinality(Upto(x, c)) \in Nat /\ Cardinality(Upto(x, d)) \in Nat
  BY <1>1, UptoFinite
<1>3. Upto(x, c) \subseteq Upto(x, d) /\ c \notin Upto(x, c)
  BY <1>1 DEF Upto
<1>4. CASE x \in server.answers[c]
  <2>1. Upto(x, c) \cup {c} \subseteq Upto(x, d)
    BY <1>1, <1>3, <1>4 DEF Upto
  <2>2. Cardinality(Upto(x, c) \cup {c}) = Cardinality(Upto(x, c)) + 1
    BY <1>2, <1>3, FS_AddElement
  <2>3. Cardinality(Upto(x, c) \cup {c}) <= Cardinality(Upto(x, d))
    BY <1>2, <2>1, FS_Subset
  <2>4. QED
    BY <1>4, <2>2, <2>3
<1>5. CASE x \notin server.answers[c]
  <2>1. Cardinality(Upto(x, c)) <= Cardinality(Upto(x, d))
    BY <1>2, <1>3, FS_Subset
  <2>2. QED
    BY <1>2, <1>5, <2>1
<1>6. QED
  BY <1>4, <1>5

Wants(c) == {e \in Messages : e.ev = "get_question_results" /\ e.q = c}

\* The host's page has the results of the question it selects, or is going to.
Known == host["admin"].results # None \/ In(inbox["admin"], Resulted)

\* The results of the questions before c have been told.
Reached(c) == IF \E g \in Hosts : Reckons(g) THEN \E g \in Hosts : In(outbox[g], Wants(c))
              ELSE c = host["admin"].selected + (IF Known THEN 1 ELSE 0)

\* No page counts more for a player, caught up, than the player has answered of the
\* questions whose results have been told.
CountInv == hasty = 0 /\ InStep =>
    \A c : Reached(c) => \A x \in Players :
        /\ DueHost(x) <= Cardinality(Upto(x, c))
        /\ \A p \in Players : DuePlay(p, x) <= Cardinality(Upto(x, c))

\* What is reached is a number, and of the quiz where results are asked for.
LEMMA ReachedTypes ==
    ASSUME TypeInv, hasty = 0, InStep, ReckonInv
    PROVE  /\ \A c : Reached(c) => c \in Int
           /\ \E c : Reached(c)
           /\ \A g \in Hosts : \A c : In(outbox[g], Wants(c)) =>
                 Reckons(g) /\ c \in Questions /\ c <= host["admin"].selected
<1>1. ASSUME NEW g \in Hosts, NEW c, In(outbox[g], Wants(c))
      PROVE  Reckons(g) /\ c \in Questions /\ c <= host["admin"].selected
  <2>1. PICK i \in 1..Len(outbox[g]) : outbox[g][i] \in Wants(c)
    BY <1>1 DEF In
  <2>2. PICK e : e = outbox[g][i]
    OBVIOUS
  <2>3. e \in Reckoning /\ e.q = c /\ e \in Messages /\ e.ev = "get_question_results"
    BY <2>1, <2>2 DEF Wants, Reckoning, Kind
  <2>4. e \notin Astray(host["admin"].selected)
    BY <2>1, <2>2 DEF ReckonInv, In
  <2>5. QED
    BY <2>1, <2>2, <2>3, <2>4 DEF Astray, Reckons, In
<1>2. "admin" \in Hosts /\ \A q \in Questions : q \in Int
  BY RoomFacts, SceneFacts DEF TypeInv
<1>3. host["admin"].selected \in Int
  BY <1>2 DEF TypeInv, HostsOK, HostPages
<1>4. CASE \E g \in Hosts : Reckons(g)
  <2>1. PICK g \in Hosts : Reckons(g)
    BY <1>4
  <2>2. PICK i \in 1..Len(outbox[g]) : outbox[g][i] \in Reckoning
    BY <2>1 DEF Reckons, In
  <2>3. outbox[g][i] \in Wants(outbox[g][i].q)
    BY <2>2 DEF Reckoning, Kind, Wants
  <2>4. Reached(outbox[g][i].q)
    BY <1>4, <2>3 DEF Reached, In
  <2>5. \A c : Reached(c) => c \in Int
    BY <1>1, <1>2, <1>4 DEF Reached
  <2>6. QED
    BY <1>1, <2>4, <2>5
<1>5. CASE ~\E g \in Hosts : Reckons(g)
  BY <1>1, <1>3, <1>5 DEF Reached
<1>6. QED
  BY <1>4, <1>5

\* The host's page goes ahead, and keeps the results of the question it selects.
LEMMA KnownStep ==
    ASSUME TypeInv, TypeInv', Static, Moves
    PROVE  /\ host["admin"].selected \in Int /\ host'["admin"].selected \in Int
           /\ \/ host["admin"].selected < host'["admin"].selected
              \/ host["admin"].selected = host'["admin"].selected /\ (Known => Known')
<1>0. /\ \A h \in Hosts : h \in Pages /\ h \notin Players
      /\ "admin" \in Hosts /\ "admin" \in Pages /\ Resulted' = Resulted
  BY RoomFacts, KindsStay
<1>1. host["admin"].selected \in Int /\ host'["admin"].selected \in Int
  <2>1. host \in [Hosts -> HostPages] /\ host' \in [Hosts -> HostPages]
    BY TypesStay DEF TypeInv, HostsOK, Static
  <2>2. QED
    BY <1>0, <2>1 DEF HostPages
<1>2. ASSUME host'["admin"].selected = host["admin"].selected, host'["admin"].results = host["admin"].results,
             In(inbox["admin"], Resulted) => In(inbox'["admin"], Resulted)
      PROVE  host["admin"].selected = host'["admin"].selected /\ (Known => Known')
  BY <1>0, <1>2 DEF Known
<1>3. ASSUME NEW r \in Players, PlayActs(r) \/ PlayStops(r) \/ PlayTakes(r) \/ PlayReopens(r)
      PROVE  host["admin"].selected = host'["admin"].selected /\ (Known => Known')
  <2>1. host' = host /\ inbox'["admin"] = inbox["admin"]
    BY <1>0, <1>3, PlayApart
  <2>2. QED
    BY <1>2, <2>1
<1>4. ASSUME NEW h \in Hosts, HostMoves(h)
      PROVE  \/ host["admin"].selected < host'["admin"].selected
             \/ host["admin"].selected = host'["admin"].selected /\ (Known => Known')
  <2>1. CASE h # "admin"
    <3>1. host'["admin"] = host["admin"] /\ inbox'["admin"] = inbox["admin"]
      BY <1>0, <1>4, <2>1, HostApart
    <3>2. QED
      BY <1>2, <3>1
  <2>2. CASE h = "admin" /\ ~HostTakes(h)
    <3>1. /\ inbox' = inbox /\ host'["admin"].selected = host["admin"].selected
          /\ host'["admin"].results = host["admin"].results
      BY <1>4, <2>2 DEF HostMoves, HostSkips, HostTicks, HostPresses, HostKept
    <3>2. QED
      BY <1>2, <3>1
  <2>3. CASE h = "admin" /\ HostTakes(h)
    <3>1. 1 \in Places("admin") /\ Read("admin") /\ HostTurned("admin", host["admin"], inbox["admin"][1], host'["admin"])
      BY <2>3 DEF HostTakes
    <3> DEFINE e == inbox["admin"][1]
    <3>2. e \in Messages
      BY <1>0, <3>1, KindFacts
    <3>3. In(inbox["admin"], Resulted) <=> In(inbox'["admin"], Resulted) \/ e \in Resulted
      BY <1>0, <3>1, ReadFacts
    <3>4. (e \in Resulted <=> e.ev = "question_results") /\ e.who # None
      BY <3>2, NoneIsNothing DEF Resulted, Kind, Messages
    <3>5. HostTurned("admin", host["admin"], e, host'["admin"])
      BY <3>1
    <3> HIDE DEF e
    <3>6. CASE e.ev = "set_question_number"
      BY <1>1, <3>5, <3>6 DEF HostTurned
    <3>7. CASE e.ev = "question_results"
      <4>1. host'["admin"].results # None /\ host'["admin"].selected = host["admin"].selected
        BY <3>4, <3>5, <3>7 DEF HostTurned
      <4>2. QED
        BY <4>1 DEF Known
    <3>8. CASE e.ev \notin {"set_question_number", "question_results"}
      <4>1. host'["admin"].results = host["admin"].results /\ host'["admin"].selected = host["admin"].selected
        BY <3>5, <3>8 DEF HostTurned
      <4>2. QED
        BY <1>2, <3>3, <3>4, <3>8, <4>1
    <3>9. QED
      BY <3>6, <3>7, <3>8
  <2>4. QED
    BY <2>1, <2>2, <2>3
<1>5. ASSUME NEW g \in Pages, NEW i \in Slots(g), Handles(g, i)
      PROVE  host["admin"].selected = host'["admin"].selected /\ (Known => Known')
  <2>1. host' = host
    BY <1>5, ServerApart
  <2>2. inbox'["admin"] = inbox["admin"] \/ \E e : Plus(inbox["admin"], inbox'["admin"], e)
    <3>1. CASE HandlesQuestion(g, i) \/ HandlesResults(g, i)
      BY <1>0, <3>1 DEF HandlesQuestion, HandlesResults, Sent
    <3>2. CASE ~HandlesQuestion(g, i) /\ ~HandlesResults(g, i)
      BY <1>0, <1>5, <3>2, OtherNews
    <3>3. QED
      BY <3>1, <3>2
  <2>3. In(inbox["admin"], Resulted) => In(inbox'["admin"], Resulted)
    BY <1>0, <2>2, GotFacts
  <2>4. QED
    BY <1>2, <2>1, <2>3
<1>6. CASE Announces
  <2>1. host' = host
    BY <1>6 DEF Announces
  <2>2. In(inbox["admin"], Resulted) => In(inbox'["admin"], Resulted)
    BY <1>0, <1>6, AnnounceNews, SentFacts
  <2>3. QED
    BY <1>1, <1>2, <2>1, <2>2
<1>7. CASE UNCHANGED vars
  BY <1>1, <1>2, <1>7 DEF vars
<1>8. QED
  BY <1>1, <1>3, <1>4, <1>5, <1>6, <1>7 DEF Moves, HostMoves

\* What is asked for is asked for by a press, or by the end of the 200 ms.
LEMMA AskedBefore ==
    ASSUME TypeInv, TypeInv', Static, Moves
    PROVE  \/ \E h \in Hosts : HostSkips(h) \/ \E e \in Messages : HostPresses(h, e)
           \/ \A g \in Hosts : \A S : In(outbox'[g], S) => In(outbox[g], S)
<1>0. \A h \in Hosts : h \in Pages /\ h \notin Players
  BY RoomFacts
<1>1. ASSUME NEW r \in Players, PlayActs(r) \/ PlayStops(r) \/ PlayTakes(r) \/ PlayReopens(r)
      PROVE  \A g \in Hosts : outbox'[g] = outbox[g]
  BY <1>0, <1>1, PlayApart
<1>2. ASSUME NEW h \in Hosts, HostTicks(h) \/ HostTakes(h)
      PROVE  outbox' = outbox
  BY <1>2 DEF HostTicks, HostTakes
<1>3. ASSUME NEW g \in Pages, NEW i \in Slots(g), Handles(g, i)
      PROVE  \A h \in Hosts : \A S : In(outbox'[h], S) => In(outbox[h], S)
  <2>1. Done(g, i)
    BY <1>3 DEF Handles, HandlesOne
  <2>2. QED
    BY <1>0, <1>3, <2>1, DoneFacts
<1>4. CASE Announces \/ UNCHANGED vars
  BY <1>4 DEF Announces, vars
<1>5. QED
  BY <1>1, <1>2, <1>3, <1>4 DEF Moves

\* Answers are never taken back.
LEMMA AnswersGrow ==
    ASSUME TypeInv, TypeInv', Static, Moves
    PROVE  \A q \in Questions : server.answers[q] \subseteq server'.answers[q]
<1>0. server.answers \in [Questions -> SUBSET Players]
  BY DEF TypeInv, ServerOK, Servers
<1>1. ASSUME NEW r \in Players, PlayActs(r) \/ PlayStops(r) \/ PlayTakes(r) \/ PlayReopens(r)
      PROVE  server'.answers = server.answers
  BY <1>1, PlayApart
<1>2. ASSUME NEW h \in Hosts, HostMoves(h)
      PROVE  server' = server
  BY <1>2, HostApart
<1>3. ASSUME NEW g \in Pages, NEW i \in Slots(g), Handles(g, i)
      PROVE  \A q \in Questions : server.answers[q] \subseteq server'.answers[q]
  BY <1>3, HandleKeeps
<1>4. CASE Announces
  <2>1. CASE Stores
    <3>1. PICK p \in Players, n \in Questions : server'.answers = [server.answers EXCEPT ![n] = @ \cup {p}]
      BY <2>1 DEF Stores
    <3>2. QED
      BY <1>0, <3>1
  <2>2. CASE ~Stores
    BY <1>4, <2>2 DEF Announces
  <2>3. QED
    BY <2>1, <2>2
<1>5. CASE UNCHANGED vars
  BY <1>5 DEF vars
<1>6. QED
  BY <1>1, <1>2, <1>3, <1>4, <1>5 DEF Moves, HostMoves

\* A step without results reaches what it starts from, at least.
LEMMA ReachStep ==
    ASSUME TypeInv, TypeInv', Static, Moves, TurnInv, AfterInv, ReckonInv, hasty = 0, hasty' = 0, InStep, NEW c, Reached(c)'
    PROVE  c \in Int /\ \E d \in Int : Reached(d) /\ d <= c
<1>0. /\ \A h \in Hosts : h \in Pages /\ h \notin Players
      /\ "admin" \in Hosts /\ Hosts' = Hosts /\ Reckoning' = Reckoning /\ Wants(c)' = Wants(c)
      /\ \A q \in Questions : q \in Int
  BY RoomFacts, KindsStay, SceneFacts DEF Wants, TypeInv
<1>1. /\ host["admin"].selected \in Int /\ host'["admin"].selected \in Int
      /\ \/ host["admin"].selected < host'["admin"].selected
         \/ host["admin"].selected = host'["admin"].selected /\ (Known => Known')
  BY KnownStep
<1>2. /\ \A d : Reached(d) => d \in Int
      /\ \E d : Reached(d)
      /\ \A g \in Hosts : \A d : In(outbox[g], Wants(d)) =>
            Reckons(g) /\ d \in Questions /\ d <= host["admin"].selected
  BY ReachedTypes
<1>3. ASSUME \A g \in Hosts : \A S : S \subseteq Reckoning /\ In(outbox'[g], S) => In(outbox[g], S)
      PROVE  c \in Int /\ \E d \in Int : Reached(d) /\ d <= c
  <2>1. CASE \E g \in Hosts : Reckons(g)'
    <3>1. PICK g \in Hosts : In(outbox'[g], Wants(c))
      BY <1>0, <2>1 DEF Reached
    <3>2. Wants(c) \subseteq Reckoning
      BY DEF Wants, Reckoning, Kind
    <3>3. In(outbox[g], Wants(c))
      BY <1>3, <3>1, <3>2
    <3>4. Reached(c) /\ c \in Int
      BY <1>0, <1>2, <3>3 DEF Reached
    <3>5. QED
      BY <3>4
  <2>2. CASE ~\E g \in Hosts : Reckons(g)'
    <3>1. c = host'["admin"].selected + (IF Known' THEN 1 ELSE 0)
      BY <1>0, <2>2 DEF Reached
    <3>2. PICK d : Reached(d)
      BY <1>2
    <3>3. CASE \E g \in Hosts : Reckons(g)
      <4>1. PICK g \in Hosts : In(outbox[g], Wants(d))
        BY <3>2, <3>3 DEF Reached
      <4>2. d \in Int /\ d <= host["admin"].selected
        BY <1>0, <1>2, <4>1
      <4>3. QED
        BY <1>1, <3>1, <3>2, <4>2
    <3>4. CASE ~\E g \in Hosts : Reckons(g)
      <4>1. d = host["admin"].selected + (IF Known THEN 1 ELSE 0)
        BY <3>2, <3>4 DEF Reached
      <4>2. c \in Int /\ d \in Int /\ d <= c
        BY <1>1, <3>1, <4>1
      <4>3. QED
        BY <3>2, <4>2
    <3>5. QED
      BY <3>3, <3>4
  <2>3. QED
    BY <2>1, <2>2
<1>4. ASSUME NEW h \in Hosts, NEW e, Asked(h, e), e.ev # "get_question_results"
      PROVE  c \in Int /\ \E d \in Int : Reached(d) /\ d <= c
  <2>1. \A S : S \subseteq Reckoning => e \notin S
    BY <1>4 DEF Reckoning, Kind
  <2>2. \A g \in Hosts : \A S : S \subseteq Reckoning /\ In(outbox'[g], S) => In(outbox[g], S)
    BY <1>0, <1>4, <2>1, AskedFacts
  <2>3. QED
    BY <1>3, <2>2
<1>5. ASSUME NEW h \in Hosts, NEW e \in Messages, HostPresses(h, e), e.ev = "get_question_results"
      PROVE  c \in Int /\ \E d \in Int : Reached(d) /\ d <= c
  <2>1. Quiet /\ inbox' = inbox /\ Asked(h, e) /\ HostKept(h) /\ e.q = host[h].shown /\ AsksResults(h)
    BY <1>5, PressAsks DEF HostPresses
  <2>2. \A g \in Pages : \A S : ~In(inbox[g], S) /\ ~In(outbox[g], S)
    BY <2>1, QuietFacts
  <2>3. \A g \in Hosts : \A S : In(outbox'[g], S) <=> g = h /\ e \in S
    BY <1>0, <2>1, <2>2, AskedFacts
  <2>4. e \in Reckoning /\ (e \in Wants(c) <=> c = e.q)
    BY <1>5 DEF Reckoning, Kind, Wants
  <2>5. c = host[h].shown
    BY <1>0, <2>1, <2>3, <2>4 DEF Reached, Reckons
  <2>6. host[h].shown = host["admin"].selected
    <3>1. host[h].shown = host[h].selected
      BY DEF TurnInv, HostTurn
    <3>2. Expect(h) = Expect("admin")
      BY <1>0 DEF TurnInv
    <3>3. QED
      BY <1>0, <2>2, <3>1, <3>2 DEF Expect, Told
  <2>7. ~Known
    <3>1. After("admin") => After(h)
      BY <1>0 DEF AfterInv
    <3>2. ~After(h)
      BY <1>0, <2>1, <2>2 DEF After, AsksResults
    <3>3. QED
      BY <1>0, <2>2, <3>1, <3>2 DEF After, Known
  <2>8. Reached(c)
    BY <1>0, <1>1, <2>2, <2>5, <2>6, <2>7 DEF Reached, Reckons
  <2>9. QED
    BY <1>2, <2>8
<1>6. CASE \E h \in Hosts : HostSkips(h)
  <2>1. PICK h \in Hosts : HostSkips(h)
    BY <1>6
  <2>2. Asked(h, NextQuestion(h)) /\ NextQuestion(h).ev # "get_question_results"
    BY <2>1 DEF HostSkips, NextQuestion, Event
  <2>3. QED
    BY <1>4, <2>2
<1>7. CASE \E h \in Hosts : \E e \in Messages : HostPresses(h, e)
  <2>1. PICK h \in Hosts, e \in Messages : HostPresses(h, e)
    BY <1>7
  <2>2. Asked(h, e)
    BY <2>1 DEF HostPresses
  <2>3. QED
    BY <1>4, <1>5, <2>1, <2>2
<1>8. QED
  BY <1>3, <1>6, <1>7, AskedBefore

\* The counts are kept through every step.
LEMMA CountStep ==
    ASSUME TypeInv, TypeInv', Static, Moves, TurnInv, AfterInv, ReckonInv, ReckonInv', CountInv
    PROVE  CountInv'
<1>0. /\ \A h \in Hosts : h \in Pages /\ h \notin Players
      /\ \A r \in Players : r \in Pages
      /\ "admin" \in Hosts /\ "admin" \in Pages /\ Hosts' = Hosts /\ InStep' = InStep /\ Pages' = Pages
      /\ Resulted' = Resulted
  BY RoomFacts, KindsStay
<1> SUFFICES ASSUME hasty' = 0, InStep, NEW c, Reached(c)', NEW x \in Players
             PROVE  /\ DueHost(x)' <= Cardinality(Upto(x, c)')
                    /\ \A p \in Players : DuePlay(p, x)' <= Cardinality(Upto(x, c)')
  BY <1>0 DEF CountInv
<1>h. hasty = 0
  <2>1. CASE \E h \in Hosts : \E e \in Messages : HostPresses(h, e)
    BY <2>1 DEF HostPresses
  <2>2. CASE ~\E h \in Hosts : \E e \in Messages : HostPresses(h, e)
    BY <2>2 DEF Moves, PlayActs, PlayStops, PlayTakes, PlayReopens, HostSkips, HostTicks, HostTakes,
                Handles, HandlesOne, Announces, vars
  <2>3. QED
    BY <2>1, <2>2
<1>1. c \in Int /\ \E d \in Int : Reached(d) /\ d <= c
  BY <1>h, ReachStep
<1>2. PICK d \in Int : Reached(d) /\ d <= c
  BY <1>1
<1>3. /\ DueHost(x) <= Cardinality(Upto(x, d))
      /\ \A p \in Players : DuePlay(p, x) <= Cardinality(Upto(x, d))
  BY <1>h, <1>2 DEF CountInv
<1>4. Cardinality(Upto(x, d)) <= Cardinality(Upto(x, c)')
  BY <1>1, <1>2, AnswersGrow, UptoGrows
<1>5. /\ Cardinality(Upto(x, d)) \in Nat
      /\ DueHost(x) \in Nat /\ \A p \in Players : DuePlay(p, x) \in Nat
  BY UptoFinite, DueTypes
<1>6. /\ DueHost(x)' \in Nat /\ \A p \in Players : DuePlay(p, x)' \in Nat
  <2>1. /\ \A p \in Players : play'[p].tally[x] \in Nat /\ host'["admin"].tally[x] \in Nat
    <3>1. play' \in [Players -> PlayPages] /\ host' \in [Hosts -> HostPages]
      BY TypesStay DEF TypeInv, PlayOK, HostsOK, Static
    <3>2. QED
      BY <1>0, <3>1 DEF PlayPages, HostPages
  <2>2. Adding(x)' \in {0, 1} /\ \A g \in Pages : Owed(g, x)' \in {0, 1}
    BY DEF Adding, Owed
  <2>3. QED
    BY <1>0, <2>1, <2>2 DEF DueHost, DuePlay
<1>7. Cardinality(Upto(x, c)') \in Nat
  <2>1. Upto(x, c)' \subseteq Questions /\ IsFiniteSet(Questions)
    <3>1. N \in Nat
      BY SceneFacts DEF TypeInv
    <3>2. Questions' = Questions
      BY StaticFacts
    <3>3. Upto(x, c)' \subseteq Questions
      BY <3>2 DEF Upto
    <3>4. N - 1 \in Int /\ 0 \in Int
      BY <3>1
    <3>5. IsFiniteSet(0..(N - 1))
      BY <3>4, FS_Interval
    <3>6. QED
      BY <3>3, <3>5 DEF Questions
  <2>2. QED
    BY <2>1, FS_Subset, FS_CardinalityType
<1>8. ASSUME DueHost(x)' <= DueHost(x), \A p \in Players : DuePlay(p, x)' <= DuePlay(p, x)
      PROVE  /\ DueHost(x)' <= Cardinality(Upto(x, c)')
             /\ \A p \in Players : DuePlay(p, x)' <= Cardinality(Upto(x, c)')
  BY <1>3, <1>4, <1>5, <1>6, <1>7, <1>8
<1>9. ASSUME NEW r \in Players, PlayActs(r) \/ PlayStops(r) \/ PlayTakes(r) \/ PlayReopens(r)
      PROVE  DueHost(x)' <= DueHost(x) /\ \A p \in Players : DuePlay(p, x)' <= DuePlay(p, x)
  <2>1. Once(inbox[r], Resulted)
    BY <1>0, <1>h DEF ReckonInv
  <2>2. QED
    BY <1>5, <1>9, <2>1, DuePlayMoves
<1>10. ASSUME NEW h \in Hosts, HostMoves(h)
      PROVE  DueHost(x)' <= DueHost(x) /\ \A p \in Players : DuePlay(p, x)' <= DuePlay(p, x)
  <2>1. Once(inbox["admin"], Resulted) /\ (host["admin"].adding => ~In(inbox["admin"], Resulted))
    BY <1>0, <1>h DEF ReckonInv
  <2>2. QED
    BY <1>5, <1>10, <2>1, DueHostMoves
<1>11. ASSUME Announces \/ \E g \in Pages : \E i \in Slots(g) : Handles(g, i) /\ ~HandlesResults(g, i)
       PROVE  DueHost(x)' <= DueHost(x) /\ \A p \in Players : DuePlay(p, x)' <= DuePlay(p, x)
  BY <1>5, <1>11, DueServer
<1>12. ASSUME NEW g \in Pages, NEW i \in Slots(g), Handles(g, i), HandlesResults(g, i)
       PROVE  /\ DueHost(x)' <= Cardinality(Upto(x, c)')
              /\ \A p \in Players : DuePlay(p, x)' <= Cardinality(Upto(x, c)')
  <2> DEFINE n == outbox[g][i].q
             one == IF x \in server.answers[n] THEN 1 ELSE 0
  <2>1. g \in Hosts /\ outbox[g][i].ev = "get_question_results" /\ server' = server /\ host' = host
    BY <1>12, ServerApart DEF HandlesResults
  <2>2. outbox[g][i] \in Wants(n) /\ In(outbox[g], Wants(n))
    BY <1>0, <1>12, <2>1, KindFacts DEF Wants
  <2>3. Reckons(g) /\ n \in Questions /\ n <= host["admin"].selected
    BY <1>h, <2>1, <2>2, ReachedTypes
  <2>4. Reached(n) /\ n \in Int
    BY <1>h, <2>1, <2>2, <2>3, ReachedTypes DEF Reached
  <2>5. \A k \in Pages : ~In(inbox[k], Resulted)
    BY <1>h, <2>1, <2>3 DEF ReckonInv
  <2>6. In(inbox'["admin"], Resulted)
    <3>1. PICK e \in Messages : Sent(ToRoom, e) /\ e.ev = "question_results"
      <4>1. Event("question_results", n, ResultList(n)) \in Messages
        BY <2>3, EventsFit
      <4>2. QED
        BY <1>12, <4>1 DEF HandlesResults, Event
    <3>2. e \in Resulted /\ "admin" \in ToRoom
      BY <1>0, <3>1 DEF Resulted, Kind, ToRoom
    <3>3. QED
      BY <1>0, <3>1, <3>2, SentFacts
  <2>7. c = host["admin"].selected + 1
    <3>1. \A k \in Hosts : ~Reckons(k)'
      BY <1>0, <2>6 DEF ReckonInv
    <3>2. Known'
      BY <1>0, <2>6 DEF Known
    <3>3. QED
      BY <1>0, <2>1, <3>1, <3>2 DEF Reached
  <2>8. n < c
    BY <1>0, <1>1, <2>3, <2>4, <2>7, KnownStep
  <2>9. Cardinality(Upto(x, n)) + one <= Cardinality(Upto(x, c))
    BY <1>1, <2>3, <2>8, UptoNext
  <2>10. Upto(x, c)' = Upto(x, c)
    BY <2>1, StaticFacts DEF Upto
  <2>11. /\ DueHost(x) <= Cardinality(Upto(x, n))
         /\ \A p \in Players : DuePlay(p, x) <= Cardinality(Upto(x, n))
    BY <1>h, <2>4 DEF CountInv
  <2>12. /\ DueHost(x)' = DueHost(x) + one
         /\ \A p \in Players : DuePlay(p, x)' = DuePlay(p, x) + (IF p \in server.room THEN one ELSE 0)
    BY <1>12, <2>3, <2>5, DueResults
  <2>13. one \in {0, 1} /\ Cardinality(Upto(x, n)) \in Nat /\ Cardinality(Upto(x, c)) \in Nat
    BY <1>1, <2>4, UptoFinite
  <2> HIDE DEF one, n
  <2>14. DueHost(x)' <= Cardinality(Upto(x, c)')
    BY <1>5, <2>9, <2>10, <2>11, <2>12, <2>13
  <2>15. ASSUME NEW p \in Players PROVE DuePlay(p, x)' <= Cardinality(Upto(x, c)')
    <3>1. DuePlay(p, x)' <= DuePlay(p, x) + one /\ DuePlay(p, x) <= Cardinality(Upto(x, n)) /\ DuePlay(p, x) \in Nat
          /\ DuePlay(p, x)' \in Nat
      BY <1>5, <1>6, <2>11, <2>12, <2>13
    <3>2. QED
      BY <2>9, <2>10, <2>13, <3>1
  <2>16. QED
    BY <2>14, <2>15
<1>13. CASE UNCHANGED vars
  <2>1. DueHost(x)' = DueHost(x) /\ \A p \in Players : DuePlay(p, x)' = DuePlay(p, x)
    BY <1>13 DEF vars, DueHost, DuePlay, Owed, Adding, Bears, Messages, PlayEvents, HostEvents, PlayRequests, HostRequests
  <2>2. QED
    BY <1>5, <1>8, <2>1
<1>14. QED
  BY <1>8, <1>9, <1>10, <1>11, <1>12, <1>13 DEF Moves, HostMoves

\* The pages count no answer twice.
LEMMA CountShows ==
    ASSUME TypeInv, ReckonInv, CountInv
    PROVE  CountedOnce
<1> SUFFICES ASSUME hasty = 0, InStep, NEW x \in Players
             PROVE  LET sum == Cardinality({q \in Questions : x \in server.answers[q]}) IN
                    /\ \A h \in Hosts : host[h].tally[x] <= sum
                    /\ \A p \in Players : play[p].tally[x] <= sum
  BY DEF CountedOnce
<1> DEFINE all == {q \in Questions : x \in server.answers[q]}
<1>1. PICK c \in Int : Reached(c)
  BY ReachedTypes
<1>2. Upto(x, c) \subseteq all /\ all \subseteq Questions
  BY DEF Upto
<1>3. IsFiniteSet(Questions)
  <2>1. N - 1 \in Int /\ 0 \in Int
    BY SceneFacts DEF TypeInv
  <2>2. IsFiniteSet(0..(N - 1))
    BY <2>1, FS_Interval
  <2>3. QED
    BY <2>2 DEF Questions
<1>4. IsFiniteSet(all) /\ Cardinality(all) \in Nat
  BY <1>2, <1>3, FS_Subset, FS_CardinalityType
<1>5. Cardinality(Upto(x, c)) <= Cardinality(all) /\ Cardinality(Upto(x, c)) \in Nat
  BY <1>1, <1>2, <1>4, FS_Subset, UptoFinite
<1>6. /\ DueHost(x) <= Cardinality(Upto(x, c))
      /\ \A p \in Players : DuePlay(p, x) <= Cardinality(Upto(x, c))
  BY <1>1 DEF CountInv
<1> HIDE DEF all
<1>7. ASSUME NEW p \in Players PROVE play[p].tally[x] <= Cardinality(all)
  <2>1. play[p].tally[x] \in Nat /\ DuePlay(p, x) \in Nat /\ Owed(p, x) \in {0, 1}
    BY DueTypes
  <2>2. play[p].tally[x] <= DuePlay(p, x)
    BY <2>1 DEF DuePlay
  <2>3. QED
    BY <1>4, <1>5, <1>6, <2>1, <2>2
<1>8. ASSUME NEW h \in Hosts PROVE host[h].tally[x] <= Cardinality(all)
  <2>1. CASE h = "admin"
    <3>1. host[h].tally[x] \in Nat /\ DueHost(x) \in Nat /\ Owed("admin", x) \in {0, 1} /\ Adding(x) \in {0, 1}
      BY DueTypes
    <3>2. host[h].tally[x] <= DueHost(x)
      BY <2>1, <3>1 DEF DueHost
    <3>3. QED
      BY <1>4, <1>5, <1>6, <3>1, <3>2
  <2>2. CASE h # "admin"
    BY <1>4, <2>2 DEF ReckonInv
  <2>3. QED
    BY <2>1, <2>2
<1>9. QED
  BY <1>7, <1>8 DEF all

(***************************************************************************)
(* The end of the game                                                     *)
(***************************************************************************)

Finals  == Kind("final_results")
Closing == Kind("get_final_results")

\* The final results are asked for, travel or are shown.
Ending == \/ \E h \in Hosts : host[h].finals \/ In(outbox[h], Closing)
          \/ \E g \in Pages : In(inbox[g], Finals)
          \/ \E p \in Players : play[p].finals

\* Whatever does not tell a question or results leaves the pages with those they had.
LEMMA NoNews ==
    ASSUME TypeInv, NEW k \in Pages,
           \/ Announces
           \/ \E g \in Pages : \E i \in Slots(g) :
                 Handles(g, i) /\ ~HandlesQuestion(g, i) /\ ~HandlesResults(g, i)
    PROVE  /\ In(inbox'[k], Questioned) <=> In(inbox[k], Questioned)
           /\ In(inbox'[k], Resulted) <=> In(inbox[k], Resulted)
           /\ Led(inbox[k], Resulted, Questioned) => Led(inbox'[k], Resulted, Questioned)
<1>1. ASSUME NEW e, Plus(inbox[k], inbox'[k], e), e.ev \notin {"set_question_number", "question_results"}
      PROVE  /\ In(inbox'[k], Questioned) <=> In(inbox[k], Questioned)
             /\ In(inbox'[k], Resulted) <=> In(inbox[k], Resulted)
             /\ Led(inbox[k], Resulted, Questioned) => Led(inbox'[k], Resulted, Questioned)
  <2>1. e \notin Questioned /\ e \notin Resulted
    BY <1>1 DEF Questioned, Resulted, Kind
  <2>2. QED
    BY <1>1, <2>1, GotFacts
<1>2. inbox'[k] = inbox[k] \/ \E e : Plus(inbox[k], inbox'[k], e) /\ e.ev \notin {"set_question_number", "question_results"}
  <2>1. CASE Announces
    BY <2>1, AnnounceTells
  <2>2. CASE \E g \in Pages : \E i \in Slots(g) : Handles(g, i) /\ ~HandlesQuestion(g, i) /\ ~HandlesResults(g, i)
    BY <2>2, OtherNews
  <2>3. QED
    BY <2>1, <2>2
<1>3. QED
  BY <1>1, <1>2

\* The end begins with a press.
LEMMA EndingStep ==
    ASSUME TypeInv, TypeInv', Static, Moves, Ending'
    PROVE  Ending \/ \E h \in Hosts : \E e \in Messages : HostPresses(h, e) /\ e.ev = "get_final_results"
<1>0. /\ \A h \in Hosts : h \in Pages /\ h \notin Players
      /\ \A r \in Players : r \in Pages
      /\ Finals' = Finals /\ Closing' = Closing /\ Hosts' = Hosts /\ Pages' = Pages
  BY RoomFacts, KindsStay DEF Finals, Closing, Kind
<1>1. ASSUME \A h \in Hosts : host'[h].finals => host[h].finals \/ In(inbox[h], Finals),
             \A h \in Hosts : In(outbox'[h], Closing) => In(outbox[h], Closing),
             \A g \in Pages : In(inbox'[g], Finals) => In(inbox[g], Finals) \/ \E h \in Hosts : In(outbox[h], Closing),
             \A p \in Players : play'[p].finals => play[p].finals \/ In(inbox[p], Finals)
      PROVE  Ending
  BY <1>0, <1>1 DEF Ending
<1>2. ASSUME NEW r \in Players, PlayActs(r) \/ PlayStops(r) \/ PlayTakes(r) \/ PlayReopens(r)
      PROVE  Ending
  <2>1. /\ host' = host /\ \A h \in Hosts : outbox'[h] = outbox[h]
        /\ \A g \in Pages : g # r => inbox'[g] = inbox[g]
        /\ \A p \in Players : p # r => play'[p].finals = play[p].finals
    BY <1>0, <1>2, PlayApart DEF Stays
  <2>2. In(inbox'[r], Finals) => In(inbox[r], Finals)
    <3>1. CASE PlayActs(r)
      BY <3>1 DEF PlayActs
    <3>2. CASE PlayStops(r) \/ PlayTakes(r)
      BY <1>0, <3>2, ReadFacts DEF PlayStops, PlayTakes
    <3>3. CASE PlayReopens(r)
      BY <1>0, <3>3, ReopenFacts
    <3>4. QED
      BY <1>2, <3>1, <3>2, <3>3
  <2>3. play'[r].finals => play[r].finals \/ In(inbox[r], Finals)
    <3>1. CASE PlayActs(r) \/ PlayStops(r) \/ PlayReopens(r)
      BY <3>1 DEF PlayActs, PlayStops, PlayReopens, PlayKept
    <3>2. CASE PlayTakes(r)
      <4>1. /\ 1 \in Places(r) /\ inbox[r][1] \in Messages
            /\ \A S : inbox[r][1] \in S => In(inbox[r], S)
        BY <1>0, <3>2, KindFacts DEF PlayTakes
      <4>2. PICK e \in Messages : e = inbox[r][1]
        BY <4>1
      <4>3. play'[r].finals <=> play[r].finals \/ e.ev = "final_results"
        BY <3>2, <4>2 DEF PlayTakes, Turned
      <4>4. e.ev = "final_results" => e \in Finals
        BY DEF Finals, Kind
      <4>5. QED
        BY <4>1, <4>2, <4>3, <4>4
    <3>3. QED
      BY <1>2, <3>1, <3>2
  <2>4. QED
    BY <1>0, <1>1, <2>1, <2>2, <2>3
<1>3. ASSUME NEW h \in Hosts, HostSkips(h) \/ HostTicks(h) \/ \E e \in Messages : HostPresses(h, e) /\ e.ev # "get_final_results"
      PROVE  Ending
  <2>1. inbox' = inbox /\ play' = play /\ \A k \in Hosts : host'[k].finals = host[k].finals
    BY <1>3 DEF HostSkips, HostTicks, HostPresses, HostKept
  <2>2. outbox' = outbox \/ \E e : Asked(h, e) /\ e.ev # "get_final_results"
    BY <1>3 DEF HostSkips, HostTicks, HostPresses, NextQuestion, Event
  <2>3. \A k \in Hosts : In(outbox'[k], Closing) => In(outbox[k], Closing)
    <3>1. ASSUME NEW e, Asked(h, e), e.ev # "get_final_results", NEW k \in Hosts
          PROVE  In(outbox'[k], Closing) => In(outbox[k], Closing)
      <4>1. e \notin Closing
        BY <3>1 DEF Closing, Kind
      <4>2. QED
        BY <1>0, <3>1, <4>1, AskedFacts
    <3>2. QED
      BY <2>2, <3>1
  <2>4. QED
    BY <1>1, <2>1, <2>3
<1>4. ASSUME NEW h \in Hosts, HostTakes(h)
      PROVE  Ending
  <2>1. /\ Read(h) /\ 1 \in Places(h) /\ play' = play /\ outbox' = outbox
        /\ \A k \in Hosts : k # h => host'[k] = host[k]
        /\ host'[h].finals <=> host[h].finals \/ inbox[h][1].ev = "final_results"
    BY <1>4 DEF HostTakes, HostTurned
  <2>2. \A g \in Pages : In(inbox'[g], Finals) => In(inbox[g], Finals)
    BY <1>0, <2>1, ReadFacts
  <2>3. inbox[h][1].ev = "final_results" => In(inbox[h], Finals)
    <3>1. /\ inbox[h][1] \in Messages
          /\ \A S : inbox[h][1] \in S => In(inbox[h], S)
      BY <1>0, <2>1, KindFacts
    <3>2. PICK e \in Messages : e = inbox[h][1]
      BY <3>1
    <3>3. e.ev = "final_results" => e \in Finals
      BY DEF Finals, Kind
    <3>4. QED
      BY <3>1, <3>2, <3>3
  <2>4. QED
    BY <1>1, <2>1, <2>2, <2>3
<1>5. ASSUME NEW g \in Pages, NEW i \in Slots(g), Handles(g, i)
      PROVE  Ending
  <2>1. host' = host /\ play' = play /\ Done(g, i)
    BY <1>5, ServerApart DEF Handles, HandlesOne
  <2>2. \A h \in Hosts : In(outbox'[h], Closing) => In(outbox[h], Closing)
    BY <1>0, <1>5, <2>1, DoneFacts
  <2>3. ASSUME NEW k \in Pages, In(inbox'[k], Finals)
        PROVE  In(inbox[k], Finals) \/ \E h \in Hosts : In(outbox[h], Closing)
    <3>1. CASE \E e : Plus(inbox[k], inbox'[k], e) /\ e.ev # "final_results"
      <4>1. PICK e : Plus(inbox[k], inbox'[k], e) /\ e.ev # "final_results"
        BY <3>1
      <4>2. e \notin Finals
        BY <4>1 DEF Finals, Kind
      <4>3. QED
        BY <2>3, <4>1, <4>2, GotFacts
    <3>2. CASE g \in Hosts /\ outbox[g][i].ev = "get_final_results"
      <4>1. PICK e \in Messages : e = outbox[g][i]
        BY <1>0, <1>5, KindFacts
      <4>2. e \in Closing
        BY <3>2, <4>1 DEF Closing, Kind
      <4>3. QED
        BY <1>0, <1>5, <3>2, <4>1, <4>2, KindFacts
    <3>3. CASE inbox'[k] = inbox[k]
      BY <2>3, <3>3
    <3>4. CASE HandlesQuestion(g, i) \/ HandlesResults(g, i)
      <4>1. inbox'[k] = inbox[k] \/ \E e : Plus(inbox[k], inbox'[k], e) /\ e.ev # "final_results"
        BY <3>4 DEF HandlesQuestion, HandlesResults, Sent, Event
      <4>2. QED
        BY <3>1, <3>3, <4>1
    <3>5. CASE ~HandlesQuestion(g, i) /\ ~HandlesResults(g, i)
      <4>1. inbox'[k] = inbox[k] \/ \E e : Plus(inbox[k], inbox'[k], e)
               /\ (e.ev = "final_results" => g \in Hosts /\ outbox[g][i].ev = "get_final_results")
        BY <1>5, <3>5, OtherNews
      <4>2. QED
        BY <3>1, <3>2, <3>3, <4>1
    <3>6. QED
      BY <3>4, <3>5
  <2>4. QED
    BY <1>1, <2>1, <2>2, <2>3
<1>6. CASE Announces
  <2>1. host' = host /\ play' = play /\ outbox' = outbox
    BY <1>6 DEF Announces
  <2>2. Plain("everyone_answered") \notin Finals /\ Plain("results_saved_successfully") \notin Finals
    BY DEF Finals, Kind, Plain, Event
  <2>3. \A g \in Pages : In(inbox'[g], Finals) => In(inbox[g], Finals)
    BY <1>6, <2>2, AnnounceNews, SentFacts
  <2>4. QED
    BY <1>1, <2>1, <2>3
<1>7. CASE UNCHANGED vars
  BY <1>1, <1>7 DEF vars
<1>8. QED
  BY <1>2, <1>3, <1>4, <1>5, <1>6, <1>7 DEF Moves

\* Where the hosts wait after a step, they did so before.
LEMMA PatientBack ==
    ASSUME Static, Moves, Patient'
    PROVE  /\ Patient /\ hasty = 0 /\ hasty' = 0 /\ InStep /\ InStep' /\ \A q : ~Hidden(q) /\ ~Hidden(q)'
<1>1. hasty' = 0 => hasty = 0
  <2>1. CASE \E h \in Hosts : \E e \in Messages : HostPresses(h, e)
    BY <2>1 DEF HostPresses
  <2>2. CASE ~\E h \in Hosts : \E e \in Messages : HostPresses(h, e)
    BY <2>2 DEF Moves, PlayActs, PlayStops, PlayTakes, PlayReopens, HostSkips, HostTicks, HostTakes,
                Handles, HandlesOne, Announces, vars
  <2>3. QED
    BY <2>1, <2>2
<1>2. InStep' = InStep /\ Questions' = Questions /\ \A q : Hidden(q)' = Hidden(q)
  BY StaticFacts DEF Static, Hidden
<1>3. hasty' = 0 /\ InStep' /\ \A q \in Questions' : ~Hidden(q)'
  BY DEF Patient
<1>4. \A q \in Questions : ~Hidden(q)
  BY <1>2, <1>3
<1>5. \A q : Hidden(q) => q \in Questions
  BY DEF Hidden
<1>6. QED
  BY <1>1, <1>2, <1>3, <1>4, <1>5 DEF Patient

\* A play page gets nothing by its own steps.
LEMMA PlayNews ==
    ASSUME TypeInv, NEW r \in Players, PlayActs(r) \/ PlayStops(r) \/ PlayTakes(r) \/ PlayReopens(r),
           NEW k \in Pages
    PROVE  \A S : In(inbox'[k], S) => In(inbox[k], S)
<1>0. r \in Pages
  BY RoomFacts
<1>1. CASE PlayActs(r)
  BY <1>1 DEF PlayActs
<1>2. CASE PlayStops(r) \/ PlayTakes(r)
  BY <1>0, <1>2, ReadFacts DEF PlayStops, PlayTakes
<1>3. CASE PlayReopens(r)
  <2>1. \A S : ~In(inbox'[r], S)
    BY <1>0, <1>3, ReopenFacts
  <2>2. k # r => inbox'[k] = inbox[k]
    BY <1>3 DEF PlayReopens
  <2>3. QED
    BY <2>1, <2>2
<1>4. QED
  BY <1>1, <1>2, <1>3

\* What a page of the host makes of an event that is no question, or no results.
LEMMA HostNews ==
    ASSUME TypeInv, NEW h \in Hosts, HostTakes(h)
    PROVE  /\ \A k \in Pages : \A S : In(inbox'[k], S) => In(inbox[k], S)
           /\ host'[h].later = host[h].later
           /\ ~Told(h) => host'[h].selected = host[h].selected
           /\ ~Told(h) /\ ~In(inbox[h], Resulted) =>
                 host'[h].results = host[h].results /\ (host'[h].adding <=> host[h].adding)
           /\ ~Told(h) /\ In(inbox[h], Resulted) =>
                 \/ /\ host'[h].results = host[h].results /\ (host'[h].adding <=> host[h].adding)
                 \/ host'[h].results # None /\ inbox[h][1] \in Resulted
<1>0. h \in Pages
  BY RoomFacts
<1>1. /\ Read(h) /\ 1 \in Places(h)
      /\ HostTurned(h, host[h], inbox[h][1], host'[h])
  BY DEF HostTakes
<1>2. \A k \in Pages : \A S : In(inbox'[k], S) => In(inbox[k], S)
  BY <1>0, <1>1, ReadFacts
<1>3. /\ inbox[h][1] \in Messages
      /\ \A S : inbox[h][1] \in S => In(inbox[h], S)
  BY <1>0, <1>1, KindFacts
<1>4. PICK e \in Messages : e = inbox[h][1]
  BY <1>3
<1>5. HostTurned(h, host[h], e, host'[h]) /\ \A S : e \in S => In(inbox[h], S)
  BY <1>1, <1>3, <1>4
<1>6. /\ e \in Questioned <=> e.ev = "set_question_number"
      /\ e \in Resulted <=> e.ev = "question_results"
      /\ e.who # None
  BY NoneIsNothing DEF Questioned, Resulted, Kind, Messages
<1>7. /\ host'[h].later = host[h].later
      /\ e.ev # "set_question_number" => host'[h].selected = host[h].selected
      /\ e.ev \notin {"set_question_number", "question_results"} =>
            host'[h].results = host[h].results /\ (host'[h].adding <=> host[h].adding)
      /\ e.ev = "question_results" => host'[h].results # None
  BY <1>5, <1>6 DEF HostTurned
<1>8. QED
  BY <1>2, <1>4, <1>5, <1>6, <1>7 DEF Told

\* When the final results are asked for, all hosts are at the last question, whose results
\* they have if it is not a slide, and nothing of a question travels any more.
EndInv == Patient /\ Ending =>
    /\ \A h \in Hosts : /\ host[h].selected # -1 /\ LastSelected(h) /\ (host[h].results # None \/ Slide(h))
                        /\ ~Asking(h) /\ ~Reckons(h) /\ ~host[h].later
    /\ \A g \in Pages : ~Told(g) /\ ~In(inbox[g], Resulted)

\* No step goes on after the end.
LEMMA EndStep ==
    ASSUME TypeInv, TypeInv', Static, Moves, BegunInv, TurnInv, AfterInv, EndInv
    PROVE  EndInv'
<1>0. /\ \A h \in Hosts : h \in Pages /\ h \notin Players
      /\ \A r \in Players : r \in Pages
      /\ Hosts' = Hosts /\ Pages' = Pages
      /\ Questioned' = Questioned /\ Resulted' = Resulted /\ Reckoning' = Reckoning
      /\ N' = N /\ \A q : Type(q)' = Type(q)
  BY RoomFacts, KindsStay, StaticFacts
<1> DEFINE HostAtEnd(h) == /\ host[h].selected # -1 /\ LastSelected(h) /\ (host[h].results # None \/ Slide(h))
                           /\ ~Asking(h) /\ ~Reckons(h) /\ ~host[h].later
           AtEnd == (\A h \in Hosts : HostAtEnd(h)) /\ \A g \in Pages : ~Told(g) /\ ~In(inbox[g], Resulted)
<1> SUFFICES ASSUME Patient', Ending'
             PROVE  AtEnd'
  BY DEF EndInv
<1>p. Patient /\ hasty = 0 /\ hasty' = 0 /\ InStep /\ \A q : ~Hidden(q)
  BY PatientBack
<1>s. ASSUME AtEnd,
             \A h \in Hosts : /\ host'[h].selected = host[h].selected /\ host'[h].results = host[h].results
                              /\ host'[h].later => host[h].later,
             \A h \in Hosts : In(outbox'[h], Questioned) => In(outbox[h], Questioned),
             \A h \in Hosts : In(outbox'[h], Reckoning) => In(outbox[h], Reckoning),
             \A g \in Pages : In(inbox'[g], Questioned) => In(inbox[g], Questioned),
             \A g \in Pages : In(inbox'[g], Resulted) => In(inbox[g], Resulted)
      PROVE  AtEnd'
  <2>1. ASSUME NEW h \in Hosts PROVE HostAtEnd(h)'
    <3>1. HostAtEnd(h)
      BY <1>s
    <3>2. ~Asking(h)' /\ ~Reckons(h)'
      BY <1>0, <1>s, <3>1 DEF Asking, Reckons
    <3>3. LastSelected(h)' /\ (host'[h].results # None \/ Slide(h)') /\ host'[h].selected # -1 /\ ~host'[h].later
      BY <1>0, <1>s, <3>1 DEF LastSelected, Slide
    <3>4. QED
      BY <3>2, <3>3
  <2>2. \A g \in Pages : ~Told(g)' /\ ~In(inbox'[g], Resulted')
    BY <1>0, <1>s DEF Told
  <2>3. QED
    BY <1>0, <2>1, <2>2
<1>1. ASSUME NEW h \in Hosts, NEW e \in Messages, HostPresses(h, e), e.ev = "get_final_results"
      PROVE  AtEnd'
  <2>1. Quiet /\ inbox' = inbox /\ Asked(h, e) /\ HostKept(h) /\ AsksFinals(h)
    BY <1>p, <1>1, PressAsks DEF HostPresses
  <2>2. /\ \A g \in Pages : \A S : ~In(inbox[g], S) /\ ~In(outbox[g], S)
        /\ \A k \in Hosts : ~host[k].later
    BY <2>1, QuietFacts
  <2>3. ASSUME NEW k \in Hosts PROVE HostAtEnd(k)
    <3>1. host[k].selected = host[h].selected
      <4>1. Expect(h) = Expect(k)
        BY <1>p DEF TurnInv
      <4>2. QED
        BY <1>0, <2>2, <4>1 DEF Expect, Told
    <3>2. host[h].results # None => host[k].results # None
      <4>1. After(h) => After(k)
        BY <1>p DEF AfterInv
      <4>2. QED
        BY <1>0, <2>2, <4>1 DEF After
    <3>3. LastSelected(h) /\ (host[h].results # None \/ Slide(h))
      BY <2>1 DEF AsksFinals, ResultsVisible
    <3>4. host[h].selected # -1
      <4>1. BegunAt(h)
        BY <1>p DEF BegunInv
      <4>2. Type(-1) # "SLIDE"
        BY SceneFacts DEF TypeInv
      <4>3. QED
        BY <3>3, <4>1, <4>2 DEF BegunAt, Slide
    <3>5. QED
      BY <1>0, <2>2, <3>1, <3>2, <3>3, <3>4 DEF LastSelected, Slide, Asking, Reckons
  <2>4. AtEnd
    BY <1>0, <2>2, <2>3 DEF Told
  <2>5. \A k \in Hosts : /\ host'[k].selected = host[k].selected /\ host'[k].results = host[k].results
                         /\ host'[k].later => host[k].later
    BY <1>p, <1>1, <2>1, PressAsks DEF HostKept
  <2>6. e \notin Questioned /\ e \notin Reckoning
    BY <1>1 DEF Questioned, Reckoning, Kind
  <2>7. \A k \in Hosts : /\ In(outbox'[k], Questioned) => In(outbox[k], Questioned)
                         /\ In(outbox'[k], Reckoning) => In(outbox[k], Reckoning)
    BY <1>0, <2>1, <2>6, AskedFacts
  <2> HIDE DEF AtEnd
  <2>8. QED
    BY <1>s, <2>1, <2>4, <2>5, <2>7
<1>2. SUFFICES ASSUME Ending PROVE AtEnd'
  BY <1>1, EndingStep
<1>e. AtEnd
  BY <1>p, <1>2 DEF EndInv
<1>3. ASSUME NEW r \in Players, PlayActs(r) \/ PlayStops(r) \/ PlayTakes(r) \/ PlayReopens(r)
      PROVE  AtEnd'
  <2>1. host' = host /\ \A h \in Hosts : outbox'[h] = outbox[h]
    BY <1>0, <1>3, PlayApart
  <2>2. \A g \in Pages : \A S : In(inbox'[g], S) => In(inbox[g], S)
    BY <1>3, PlayNews
  <2> HIDE DEF AtEnd
  <2>3. QED
    BY <1>s, <1>e, <2>1, <2>2
<1>4. ASSUME NEW h \in Hosts, NEW e \in Messages, HostPresses(h, e)
      PROVE  AtEnd'
  <2>1. inbox' = inbox /\ Asked(h, e) /\ HostKept(h)
    BY <1>4 DEF HostPresses
  <2>2. \A k \in Hosts : /\ host'[k].selected = host[k].selected /\ host'[k].results = host[k].results
                         /\ host'[k].later => host[k].later
    BY <1>p, <1>4, <2>1, PressAsks DEF HostKept
  <2>3. e.ev # "set_question_number" /\ e.ev # "get_question_results"
    <3>1. HostAtEnd(h)
      BY <1>e
    <3>2. ~AsksNext(h) /\ ~AsksResults(h)
      BY <3>1 DEF AsksNext, AsksResults
    <3>3. QED
      BY <1>4, <3>2, PressAsks
  <2>4. e \notin Questioned /\ e \notin Reckoning
    BY <2>3 DEF Questioned, Reckoning, Kind
  <2>5. \A k \in Hosts : /\ In(outbox'[k], Questioned) => In(outbox[k], Questioned)
                         /\ In(outbox'[k], Reckoning) => In(outbox[k], Reckoning)
    BY <1>0, <2>1, <2>4, AskedFacts
  <2> HIDE DEF AtEnd
  <2>6. QED
    BY <1>s, <1>e, <2>1, <2>2, <2>5
<1>5. ASSUME NEW h \in Hosts, HostSkips(h) PROVE FALSE
  <2>1. HostAtEnd(h)
    BY <1>e
  <2>2. QED
    BY <1>5, <2>1 DEF HostSkips
<1>6. ASSUME NEW h \in Hosts, HostTicks(h) PROVE AtEnd'
  <2>1. /\ inbox' = inbox /\ outbox' = outbox
        /\ \A k \in Hosts : /\ host'[k].selected = host[k].selected /\ host'[k].results = host[k].results
                            /\ host'[k].later => host[k].later
    BY <1>6 DEF HostTicks
  <2> HIDE DEF AtEnd
  <2>2. QED
    BY <1>s, <1>e, <2>1
<1>7. ASSUME NEW h \in Hosts, HostTakes(h) PROVE AtEnd'
  <2>1. ~Told(h) /\ ~In(inbox[h], Resulted)
    BY <1>0, <1>e
  <2>2. /\ outbox' = outbox /\ (\A k \in Hosts : k # h => host'[k] = host[k])
        /\ \A k \in Pages : \A S : In(inbox'[k], S) => In(inbox[k], S)
    BY <1>7, HostNews DEF HostTakes
  <2>3. \A k \in Hosts : /\ host'[k].selected = host[k].selected /\ host'[k].results = host[k].results
                         /\ host'[k].later => host[k].later
    BY <1>7, <2>1, <2>2, HostNews
  <2> HIDE DEF AtEnd
  <2>4. QED
    BY <1>s, <1>e, <2>2, <2>3
<1>8. ASSUME NEW g \in Pages, NEW i \in Slots(g), Handles(g, i) PROVE AtEnd'
  <2>1. host' = host /\ Done(g, i)
    BY <1>8, ServerApart DEF Handles, HandlesOne
  <2>2. \A h \in Hosts : \A S : In(outbox'[h], S) => In(outbox[h], S)
    BY <1>0, <1>8, <2>1, DoneFacts
  <2>3. ~HandlesQuestion(g, i) /\ ~HandlesResults(g, i)
    <3>1. PICK e \in Messages : e = outbox[g][i] /\ \A S : e \in S => In(outbox[g], S)
      BY <1>8, KindFacts
    <3>2. g \in Hosts => e \notin Questioned /\ e \notin Reckoning
      BY <1>e, <3>1 DEF Asking, Reckons
    <3>3. g \in Hosts => e.ev # "set_question_number" /\ e.ev # "get_question_results"
      BY <3>2 DEF Questioned, Reckoning, Kind
    <3>4. QED
      BY <3>1, <3>3 DEF HandlesQuestion, HandlesResults
  <2>4. \A k \in Pages : /\ In(inbox'[k], Questioned) => In(inbox[k], Questioned)
                         /\ In(inbox'[k], Resulted) => In(inbox[k], Resulted)
    BY <1>8, <2>3, NoNews
  <2> HIDE DEF AtEnd
  <2>5. QED
    BY <1>s, <1>e, <2>1, <2>2, <2>4
<1>9. CASE Announces
  <2>1. host' = host /\ outbox' = outbox
    BY <1>9 DEF Announces
  <2>2. \A k \in Pages : /\ In(inbox'[k], Questioned) => In(inbox[k], Questioned)
                         /\ In(inbox'[k], Resulted) => In(inbox[k], Resulted)
    BY <1>9, NoNews
  <2> HIDE DEF AtEnd
  <2>3. QED
    BY <1>s, <1>e, <2>1, <2>2
<1>10. CASE UNCHANGED vars
  <2> HIDE DEF AtEnd
  <2>1. QED
    BY <1>s, <1>e, <1>10 DEF vars
<1>11. QED
  BY <1>3, <1>4, <1>5, <1>6, <1>7, <1>8, <1>9, <1>10 DEF Moves

(***************************************************************************)
(* The same results for all                                                *)
(***************************************************************************)

\* Hosts who wait ask for the results of the question they select before they have any;
\* they come to every host before the next question, and are added by then.
TellInv == Patient =>
    /\ \A h \in Hosts : ~host[h].later
    /\ \A g, h \in Hosts : \A n : In(outbox[g], Wants(n)) =>
          host[h].results = None /\ ~Slide(h) /\ n = host[h].selected /\ ~Told(h) /\ ~Asking(h)
    /\ \A g \in Hosts : \A k \in Pages : Asking(g) => ~In(inbox[k], Resulted)
    /\ \A g, h \in Hosts : host[h].adding => host[h].results # None /\ ~Told(h) /\ ~Asking(g)
    /\ \A h \in Hosts : In(inbox[h], Resulted) => host[h].results = None /\ ~Slide(h) /\ ~Told(h)

\* It is so through every step.
LEMMA TellStep ==
    ASSUME TypeInv, TypeInv', Static, Moves, TurnInv, AfterInv, ReckonInv, ReckonInv', TellInv
    PROVE  TellInv'
<1>0. /\ \A h \in Hosts : h \in Pages /\ h \notin Players
      /\ \A r \in Players : r \in Pages
      /\ Hosts' = Hosts /\ Pages' = Pages /\ "admin" \in Hosts
      /\ Questioned' = Questioned /\ Resulted' = Resulted /\ Reckoning' = Reckoning
      /\ \A n : Wants(n)' = Wants(n)
      /\ \A q : Type(q)' = Type(q)
  BY RoomFacts, KindsStay, StaticFacts DEF Wants
<1>w. \A s, n : In(s, Wants(n)) => In(s, Reckoning)
  BY DEF In, Wants, Reckoning, Kind
<1> DEFINE Tell1 == \A h \in Hosts : ~host[h].later
           Tell2 == \A g, h \in Hosts : \A n : In(outbox[g], Wants(n)) =>
                       host[h].results = None /\ ~Slide(h) /\ n = host[h].selected /\ ~Told(h) /\ ~Asking(h)
           Tell3 == \A g \in Hosts : \A k \in Pages : Asking(g) => ~In(inbox[k], Resulted)
           Tell4 == \A g, h \in Hosts : host[h].adding => host[h].results # None /\ ~Told(h) /\ ~Asking(g)
           Tell5 == \A h \in Hosts : In(inbox[h], Resulted) => host[h].results = None /\ ~Slide(h) /\ ~Told(h)
           Tells == Tell1 /\ Tell2 /\ Tell3 /\ Tell4 /\ Tell5
<1> SUFFICES ASSUME Patient'
             PROVE  Tells'
  BY DEF TellInv
<1>p. Patient /\ hasty = 0 /\ hasty' = 0 /\ InStep /\ InStep' /\ \A q : ~Hidden(q)
  BY PatientBack
<1>t. Tells
  BY <1>p DEF TellInv
<1>s. ASSUME \A h \in Hosts : /\ host'[h].selected = host[h].selected /\ host'[h].results = host[h].results
                              /\ host'[h].later => host[h].later
                              /\ host'[h].adding => host[h].adding,
             \A h \in Hosts : \A S : In(outbox'[h], S) => In(outbox[h], S),
             \A g \in Pages : In(inbox'[g], Questioned) => In(inbox[g], Questioned),
             \A g \in Pages : In(inbox'[g], Resulted) => In(inbox[g], Resulted)
      PROVE  Tells'
  <2>1. /\ \A h \in Hosts : (Told(h)' => Told(h)) /\ (Asking(h)' => Asking(h)) /\ (Slide(h)' => Slide(h))
        /\ \A g \in Hosts : \A n : In(outbox'[g], Wants(n)') => In(outbox[g], Wants(n))
        /\ \A g \in Pages : In(inbox'[g], Resulted') => In(inbox[g], Resulted)
    BY <1>0, <1>s DEF Told, Asking, Slide
  <2>2. Tell1' /\ Tell3'
    BY <1>0, <1>t, <1>s, <2>1
  <2>3. Tell2'
    BY <1>0, <1>t, <1>s, <2>1
  <2>4. Tell4'
    BY <1>0, <1>t, <1>s, <2>1
  <2>5. Tell5'
    BY <1>0, <1>t, <1>s, <2>1
  <2>6. QED
    BY <2>2, <2>3, <2>4, <2>5
<1>1. ASSUME NEW r \in Players, PlayActs(r) \/ PlayStops(r) \/ PlayTakes(r) \/ PlayReopens(r)
      PROVE  Tells'
  <2>1. host' = host /\ \A h \in Hosts : outbox'[h] = outbox[h]
    BY <1>0, <1>1, PlayApart
  <2>2. \A g \in Pages : \A S : In(inbox'[g], S) => In(inbox[g], S)
    BY <1>1, PlayNews
  <2> HIDE DEF Tells
  <2>3. QED
    BY <1>s, <2>1, <2>2
<1>2. ASSUME NEW h \in Hosts, NEW e \in Messages, HostPresses(h, e)
      PROVE  Tells'
  <2>1. Quiet /\ inbox' = inbox /\ Asked(h, e) /\ HostKept(h) /\ (\A g \in Hosts : g # h => host'[g] = host[g])
    BY <1>p, <1>2 DEF HostPresses, HostKept
  <2>2. /\ \A g \in Pages : \A S : ~In(inbox[g], S) /\ ~In(outbox[g], S)
        /\ \A g \in Hosts : ~host[g].later /\ ~host[g].adding
    BY <2>1, QuietFacts
  <2>3. \A g \in Hosts : ~host'[g].adding /\ ~host'[g].later
    BY <1>p, <1>2, <2>1, <2>2, PressAsks DEF HostKept
  <2>4. \A g \in Pages : \A S : ~In(inbox'[g], S)
    BY <2>1, <2>2
  <2>5. Tell1' /\ Tell3' /\ Tell4' /\ Tell5'
    BY <1>0, <2>3, <2>4
  <2>6. ASSUME NEW g \in Hosts, NEW k \in Hosts, NEW n, In(outbox'[g], Wants(n))
        PROVE  host'[k].results = None /\ ~Slide(k)' /\ n = host'[k].selected /\ ~Told(k)' /\ ~Asking(k)'
    <3>1. g = h /\ e \in Wants(n)
      BY <1>0, <2>1, <2>2, <2>6, AskedFacts
    <3>2. e.ev = "get_question_results" /\ e.q = n
      BY <3>1 DEF Wants
    <3>3. n = host[h].shown /\ AsksResults(h)
      BY <1>2, <3>2, PressAsks
    <3>4. host[h].shown = host[h].selected /\ host[k].selected = host[h].selected
      <4>1. HostTurn(h) /\ Expect(h) = Expect(k)
        BY <1>p DEF TurnInv
      <4>2. QED
        BY <1>0, <2>2, <4>1 DEF Expect, Told, HostTurn
    <3>5. host[k].results = None
      <4>1. After(k) => After(h)
        BY <1>p DEF AfterInv
      <4>2. QED
        BY <1>0, <2>2, <3>3, <4>1 DEF After, AsksResults
    <3>6. ~Asking(k)'
      <4>1. e \notin Questioned
        BY <3>2 DEF Questioned, Kind
      <4>2. ~In(outbox'[k], Questioned)
        BY <1>0, <2>1, <2>2, <4>1, AskedFacts
      <4>3. QED
        BY <1>0, <4>2 DEF Asking
    <3>7. ~Told(k)'
      BY <1>0, <2>4 DEF Told
    <3>8. host'[k].results = host[k].results /\ host'[k].selected = host[k].selected
      BY <2>1 DEF HostKept
    <3>9. ~Slide(k)'
      BY <1>0, <3>3, <3>4, <3>8 DEF Slide, AsksResults
    <3>10. QED
      BY <3>3, <3>4, <3>5, <3>6, <3>7, <3>8, <3>9
  <2>7. Tell2'
    BY <1>0, <2>6
  <2>8. QED
    BY <2>5, <2>7
<1>3. ASSUME NEW h \in Hosts, HostSkips(h) PROVE FALSE
  BY <1>3, <1>t DEF HostSkips
<1>4. ASSUME NEW h \in Hosts, HostTicks(h) PROVE Tells'
  <2>1. /\ inbox' = inbox /\ outbox' = outbox
        /\ \A k \in Hosts : /\ host'[k].selected = host[k].selected /\ host'[k].results = host[k].results
                            /\ host'[k].later => host[k].later
                            /\ host'[k].adding => host[k].adding
    BY <1>4 DEF HostTicks
  <2> HIDE DEF Tells
  <2>2. QED
    BY <1>s, <2>1
<1>5. ASSUME NEW h \in Hosts, HostTakes(h) PROVE Tells'
  <2>1. /\ outbox' = outbox /\ (\A k \in Hosts : k # h => host'[k] = host[k])
        /\ \A k \in Pages : \A S : In(inbox'[k], S) => In(inbox[k], S)
    BY <1>5, HostNews DEF HostTakes
  <2>2. /\ \A g \in Hosts : (Told(g)' => Told(g)) /\ (Asking(g)' <=> Asking(g))
        /\ \A g \in Pages : In(inbox'[g], Resulted') => In(inbox[g], Resulted)
        /\ \A g \in Hosts : \A n : In(outbox'[g], Wants(n)') <=> In(outbox[g], Wants(n))
    BY <1>0, <2>1 DEF Told, Asking
  <2>3. CASE ~In(inbox[h], Resulted) /\ ~Told(h)
    <3>1. \A k \in Hosts : /\ host'[k].selected = host[k].selected /\ host'[k].results = host[k].results
                           /\ host'[k].later => host[k].later
                           /\ host'[k].adding => host[k].adding
      BY <1>5, <2>1, <2>3, HostNews
    <3> HIDE DEF Tells
    <3>2. QED
      BY <1>s, <2>1, <3>1
  <2>4. CASE In(inbox[h], Resulted)
    <3>1. host[h].results = None /\ ~Slide(h) /\ ~Told(h) /\ \A g \in Hosts : ~Asking(g) /\ ~Reckons(g)
      <4>1. \A g \in Hosts : ~Asking(g)
        BY <1>0, <1>t, <2>4
      <4>2. \A g \in Hosts : ~Reckons(g)
        BY <1>0, <1>p, <2>4 DEF ReckonInv
      <4>3. host[h].results = None /\ ~Slide(h) /\ ~Told(h)
        BY <1>t, <2>4
      <4>4. QED
        BY <4>1, <4>2, <4>3
    <3>2. /\ host'[h].selected = host[h].selected /\ host'[h].later = host[h].later
          /\ \/ host'[h].results = host[h].results /\ (host'[h].adding <=> host[h].adding)
             \/ host'[h].results # None /\ inbox[h][1] \in Resulted
      BY <1>5, <2>4, <3>1, HostNews
    <3>3. \A g \in Hosts : \A n : ~In(outbox'[g], Wants(n)')
      BY <1>w, <2>2, <3>1 DEF Reckons
    <3>4. Tell1' /\ Tell2' /\ Tell3'
      BY <1>0, <1>t, <2>1, <2>2, <3>1, <3>2, <3>3
    <3>5. Tell4'
      <4>1. ASSUME NEW g \in Hosts, NEW k \in Hosts, host'[k].adding
            PROVE  host'[k].results # None /\ ~Told(k)' /\ ~Asking(g)'
        <5>1. CASE k # h
          BY <1>t, <2>1, <2>2, <4>1, <5>1
        <5>2. CASE k = h
          <6>1. ~Told(k)' /\ ~Asking(g)'
            BY <2>2, <3>1, <5>2
          <6>2. ~host[h].adding
            BY <1>t, <3>1
          <6>3. host'[k].results # None
            BY <3>2, <4>1, <5>2, <6>2
          <6>4. QED
            BY <6>1, <6>3
        <5>3. QED
          BY <5>1, <5>2
      <4>2. QED
        BY <1>0, <4>1
    <3>6. Tell5'
      <4>1. ASSUME NEW k \in Hosts, In(inbox'[k], Resulted')
            PROVE  host'[k].results = None /\ ~Slide(k)' /\ ~Told(k)'
        <5>1. In(inbox[k], Resulted)
          BY <1>0, <2>2, <4>1
        <5>2. host[k].results = None /\ ~Slide(k) /\ ~Told(k)
          BY <1>t, <5>1
        <5>3. CASE k # h
          BY <1>0, <2>1, <2>2, <5>2, <5>3 DEF Slide
        <5>4. CASE k = h
          <6>1. inbox[h][1] \notin Resulted
            <7>1. Once(inbox[h], Resulted)
              BY <1>0, <1>p DEF ReckonInv
            <7>2. Read(h) /\ 1 \in Places(h)
              BY <1>5 DEF HostTakes
            <7>3. QED
              BY <1>0, <4>1, <5>4, <7>1, <7>2, ReadFacts
          <6>2. host'[h].results = host[h].results
            BY <3>2, <6>1
          <6>3. QED
            BY <1>0, <2>2, <3>2, <5>2, <5>4, <6>2 DEF Slide
        <5>5. QED
          BY <5>3, <5>4
      <4>2. QED
        BY <1>0, <4>1
    <3>7. QED
      BY <3>4, <3>5, <3>6
  <2>5. CASE ~In(inbox[h], Resulted) /\ Told(h)
    <3>1. \A g \in Hosts : ~Asking(g)
      BY <1>p, <2>5 DEF TurnInv
    <3>2. \A g \in Hosts : \A n : ~In(outbox[g], Wants(n))
      BY <1>t, <2>5
    <3>3. ~host'[h].adding /\ host'[h].later = host[h].later /\ ~In(inbox'[h], Resulted')
      <4>1. ~host[h].adding
        BY <1>t, <2>5
      <4>2. inbox[h][1] \notin Resulted /\ inbox[h][1] \in Messages
        BY <1>0, <1>5, <2>5, KindFacts DEF HostTakes
      <4>3. PICK e \in Messages : e = inbox[h][1]
        BY <4>2
      <4>4. e.ev # "question_results"
        BY <4>2, <4>3 DEF Resulted, Kind
      <4>5. HostTurned(h, host[h], e, host'[h])
        BY <1>5, <4>3 DEF HostTakes
      <4>6. QED
        BY <1>0, <2>2, <2>5, <4>1, <4>4, <4>5 DEF HostTurned
    <3>4. Tell1' /\ Tell2' /\ Tell3'
      BY <1>0, <1>t, <2>1, <2>2, <3>1, <3>2, <3>3
    <3>5. Tell4'
      BY <1>0, <1>t, <2>1, <2>2, <3>1, <3>3
    <3>6. Tell5'
      <4>1. \A k \in Hosts : k # h => (Slide(k)' <=> Slide(k))
        BY <1>0, <2>1 DEF Slide
      <4>2. QED
        BY <1>0, <1>t, <2>1, <2>2, <3>3, <4>1
    <3>7. QED
      BY <3>4, <3>5, <3>6
  <2>6. QED
    BY <2>3, <2>4, <2>5
<1>6. ASSUME NEW g \in Pages, NEW i \in Slots(g), Handles(g, i) PROVE Tells'
  <2>1. host' = host /\ Done(g, i)
    BY <1>6, ServerApart DEF Handles, HandlesOne
  <2>2. \A h \in Hosts : \A S : In(outbox'[h], S) => In(outbox[h], S)
    BY <1>0, <1>6, <2>1, DoneFacts
  <2>3. PICK m \in Messages : m = outbox[g][i] /\ \A S : m \in S => In(outbox[g], S)
    BY <1>6, KindFacts
  <2>s. \A k \in Hosts : /\ Slide(k)' <=> Slide(k)
                         /\ Asking(k)' => Asking(k)
    BY <1>0, <2>1, <2>2 DEF Slide, Asking
  <2>4. CASE HandlesQuestion(g, i) /\ m.q \in Questions
    <3>1. g \in Hosts /\ Asking(g)
      <4>1. g \in Hosts /\ m.ev = "set_question_number"
        BY <2>3, <2>4 DEF HandlesQuestion
      <4>2. m \in Questioned
        BY <4>1 DEF Questioned, Kind
      <4>3. QED
        BY <2>3, <4>1, <4>2 DEF Asking
    <3>2. PICK gs : \E e \in Messages : Sent(gs, e) /\ e.ev = "set_question_number" /\ \A h \in Hosts : h \in gs
      BY <1>6, <1>p, <2>3, <2>4, QuestionNews
    <3>3. PICK e \in Messages : Sent(gs, e) /\ e.ev = "set_question_number"
      BY <3>2
    <3>4. e \notin Resulted
      BY <3>3 DEF Resulted, Kind
    <3>5. \A k \in Pages : ~In(inbox'[k], Resulted')
      <4>1. \A k \in Pages : ~In(inbox[k], Resulted)
        BY <1>t, <3>1
      <4>2. QED
        BY <1>0, <3>3, <3>4, <4>1, SentFacts
    <3>6. \A k \in Hosts : ~host[k].adding
      BY <1>t, <3>1
    <3>7. \A k \in Hosts : \A n : ~In(outbox'[k], Wants(n)')
      BY <1>0, <1>t, <2>2, <3>1
    <3>8. Tell1' /\ Tell2' /\ Tell3'
      BY <1>0, <1>t, <2>1, <3>5, <3>7
    <3>9. Tell4' /\ Tell5'
      BY <1>0, <2>1, <3>5, <3>6
    <3>10. QED
      BY <3>8, <3>9
  <2>5. CASE HandlesResults(g, i)
    <3>1. g \in Hosts /\ In(outbox[g], Wants(m.q)) /\ Reckons(g)
      <4>1. g \in Hosts /\ m.ev = "get_question_results"
        BY <2>3, <2>5 DEF HandlesResults
      <4>2. m \in Wants(m.q) /\ m \in Reckoning
        BY <4>1 DEF Wants, Reckoning, Kind
      <4>3. QED
        BY <2>3, <4>1, <4>2 DEF Reckons
    <3>2. \A k \in Hosts : host[k].results = None /\ ~Slide(k) /\ ~Told(k) /\ ~Asking(k) /\ ~host[k].adding
      <4>1. \A k \in Hosts : host[k].results = None /\ ~Slide(k) /\ ~Told(k) /\ ~Asking(k)
        BY <1>t, <3>1
      <4>2. \A k \in Hosts : ~host[k].adding
        BY <1>p, <3>1 DEF ReckonInv
      <4>3. QED
        BY <4>1, <4>2
    <3>3. PICK e \in Messages : Sent(ToRoom, e) /\ e.ev = "question_results"
      <4>1. m.q \in Questions \cup {-1}
        <5>1. m.ev = "get_question_results"
          BY <2>3, <2>5 DEF HandlesResults
        <5>2. HostRequestOK(scene.quiz, g, m)
          BY <1>6, <2>3, <3>1 DEF TypeInv, OutboxOK
        <5>3. QED
          BY <5>1, <5>2, QuizFacts DEF HostRequestOK, TypeInv
      <4>2. Event("question_results", m.q, ResultList(m.q)) \in Messages
        BY <4>1, EventsFit
      <4>3. QED
        BY <2>3, <2>5, <4>2 DEF HandlesResults, Event
    <3>4. e \notin Questioned /\ e \in Resulted
      BY <3>3 DEF Questioned, Resulted, Kind
    <3>5. \A k \in Hosts : ~Told(k)'
      BY <1>0, <3>2, <3>3, <3>4, SentFacts DEF Told
    <3>6. \A k \in Hosts : \A n : ~In(outbox'[k], Wants(n)')
      <4>1. "admin" \in ToRoom /\ In(inbox'["admin"], Resulted)
        BY <1>0, <3>3, <3>4, SentFacts DEF ToRoom
      <4>2. \A k \in Hosts : ~Reckons(k)'
        BY <1>0, <1>p, <4>1 DEF ReckonInv
      <4>3. QED
        BY <1>0, <1>w, <4>2 DEF Reckons
    <3>7. Tell1' /\ Tell2' /\ Tell3'
      BY <1>0, <1>t, <2>1, <2>s, <3>2, <3>6
    <3>8. Tell4' /\ Tell5'
      BY <1>0, <2>1, <2>s, <3>2, <3>5
    <3>9. QED
      BY <3>7, <3>8
  <2>6. CASE /\ ~HandlesResults(g, i)
             /\ HandlesQuestion(g, i) => m.q \notin Questions
    <3>1. \A k \in Pages : /\ In(inbox'[k], Questioned) => In(inbox[k], Questioned)
                           /\ In(inbox'[k], Resulted) => In(inbox[k], Resulted)
      <4>1. CASE HandlesQuestion(g, i)
        BY <2>3, <2>6, <4>1 DEF HandlesQuestion
      <4>2. CASE ~HandlesQuestion(g, i)
        BY <1>6, <2>6, <4>2, NoNews
      <4>3. QED
        BY <4>1, <4>2
    <3> HIDE DEF Tells
    <3>2. QED
      BY <1>s, <2>1, <2>2, <3>1
  <2>7. QED
    BY <2>4, <2>5, <2>6
<1>7. CASE Announces
  <2>1. host' = host /\ outbox' = outbox
    BY <1>7 DEF Announces
  <2>2. \A k \in Pages : /\ In(inbox'[k], Questioned) => In(inbox[k], Questioned)
                         /\ In(inbox'[k], Resulted) => In(inbox[k], Resulted)
    BY <1>7, NoNews
  <2> HIDE DEF Tells
  <2>3. QED
    BY <1>s, <2>1, <2>2
<1>8. CASE UNCHANGED vars
  <2> HIDE DEF Tells
  <2>1. QED
    BY <1>s, <1>8 DEF vars
<1>9. QED
  BY <1>1, <1>2, <1>3, <1>4, <1>5, <1>6, <1>7, <1>8 DEF Moves

\* The question that the host's page is at changes when the next one is told.
LEMMA ExpectStep ==
    ASSUME TypeInv, Static, Moves, TurnInv, hasty = 0, InStep
    PROVE  \/ Expect("admin")' = Expect("admin")
           \/ \E g \in Pages : \E i \in Slots(g) :
                 Handles(g, i) /\ HandlesQuestion(g, i) /\ outbox[g][i].q \in Questions
<1>0. /\ "admin" \in Hosts /\ "admin" \in Pages /\ "admin" \notin Players
      /\ Questioned' = Questioned
  BY RoomFacts, KindsStay DEF Pages
<1>s. ASSUME host'["admin"].selected = host["admin"].selected,
             In(inbox'["admin"], Questioned) <=> In(inbox["admin"], Questioned)
      PROVE  Expect("admin")' = Expect("admin")
  BY <1>0, <1>s DEF Expect, Told
<1>1. ASSUME NEW r \in Players, PlayActs(r) \/ PlayStops(r) \/ PlayTakes(r) \/ PlayReopens(r)
      PROVE  Expect("admin")' = Expect("admin")
  BY <1>0, <1>1, <1>s, PlayApart
<1>2. ASSUME NEW h \in Hosts, HostMoves(h)
      PROVE  Expect("admin")' = Expect("admin")
  <2>1. CASE HostSkips(h) \/ HostTicks(h) \/ \E e \in Messages : HostPresses(h, e)
    BY <1>0, <1>s, <2>1 DEF HostSkips, HostTicks, HostPresses, HostKept
  <2>2. CASE h # "admin"
    BY <1>0, <1>2, <1>s, <2>2, HostApart
  <2>3. CASE HostTakes("admin")
    <3>1. /\ Read("admin") /\ 1 \in Places("admin")
          /\ HostTurned("admin", host["admin"], inbox["admin"][1], host'["admin"])
      BY <1>0, <2>3 DEF HostTakes
    <3>2. PICK e \in Messages : e = inbox["admin"][1]
      BY <1>0, <3>1, KindFacts
    <3>3. /\ In(inbox["admin"], Questioned) <=> In(inbox'["admin"], Questioned) \/ e \in Questioned
          /\ Once(inbox["admin"], Questioned) => (e \in Questioned => ~In(inbox'["admin"], Questioned))
      BY <1>0, <3>1, <3>2, ReadFacts
    <3>4. Once(inbox["admin"], Questioned)
      BY <1>0 DEF TurnInv, HostTurn
    <3>5. e \in Questioned <=> e.ev = "set_question_number"
      BY DEF Questioned, Kind
    <3>6. HostTurned("admin", host["admin"], e, host'["admin"])
      BY <3>1, <3>2
    <3>7. host'["admin"].selected = IF e \in Questioned THEN host["admin"].selected + 1 ELSE host["admin"].selected
      BY <3>5, <3>6 DEF HostTurned
    <3>8. QED
      BY <1>0, <3>3, <3>4, <3>7 DEF Expect, Told
  <2>4. QED
    BY <1>2, <2>1, <2>2, <2>3 DEF HostMoves
<1>3. ASSUME NEW g \in Pages, NEW i \in Slots(g), Handles(g, i),
             ~(HandlesQuestion(g, i) /\ outbox[g][i].q \in Questions)
      PROVE  Expect("admin")' = Expect("admin")
  <2>1. host' = host
    BY <1>3, ServerApart
  <2>2. CASE HandlesQuestion(g, i)
    BY <1>3, <1>s, <2>1, <2>2 DEF HandlesQuestion
  <2>3. CASE HandlesResults(g, i)
    <3>1. PICK e : Sent(ToRoom, e) /\ e.ev = "question_results"
      BY <2>3 DEF HandlesResults, Event
    <3>2. e \notin Questioned
      BY <3>1 DEF Questioned, Kind
    <3>3. QED
      BY <1>0, <1>s, <2>1, <3>1, <3>2, SentFacts
  <2>4. CASE ~HandlesQuestion(g, i) /\ ~HandlesResults(g, i)
    BY <1>0, <1>3, <1>s, <2>1, <2>4, NoNews
  <2>5. QED
    BY <2>2, <2>3, <2>4
<1>4. CASE Announces
  <2>1. host' = host
    BY <1>4 DEF Announces
  <2>2. QED
    BY <1>0, <1>4, <1>s, <2>1, NoNews
<1>5. CASE UNCHANGED vars
  BY <1>s, <1>5 DEF vars
<1>6. QED
  BY <1>1, <1>2, <1>3, <1>4, <1>5 DEF Moves, HostMoves

\* A page in the room that was never opened anew is told of every question that is no
\* slide, before its results; caught up, it shows the scores of the host's page.
EqualAt(p) ==
    /\ Type(Expect("admin")) \notin {None, "SLIDE"} => play[p].q # None \/ Told(p)
    /\ play[p].q # None \/ Led(inbox[p], Resulted, Questioned)
    /\ \A x \in Players : DuePlay(p, x) = DueHost(x)
EqualInv == Patient => \A p \in server.room : play[p].conn = 1 => EqualAt(p)

\* Whoever comes into the room joins or rejoins.
LEMMA RoomStep ==
    ASSUME TypeInv, NEW g \in Pages, NEW i \in Slots(g), Handles(g, i), NEW p, p \in server'.room
    PROVE  p \in server.room \/ (g = p /\ (HandlesJoin(g, i) \/ HandlesRejoin(g, i)))
<1>1. CASE HandlesJoin(g, i) \/ HandlesRejoin(g, i)
  BY <1>1 DEF HandlesJoin, HandlesRejoin
<1>2. CASE HandlesKick(g, i)
  BY <1>2 DEF HandlesKick
<1>3. CASE HandlesNothing(g, i) \/ HandlesSubmit(g, i) \/ HandlesStart(g, i) \/ HandlesQuestion(g, i)
           \/ HandlesResults(g, i) \/ HandlesTold(g, i) \/ HandlesNews(g, i)
  BY <1>3 DEF HandlesNothing, HandlesSubmit, HandlesStart, HandlesQuestion, HandlesResults, HandlesTold, HandlesNews
<1>4. QED
  BY <1>1, <1>2, <1>3 DEF Handles

\* What a page that takes its next event still knows.
LEMMA EqualTakes ==
    ASSUME TypeInv, NEW p \in Players, PlayActs(p) \/ PlayStops(p) \/ PlayTakes(p)
    PROVE  /\ play[p].q # None \/ Told(p) => play'[p].q # None \/ In(inbox'[p], Questioned)
           /\ play[p].q # None \/ Led(inbox[p], Resulted, Questioned) =>
                 play'[p].q # None \/ Led(inbox'[p], Resulted, Questioned)
           /\ play'[p].conn = play[p].conn
           /\ 1 \in Places(p) /\ inbox[p][1] \in Resulted =>
                 In(inbox[p], Resulted) /\ ~Led(inbox[p], Resulted, Questioned)
<1>0. p \in Pages
  BY RoomFacts
<1>1. ASSUME Led(inbox[p], Resulted, Questioned), 1 \in Places(p) PROVE inbox[p][1] \notin Resulted
  <2>1. SUFFICES ASSUME inbox[p][1] \in Resulted PROVE FALSE
    OBVIOUS
  <2>2. \E j \in 1..Len(inbox[p]) : j < 1 /\ inbox[p][j] \in Questioned
    BY <1>1, <2>1 DEF Led, Places
  <2>3. Len(inbox[p]) \in Nat
    BY <1>0, KindFacts
  <2>4. QED
    BY <2>2, <2>3
<1>2. 1 \in Places(p) /\ inbox[p][1] \in Resulted => In(inbox[p], Resulted) /\ ~Led(inbox[p], Resulted, Questioned)
  BY <1>0, <1>1, KindFacts
<1>3. CASE PlayActs(p)
  <2>1. play'[p].q = play[p].q /\ play'[p].conn = play[p].conn /\ inbox' = inbox
    BY <1>3 DEF PlayActs, PlayKept
  <2>2. QED
    BY <1>2, <2>1 DEF Told
<1>4. CASE PlayStops(p) \/ PlayTakes(p)
  <2>1. Read(p) /\ 1 \in Places(p)
    BY <1>4 DEF PlayStops, PlayTakes
  <2>2. PICK e \in Messages : e = inbox[p][1]
    BY <1>0, <2>1, KindFacts
  <2>3. /\ In(inbox[p], Questioned) => In(inbox'[p], Questioned) \/ e \in Questioned
        /\ Led(inbox[p], Resulted, Questioned) /\ e \notin Questioned => Led(inbox'[p], Resulted, Questioned)
    BY <1>0, <2>1, <2>2, ReadFacts
  <2>4. e.ev = "set_question_number" => e.q # None
    <3>1. PlayEventOK(scene.quiz, e)
      BY <2>1, <2>2 DEF TypeInv, InboxOK
    <3>2. e.ev = "set_question_number" => e.q \in Questions
      BY <3>1, QuizFacts DEF PlayEventOK, TypeInv
    <3>3. QED
      BY <3>2, SceneFacts DEF TypeInv
  <2>5. e \in Questioned <=> e.ev = "set_question_number"
    BY DEF Questioned, Kind
  <2>6. /\ play'[p].q = IF e \in Questioned THEN e.q ELSE play[p].q
        /\ play'[p].conn = play[p].conn
    <3>1. CASE PlayStops(p)
      <4>1. e.ev # "set_question_number"
        BY <2>2, <3>1 DEF PlayStops
      <4>2. QED
        BY <2>5, <3>1, <4>1 DEF PlayStops, PlayKept
    <3>2. CASE PlayTakes(p)
      <4>1. Turned(play[p], e, play'[p])
        BY <2>2, <3>2 DEF PlayTakes
      <4>2. QED
        BY <2>5, <4>1 DEF Turned
    <3>3. QED
      BY <1>4, <3>1, <3>2
  <2>7. QED
    BY <1>2, <2>3, <2>4, <2>5, <2>6 DEF Told
<1>5. QED
  BY <1>3, <1>4

\* A page that comes into a game that has not begun shows no scores, like the host's page.
LEMMA EqualJoins ==
    ASSUME TypeInv, TypeInv', Static, StartedInv, NEW p \in Players, LinkAt(p), BlankAt(p),
           NEW i \in Slots(p), Handles(p, i), HandlesJoin(p, i)
    PROVE  /\ Type(Expect("admin")) = None
           /\ Led(inbox[p], Resulted, Questioned)
           /\ \A x \in Players : DuePlay(p, x) = DueHost(x)
<1>0. p \in Pages /\ "admin" \in Hosts /\ "admin" \in Pages
  BY RoomFacts DEF Pages
<1>1. Idle("admin") /\ ~server.started
  BY <1>0 DEF StartedInv, HandlesJoin
<1>2. Waits(p)
  <2>1. PICK e \in Messages : e = outbox[p][i] /\ \A S : e \in S => In(outbox[p], S)
    BY <1>0, KindFacts
  <2>2. e \in Entries
    BY <2>1 DEF HandlesJoin, Entries, Kinds
  <2>3. QED
    BY <2>1, <2>2 DEF Waits
<1>3. ~play[p].started /\ ~In(inbox[p], Loud)
  BY <1>2 DEF LinkAt
<1>4. \A e : /\ e \in Resulted => e \in Loud /\ e \in Late
             /\ e \in Questioned => e \in Late
  BY DEF Resulted, Questioned, Kind, Loud, Late, Early
<1>5. ~In(inbox[p], Resulted) /\ ~In(inbox["admin"], Resulted) /\ ~In(inbox["admin"], Questioned)
  BY <1>1, <1>3, <1>4 DEF In, Idle
<1>6. Led(inbox[p], Resulted, Questioned)
  BY <1>5 DEF In, Led
<1>7. Type(Expect("admin")) = None
  <2>1. Expect("admin") = -1
    BY <1>1, <1>5 DEF Expect, Told, Idle
  <2>2. QED
    BY <2>1, SceneFacts DEF TypeInv
<1>8. ASSUME NEW x \in Players PROVE DuePlay(p, x) = DueHost(x)
  <2>1. play[p].tally[x] = 0 /\ host["admin"].tally[x] = 0
    BY <1>1, <1>3 DEF BlankAt, Idle
  <2>2. Owed(p, x) = 0 /\ Owed("admin", x) = 0 /\ Adding(x) = 0
    BY <1>1, <1>5, BearsFacts DEF Owed, Adding, Idle
  <2>3. QED
    BY <2>1, <2>2 DEF DuePlay, DueHost
<1>9. QED
  BY <1>6, <1>7, <1>8

\* The scores stay the same through every step.
LEMMA EqualStep ==
    ASSUME TypeInv, TypeInv', Static, Moves, LinkInv, BlankInv, StartedInv, TurnInv, TurnInv', ReckonInv,
           EndInv, TellInv, EqualInv
    PROVE  EqualInv'
<1>0. /\ \A h \in Hosts : h \in Pages /\ h \notin Players
      /\ \A r \in Players : r \in Pages
      /\ Hosts' = Hosts /\ Pages' = Pages /\ "admin" \in Hosts /\ "admin" \in Pages
      /\ Questioned' = Questioned /\ Resulted' = Resulted
      /\ \A q : Type(q)' = Type(q)
      /\ server.room \subseteq Players /\ server'.room \subseteq Players
  <2>1. server' \in Servers /\ server'.room \subseteq Players
    BY TypesStay DEF TypeInv, ServerOK, Static, Servers
  <2>2. QED
    BY <2>1, RoomFacts, KindsStay, StaticFacts DEF Pages
<1> SUFFICES ASSUME Patient', NEW p \in server'.room, play'[p].conn = 1
             PROVE  EqualAt(p)'
  BY DEF EqualInv
<1>p. Patient /\ hasty = 0 /\ hasty' = 0 /\ InStep /\ InStep' /\ \A q : ~Hidden(q)
  BY PatientBack
<1>q. p \in Players /\ p \in Pages
  BY <1>0
<1>y. Type(Expect("admin"))' = Type(Expect("admin")')
  BY DEF Type, Questions, N, Static
<1>e. p \in server.room /\ play[p].conn = 1 => EqualAt(p)
  BY <1>p DEF EqualInv
<1>f. (\E k \in Pages : In(inbox[k], Resulted)) => ~Ending
  BY <1>p DEF EndInv
<1>s. ASSUME p \in server.room, Stays(p), Expect("admin")' = Expect("admin"),
             In(inbox[p], Questioned) => In(inbox'[p], Questioned),
             Led(inbox[p], Resulted, Questioned) => Led(inbox'[p], Resulted, Questioned),
             \A x \in Players : DuePlay(p, x)' = DuePlay(p, x) /\ DueHost(x)' = DueHost(x)
      PROVE  EqualAt(p)'
  <2>1. EqualAt(p)
    BY <1>e, <1>s DEF Stays
  <2>2. Type(Expect("admin")') \notin {None, "SLIDE"} => play'[p].q # None \/ In(inbox'[p], Questioned)
    BY <1>s, <2>1 DEF EqualAt, Stays, Told
  <2>3. play'[p].q # None \/ Led(inbox'[p], Resulted, Questioned)
    BY <1>s, <2>1 DEF EqualAt, Stays
  <2>4. \A x \in Players : DuePlay(p, x)' = DueHost(x)'
    BY <1>s, <2>1 DEF EqualAt
  <2>6. Type(Expect("admin"))' = Type(Expect("admin"))
    BY <1>s, <1>y
  <2>7. QED
    BY <1>0, <1>s, <2>1, <2>2, <2>3, <2>4, <2>6 DEF EqualAt, Told, Stays
<1>x. \/ Expect("admin")' = Expect("admin")
      \/ \E g \in Pages : \E i \in Slots(g) :
            Handles(g, i) /\ HandlesQuestion(g, i) /\ outbox[g][i].q \in Questions
  BY <1>p, ExpectStep
<1>g. ASSUME NEW g \in Pages, NEW i \in Slots(g), Handles(g, i), HandlesQuestion(g, i), outbox[g][i].q \in Questions
      PROVE  EqualAt(p)'
  <2>0. p \in server.room /\ Stays(p) /\ ~HandlesResults(g, i)
    BY <1>g, <1>q, ServerApart DEF HandlesQuestion, HandlesResults
  <2>1. EqualAt(p)
    BY <1>e, <2>0 DEF Stays
  <2> DEFINE n == outbox[g][i].q
  <2>n. PICK gs : \E e \in Messages :
           /\ Sent(gs, e) /\ e.ev = "set_question_number" /\ e.q = n
           /\ \A h \in Hosts : h \in gs
           /\ \A r \in Players : r \in gs <=> r \in server.room /\ Type(n) # "SLIDE"
    BY <1>p, <1>g, QuestionNews
  <2>2. PICK e \in Messages :
           /\ Sent(gs, e) /\ e.ev = "set_question_number" /\ e.q = n
           /\ \A h \in Hosts : h \in gs
           /\ \A r \in Players : r \in gs <=> r \in server.room /\ Type(n) # "SLIDE"
    BY <2>n
  <2>3. e \in Questioned /\ e \notin Resulted
    BY <2>2 DEF Questioned, Resulted, Kind
  <2>4. Expect("admin")' = n
    <3>1. In(inbox'["admin"], Questioned)
      BY <1>0, <2>2, <2>3, SentFacts
    <3>2. Expect("admin")' = host'["admin"].selected + 1
      BY <1>0, <3>1 DEF Expect, Told
    <3>3. ~In(inbox'["admin"], Wrong(host'["admin"].selected + 1))
      <4>1. HostTurn("admin")'
        BY <1>0, <1>p DEF TurnInv
      <4>2. \A m : Wrong(m)' = Wrong(m)
        BY DEF Wrong
      <4>3. QED
        BY <4>1, <4>2 DEF HostTurn
    <3>4. e \notin Wrong(host'["admin"].selected + 1)
      BY <1>0, <2>2, <3>3, SentFacts
    <3>5. QED
      BY <2>2, <3>2, <3>4 DEF Wrong
  <2>5. Type(n) # "SLIDE" => In(inbox'[p], Questioned)
    BY <1>q, <2>0, <2>2, <2>3, SentFacts
  <2>6. play'[p].q # None \/ Led(inbox'[p], Resulted, Questioned)
    <3>1. Led(inbox[p], Resulted, Questioned) => Led(inbox'[p], Resulted, Questioned)
      BY <1>q, <2>2, <2>3, SentFacts
    <3>2. QED
      BY <2>0, <2>1, <3>1 DEF EqualAt, Stays
  <2>7. \A x \in Players : DuePlay(p, x)' = DueHost(x)'
    <3>1. \A x \in Players : DuePlay(p, x)' = DuePlay(p, x) /\ DueHost(x)' = DueHost(x)
      BY <1>g, <1>q, <2>0, DueServer
    <3>2. QED
      BY <2>1, <3>1 DEF EqualAt
  <2>8. Type(Expect("admin"))' = Type(n)
    BY <1>y, <2>4
  <2> HIDE DEF n
  <2>9. QED
    BY <1>0, <2>5, <2>6, <2>7, <2>8 DEF EqualAt, Told
<1>h. SUFFICES ASSUME Expect("admin")' = Expect("admin"),
                      \A g \in Pages : \A i \in Slots(g) : Handles(g, i) =>
                         ~(HandlesQuestion(g, i) /\ outbox[g][i].q \in Questions)
               PROVE  EqualAt(p)'
  BY <1>x, <1>g
<1>1. ASSUME NEW r \in Players, r # p, PlayActs(r) \/ PlayStops(r) \/ PlayTakes(r) \/ PlayReopens(r)
      PROVE  EqualAt(p)'
  <2>1. p \in server.room /\ Stays(p) /\ inbox'[p] = inbox[p]
    BY <1>1, <1>q, PlayApart
  <2>2. Once(inbox[r], Resulted)
    BY <1>0, <1>p DEF ReckonInv
  <2>3. \A x \in Players : DuePlay(p, x)' = DuePlay(p, x) /\ DueHost(x)' = DueHost(x)
    BY <1>1, <1>q, <2>2, DuePlayMoves
  <2>4. QED
    BY <1>s, <1>h, <2>1, <2>3
<1>2. ASSUME PlayActs(p) \/ PlayStops(p) \/ PlayTakes(p)
      PROVE  EqualAt(p)'
  <2>0. ~PlayReopens(p)
    <3>1. play'[p].conn = play[p].conn
      BY <1>2, <1>q, EqualTakes
    <3>2. play[p].conn \in Nat
      BY <1>q DEF TypeInv, PlayOK, PlayPages
    <3>3. QED
      BY <3>1, <3>2 DEF PlayReopens
  <2>1. p \in server.room /\ play[p].conn = 1
    BY <1>2, <1>q, <2>0, PlayApart, EqualTakes
  <2>2. EqualAt(p)
    BY <1>e, <2>1
  <2>3. /\ play[p].q # None \/ Told(p) => play'[p].q # None \/ In(inbox'[p], Questioned)
        /\ play'[p].q # None \/ Led(inbox'[p], Resulted, Questioned)
    BY <1>2, <1>q, <2>2, EqualTakes DEF EqualAt
  <2>4. ASSUME NEW x \in Players PROVE DuePlay(p, x)' = DuePlay(p, x) /\ DueHost(x)' = DueHost(x)
    <3>1. Once(inbox[p], Resulted)
      BY <1>q, <1>p DEF ReckonInv
    <3>2. CASE 1 \in Places(p) /\ inbox[p][1] \in Resulted
      <4>1. In(inbox[p], Resulted) /\ ~Led(inbox[p], Resulted, Questioned)
        BY <1>2, <1>q, <3>2, EqualTakes
      <4>2. play[p].q # None
        BY <2>2, <4>1 DEF EqualAt
      <4>3. ~play[p].finals
        BY <1>f, <1>q, <4>1 DEF Ending
      <4>4. play[p].started
        BY <1>q, <4>2 DEF BlankInv, BlankAt
      <4>5. QED
        BY <1>2, <1>q, <2>0, <3>1, <4>2, <4>3, <4>4, DuePlayMoves
    <3>3. CASE ~(1 \in Places(p) /\ inbox[p][1] \in Resulted)
      BY <1>2, <1>q, <2>0, <3>1, <3>3, DuePlayMoves
    <3>4. QED
      BY <3>2, <3>3
  <2>5. Type(Expect("admin"))' = Type(Expect("admin"))
    BY <1>h, <1>y
  <2>6. QED
    BY <1>0, <2>2, <2>3, <2>4, <2>5 DEF EqualAt, Told
<1>3. ASSUME PlayReopens(p) PROVE FALSE
  <2>1. play[p].conn \in Nat \ {0}
    BY <1>q DEF TypeInv, PlayOK, PlayPages
  <2>2. play'[p].conn = play[p].conn + 1
    BY <1>3 DEF PlayReopens
  <2>3. QED
    BY <2>1, <2>2
<1>4. ASSUME NEW h \in Hosts, HostMoves(h) PROVE EqualAt(p)'
  <2>1. p \in server.room /\ Stays(p) /\ inbox'[p] = inbox[p]
    BY <1>0, <1>4, <1>q, HostApart
  <2>2. Once(inbox["admin"], Resulted) /\ (host["admin"].adding => ~In(inbox["admin"], Resulted))
    BY <1>0, <1>p DEF ReckonInv
  <2>3. ASSUME 1 \in Places("admin"), inbox["admin"][1] \in Resulted
        PROVE  Mounts("admin", host["admin"].selected)
    <3>1. In(inbox["admin"], Resulted)
      BY <1>0, <2>3, KindFacts
    <3>2. ~host["admin"].finals
      BY <1>0, <1>f, <3>1 DEF Ending
    <3>3. host["admin"].results = None /\ ~Slide("admin")
      BY <1>0, <1>p, <3>1 DEF TellInv
    <3>4. QED
      BY <1>p, <3>2, <3>3 DEF Mounts, Slide
  <2>4. ASSUME 1 \in Places("admin"), inbox["admin"][1] \in Questioned, host["admin"].adding
        PROVE  FALSE
    <3>1. Told("admin")
      BY <1>0, <2>4, KindFacts DEF Told
    <3>2. QED
      BY <1>0, <1>p, <2>4, <3>1 DEF TellInv
  <2>5. \A x \in Players : DuePlay(p, x)' = DuePlay(p, x) /\ DueHost(x)' = DueHost(x)
    BY <1>4, <1>q, <2>2, <2>3, <2>4, DueHostMoves
  <2>6. QED
    BY <1>s, <1>h, <2>1, <2>5
<1>5. ASSUME NEW g \in Pages, NEW i \in Slots(g), Handles(g, i), HandlesResults(g, i)
      PROVE  EqualAt(p)'
  <2> DEFINE n == outbox[g][i].q
  <2>0. p \in server.room /\ Stays(p) /\ g \in Hosts
    BY <1>5, <1>q, ServerApart DEF HandlesResults
  <2>1. EqualAt(p)
    BY <1>e, <2>0 DEF Stays
  <2>2. In(outbox[g], Wants(n)) /\ Reckons(g)
    <3>1. PICK e \in Messages : e = outbox[g][i] /\ \A S : e \in S => In(outbox[g], S)
      BY <1>5, KindFacts
    <3>2. e.ev = "get_question_results" /\ e.q = n
      BY <1>5, <3>1 DEF HandlesResults
    <3>3. e \in Wants(n) /\ e \in Reckoning
      BY <3>2 DEF Wants, Reckoning, Kind
    <3>4. QED
      BY <3>1, <3>3 DEF Reckons
  <2>3. n \in Questions
    BY <1>p, <2>0, <2>2, ReachedTypes
  <2>4. n = host["admin"].selected /\ ~Slide("admin") /\ ~Told("admin")
    BY <1>0, <1>p, <2>0, <2>2 DEF TellInv
  <2>5. Type(Expect("admin")) \notin {None, "SLIDE"}
    <3>1. Expect("admin") = n
      BY <2>4 DEF Expect
    <3>2. Type(n) # "SLIDE"
      BY <2>4 DEF Slide
    <3>3. QED
      BY <2>3, <3>1, <3>2, SceneFacts DEF TypeInv
  <2>6. \A k \in Pages : ~In(inbox[k], Resulted)
    BY <1>p, <2>0, <2>2 DEF ReckonInv
  <2>7. \A x \in Players : DuePlay(p, x)' = DueHost(x)'
    <3>1. ASSUME NEW x \in Players PROVE DuePlay(p, x)' = DueHost(x)'
      <4> DEFINE one == IF x \in server.answers[n] THEN 1 ELSE 0
      <4>1. DueHost(x)' = DueHost(x) + one /\ DuePlay(p, x)' = DuePlay(p, x) + one
        BY <1>5, <1>q, <2>0, <2>3, <2>6, DueResults
      <4>2. DuePlay(p, x) = DueHost(x)
        BY <2>1 DEF EqualAt
      <4> HIDE DEF one
      <4>3. QED
        BY <4>1, <4>2
    <3>2. QED
      BY <3>1
  <2>8. PICK e : Sent(ToRoom, e) /\ e.ev = "question_results"
    BY <1>5 DEF HandlesResults, Event
  <2>9. e \notin Questioned
    BY <2>8 DEF Questioned, Kind
  <2>10. play[p].q # None \/ In(inbox[p], Questioned)
    BY <2>1, <2>5 DEF EqualAt, Told
  <2>11. /\ In(inbox[p], Questioned) => In(inbox'[p], Questioned)
         /\ Led(inbox[p], Resulted, Questioned) /\ In(inbox[p], Questioned) => Led(inbox'[p], Resulted, Questioned)
    BY <1>q, <2>8, SentFacts
  <2>12. /\ play'[p].q # None \/ In(inbox'[p], Questioned)
         /\ play'[p].q # None \/ Led(inbox'[p], Resulted, Questioned)
    BY <2>0, <2>1, <2>10, <2>11 DEF EqualAt, Stays
  <2>13. QED
    BY <1>0, <2>7, <2>12 DEF EqualAt, Told
<1>6. ASSUME NEW g \in Pages, NEW i \in Slots(g), Handles(g, i), ~HandlesResults(g, i)
      PROVE  EqualAt(p)'
  <2>0. Stays(p) /\ play' = play
    BY <1>6, <1>q, ServerApart
  <2>1. /\ In(inbox[p], Questioned) => In(inbox'[p], Questioned)
        /\ Led(inbox[p], Resulted, Questioned) => Led(inbox'[p], Resulted, Questioned)
    <3>1. CASE HandlesQuestion(g, i)
      <4>1. inbox' = inbox
        BY <1>6, <1>h, <3>1 DEF HandlesQuestion
      <4>2. QED
        BY <4>1
    <3>2. CASE ~HandlesQuestion(g, i)
      BY <1>6, <1>q, <3>2, NoNews
    <3>3. QED
      BY <3>1, <3>2
  <2>2. \A x \in Players : DuePlay(p, x)' = DuePlay(p, x) /\ DueHost(x)' = DueHost(x)
    BY <1>6, <1>q, DueServer
  <2>3. CASE p \in server.room
    BY <1>s, <1>h, <2>0, <2>1, <2>2, <2>3
  <2>4. CASE p \notin server.room /\ HandlesJoin(p, i) /\ g = p
    <3>1. /\ Type(Expect("admin")) = None
          /\ Led(inbox[p], Resulted, Questioned)
          /\ \A x \in Players : DuePlay(p, x) = DueHost(x)
      BY <1>6, <1>q, <2>4, EqualJoins DEF LinkInv, BlankInv
    <3>2. Type(Expect("admin"))' = None
      BY <1>h, <1>y, <3>1
    <3>3. Led(inbox'[p], Resulted', Questioned')
      BY <1>0, <2>1, <3>1
    <3>4. \A x \in Players : DuePlay(p, x)' = DueHost(x)'
      BY <2>2, <3>1
    <3>5. QED
      BY <3>2, <3>3, <3>4 DEF EqualAt
  <2>5. CASE p \notin server.room /\ HandlesRejoin(p, i) /\ g = p
    <3>1. PICK e \in Messages : e = outbox[p][i] /\ \A S : e \in S => In(outbox[p], S)
      BY <1>6, <2>5, KindFacts
    <3>2. e.ev = "rejoin_game" /\ server.keys[p] = e.q
      BY <2>5, <3>1 DEF HandlesRejoin
    <3>3. e.q \in Nat \ {0}
      <4>1. PlayRequestOK(scene.quiz, e)
        BY <1>6, <1>q, <2>5, <3>1 DEF TypeInv, OutboxOK
      <4>2. QED
        BY <3>2, <4>1 DEF PlayRequestOK
    <3>4. e \in Entries
      BY <3>2 DEF Entries, Kinds
    <3>5. Waits(p)
      BY <3>1, <3>4 DEF Waits
    <3>6. server.keys[p] < play[p].conn
      BY <1>q, <3>5 DEF LinkInv, LinkAt
    <3>7. QED
      BY <2>0, <3>2, <3>3, <3>6
  <2>6. QED
    BY <1>6, <2>3, <2>4, <2>5, RoomStep
<1>7. CASE Announces
  <2>0. p \in server.room /\ Stays(p)
    BY <1>7, <1>q, ServerApart DEF Announces
  <2>1. /\ In(inbox[p], Questioned) => In(inbox'[p], Questioned)
        /\ Led(inbox[p], Resulted, Questioned) => Led(inbox'[p], Resulted, Questioned)
    BY <1>7, <1>q, NoNews
  <2>2. \A x \in Players : DuePlay(p, x)' = DuePlay(p, x) /\ DueHost(x)' = DueHost(x)
    BY <1>7, <1>q, DueServer
  <2>3. QED
    BY <1>s, <1>h, <2>0, <2>1, <2>2
<1>8. CASE UNCHANGED vars
  <2>1. p \in server.room /\ Stays(p) /\ inbox' = inbox
    BY <1>8 DEF vars, Stays
  <2>2. \A x \in Players : DueHost(x)' = DueHost(x) /\ DuePlay(p, x)' = DuePlay(p, x)
    BY <1>8 DEF vars, DueHost, DuePlay, Owed, Adding, Bears, Messages, PlayEvents, HostEvents, PlayRequests, HostRequests
  <2>3. QED
    BY <1>s, <1>h, <2>1, <2>2
<1>9. QED
  <2>1. ASSUME NEW r \in Players, PlayActs(r) \/ PlayStops(r) \/ PlayTakes(r) \/ PlayReopens(r)
        PROVE  EqualAt(p)'
    BY <1>1, <1>2, <1>3, <2>1
  <2>2. QED
    BY <1>4, <1>5, <1>6, <1>7, <1>8, <2>1 DEF Moves, HostMoves

(***************************************************************************)
(* The third theorem                                                       *)
(***************************************************************************)

ScoreInv == ScreenInv /\ AfterInv /\ ReckonInv /\ CountInv /\ EndInv /\ TellInv /\ EqualInv

\* No page has a score before the first results.
LEMMA ScoreInit ==
    ASSUME Init
    PROVE  ScoreInv
<1>1. ScreenInv /\ TypeInv
  BY ScreenInit DEF ScreenInv, CoreInv
<1>2. /\ \A g \in Pages : Len(inbox[g]) = 0 /\ Len(outbox[g]) = 0
      /\ \A h \in Hosts : host[h].results = None /\ ~host[h].later /\ ~host[h].adding /\ ~host[h].finals
                          /\ host[h].tally = [x \in Players |-> 0]
      /\ server.room = {}
      /\ \A p \in Players : ~play[p].finals /\ play[p].tally = [x \in Players |-> 0]
  BY DEF Init, FreshHost, FreshPlay, NewServer, Pages, Hosts
<1>3. \A g \in Pages : \A S : ~In(inbox[g], S) /\ ~In(outbox[g], S) /\ Once(inbox[g], S) /\ Once(outbox[g], S)
  BY <1>2, Empty
<1>4. /\ \A h \in Hosts : h \in Pages
      /\ \A p \in Players : p \in Pages
      /\ "admin" \in Hosts
  BY <1>1, RoomFacts
<1>5. AfterInv
  BY <1>2, <1>3, <1>4 DEF AfterInv, After
<1>6. ReckonInv
  BY <1>2, <1>3, <1>4 DEF ReckonInv, Reckons
<1>7. CountInv
  <2>1. SUFFICES ASSUME hasty = 0, InStep, NEW c, Reached(c), NEW x \in Players
                 PROVE  /\ DueHost(x) <= Cardinality(Upto(x, c))
                        /\ \A p \in Players : DuePlay(p, x) <= Cardinality(Upto(x, c))
    BY DEF CountInv
  <2>2. c \in Int
    BY <1>1, <1>6, <2>1, ReachedTypes
  <2>3. Cardinality(Upto(x, c)) \in Nat
    BY <1>1, <2>2, UptoFinite
  <2>4. DueHost(x) = 0 /\ \A p \in Players : DuePlay(p, x) = 0
    BY <1>2, <1>3, <1>4 DEF DueHost, DuePlay, Owed, Adding
  <2>5. QED
    BY <2>3, <2>4
<1>8. EndInv
  BY <1>2, <1>3, <1>4 DEF EndInv, Ending
<1>9. TellInv
  BY <1>2, <1>3, <1>4 DEF TellInv, Asking, Told
<1>10. EqualInv
  BY <1>2 DEF EqualInv
<1>11. QED
  BY <1>1, <1>5, <1>6, <1>7, <1>8, <1>9, <1>10 DEF ScoreInv

\* Every step keeps it.
LEMMA ScoreStep ==
    ASSUME ScoreInv, [Step]_vars
    PROVE  ScoreInv'
<1>1. /\ ScreenInv /\ AfterInv /\ ReckonInv /\ CountInv /\ EndInv /\ TellInv /\ EqualInv
      /\ CoreInv /\ BegunInv /\ TurnInv
      /\ TypeInv /\ LinkInv /\ BlankInv /\ StartedInv
  BY DEF ScoreInv, ScreenInv, CoreInv
<1>2. ScreenInv'
  BY <1>1, ScreenStep
<1>3. TypeInv' /\ TurnInv'
  BY <1>2 DEF ScreenInv, CoreInv
<1>4. Static /\ Moves
  BY <1>1, CoreStep
<1>5. AfterInv'
  BY <1>1, <1>3, <1>4, AfterStep
<1>6. ReckonInv'
  BY <1>1, <1>3, <1>4, ReckonStep
<1>7. CountInv'
  BY <1>1, <1>3, <1>4, <1>6, CountStep
<1>8. EndInv'
  BY <1>1, <1>3, <1>4, EndStep
<1>9. TellInv'
  BY <1>1, <1>3, <1>4, <1>6, TellStep
<1>10. EqualInv'
  BY <1>1, <1>3, <1>4, EqualStep
<1>11. QED
  BY <1>2, <1>5, <1>6, <1>7, <1>8, <1>9, <1>10 DEF ScoreInv

\* When nothing travels, what is caught up is what is shown.
LEMMA ScoreShows ==
    ASSUME ScoreInv
    PROVE  ScoresAgree
<1>1. TypeInv /\ ReckonInv /\ CountInv /\ EqualInv
  BY DEF ScoreInv, ScreenInv, CoreInv
<1>2. CountedOnce
  BY <1>1, CountShows
<1>3. StandingsAgree
  <2>1. SUFFICES ASSUME Quiet, Patient, NEW p \in server.room, play[p].conn = 1
                 PROVE  play[p].tally = host["admin"].tally
    BY DEF StandingsAgree
  <2>2. p \in Players /\ "admin" \in Hosts
    BY <1>1, RoomFacts
  <2>3. p \in Pages /\ "admin" \in Pages
    BY <2>2 DEF Pages
  <2>4. /\ play[p].tally \in [Players -> Nat] /\ host["admin"].tally \in [Players -> Nat]
    BY <1>1, <2>2 DEF TypeInv, PlayOK, HostsOK, PlayPages, HostPages
  <2>5. ASSUME NEW x \in Players PROVE play[p].tally[x] = host["admin"].tally[x]
    <3>1. Owed(p, x) = 0 /\ Owed("admin", x) = 0 /\ Adding(x) = 0
      BY <1>1, <2>1, <2>2, <2>3, QuietFacts DEF Owed, Adding
    <3>2. DuePlay(p, x) = DueHost(x)
      BY <1>1, <2>1 DEF EqualInv, EqualAt
    <3>3. play[p].tally[x] \in Nat /\ host["admin"].tally[x] \in Nat
      BY <2>4
    <3>4. QED
      BY <3>1, <3>2, <3>3 DEF DuePlay, DueHost
  <2>6. QED
    BY <2>4, <2>5
<1>4. QED
  BY <1>2, <1>3 DEF ScoresAgree

\* No page ever counts an answer twice, and at the end of a game whose hosts waited the
\* pages that were not opened anew show the scores of the host's page.
THEOREM ScoresAgreeAlways == PagesSpec => []ScoresAgree
<1>1. Init => ScoreInv
  BY ScoreInit
<1>2. ScoreInv /\ [Step]_vars => ScoreInv'
  BY ScoreStep
<1>3. ScoreInv => ScoresAgree
  BY ScoreShows
<1>4. QED
  BY <1>1, <1>2, <1>3, PTL DEF PagesSpec
==============================================================================
