------------------------------ MODULE GamePages ------------------------------
(***************************************************************************)
(* The pages of a live game in the old web client: the play page of every  *)
(* player (routes/play, lib/play), the host's page (routes/admin,          *)
(* lib/admin.svelte, lib/play/admin) and, when there is one, the remote    *)
(* control (routes/remote).  A page sends requests over its socket.io      *)
(* connection, which the server runs as tasks, in any order; the server's  *)
(* events reach each page in the order they were sent.  Handlers are taken *)
(* whole here (AnswerRound and Lobby take them apart), but for             *)
(* submit_answer: it looks for an earlier answer, lists the new one and    *)
(* announces it at three times.  Some news of the server go to the pages   *)
(* of all its games: those of other games come at any time.                *)
(***************************************************************************)
EXTENDS Integers, Sequences, FiniteSets, SequencesExt

CONSTANTS
    Players,     \* the players; each has one play page and one name
    Scenes,      \* the games that are played, see Scene
    None

ASSUME PagesAssumption ==
    /\ Players \cap {"admin", "remote"} = {} /\ IsFiniteSet(Players)
    /\ Scenes \subseteq
          [quiz    : Seq([type : {"ABCD", "RANGE", "TEXT", "CHECK", "SLIDE"}, hidden : BOOLEAN]),
           remote  : BOOLEAN,         \* is there a remote control?
           coming  : SUBSET Players,  \* who may join
           eager   : SUBSET Players,  \* bound: who presses while an answer is under way
           reloads : Nat,             \* bound: how often a play page is reloaded
           hasty   : Nat,             \* bound: presses while the last one still travels
           others  : Nat]             \* bound: news of other games

ASSUME NoneIsNothing ==
    /\ None \notin Int /\ \A who \in SUBSET Players : None # who
    /\ None \notin {"ABCD", "RANGE", "TEXT", "CHECK", "SLIDE"}

VARIABLES
    scene,   \* the game that is played; question q is scene.quiz[q + 1]
    server,  \* the game as the server keeps it
    host,    \* the state of the host's page and of the remote
    play,    \* the state of the play pages
    inbox,   \* the events on their way to each page
    outbox,  \* the requests of each page that the server has not finished
    hasty    \* how many presses did not wait

vars == <<scene, server, host, play, inbox, outbox, hasty>>

Hosts     == DOMAIN host
N         == Len(scene.quiz)
Questions == 0..(N - 1)
Type(q)   == IF q \in Questions THEN scene.quiz[q + 1].type ELSE None
Hidden(q) == q \in Questions /\ scene.quiz[q + 1].hidden

Event(ev, q, who) == [ev |-> ev, q |-> q, who |-> who]
Plain(ev)         == Event(ev, None, {})

\* What a play page shows before it has joined, and after a reload.
FreshPlay == [inGame |-> FALSE, started |-> FALSE, q |-> None, timer |-> "unset",
              selected |-> FALSE, results |-> None, finals |-> FALSE,
              tally |-> [x \in Players |-> 0], conn |-> 1, cookie |-> 0, kicked |-> FALSE]

\* new GameState(game_token).
FreshHost == [started |-> FALSE, list |-> {}, selected |-> -1, shown |-> -1,
              timer |-> "unset", results |-> None, finals |-> FALSE, later |-> FALSE,
              adding |-> FALSE, tally |-> [x \in Players |-> 0], visible |-> TRUE,
              saved |-> FALSE]

\* The game: who is on the answer list of each question, and how many of its
\* entries are not a player's first; the handlers of submit_answer that found no
\* earlier answer, and those that will announce; how often other games may.
NewServer == [current |-> -1, started |-> FALSE, answers |-> [q \in Questions |-> {}],
              again |-> [q \in Questions |-> 0],
              checked |-> [q \in Questions |-> [p \in Players |-> 0]],
              keys |-> [p \in Players |-> 0], counted |-> {}, room |-> {}, announce |-> 0,
              others |-> scene.others, stored |-> FALSE]

Init ==
    /\ scene \in Scenes
    /\ host = [h \in IF scene.remote THEN {"admin", "remote"} ELSE {"admin"} |->
                  [FreshHost EXCEPT !.visible = (h = "remote") \/ ~scene.remote]]
    /\ server = NewServer
    /\ play = [p \in Players |-> FreshPlay]
    /\ inbox = [g \in Players \cup Hosts |-> <<>>]
    /\ outbox = [g \in Players \cup Hosts |-> <<>>]
    /\ hasty = 0

-----------------------------------------------------------------------------
(* What the pages show. *)

ShowsJoin(p)     == ~play[p].started /\ ~play[p].inGame
ShowsFinals(p)   == ~ShowsJoin(p) /\ play[p].finals
ShowsTitle(p)    == ~play[p].finals /\ play[p].inGame /\ play[p].q = None
ShowsQuestion(p) == ~play[p].finals /\ play[p].started /\ play[p].inGame
                       /\ play[p].q # None /\ play[p].results = None
ShowsResults(p)  == ~ShowsJoin(p) /\ ~play[p].finals /\ ~ShowsTitle(p)
                       /\ play[p].started /\ play[p].results # None

Slide(h)          == Type(host[h].selected) = "SLIDE"
LastSelected(h)   == host[h].selected + 1 = N
ResultsVisible(h) == host[h].timer = "0" /\ host[h].results # None
Ended(h)          == host[h].timer = "0" /\ host[h].results = None /\ host[h].selected # -1
Ongoing(h)        == host[h].timer # "0" /\ host[h].selected # -1

NextQuestion(h) == Event("set_question_number", host[h].selected + 1, {})
ShowResults(h)  == Event("get_question_results", host[h].shown, {})

\* The buttons of the controls; the remote has the same, but does not treat a
\* question with hidden results apart.
Buttons(h) ==
    IF ~host[h].started \/ (h = "admin" /\ ~host[h].visible) THEN {}
    ELSE IF LastSelected(h) /\ (ResultsVisible(h) \/ Slide(h))
         THEN IF host[h].finals THEN {} ELSE {Plain("get_final_results")}
    ELSE IF host[h].timer = "0" \/ host[h].selected = -1
         THEN   (IF (~LastSelected(h) /\ host[h].results # None) \/ host[h].selected = -1
                    THEN {NextQuestion(h)} ELSE {})
           \cup (IF host[h].results # None \/ host[h].selected = -1 THEN {}
                    ELSE IF Slide(h) THEN {NextQuestion(h)}
                    ELSE IF h = "admin" /\ Hidden(host[h].selected)
                         THEN {Event("skip_results", host[h].shown, {})}
                    ELSE {ShowResults(h)})
    ELSE IF Slide(h) THEN {NextQuestion(h)} ELSE {Plain("show_solutions")}

\* next_action: what Enter and Space do on the host's page.
Keyboard ==
    LET h == "admin" IN
    IF LastSelected(h) /\ (ResultsVisible(h) \/ Slide(h)) THEN {Plain("get_final_results")}
    ELSE IF (host[h].started /\ host[h].selected = -1) \/ ResultsVisible(h) \/ Slide(h)
         THEN {NextQuestion(h)}
    ELSE IF Ongoing(h) THEN {Plain("show_solutions")}
    ELSE IF Ended(h) THEN {ShowResults(h)}
    ELSE {}

\* The template reads the type of the selected question, which must exist.
Crashed(h) ==
    /\ host[h].started /\ host[h].timer # "unset" /\ ~host[h].finals
    /\ host[h].selected \notin Questions

-----------------------------------------------------------------------------
(* Sending. *)

\* Nothing travels, no handler runs and no page's timeout is pending.
Quiet ==
    /\ \A g \in DOMAIN inbox : inbox[g] = <<>> /\ outbox[g] = <<>>
    /\ server.announce = 0 /\ \A q \in Questions, p \in Players : server.checked[q][p] = 0
    /\ \A h \in Hosts : ~host[h].later /\ ~host[h].adding

\* The events es go to the pages of gs.
Emit(gs, es) == [g \in DOMAIN inbox |-> IF g \in gs THEN inbox[g] \o es ELSE inbox[g]]

ToRoom == Hosts \cup server.room

Ask(g, reqs) == outbox' = [outbox EXCEPT ![g] = @ \o reqs]

\* A press of a host either waits for everything to settle, or is hasty.
Pressed ==
    /\ hasty' = IF Quiet THEN hasty ELSE hasty + 1
    /\ hasty' <= scene.hasty

-----------------------------------------------------------------------------
(* The play page. *)

\* setUsername: the form is refused to a page with the cookie of a kick.
Join(p) ==
    /\ p \in scene.coming /\ ShowsJoin(p) /\ ~play[p].kicked /\ outbox[p] = <<>> /\ inbox[p] = <<>>
    /\ Ask(p, <<Plain("join_game")>>)
    /\ UNCHANGED <<scene, server, host, play, inbox, hasty>>

Submit(p) == Event("submit_answer", play[p].q, {p})

\* Ticking a box of a CHECK question selects, and sends nothing.
Tick(p) ==
    /\ ShowsQuestion(p) /\ play[p].timer # "0" /\ Type(play[p].q) = "CHECK"
    /\ ~play[p].selected
    /\ play' = [play EXCEPT ![p].selected = TRUE]
    /\ UNCHANGED <<scene, server, host, inbox, outbox, hasty>>

\* The button of an ABCD question works once, the one of a TEXT or of a RANGE
\* question again and again, the one of a CHECK question when a box is ticked.
Enabled(p) ==
    /\ play[p].selected => Type(play[p].q) \in {"TEXT", "RANGE", "CHECK"}
    /\ Type(play[p].q) = "CHECK" => play[p].selected

\* Bound: how many answers of a page to one question are under way.
Presses(p) == IF p \in scene.eager THEN 2 ELSE 1

\* selectAnswer, while the timer runs.
Answer(p) ==
    /\ ShowsQuestion(p) /\ play[p].timer # "0" /\ Enabled(p)
    /\ Len(outbox[p]) + server.checked[play[p].q][p] < Presses(p)
    /\ play' = [play EXCEPT ![p].selected = TRUE]
    /\ Ask(p, <<Submit(p)>>)
    /\ UNCHANGED <<scene, server, host, inbox, hasty>>

\* set_answer_if_not_set_range: at the end of the time a RANGE question takes
\* the value of the slider when nothing was chosen.
AutoAnswers(p) == ShowsQuestion(p) /\ Type(play[p].q) = "RANGE" /\ ~play[p].selected

\* The question's timer becomes '0', and the effects that watch it run.
TimeUp(p) ==
    IF ~ShowsQuestion(p) THEN UNCHANGED <<play, outbox>>
    ELSE /\ play' = [play EXCEPT ![p].timer = "0", ![p].selected = @ \/ AutoAnswers(p)]
         /\ Ask(p, IF AutoAnswers(p) THEN <<Submit(p)>> ELSE <<>>)

PlayTick(p) ==
    /\ ShowsQuestion(p) /\ play[p].timer = "runs"
    /\ TimeUp(p)
    /\ UNCHANGED <<scene, server, host, inbox, hasty>>

\* A page opened anew: a connection of its own, and a rejoin_game if there is a
\* cookie, whose sid is the one that joined.
Reopened(p, page) ==
    /\ play' = [play EXCEPT ![p] = [FreshPlay EXCEPT !.conn = page.conn + 1,
                                        !.cookie = page.cookie, !.kicked = page.kicked]]
    /\ inbox' = [inbox EXCEPT ![p] = <<>>]
    /\ server' = [server EXCEPT !.room = @ \ {p}]
    /\ outbox' = [outbox EXCEPT ![p] = IF page.cookie = 0 THEN <<>>
                                       ELSE <<Event("rejoin_game", page.cookie, {p})>>]

Reload(p) ==
    /\ play[p].conn <= scene.reloads /\ outbox[p] = <<>>
    /\ Reopened(p, play[p])
    /\ UNCHANGED <<scene, host, hasty>>

\* The results are counted whenever they come.
Bug_Counted(tally, who) == [x \in Players |-> tally[x] + 1]

\* KahootResults, results.svelte: the points of a result list are added up.
Counted(tally, who) == [x \in Players |-> tally[x] + (IF x \in who THEN 1 ELSE 0)]

\* What an event makes of a play page (but for time-outs and kicks).
Received(p, e) ==
    LET page == play[p] IN
    CASE e.ev = "joined_game"   -> [page EXCEPT !.inGame = TRUE, !.cookie = page.conn]
      [] e.ev = "rejoined_game" -> [page EXCEPT !.inGame = TRUE,
                                                !.started = @ \/ e.q = "started"]
      [] e.ev = "start_game"    -> [page EXCEPT !.started = TRUE]
      [] e.ev = "set_question_number" ->
            [page EXCEPT !.q = e.q, !.results = None, !.timer = "runs", !.selected = FALSE]
      [] e.ev = "question_results" ->
            [page EXCEPT !.results = e.who,
                         !.tally = IF ~page.finals /\ page.started /\ page.q # None
                                      THEN Counted(@, e.who) ELSE @]
      [] e.ev = "final_results" -> [page EXCEPT !.finals = TRUE, !.cookie = 0]

\* The page takes its next event.
PlayReceive(p) ==
    /\ inbox[p] # <<>>
    /\ LET e == Head(inbox[p]) IN
       IF e.ev = "kick"
          THEN Reopened(p, [play[p] EXCEPT !.kicked = TRUE])
          ELSE /\ inbox' = [inbox EXCEPT ![p] = Tail(@)]
               /\ UNCHANGED server
               /\ IF e.ev \in {"everyone_answered", "solutions"} THEN TimeUp(p)
                  ELSE play' = [play EXCEPT ![p] = Received(p, e)] /\ UNCHANGED outbox
    /\ UNCHANGED <<scene, host, hasty>>

-----------------------------------------------------------------------------
(* The host's page and the remote. *)

\* "Start game" needs a player on the host's list; the remote does not look.
StartGame(h) ==
    /\ ~host[h].started /\ outbox[h] = <<>>
    /\ h = "admin" => host[h].list # {}
    /\ Ask(h, <<Plain("start_game")>>) /\ Pressed
    /\ UNCHANGED <<scene, server, host, play, inbox>>

\* kick_player: the name leaves the host's list at once.
Kick(p) ==
    /\ ~host["admin"].started /\ p \in host["admin"].list
    /\ host' = [host EXCEPT !["admin"].list = @ \ {p}]
    /\ Ask("admin", <<Event("kick_player", None, {p})>>) /\ Pressed
    /\ UNCHANGED <<scene, server, play, inbox>>

\* A press of a button or a key.  The host's page stops its own clock with the
\* solutions; with hidden results it goes on by itself 200 ms later.
Press(h) ==
    \E e \in Buttons(h) \cup (IF h = "admin" THEN Keyboard ELSE {}) :
        /\ ~Crashed(h)
        /\ Pressed
        /\ host' = [host EXCEPT
              ![h].timer = IF e.ev = "show_solutions" /\ h = "admin" THEN "0" ELSE @,
              ![h].later = @ \/ e.ev = "skip_results"]
        /\ Ask(h, <<IF e.ev = "skip_results" THEN ShowResults(h) ELSE e>>)
        /\ UNCHANGED <<scene, server, play, inbox>>

\* The 200 ms are over, but the page asks for the question it shows.
Bug_SkipOn(h) ==
    /\ host[h].later
    /\ host' = [host EXCEPT ![h].later = FALSE]
    /\ Ask(h, <<Event("set_question_number", host[h].shown, {})>>)
    /\ UNCHANGED <<scene, server, play, inbox, hasty>>

\* The 200 ms are over: the next question, if there is one or not.
SkipOn(h) ==
    /\ host[h].later
    /\ host' = [host EXCEPT ![h].later = FALSE]
    /\ Ask(h, <<NextQuestion(h)>>)
    /\ UNCHANGED <<scene, server, play, inbox, hasty>>

HostTick(h) ==
    /\ host[h].timer = "runs"
    /\ host' = [host EXCEPT ![h].timer = "0"]
    /\ UNCHANGED <<scene, server, play, inbox, outbox, hasty>>

\* show_new_score, a second after the results were mounted; when the next
\* question has come in between there is nothing left to add.
ShowNewScore(h) ==
    /\ host[h].adding
    /\ host' = [host EXCEPT ![h].adding = FALSE,
                            ![h].tally = IF host[h].results = None THEN @
                                         ELSE Counted(@, host[h].results)]
    /\ UNCHANGED <<scene, server, play, inbox, outbox, hasty>>

\* set_control_visibility: the buttons of the host's page come back.
ShowControls ==
    /\ "remote" \in Hosts /\ ~host["admin"].visible /\ outbox["remote"] = <<>>
    /\ Ask("remote", <<Plain("set_control_visibility")>>) /\ Pressed
    /\ UNCHANGED <<scene, server, host, play, inbox>>

SaveResults ==
    /\ host["admin"].finals /\ ~host["admin"].saved /\ outbox["admin"] = <<>>
    /\ Ask("admin", <<Plain("save_quiz")>>) /\ Pressed
    /\ UNCHANGED <<scene, server, host, play, inbox>>

\* They are mounted for the first results only.
Bug_Mounts(h, s) == /\ h = "admin" /\ ~host[h].finals /\ host[h].shown = 0
                    /\ ~Hidden(s) /\ Type(s) # "SLIDE"

\* results.svelte is mounted for the results of a question that counts.
Mounts(h, s) == /\ h = "admin" /\ ~host[h].finals /\ host[h].results = None
                /\ ~Hidden(s) /\ Type(s) # "SLIDE"

\* The counter of the page is taken from the event.
Bug_HostShown(page, q) ==
    [page EXCEPT !.results = None, !.shown = page.selected, !.timer = "runs", !.selected = @ + 1]

\* set_question_number as a host's page takes it: the question that is shown is
\* the event's, the one that is selected is the next one.
HostShown(page, q) ==
    [page EXCEPT !.results = None, !.shown = q, !.timer = "runs", !.selected = @ + 1]

HostReceived(h, e) ==
    LET page == host[h] IN
    CASE e.ev = "player_joined"       -> [page EXCEPT !.list = @ \cup e.who]
      [] e.ev = "start_game"          -> [page EXCEPT !.started = TRUE]
      [] e.ev = "set_question_number" -> HostShown(page, e.q)
      [] e.ev \in {"everyone_answered", "solutions"} -> [page EXCEPT !.timer = "0"]
      [] e.ev = "question_results"    ->
            [page EXCEPT !.results = e.who, !.timer = "0",
                         !.adding = @ \/ Mounts(h, page.selected)]
      [] e.ev = "final_results"       -> [page EXCEPT !.finals = TRUE, !.timer = "0"]
      [] e.ev = "control_visibility"  -> [page EXCEPT !.visible = TRUE]
      [] e.ev = "results_saved_successfully" -> [page EXCEPT !.saved = TRUE]

HostReceive(h) ==
    /\ inbox[h] # <<>>
    /\ inbox' = [inbox EXCEPT ![h] = Tail(@)]
    /\ host' = [host EXCEPT ![h] = HostReceived(h, Head(inbox[h]))]
    /\ UNCHANGED <<scene, server, play, outbox, hasty>>

-----------------------------------------------------------------------------
(* The server's handlers. *)

\* The page of player p has the connection its name is kept for.
Holds(p, sid) == server.keys[p] = sid

HandleJoin(p) ==
    IF server.started \/ server.keys[p] # 0 THEN UNCHANGED <<server, inbox>>
    ELSE /\ server' = [server EXCEPT !.keys[p] = play[p].conn, !.counted = @ \cup {p},
                                     !.room = @ \cup {p}]
         /\ inbox' = [g \in DOMAIN inbox |->
                        IF g = p THEN Append(inbox[g], Plain("joined_game"))
                        ELSE IF g = "admin" \/ g = "remote"
                             THEN Append(inbox[g], Event("player_joined", None, {p}))
                        ELSE inbox[g]]

\* The start of the game is not told.
Bug_RejoinNews == Plain("rejoined_game")

\* to_player_data.
RejoinNews == Event("rejoined_game", IF server.started THEN "started" ELSE "lobby", {})

HandleRejoin(p, old) ==
    IF ~Holds(p, old) THEN UNCHANGED <<server, inbox>>
    ELSE /\ server' = [server EXCEPT !.keys[p] = play[p].conn, !.counted = @ \cup {p},
                                     !.room = @ \cup {p}]
         /\ inbox' = Emit({p}, <<RejoinNews>>)

Accepts(p, q) == q = server.current /\ p \notin server.answers[q]

\* submit_answer looks for an earlier answer; a wrong answer to a RANGE question
\* is lost right after that.
HandleSubmit(p, q) ==
    /\ UNCHANGED inbox
    /\ \/ (Accepts(p, q) => Type(q) = "RANGE") /\ UNCHANGED server
       \/ Accepts(p, q) /\ server' = [server EXCEPT !.checked[q][p] = @ + 1]

\* The index is not checked against the questions of the quiz.
Bug_HandleQuestion(h, q) ==
    /\ server' = [server EXCEPT !.current = q]
    /\ inbox' = Emit(ToRoom, <<Event("set_question_number", q, {})>>)

\* A slide is told to nobody.
Bug_HandleSlide(h, q) ==
    /\ server' = [server EXCEPT !.current = q]
    /\ inbox' = IF Type(q) \in {None, "SLIDE"} THEN inbox
                ELSE Emit(ToRoom, <<Event("set_question_number", q, {})>>)

\* set_question_number: an index beyond the quiz is stored and then raises; a
\* slide is told to the asking connection only.
HandleQuestion(h, q) ==
    /\ server' = [server EXCEPT !.current = q]
    /\ inbox' = IF q \notin Questions THEN inbox
                ELSE Emit(IF Type(q) = "SLIDE" THEN {h} ELSE ToRoom,
                          <<Event("set_question_number", q, {})>>)

\* AnswerDataList of the question.
ResultList(q) == IF q \in Questions THEN server.answers[q] ELSE {}

HandleKick(p) ==
    /\ server' = [server EXCEPT !.counted = @ \ {p}, !.room = @ \ {p}]
    /\ inbox' = Emit(IF Holds(p, play[p].conn) THEN {p} ELSE {}, <<Plain("kick")>>)

Saved == inbox' = Emit({"admin"}, <<Plain("results_saved_successfully")>>)

\* save_quiz_to_storage; the news goes to every client there is, of which only
\* the hosts' pages listen.
HandleSave == server' = [server EXCEPT !.stored = TRUE] /\ Saved

HandleStart ==
    /\ server' = [server EXCEPT !.started = TRUE]
    /\ inbox' = Emit(ToRoom, <<Plain("start_game")>>)

\* The server runs one of the requests of page g.
Handle(g) ==
    \E i \in DOMAIN outbox[g] :
        LET e == outbox[g][i] IN
        /\ outbox' = [outbox EXCEPT ![g] = RemoveAt(@, i)]
        /\ \/ e.ev = "join_game" /\ HandleJoin(g)
           \/ e.ev = "rejoin_game" /\ HandleRejoin(g, e.q)
           \/ e.ev = "submit_answer" /\ HandleSubmit(g, e.q)
           \/ e.ev = "start_game" /\ HandleStart
           \/ e.ev = "set_question_number" /\ HandleQuestion(g, e.q)
           \/ e.ev = "get_question_results" /\ UNCHANGED server
                 /\ inbox' = Emit(ToRoom, <<Event("question_results", e.q, ResultList(e.q))>>)
           \/ e.ev = "show_solutions" /\ UNCHANGED server
                 /\ inbox' = Emit(ToRoom, <<Plain("solutions")>>)
           \/ e.ev = "get_final_results" /\ UNCHANGED server
                 /\ inbox' = Emit(ToRoom, <<Plain("final_results")>>)
           \/ e.ev = "kick_player" /\ \E p \in e.who : HandleKick(p)
           \/ e.ev = "set_control_visibility" /\ UNCHANGED server
                 /\ inbox' = Emit(Hosts, <<Plain("control_visibility")>>)
           \/ e.ev = "save_quiz" /\ HandleSave
        /\ UNCHANGED <<scene, host, play, hasty>>

\* One answer is enough.
Bug_AllAnswered(p, q) == TRUE

\* With the answer of player p the list is as long as there are players.
AllAnswered(p, q) ==
    Cardinality(server.answers[q]) + server.again[q] + 1 = Cardinality(server.counted)

\* Later submit_answer lists the answer, another one of the player or not.
Store(p) ==
    \E q \in Questions :
        /\ server.checked[q][p] > 0
        /\ server' = [server EXCEPT
               !.checked[q][p] = @ - 1, !.answers[q] = @ \cup {p},
               !.again[q] = IF p \in server.answers[q] THEN @ + 1 ELSE @,
               !.announce = IF AllAnswered(p, q) THEN @ + 1 ELSE @]
        /\ UNCHANGED <<scene, host, play, inbox, outbox, hasty>>

Announced == inbox' = Emit(DOMAIN inbox, <<Plain("everyone_answered")>>)

\* The end of submit_answer: everyone_answered goes to all pages, with nothing
\* in it that says which question it is about.
Announce ==
    /\ server.announce > 0 /\ server' = [server EXCEPT !.announce = @ - 1] /\ Announced
    /\ UNCHANGED <<scene, host, play, outbox, hasty>>

\* Nor does it say which game: that of another one comes, too, and so does the
\* news that its results are saved.
AnnounceElsewhere ==
    /\ server.others > 0 /\ server' = [server EXCEPT !.others = @ - 1]
    /\ Announced \/ Saved
    /\ UNCHANGED <<scene, host, play, outbox, hasty>>

-----------------------------------------------------------------------------
PlayStep(p) == Join(p) \/ Tick(p) \/ Answer(p) \/ PlayTick(p) \/ Reload(p) \/ PlayReceive(p)

HostStep(h) == \/ StartGame(h) \/ Press(h) \/ SkipOn(h) \/ HostTick(h)
               \/ ShowNewScore(h) \/ HostReceive(h)

Step ==
    \/ \E p \in Players : PlayStep(p) \/ Kick(p) \/ Store(p)
    \/ \E h \in Hosts : HostStep(h)
    \/ ShowControls \/ SaveResults \/ Announce \/ AnnounceElsewhere
    \/ \E g \in DOMAIN outbox : Handle(g)

\* Messages arrive, tasks run, clocks and timeouts go off, and whoever holds
\* the controls presses them; nobody has to join, answer, reload or kick, and
\* there may be no other game.  A press that waits is possible again and again,
\* whenever the pages settle, and is made at one of those times.
Fairness ==
    /\ \A p \in Players : WF_vars(PlayReceive(p)) /\ WF_vars(PlayTick(p)) /\ WF_vars(Store(p))
    /\ \A h \in {"admin", "remote"} :
          /\ WF_vars(h \in Hosts /\ HostReceive(h)) /\ WF_vars(h \in Hosts /\ HostTick(h))
          /\ WF_vars(h \in Hosts /\ SkipOn(h)) /\ WF_vars(h \in Hosts /\ ShowNewScore(h))
          /\ SF_vars(h \in Hosts /\ Press(h)) /\ WF_vars(h \in Hosts /\ StartGame(h))
    /\ \A g \in Players \cup {"admin", "remote"} : WF_vars(g \in DOMAIN outbox /\ Handle(g))
    /\ WF_vars(Announce)

PagesSpec == Init /\ [][Step]_vars /\ Fairness

-----------------------------------------------------------------------------
(* Properties. *)

\* The pages, the game and what travels between them have their types; in
\* particular no page is ever told to show a question the quiz does not have,
\* and each is opened anew by its reloads and by one kick.
PagesTypeOK ==
    /\ server.current \in Nat \cup {-1} /\ server.room \subseteq server.counted
    /\ \A q \in Questions : server.answers[q] \subseteq Players
    /\ \A p \in Players :
          /\ play[p].q \in Questions \cup {None} /\ play[p].conn \in 1..(scene.reloads + 2)
          /\ play[p].results \in (SUBSET Players) \cup {None}
          /\ play[p].timer \in {"unset", "runs", "0"}
    /\ \A h \in Hosts :
          /\ host[h].shown \in Questions \cup {-1} /\ host[h].selected \in Nat \cup {-1}
          /\ host[h].results \in (SUBSET Players) \cup {None}

\* The host's page and the remote are told the same: the host is alone, or has
\* no slides to show, which are told to the page that asks for them only.
InStep == Hosts = {"admin"} \/ \A q \in Questions : Type(q) # "SLIDE"

\* Hosts who wait for their pages: the question that each of them selects (its
\* buttons, its texts, "last question" and what is asked for next hang on it)
\* is the one that is played (selected_question counts events, while
\* shown_question_now is told by them).
SelectedIsPlayed ==
    hasty = 0 /\ InStep => \A h \in Hosts : host[h].selected = host[h].shown

\* The hosts wait until the pages have settled, and no question is left by a
\* timeout of the host's page.
Patient == hasty = 0 /\ InStep /\ \A q \in Questions : ~Hidden(q)

\* When everything has settled, all pages that were shown a question at all are
\* at the one the server accepts answers for, slides apart, which no play page
\* is told of.
PagesAgree ==
    Quiet /\ Type(server.current) \notin {None, "SLIDE"} =>
        /\ \A p \in server.room : play[p].q \in {None, server.current}
        /\ \A h \in Hosts : host[h].shown = server.current

\* At the end of a game whose host waited, the podium of the host's page and
\* of every play page that was never reloaded show the same scores (each page
\* adds them up on its own, from the results it was sent and at its own time).
\* Hidden results are left out: no page mounts them for the host.
StandingsAgree ==
    Quiet /\ Patient /\ host["admin"].finals =>
        \A p \in server.room : play[p].conn = 1 => play[p].tally = host["admin"].tally

\* No answer is counted twice by any page, hidden results and reloads included,
\* as long as the hosts wait.
CountedOnce ==
    hasty = 0 /\ InStep => \A x \in Players :
        LET sum == Cardinality({q \in Questions : x \in server.answers[q]}) IN
        /\ \A h \in Hosts : host[h].tally[x] <= sum
        /\ \A p \in Players : play[p].tally[x] <= sum

\* The pages keep the scores of the answers, each of them once, and the same ones.
ScoresAgree == StandingsAgree /\ CountedOnce

\* A play page is never empty: one of the branches of the template applies.
NeverBlank ==
    \A p \in Players : \/ ShowsJoin(p) \/ ShowsFinals(p) \/ ShowsTitle(p)
                        \/ ShowsQuestion(p) \/ ShowsResults(p)

\* The pages were sent news of another game.
Disturbed == server.others < scene.others

\* The screen of a host who waits never breaks because of a question that does
\* not exist, but before the first one, when another game disturbs this one.
ScreenLives ==
    hasty = 0 /\ InStep => \A h \in Hosts : Crashed(h) => host[h].selected = -1 /\ Disturbed

\* What is on the screens is what is played: on the page of the host who presses,
\* on all pages that were told, and on none nothing.
ScreensAgree == SelectedIsPlayed /\ PagesAgree /\ NeverBlank /\ ScreenLives

\* Player p's page stops the timer of its question because of an event, and yet
\* somebody in the room has not answered that question.
StoppedEarly(p) ==
    /\ inbox[p] # <<>> /\ Head(inbox[p]).ev = "everyone_answered" /\ inbox'[p] = Tail(inbox[p])
    /\ ShowsQuestion(p) /\ play[p].timer = "runs"
    /\ ~(server.room \subseteq server.answers[play[p].q])

\* Some player is on an answer list twice.
Repeated == \E q \in Questions : server.again[q] > 0

\* "Stop the timer if the question is answered" (question.svelte:45), for hosts who
\* wait until the page has settled: everyone_answered, which names no question,
\* never stops the timer of the next one, unless it came from another game or
\* counted two answers of one player.
TimersStopWhenHostsWait ==
    [][Patient => Disturbed \/ Repeated \/ \A p \in Players : ~StoppedEarly(p)]_vars

\* A game that is started gets to its final results when its hosts press what
\* is offered and wait for it: no screen is without a button, and no press
\* leads back, as long as no screen breaks.
GameFinishes ==
    host["admin"].started ~> host["admin"].finals \/ hasty > 0 \/ \E h \in Hosts : Crashed(h)
=============================================================================
