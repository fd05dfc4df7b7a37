----------------------------- MODULE AnswerRound -----------------------------
(***************************************************************************)
(* Asking questions and collecting the answers of one game:                *)
(* start_game, set_question_number, get_question_results and submit_answer *)
(* of classquiz/socket_server/__init__.py.                                 *)
(*                                                                         *)
(* The server is one asyncio process.  Every event runs as a task of its   *)
(* own, and a task can be interrupted only at an `await`; every await of   *)
(* these handlers that matters is one Redis command.  A handler is         *)
(* therefore a sequence of actions, each of which is one Redis command     *)
(* together with the Python code that runs up to the next one.  Redis      *)
(* executes a command atomically; nothing makes two commands atomic.       *)
(***************************************************************************)
EXTENDS GameStore

CONSTANTS
    Attempts,   \* how often each connection may send its answer to a question:
                \* the buttons of TEXT, RANGE and CHECK stay after the answer
    HostTasks   \* slots for concurrently running handlers of hosts

ASSUME AnswerRoundAssumption == Attempts \in [Sids -> Nat]

\* One call of submit_answer: the n-th one of a connection for a question.
Calls == UNION {[sid : {s}, q : Questions, n : 1 .. Attempts[s]] : s \in Sids}

VARIABLES
    game,       \* game:{pin}
    players,    \* game_session:{pin}:players
    session,    \* socket_io_session:{...} of every connection, None if unset
    startTime,  \* game:{pin}:current_time, as the question it is the start of
    answers,    \* game_session:{pin}:{q}: the calls whose AnswerData is listed
    scores,     \* game_session:{pin}:player_scores: the calls whose points the
                \* hash holds, as the sum of each player's calls
    room,       \* what the clients in the game's room have been told
    submit,     \* the state of every call of submit_answer
    hosting     \* the state of every running handler of a host

vars == <<game, players, session, startTime, answers, scores, room, submit, hosting>>

HostOps == {"start_game", "set_question_number", "get_question_results"}

SubmitPc == {"new", "game", "check", "time", "score", "read", "store",
             "count", "reread", "close",
             "inactive", "replied", "failed", "accepted", "everyone"}

Finished == {"inactive", "replied", "failed", "accepted", "everyone"}

Submission == [pc       : SubmitPc,
               username : Users \cup {None},     \* session["username"]
               ping     : BOOLEAN,               \* "ping" in session
               right    : BOOLEAN,               \* what check_answer returns
               seen     : SUBSET Calls,          \* answers, before the append
               blob     : PlayGame]              \* game_data

Hosting == [pc   : {"idle", "read", "save", "time", "emit"},
            op   : HostOps,
            q    : Indices \cup {None},
            blob : PlayGame]

TypeOK ==
    /\ game \in PlayGame
    /\ players \in SUBSET GamePlayer
    /\ session \in [Sids -> Session \cup {None}]
    /\ startTime \in Indices \cup {None}
    /\ answers \in [Questions -> SUBSET Calls]
    /\ scores \in SUBSET Calls
    /\ room \in [started : BOOLEAN, question : {-1} \cup Questions, shown : SUBSET Questions]
    /\ submit \in [Calls -> Submission]
    /\ hosting \in [HostTasks -> Hosting]

NewSubmission == [pc |-> "new", username |-> None, ping |-> FALSE, right |-> FALSE,
                  seen |-> {}, blob |-> NewGame]

IdleHost == [pc |-> "idle", op |-> "start_game", q |-> None, blob |-> NewGame]

\* The private state of this module when nothing has been asked yet.
RoundInit ==
    /\ startTime = None
    /\ answers = [q \in Questions |-> {}]
    /\ scores = {}
    /\ room = [started |-> FALSE, question |-> -1, shown |-> {}]
    /\ submit = [c \in Calls |-> NewSubmission]
    /\ hosting = [h \in HostTasks |-> IdleHost]

(***************************************************************************)
(* submit_answer.  Operators called Bug_... are faulty variants of the     *)
(* definition that follows them: each breaks a property below, which shows *)
(* that the property depends on that piece of the code.                    *)
(***************************************************************************)

\* The names on the answer list of question q.
Answered(q) == {submit[d].username : d \in answers[q]}

At(c, pc) == submit[c].pc = pc

\* get_session: a connection without a session is refused, which leaves no
\* trace.  Only the play page sends answers, so the session is a player's,
\* and it sends them for a question it has been shown.  Whether the answer is
\* right matters to the control flow for a RANGE question alone.
SubmitBegin(c) ==
    /\ At(c, "new")
    /\ session[c.sid] # None /\ session[c.sid].username # None
    /\ c.q \in room.shown
    /\ \E right \in IF c.q \in RangeQuestions THEN BOOLEAN ELSE {TRUE} :
          submit' = [submit EXCEPT ![c].pc = "game",
                                   ![c].username = session[c.sid].username,
                                   ![c].ping = session[c.sid].ping,
                                   ![c].right = right]
    /\ UNCHANGED <<game, players, session, startTime, answers, scores, room, hosting>>

\* PlayGame.get_from_redis, then the test of the question index.
SubmitReadGame(c) ==
    /\ At(c, "game")
    /\ submit' = [submit EXCEPT ![c].pc =
                     IF c.q = game.current_question THEN "check" ELSE "inactive"]
    /\ UNCHANGED <<game, players, session, startTime, answers, scores, room, hosting>>

\* The list is not looked at.
Bug_SubmitCheck(c) ==
    /\ At(c, "check")
    /\ submit' = [submit EXCEPT ![c].pc = IF submit[c].ping THEN "time" ELSE "failed"]
    /\ UNCHANGED <<game, players, session, startTime, answers, scores, room, hosting>>

\* has_already_answered, then check_answer and session["ping"], a KeyError
\* when the session was loaded before its time_sync had been echoed.
SubmitCheck(c) ==
    /\ At(c, "check")
    /\ submit' = [submit EXCEPT ![c].pc =
                     IF submit[c].username \in Answered(c.q) THEN "replied"
                     ELSE IF submit[c].ping THEN "time" ELSE "failed"]
    /\ UNCHANGED <<game, players, session, startTime, answers, scores, room, hosting>>

\* The points are never added.
Bug_SubmitReadTime(c) ==
    /\ At(c, "time")
    /\ submit' = [submit EXCEPT ![c].pc = "read"]
    /\ UNCHANGED <<game, players, session, startTime, answers, scores, room, hosting>>

\* The start of the question; datetime.fromisoformat(None) is a TypeError.
SubmitReadTime(c) ==
    /\ At(c, "time")
    /\ submit' = [submit EXCEPT ![c].pc = IF startTime = None THEN "failed" ELSE "score"]
    /\ UNCHANGED <<game, players, session, startTime, answers, scores, room, hosting>>

\* HINCRBY of the player's score, then AnswerData(...).  For a wrong answer
\* check_range_question returns None, which the bool field `right` refuses:
\* the handler dies of a ValidationError.
SubmitScore(c) ==
    /\ At(c, "score")
    /\ scores' = scores \cup {c}
    /\ submit' = [submit EXCEPT ![c].pc =
                     IF c.q \in RangeQuestions /\ ~submit[c].right THEN "failed" ELSE "read"]
    /\ UNCHANGED <<game, players, session, startTime, answers, room, hosting>>

\* The answer list as it is before set_answer.
SubmitReadAnswers(c) ==
    /\ At(c, "read")
    /\ submit' = [submit EXCEPT ![c].seen = answers[c.q], ![c].pc = "store"]
    /\ UNCHANGED <<game, players, session, startTime, answers, scores, room, hosting>>

\* A list of one, whatever list was handed in.
Bug_Appended(c) == {c}

\* The list set_answer makes of the list it was handed.
Appended(c) == submit[c].seen \cup {c}

\* The list is stored without the append.
Bug_SubmitStore(c) ==
    /\ At(c, "store")
    /\ answers' = [answers EXCEPT ![c.q] = submit[c].seen]
    /\ submit' = [submit EXCEPT ![c].pc = "count"]
    /\ UNCHANGED <<game, players, session, startTime, scores, room, hosting>>

\* set_answer: the key gets that list, whatever it holds by now.
SubmitStore(c) ==
    /\ At(c, "store")
    /\ answers' = [answers EXCEPT ![c.q] = Appended(c)]
    /\ submit' = [submit EXCEPT ![c].pc = "count"]
    /\ UNCHANGED <<game, players, session, startTime, scores, room, hosting>>

\* Everyone has answered when one player is left.
Bug_SubmitCountEarly(c) ==
    /\ At(c, "count")
    /\ submit' = IF Cardinality(Appended(c)) >= Cardinality(players) - 1
                    THEN [submit EXCEPT ![c].pc = "reread"]
                    ELSE [submit EXCEPT ![c].pc = "accepted", ![c].seen = {}]
    /\ UNCHANGED <<game, players, session, startTime, answers, scores, room, hosting>>

\* The list is counted as it was before the append.
Bug_SubmitCountLate(c) ==
    /\ At(c, "count")
    /\ submit' = IF Cardinality(submit[c].seen) = Cardinality(players)
                    THEN [submit EXCEPT ![c].pc = "reread"]
                    ELSE [submit EXCEPT ![c].pc = "accepted", ![c].seen = {}]
    /\ UNCHANGED <<game, players, session, startTime, answers, scores, room, hosting>>

\* SCARD of the players, compared with the length of the list just stored.
SubmitCount(c) ==
    /\ At(c, "count")
    /\ submit' = IF Cardinality(Appended(c)) = Cardinality(players)
                    THEN [submit EXCEPT ![c].pc = "reread"]
                    ELSE [submit EXCEPT ![c].pc = "accepted", ![c].seen = {}]
    /\ UNCHANGED <<game, players, session, startTime, answers, scores, room, hosting>>

\* The game is read again ...
SubmitReread(c) ==
    /\ At(c, "reread")
    /\ submit' = [submit EXCEPT ![c].blob = game, ![c].pc = "close"]
    /\ UNCHANGED <<game, players, session, startTime, answers, scores, room, hosting>>

\* ... and saved as a whole with question_show cleared; everyone_answered.
SubmitClose(c) ==
    /\ At(c, "close")
    /\ game' = [submit[c].blob EXCEPT !.question_show = FALSE]
    /\ submit' = [submit EXCEPT ![c].pc = "everyone", ![c].seen = {}, ![c].blob = NewGame]
    /\ UNCHANGED <<players, session, startTime, answers, scores, room, hosting>>

SubmitStep(c) ==
    \/ SubmitReadGame(c)    \/ SubmitCheck(c) \/ SubmitReadTime(c) \/ SubmitScore(c)
    \/ SubmitReadAnswers(c) \/ SubmitStore(c) \/ SubmitCount(c)
    \/ SubmitReread(c)      \/ SubmitClose(c)

(***************************************************************************)
(* The host's handlers                                                     *)
(***************************************************************************)

\* Only a session with admin = True gets past the first lines; a second
\* connection has one too when it registered as remote.
HostConnected == \E s \in Sids : session[s] # None /\ session[s].admin

HostBegin(h, op, q) ==
    /\ hosting[h].pc = "idle"
    /\ HostConnected
    /\ hosting' = [hosting EXCEPT ![h] = [IdleHost EXCEPT !.pc = "read", !.op = op, !.q = q]]
    /\ UNCHANGED <<game, players, session, startTime, answers, scores, room, submit>>

\* The host's page offers the start button once it lists somebody (which
\* LiveGame adds to the guard) and until start_game comes back; the question
\* buttons after that.
CallStartGame(h) ==
    /\ ~room.started
    /\ HostBegin(h, "start_game", None)

CallSetQuestionNumber(h) ==
    /\ room.started
    /\ \E q \in Indices : HostBegin(h, "set_question_number", q)

CallGetQuestionResults(h) ==
    /\ room.question # -1
    /\ HostBegin(h, "get_question_results", room.question)

\* Questions counted from one.
Bug_EditedNumber(h, g) ==
    CASE hosting[h].op = "start_game"           -> [g EXCEPT !.started = TRUE]
      [] hosting[h].op = "set_question_number"  -> [g EXCEPT !.current_question = hosting[h].q + 1,
                                                             !.question_show = TRUE]
      [] hosting[h].op = "get_question_results" -> [g EXCEPT !.question_show = FALSE]

\* A fresh document for every question.
Bug_EditedFresh(h, g) ==
    CASE hosting[h].op = "start_game"           -> [g EXCEPT !.started = TRUE]
      [] hosting[h].op = "set_question_number"  -> [NewGame EXCEPT !.current_question = hosting[h].q,
                                                                   !.question_show = TRUE]
      [] hosting[h].op = "get_question_results" -> [g EXCEPT !.question_show = FALSE]

\* game_data as the handler changes it before it saves it.
Edited(h, g) ==
    CASE hosting[h].op = "start_game"           -> [g EXCEPT !.started = TRUE]
      [] hosting[h].op = "set_question_number"  -> [g EXCEPT !.current_question = hosting[h].q,
                                                             !.question_show = TRUE]
      [] hosting[h].op = "get_question_results" -> [g EXCEPT !.question_show = FALSE]

HostReadGame(h) ==
    /\ hosting[h].pc = "read"
    /\ hosting' = [hosting EXCEPT ![h].blob = Edited(h, game), ![h].pc = "save"]
    /\ UNCHANGED <<game, players, session, startTime, answers, scores, room, submit>>

\* The question is shown without its clock being set.
Bug_HostSaveGame(h) ==
    /\ hosting[h].pc = "save"
    /\ game' = hosting[h].blob
    /\ hosting' = [hosting EXCEPT ![h] =
                      IF @.op = "get_question_results" THEN IdleHost
                      ELSE [@ EXCEPT !.pc = "emit", !.blob = NewGame]]
    /\ UNCHANGED <<players, session, startTime, answers, scores, room, submit>>

\* PlayGame.save.  get_question_results only emits after it, which no client
\* state here depends on; set_question_number has the clock to set first.
HostSaveGame(h) ==
    /\ hosting[h].pc = "save"
    /\ game' = hosting[h].blob
    /\ hosting' = [hosting EXCEPT ![h] =
                      CASE @.op = "start_game"           -> [@ EXCEPT !.pc = "emit", !.blob = NewGame]
                        [] @.op = "set_question_number"  -> [@ EXCEPT !.pc = "time", !.blob = NewGame]
                        [] @.op = "get_question_results" -> IdleHost]
    /\ UNCHANGED <<players, session, startTime, answers, scores, room, submit>>

\* The current_time key; then the question is looked up, an IndexError for the
\* one past the end: the game and the clock have been set by then.
SetQuestionTime(h) ==
    /\ hosting[h].pc = "time"
    /\ startTime' = hosting[h].q
    /\ hosting' = [hosting EXCEPT ![h] = IF @.q \in Questions THEN [@ EXCEPT !.pc = "emit"]
                                         ELSE IdleHost]
    /\ UNCHANGED <<game, players, session, answers, scores, room, submit>>

\* The event to the room.  A SLIDE is shown to the calling host alone.
HostEmit(h) ==
    LET q == hosting[h].q IN
    /\ hosting[h].pc = "emit"
    /\ room' = CASE hosting[h].op = "start_game" -> [room EXCEPT !.started = TRUE]
                 [] OTHER -> IF q \in SlideQuestions THEN room
                             ELSE [room EXCEPT !.question = q, !.shown = @ \cup {q}]
    /\ hosting' = [hosting EXCEPT ![h] = IdleHost]
    /\ UNCHANGED <<game, players, session, startTime, answers, scores, submit>>

HostCall(h) == CallStartGame(h) \/ CallSetQuestionNumber(h) \/ CallGetQuestionResults(h)
HostStep(h) == HostReadGame(h) \/ HostSaveGame(h) \/ SetQuestionTime(h) \/ HostEmit(h)

------------------------------------------------------------------------------

RoundNext ==
    \/ \E c \in Calls : SubmitBegin(c) \/ SubmitStep(c)
    \/ \E h \in HostTasks : HostCall(h) \/ HostStep(h)

(***************************************************************************)
(* The round on its own: the lobby is over, the players are those of the   *)
(* set, all of them with their time_sync echoed, and one more connection   *)
(* is the host's.                                                          *)
(***************************************************************************)
CONSTANTS Host, PlayerOf   \* the host's Sid; the name behind every other Sid

ASSUME HostAssumption ==
    /\ Host \in Sids
    /\ PlayerOf \in [Sids \ {Host} -> Users]

Init ==
    /\ game = NewGame
    /\ players = {[username |-> PlayerOf[s], sid |-> s] : s \in Sids \ {Host}}
    /\ session = [s \in Sids |-> IF s = Host THEN AdminSession
                                 ELSE [PlayerSession(PlayerOf[s]) EXCEPT !.ping = TRUE]]
    /\ RoundInit

Spec == Init /\ [][RoundNext]_vars

\* asyncio resumes every task whose Redis command has answered, so a handler
\* that has begun goes on; nobody has to call one.
Fairness ==
    /\ \A c \in Calls : WF_vars(SubmitStep(c))
    /\ \A h \in HostTasks : WF_vars(HostStep(h))

FairSpec == Spec /\ Fairness

(***************************************************************************)
(* Properties                                                              *)
(***************************************************************************)

\* An answer on a list has had its points added to the scoreboard: HINCRBY
\* precedes the write of the list, and no list is ever written from a
\* snapshot that holds an answer whose points are still to come.
ListedAnswersAreScored ==
    \A q \in Questions : answers[q] \subseteq {c \in scores : c.q = q}

\* The calls of submit_answer that have put their answer on the list.
Stored == {c \in Calls : submit[c].pc \in {"count", "reread", "close", "accepted", "everyone"}}

\* Two answers of one player to question q have been stored: both calls passed
\* has_already_answered before either of them wrote the list.
AnsweredTwice(q) ==
    \E d, e \in Stored : /\ d # e /\ d.q = q /\ e.q = q
                         /\ submit[d].username = submit[e].username

\* everyone_answered is on its way only when each player has had an answer to
\* the question stored - although it is the LENGTH of a list read earlier
\* that is compared with a SCARD taken later, and the list may since have
\* been overwritten.  The code has one exception: a player who pressed twice
\* and got both answers in is counted for somebody who has not answered.
EveryoneAnsweredIsSound ==
    \A c \in Calls : submit[c].pc \in {"reread", "close", "everyone"} =>
        \/ \A p \in players : \E d \in Stored :
              d.q = c.q /\ submit[d].username = p.username
        \/ AnsweredTwice(c.q)

\* An answer is settled once it is listed and every handler that is about to
\* write the list has seen it there.
Settled(d) ==
    /\ d \in answers[d.q]
    /\ \A c \in Calls : c.q = d.q /\ At(c, "store") => d \in submit[c].seen

\* A settled answer is never lost: only the handlers that read the list
\* before it was written can overwrite it.
SettledAnswersStay == [][\A d \in Calls : Settled(d) => Settled(d)']_vars

\* The calls that have not passed the test for an earlier answer.
Untested == {c \in Calls : submit[c].pc \in {"new", "game", "check", "inactive", "replied"}}

\* A player answers a question once: when an answer of a connection is settled,
\* no other answer of it that has not passed the test yet ever will, although
\* lists are stored from old copies all the time.  (Two answers sent together
\* both pass.)
LaterAnswersAreRefused ==
    [][\A c, d \in Calls :
          c.sid = d.sid /\ c.q = d.q /\ c # d /\ Settled(d) /\ c \in Untested =>
              c \in Untested']_vars

\* Saves of the whole game document, among them those of handlers that read
\* it long before, never take a started game back to the lobby, where
\* join_game would let players in again.
StartedIsPermanent == [][game.started => game'.started]_vars

\* No answer fails for want of the question's start time: the first
\* set_question_number sets the clock before any client can see a question.
ClockRunsBeforeAnswers ==
    \A c \in Calls : submit[c].pc = "time" => startTime # None

\* Once the list of a question names every player, somebody's handler goes on
\* to announce everyone_answered: nobody keeps waiting for a full list.
FullListIsAnnounced ==
    \A q \in Questions :
        Answered(q) = {p.username : p \in players} ~>
        \E c \in Calls : c.q = q /\ submit[c].pc = "everyone"

\* An answer whose points were added is on the list of its question once its
\* handler is through: live_redis_data.md says the key "stores the answer per
\* question which the players submitted".  The code loses it when another
\* handler stores a list read before this one was written, and never stores a
\* wrong answer to a RANGE question.
SubmittedAnswersAreStored ==
    \A c \in scores : submit[c].pc \in Finished => c \in answers[c.q]

\* The handlers keep the promise of ScoreLedger.
Ledger == INSTANCE ScoreLedger WITH
    Entries <- Calls, Topics <- Questions, Topic <- LAMBDA c : c.q,
    names <- {p.username : p \in players},
    credited <- scores, published <- Stored, list <- answers,
    author <- [c \in Calls |-> submit[c].username],
    announced <- {q \in Questions : \E c \in Calls : c.q = q /\ submit[c].pc = "everyone"}

KeepsLedger == Ledger!LedgerSpec

==============================================================================
