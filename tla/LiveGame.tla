------------------------------- MODULE LiveGame -------------------------------
(***************************************************************************)
(* One live game as a whole: Lobby and AnswerRound on the same Redis keys. *)
(* Players come, go, come back and are kicked while questions are asked    *)
(* and answered.  A step is a step of one of the two; what this module     *)
(* adds is where they meet: who is in the room when an event is sent to    *)
(* it, and that a lost connection sends nothing.                           *)
(***************************************************************************)
EXTENDS GameStore

CONSTANTS Attempts, HostTasks     \* see AnswerRound

VARIABLES
    game, players, session,                          \* shared
    sidOf, admin, inRoom, open, cookies, told, listed, banned, onStage, raced, crossed,
    entering, echo, kicking,                         \* Lobby
    startTime, answers, scores, room, submit, hosting, \* AnswerRound
    heard   \* the questions that the page of a connection has been shown

lobbyOnly == <<sidOf, admin, inRoom, open, cookies, told, listed, banned, onStage, raced,
               crossed, entering, echo, kicking>>
roundOnly == <<startTime, answers, scores, room, submit, hosting>>
liveVars == <<game, players, session, lobbyOnly, roundOnly, heard>>

Lobby == INSTANCE Lobby

\* Host and PlayerOf describe the players of a round on its own; here the
\* lobby decides who they are.
Round == INSTANCE AnswerRound WITH Host <- None, PlayerOf <- <<>>

LiveTypeOK ==
    /\ Lobby!LobbyTypeOK
    /\ Round!TypeOK
    /\ heard \in [Sids -> SUBSET Questions]

NothingAsked == Round!RoundInit /\ heard = [s \in Sids |-> {}]

\* From the very beginning.
LiveInit == Lobby!LobbyInit /\ NothingAsked

------------------------------------------------------------------------------

\* The event of start_game or set_question_number reaches those in the room.
\* The question of a SLIDE goes to the calling host alone.
LiveEmit(h) ==
    /\ Round!HostEmit(h)
    /\ IF hosting[h].op = "start_game"
          THEN Lobby!StartIsHeard /\ UNCHANGED heard
          ELSE /\ heard' = IF hosting[h].q \in SlideQuestions THEN heard
                           ELSE [s \in Sids |-> IF s \in inRoom THEN heard[s] \cup {hosting[h].q}
                                                ELSE heard[s]]
               /\ UNCHANGED lobbyOnly

\* A page answers a question it has been shown.
LiveSubmit(c) ==
    /\ c.sid \in open /\ c.q \in heard[c.sid]
    /\ Round!SubmitBegin(c)
    /\ UNCHANGED <<lobbyOnly, heard>>

\* A host's page that is still there calls; it starts a game that it lists
\* somebody in.
LiveHostCall(h) ==
    /\ \E s \in open : session[s] # None /\ session[s].admin
    /\ \/ Round!CallStartGame(h) /\ listed # {}
       \/ Round!CallSetQuestionNumber(h)
       \/ Round!CallGetQuestionResults(h)
    /\ UNCHANGED <<lobbyOnly, heard>>

\* The steps of handlers that nobody outside waits for.
LiveHandlerStep ==
    /\ \/ \E c \in Round!Calls : Round!SubmitStep(c)
       \/ \E h \in HostTasks :
             Round!HostReadGame(h) \/ Round!HostSaveGame(h) \/ Round!SetQuestionTime(h)
    /\ UNCHANGED <<lobbyOnly, heard>>

LiveLobbyStep == Lobby!LobbyNext /\ UNCHANGED <<roundOnly, heard>>

LiveNext ==
    \/ LiveLobbyStep
    \/ LiveHandlerStep
    \/ \E c \in Round!Calls : LiveSubmit(c)
    \/ \E h \in HostTasks : LiveHostCall(h) \/ LiveEmit(h)

LiveSpec == LiveInit /\ [][LiveNext]_liveVars

(***************************************************************************)
(* A game with its players in the lobby, to start the larger instances     *)
(* from: a host, one connection for every name, and connections to spare.  *)
(***************************************************************************)
CONSTANTS Host, Seats   \* the host's Sid; the Sid of every name

ASSUME LiveAssumption ==
    /\ Attempts \in [Sids -> Nat]
    /\ Host \in Sids
    /\ Users # {} /\ Seats \in [Users -> Sids \ {Host}]

SeatedInit ==
    /\ game = NewGame
    /\ players = {[username |-> u, sid |-> Seats[u]] : u \in Users}
    /\ session = [s \in Sids |->
          IF s = Host THEN AdminSession
          ELSE IF \E u \in Users : Seats[u] = s
               THEN [PlayerSession(CHOOSE u \in Users : Seats[u] = s) EXCEPT !.ping = TRUE]
               ELSE None]
    /\ sidOf = Seats
    /\ admin = Host /\ told = {Host}
    /\ inRoom = {Host} \cup {Seats[u] : u \in Users}
    /\ open = Sids
    /\ cookies = players
    /\ listed = Users
    /\ banned = {} /\ onStage = {} /\ raced = {} /\ crossed = {}
    /\ entering = [s \in Sids |-> Lobby!NotEntering]
    /\ echo = [s \in Sids |-> Lobby!NoEcho]
    /\ kicking = Lobby!NotKicking
    /\ NothingAsked

(***************************************************************************)
(* Properties                                                              *)
(***************************************************************************)

\* Points precede answers also while players come and go: an answer on a list
\* has its points on the scoreboard.
LiveAnswersAreScored == Round!ListedAnswersAreScored

\* Pages follow the start when start_game saves and sends in two steps, too.
LivePagesFollowTheStart == game.started /\ room.started => Lobby!PagesFollowTheStart

\* The two halves keep together what each keeps on its own, although the one
\* decides whom the other's events reach and how many answers it waits for.
HalvesAgree == LiveTypeOK /\ LiveAnswersAreScored /\ LivePagesFollowTheStart

\* A handler decides to announce everyone_answered only when as many answers
\* have been stored as there are players counted at that moment, however old
\* the list is that it appended to.
EnoughAnswersForEveryone ==
    [][\A c \in Round!Calls :
          submit[c].pc = "count" /\ submit'[c].pc = "reread" =>
              Cardinality({d \in Round!Stored : d.q = c.q}) >= Cardinality(players)]_liveVars

==============================================================================
