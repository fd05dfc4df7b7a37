---------------------------- MODULE LiveGameProofs ----------------------------
(***************************************************************************)
(* Theorems about LiveGame.  The lemmas about single steps of LobbyProofs  *)
(* and AnswerRoundProofs are taken over; what is proved here is that each  *)
(* half keeps its invariant under the steps of the other, and what holds   *)
(* of the two together.                                                    *)
(***************************************************************************)
EXTENDS LiveGame, FiniteSetTheorems, TLAPS

L == INSTANCE LobbyProofs

\* The steps of a round do not depend on who its players are.
R == INSTANCE AnswerRoundProofs
         WITH PlayerOf <- [s \in Sids \ {Host} |-> CHOOSE u \in Users : TRUE]

\* Each instance calls the same sets finite.
LEMMA SameFinite ==
    ASSUME NEW S
    PROVE  (L!IsFiniteSet(S) <=> IsFiniteSet(S)) /\ (R!IsFiniteSet(S) <=> IsFiniteSet(S))
BY DEF L!IsFiniteSet, R!IsFiniteSet, IsFiniteSet

\* The assumptions of the lobby hold of the instance.
LEMMA LobbyAssumptions == L!GameStoreAssumption /\ L!NoneIsNoSession
BY SameFinite, GameStoreAssumption, NoneIsNoSession
   DEF L!GameStoreAssumption, L!NoneIsNoSession, L!Questions, Questions, L!Indices, Indices,
       L!Session, Session

\* So do those of the round.
LEMMA RoundAssumptions ==
    /\ R!AnswerRoundAssumption /\ R!HostAssumption
    /\ R!GameStoreAssumption /\ R!NoneIsNoSession
BY SameFinite, LiveAssumption, GameStoreAssumption, NoneIsNoSession
   DEF R!AnswerRoundAssumption, R!HostAssumption, R!GameStoreAssumption, R!NoneIsNoSession,
       R!Questions, Questions, R!Indices, Indices, R!Session, Session

(***************************************************************************)
(* The steps that LiveGame takes are those the lemmas are about.           *)
(***************************************************************************)

\* Each instance counts as this module does.
LEMMA SameCardinality ==
    ASSUME NEW S
    PROVE  Round!Cardinality(S) = Cardinality(S) /\ R!Cardinality(S) = Cardinality(S)
BY DEF Round!Cardinality, R!Cardinality, Cardinality

\* The steps of the two instances of the round are the same: submit_answer,
LEMMA SameSubmit ==
    ASSUME NEW c
    PROVE  /\ Round!SubmitBegin(c) <=> R!SubmitBegin(c)
           /\ Round!SubmitStep(c) <=> R!SubmitStep(c)
<1> USE DEF Round!At, R!At
<1>1. Round!SubmitBegin(c) <=> R!SubmitBegin(c)
  BY DEF Round!SubmitBegin, R!SubmitBegin
<1>2. Round!SubmitReadGame(c) <=> R!SubmitReadGame(c)
  BY DEF Round!SubmitReadGame, R!SubmitReadGame
<1>3. Round!SubmitCheck(c) <=> R!SubmitCheck(c)
  BY DEF Round!SubmitCheck, R!SubmitCheck, Round!Answered, R!Answered
<1>4. Round!SubmitReadTime(c) <=> R!SubmitReadTime(c)
  BY DEF Round!SubmitReadTime, R!SubmitReadTime
<1>5. Round!SubmitScore(c) <=> R!SubmitScore(c)
  BY DEF Round!SubmitScore, R!SubmitScore
<1>6. Round!SubmitReadAnswers(c) <=> R!SubmitReadAnswers(c)
  BY DEF Round!SubmitReadAnswers, R!SubmitReadAnswers
<1>7. Round!SubmitStore(c) <=> R!SubmitStore(c)
  BY DEF Round!SubmitStore, R!SubmitStore, Round!Appended, R!Appended
<1>8. Round!SubmitCount(c) <=> R!SubmitCount(c)
  BY SameCardinality DEF Round!SubmitCount, R!SubmitCount, Round!Appended, R!Appended
<1>9. Round!SubmitReread(c) <=> R!SubmitReread(c)
  BY DEF Round!SubmitReread, R!SubmitReread
<1>10. Round!SubmitClose(c) <=> R!SubmitClose(c)
  BY DEF Round!SubmitClose, R!SubmitClose, Round!NewGame, R!NewGame
<1>11. QED
  BY <1>1, <1>2, <1>3, <1>4, <1>5, <1>6, <1>7, <1>8, <1>9, <1>10 DEF Round!SubmitStep, R!SubmitStep

\* the handlers of the hosts,
LEMMA SameHosting ==
    ASSUME NEW h
    PROVE  /\ Round!HostCall(h) <=> R!HostCall(h)
           /\ Round!HostReadGame(h) <=> R!HostReadGame(h)
           /\ Round!HostSaveGame(h) <=> R!HostSaveGame(h)
           /\ Round!SetQuestionTime(h) <=> R!SetQuestionTime(h)
           /\ Round!HostEmit(h) <=> R!HostEmit(h)
<1> USE DEF Round!IdleHost, R!IdleHost, Round!NewGame, R!NewGame, Round!HostOps, R!HostOps
<1>1. \A op, q : Round!HostBegin(h, op, q) <=> R!HostBegin(h, op, q)
  BY DEF Round!HostBegin, R!HostBegin, Round!HostConnected, R!HostConnected
<1>2. Round!HostCall(h) <=> R!HostCall(h)
  BY <1>1 DEF Round!HostCall, R!HostCall, Round!CallStartGame, R!CallStartGame,
     Round!CallSetQuestionNumber, R!CallSetQuestionNumber, Round!CallGetQuestionResults,
     R!CallGetQuestionResults, Round!Indices, R!Indices
<1>3. Round!HostReadGame(h) <=> R!HostReadGame(h)
  BY DEF Round!HostReadGame, R!HostReadGame, Round!Edited, R!Edited
<1>4. Round!HostSaveGame(h) <=> R!HostSaveGame(h)
  BY DEF Round!HostSaveGame, R!HostSaveGame
<1>5. Round!SetQuestionTime(h) <=> R!SetQuestionTime(h)
  BY DEF Round!SetQuestionTime, R!SetQuestionTime, Round!Questions, R!Questions
<1>6. Round!HostEmit(h) <=> R!HostEmit(h)
  BY DEF Round!HostEmit, R!HostEmit
<1>7. QED
  BY <1>2, <1>3, <1>4, <1>5, <1>6

\* the handlers of the lobby,
LEMMA SameLobby == Lobby!LobbyNext <=> L!LobbyNext
<1> USE DEF Lobby!Stage, L!Stage, Lobby!MayEnter, L!MayEnter, Lobby!NameBusy, L!NameBusy, Lobby!Cross, L!Cross, Lobby!GoTo, L!GoTo, Lobby!Leave, L!Leave, Lobby!Begin, L!Begin,
        Lobby!SaveSession, L!SaveSession, Lobby!EnterRoom, L!EnterRoom, Lobby!TimeSync, L!TimeSync, Lobby!Handler, L!Handler, Lobby!NotEntering, L!NotEntering, Lobby!NoEcho, L!NoEcho, Lobby!PlayerSession, L!PlayerSession, Lobby!AdminSession, L!AdminSession
<1>1. \A s, u : Lobby!JoinBegin(s, u) <=> L!JoinBegin(s, u)
  BY DEF Lobby!JoinBegin, L!JoinBegin, Lobby!Joining, L!Joining
<1>2. \A s : Lobby!JoinName(s) <=> L!JoinName(s)
  BY DEF Lobby!JoinName, L!JoinName
<1>3. \A s : Lobby!JoinSession(s) <=> L!JoinSession(s)
  BY DEF Lobby!JoinSession, L!JoinSession
<1>4. \A s : Lobby!JoinKey(s) <=> L!JoinKey(s)
  BY DEF Lobby!JoinKey, L!JoinKey
<1>5. \A s : Lobby!JoinStack(s) <=> L!JoinStack(s)
  BY DEF Lobby!JoinStack, L!JoinStack
<1>6. \A s : Lobby!JoinEnter(s) <=> L!JoinEnter(s)
  BY DEF Lobby!JoinEnter, L!JoinEnter
<1>7. \A s : Lobby!RejoinBegin(s) <=> L!RejoinBegin(s)
  BY DEF Lobby!RejoinBegin, L!RejoinBegin, Lobby!Rejoining, L!Rejoining
<1>8. \A s : Lobby!RejoinCheck(s) <=> L!RejoinCheck(s)
  BY DEF Lobby!RejoinCheck, L!RejoinCheck
<1>9. \A s : Lobby!RejoinKey(s) <=> L!RejoinKey(s)
  BY DEF Lobby!RejoinKey, L!RejoinKey
<1>10. \A s : Lobby!RejoinRemove(s) <=> L!RejoinRemove(s)
  BY DEF Lobby!RejoinRemove, L!RejoinRemove
<1>11. \A s : Lobby!RejoinAdd(s) <=> L!RejoinAdd(s)
  BY DEF Lobby!RejoinAdd, L!RejoinAdd
<1>12. \A s : Lobby!RejoinSession(s) <=> L!RejoinSession(s)
  BY DEF Lobby!RejoinSession, L!RejoinSession
<1>13. \A s : Lobby!RegisterBegin(s) <=> L!RegisterBegin(s)
  BY DEF Lobby!RegisterBegin, L!RegisterBegin
<1>14. \A s : Lobby!RegisterSave(s) <=> L!RegisterSave(s)
  BY DEF Lobby!RegisterSave, L!RegisterSave
<1>15. \A s : Lobby!RegisterSession(s) <=> L!RegisterSession(s)
  BY DEF Lobby!RegisterSession, L!RegisterSession
<1>16. \A s : Lobby!RemoteBegin(s) <=> L!RemoteBegin(s)
  BY DEF Lobby!RemoteBegin, L!RemoteBegin, Lobby!TakingOver, L!TakingOver
<1>17. \A s : Lobby!RemoteSave(s) <=> L!RemoteSave(s)
  BY DEF Lobby!RemoteSave, L!RemoteSave, Lobby!AsHost, L!AsHost
<1>18. \A s : Lobby!EchoLoad(s) <=> L!EchoLoad(s)
  BY DEF Lobby!EchoLoad, L!EchoLoad
<1>19. \A s : Lobby!EchoSave(s) <=> L!EchoSave(s)
  BY DEF Lobby!EchoSave, L!EchoSave, Lobby!Pinged, L!Pinged
<1>20. \A s : Lobby!Disconnect(s) <=> L!Disconnect(s)
  BY DEF Lobby!Disconnect, L!Disconnect
<1>21. \A u : Lobby!KickBegin(u) <=> L!KickBegin(u)
  BY DEF Lobby!KickBegin, L!KickBegin
<1>22. Lobby!KickRemove <=> L!KickRemove
  BY DEF Lobby!KickRemove, L!KickRemove
<1>23. Lobby!KickLeave <=> L!KickLeave
  BY DEF Lobby!KickLeave, L!KickLeave, Lobby!NotKicking, L!NotKicking
<1>24. \A s : Lobby!EnterStep(s) <=> L!EnterStep(s)
  BY <1>1, <1>2, <1>3, <1>4, <1>5, <1>6, <1>7, <1>8, <1>9, <1>10, <1>11, <1>12, <1>13, <1>14, <1>15, <1>16, <1>17, <1>18, <1>19, <1>20, <1>21 DEF Lobby!EnterStep, L!EnterStep
<1>25. QED
  BY <1>1, <1>2, <1>3, <1>4, <1>5, <1>6, <1>7, <1>8, <1>9, <1>10, <1>11, <1>12, <1>13, <1>14, <1>15, <1>16, <1>17, <1>18, <1>19, <1>20, <1>21, <1>22, <1>23, <1>24 DEF Lobby!LobbyNext, L!LobbyNext

\* the event that tells the pages of the start,
LEMMA SameStart == Lobby!StartIsHeard <=> L!StartIsHeard
BY DEF Lobby!StartIsHeard, L!StartIsHeard

(***************************************************************************)
(* The two halves together                                                 *)
(***************************************************************************)

\* What each half needs of itself, and the one fact that spans both: the
\* event that the pages were told of is that of a game that has started.
LiveInv ==
    /\ L!SessionInv /\ L!HostsAreNameless
    /\ R!ScoredInv /\ R!StartInv
    /\ room.started => L!Informed
    /\ heard \in [Sids -> SUBSET Questions]

\* and the records.
LEMMA SameTypes ==
    /\ L!PlayGame = PlayGame /\ R!PlayGame = PlayGame
    /\ L!GamePlayer = GamePlayer /\ R!GamePlayer = GamePlayer
    /\ L!Session = Session /\ R!Session = Session
    /\ L!NewGame = NewGame /\ R!NewGame = NewGame /\ R!Questions = Questions
BY DEF L!Indices, R!Indices, Indices, L!PlayGame, R!PlayGame, PlayGame, L!GamePlayer, R!GamePlayer, GamePlayer,
       L!Session, R!Session, Session, L!NewGame, R!NewGame, NewGame, L!Questions, R!Questions, Questions

\* A game in which nothing was asked is the start of a round.
LEMMA AskedNothing == NothingAsked => R!RoundInit /\ heard = [s \in Sids |-> {}]
BY DEF NothingAsked, Round!RoundInit, R!RoundInit, Round!Questions, R!Questions,
       Round!Calls, R!Calls, Round!NewSubmission, R!NewSubmission, Round!NewGame, R!NewGame,
       Round!IdleHost, R!IdleHost

\* The invariant holds in an empty lobby,
LEMMA InitLiveInv == LiveInit => LiveInv
<1> SUFFICES ASSUME LiveInit PROVE LiveInv
  OBVIOUS
<1>1. L!LobbyInit
  BY DEF LiveInit, Lobby!LobbyInit, L!LobbyInit, Lobby!NewGame, L!NewGame,
     Lobby!LobbyOnlyInit, L!LobbyOnlyInit, Lobby!NotEntering, L!NotEntering,
     Lobby!Handler, L!Handler, Lobby!NoEcho, L!NoEcho, Lobby!NotKicking, L!NotKicking
<1>2. R!RoundInit /\ heard = [s \in Sids |-> {}]
  BY AskedNothing DEF LiveInit
<1>3. L!SessionInv /\ L!HostsAreNameless /\ L!LobbyTypeOK
  BY <1>1, LobbyAssumptions, L!InitStartedInv DEF L!StartedInv, L!SessionInv, L!LobbyTypeInv
<1>4. game = R!NewGame /\ players \in SUBSET R!GamePlayer
      /\ session \in [Sids -> R!Session \cup {None}]
  BY <1>1, <1>3, SameTypes DEF L!LobbyInit, L!LobbyTypeOK
<1>5. R!TypeInv
  BY <1>2, <1>4, RoundAssumptions, R!RoundInitTypes
<1>6. R!ScoredInv /\ R!StartInv
  BY <1>2, <1>5, RoundAssumptions, R!RoundInitScored, R!RoundInitStart
<1>7. ~room.started
  BY <1>2 DEF R!RoundInit
<1>8. QED
  BY <1>2, <1>3, <1>6, <1>7 DEF LiveInv

\* and in a lobby whose players have joined.
LEMMA InitSeatedInv == SeatedInit => LiveInv
<1> SUFFICES ASSUME SeatedInit PROVE LiveInv
  OBVIOUS
<1> DEFINE Name(s) == CHOOSE u \in Users : Seats[u] = s
<1>1. ASSUME NEW s \in Sids
      PROVE  \/ s = Host /\ session[s] = AdminSession
             \/ /\ s # Host /\ \E u \in Users : Seats[u] = s
                /\ session[s] = [username |-> Name(s), admin |-> FALSE, ping |-> TRUE]
                /\ session[s] \in Session
             \/ s # Host /\ (\A u \in Users : Seats[u] # s) /\ session[s] = None
  <2>1. CASE s = Host
    BY <2>1 DEF SeatedInit
  <2>2. CASE s # Host /\ \E u \in Users : Seats[u] = s
    <3>1. Name(s) \in Users
      BY <2>2
    <3>2. session[s] = [PlayerSession(Name(s)) EXCEPT !.ping = TRUE]
      BY <2>2 DEF SeatedInit
    <3>3. session[s] = [username |-> Name(s), admin |-> FALSE, ping |-> TRUE]
      BY <3>2 DEF PlayerSession
    <3>4. session[s] \in Session
      BY <3>1, <3>3 DEF Session
    <3>5. QED
      BY <2>2, <3>3, <3>4
  <2>3. CASE s # Host /\ ~\E u \in Users : Seats[u] = s
    BY <2>3 DEF SeatedInit
  <2>4. QED
    BY <2>1, <2>2, <2>3
<1>2. /\ session \in [Sids -> Session \cup {None}]
      /\ AdminSession \in Session /\ None \notin Session /\ AdminSession.username = None
  <2>1. AdminSession \in Session /\ AdminSession.username = None
    BY DEF AdminSession, Session
  <2>2. session = [s \in Sids |-> session[s]]
    BY DEF SeatedInit
  <2>3. QED
    BY <1>1, <2>1, <2>2, NoneIsNoSession
<1>3. players \in SUBSET GamePlayer /\ cookies = players /\ game = NewGame
  BY LiveAssumption DEF SeatedInit, GamePlayer
<1>4. \A k \in cookies : k.sid \in Sids /\ session[k.sid] # None
                         /\ ~session[k.sid].admin /\ session[k.sid].ping
  <2> SUFFICES ASSUME NEW u \in Users
               PROVE  /\ Seats[u] \in Sids /\ session[Seats[u]] # None
                      /\ ~session[Seats[u]].admin /\ session[Seats[u]].ping
    <3>1. cookies = {[username |-> u, sid |-> Seats[u]] : u \in Users}
      BY DEF SeatedInit
    <3>2. \A k \in cookies : \E u \in Users : k.sid = Seats[u]
      BY <3>1
    <3>3. QED
      BY <3>2
  <2>1. Seats[u] \in Sids /\ Seats[u] # Host
    BY LiveAssumption
  <2>2. /\ session[Seats[u]] \in Session
        /\ session[Seats[u]] = [username |-> Name(Seats[u]), admin |-> FALSE, ping |-> TRUE]
    BY <1>1, <2>1
  <2>3. ~session[Seats[u]].admin /\ session[Seats[u]].ping
    BY <2>2
  <2>4. QED
    BY <1>2, <2>1, <2>2, <2>3
<1>5. \A s \in Sids : session[s] # None /\ session[s].admin => session[s].username = None
  <2> SUFFICES ASSUME NEW s \in Sids, session[s] # None, session[s].admin
               PROVE  session[s].username = None
    OBVIOUS
  <2>1. CASE session[s] = AdminSession
    BY <1>2, <2>1
  <2>2. CASE session[s] = [username |-> Name(s), admin |-> FALSE, ping |-> TRUE]
    BY <2>2
  <2>3. QED
    BY <1>1, <2>1, <2>2
<1>6. \A s \in inRoom : s \in Sids /\ session[s] # None
  <2>1. Seats \in [Users -> Sids] /\ Host \in Sids
    BY LiveAssumption
  <2>2. inRoom = {Host} \cup {Seats[u] : u \in Users}
    BY DEF SeatedInit
  <2>3. ASSUME NEW s \in inRoom PROVE s \in Sids /\ session[s] \in Session
    BY <1>1, <1>2, <2>1, <2>2
  <2>4. QED
    BY <1>2, <2>3
<1>7. L!LobbyTypeInv
  <2>1. /\ L!NotEntering \in L!Entering /\ L!NoEcho \in L!Echo /\ L!NotKicking \in L!Kicking
        /\ L!NotEntering.pc = "idle" /\ L!NotEntering.username = None
        /\ L!NoEcho.pc = "none" /\ L!NotKicking.pc = "idle"
    BY LobbyAssumptions, L!LobbyRecords DEF L!NoEcho, L!NotKicking
  <2>2. /\ entering = [s \in Sids |-> L!NotEntering] /\ echo = [s \in Sids |-> L!NoEcho]
        /\ kicking = L!NotKicking
    BY DEF SeatedInit, Lobby!NotEntering, L!NotEntering, Lobby!Handler, L!Handler,
       Lobby!NoEcho, L!NoEcho, Lobby!NotKicking, L!NotKicking
  <2>3. game \in PlayGame
    BY <1>3 DEF NewGame, PlayGame
  <2>4. /\ sidOf \in [Users -> Sids \cup {None}] /\ admin \in Sids \cup {None}
        /\ inRoom \in SUBSET Sids /\ open \in SUBSET Sids /\ told \in SUBSET Sids
        /\ listed \in SUBSET Users /\ banned \in SUBSET Users
        /\ onStage \in SUBSET Sids /\ raced \in SUBSET Sids /\ crossed \in SUBSET Users
    BY <1>6, LiveAssumption DEF SeatedInit
  <2>5. L!LobbyTypeOK
    BY <1>2, <1>3, <2>1, <2>2, <2>3, <2>4, SameTypes DEF L!LobbyTypeOK
  <2>6. L!HandlersFormed
    BY <2>1, <2>2 DEF L!HandlersFormed, L!JoinPcs, L!RejoinPcs
  <2>7. QED
    BY <2>5, <2>6 DEF L!LobbyTypeInv
<1>8. \A s \in Sids : entering[s].pc = "idle" /\ echo[s].pc = "none"
  BY DEF SeatedInit, Lobby!NotEntering, Lobby!Handler, Lobby!NoEcho
<1>9. L!SessionInv /\ L!HostsAreNameless
  <2>1. \A s \in Sids : L!SessionKept(s)
    BY <1>6, <1>8 DEF L!SessionKept, L!RejoinPcs, SeatedInit
  <2>2. QED
    BY <1>4, <1>5, <1>7, <2>1
       DEF L!SessionInv, L!CookiesKept, L!JoinedPagesAreTimed, L!HostsAreNameless
<1>10. R!RoundInit /\ heard = [s \in Sids |-> {}]
  BY AskedNothing DEF SeatedInit
<1>11. R!TypeInv
  BY <1>2, <1>3, <1>10, SameTypes, RoundAssumptions, R!RoundInitTypes
<1>12. R!ScoredInv /\ R!StartInv /\ ~room.started
  BY <1>10, <1>11, RoundAssumptions, R!RoundInitScored, R!RoundInitStart DEF R!RoundInit
<1>13. QED
  BY <1>9, <1>10, <1>12 DEF LiveInv

\* A step of the lobby.
LEMMA LobbyStepKeeps ==
    ASSUME LiveInv, LiveLobbyStep
    PROVE  LiveInv' /\ UNCHANGED game
<1> USE LobbyAssumptions DEF LiveInv
<1>1. L!LobbyNext /\ UNCHANGED <<roundOnly, heard>>
  BY SameLobby DEF LiveLobbyStep
<1>2. L!SessionInv' /\ L!HostsAreNameless'
  BY <1>1, L!LobbyKeepsSessionInv, L!LobbyKeepsNameless
<1>3. UNCHANGED game
  BY <1>1 DEF L!LobbyNext, L!EnterStep, L!JoinBegin, L!JoinName, L!JoinSession, L!JoinKey,
     L!JoinStack, L!JoinEnter, L!RejoinBegin, L!RejoinCheck, L!RejoinKey, L!RejoinRemove,
     L!RejoinAdd, L!RejoinSession, L!RegisterBegin, L!RegisterSave, L!RegisterSession,
     L!RemoteBegin, L!RemoteSave, L!EchoLoad, L!EchoSave, L!KickBegin, L!KickRemove,
     L!KickLeave, L!Disconnect
<1>4. players' \in SUBSET R!GamePlayer /\ session' \in [Sids -> R!Session \cup {None}]
  BY <1>2, SameTypes DEF L!SessionInv, L!LobbyTypeInv, L!LobbyTypeOK
<1>5. R!TypeInv'
  BY <1>1, <1>3, <1>4 DEF roundOnly, R!ScoredInv, R!TypeInv, R!TypeOK, R!HostCallsNamed
<1>6. R!ScoredInv' /\ R!StartInv'
  BY <1>1, <1>3, <1>5 DEF roundOnly, R!ScoredInv, R!ListedAnswersAreScored, R!StartInv
<1>7. room.started => L!Informed'
  BY <1>1, L!LobbyKeepsInformed DEF R!StartInv
<1>8. QED
  BY <1>1, <1>2, <1>3, <1>6, <1>7 DEF roundOnly

\* A step of the round, which changes nothing of the lobby but the game's
\* document and, with the event of start_game, who knows of the start.
LEMMA RoundStepKeeps ==
    ASSUME LiveInv, R!RoundNext, UNCHANGED <<players, session>>,
           heard' \in [Sids -> SUBSET Questions],
           \/ UNCHANGED lobbyOnly /\ (room'.started => room.started)
           \/ L!StartIsHeard
    PROVE  LiveInv' /\ (game.started => game'.started)
<1> USE LobbyAssumptions, RoundAssumptions DEF LiveInv
<1>1. R!ScoredInv' /\ R!StartInv' /\ (game.started => game'.started)
  BY R!NextScoredInv, R!NextStartInv
<1>2. game' \in L!PlayGame
  BY <1>1, SameTypes DEF R!ScoredInv, R!TypeInv, R!TypeOK
<1>3. UNCHANGED <<entering, echo, inRoom, open, told, sidOf, admin, cookies, listed, banned,
                  crossed, kicking>>
      /\ onStage' \in SUBSET Sids /\ raced' \in SUBSET Sids
  BY DEF lobbyOnly, L!StartIsHeard, L!SessionInv, L!LobbyTypeInv, L!LobbyTypeOK
<1>4. L!LobbyTypeInv'
  BY <1>2, <1>3 DEF L!SessionInv, L!LobbyTypeInv, L!LobbyTypeOK, L!HandlersFormed
<1>5. L!SessionInv' /\ L!HostsAreNameless'
  BY <1>3, <1>4 DEF L!SessionInv, L!SessionKept, L!IsCopy, L!CookiesKept, L!JoinedPagesAreTimed,
     L!HostsAreNameless
<1>6. room'.started => L!Informed'
  <2>1. CASE L!StartIsHeard
    BY <2>1, L!StartInforms DEF L!SessionInv
  <2>2. CASE UNCHANGED lobbyOnly /\ (room'.started => room.started)
    BY <2>2 DEF lobbyOnly, L!Informed
  <2>3. QED
    BY <2>1, <2>2
<1>7. QED
  BY <1>1, <1>5, <1>6

\* The calls and the stored answers of the two instances are the same.
LEMMA SameCalls == Round!Calls = R!Calls /\ Round!Stored = R!Stored
BY DEF Round!Calls, R!Calls, Round!Questions, R!Questions, Round!Stored, R!Stored

\* A step of a handler of the round, in LiveGame, is a step of the round.
LEMMA RoundSteps ==
    ASSUME LiveInv,
           \/ LiveHandlerStep
           \/ \E c \in Round!Calls : LiveSubmit(c)
           \/ \E h \in HostTasks : LiveHostCall(h) \/ LiveEmit(h)
    PROVE  /\ R!RoundNext /\ UNCHANGED <<players, session>>
           /\ heard' \in [Sids -> SUBSET Questions]
           /\ \/ UNCHANGED lobbyOnly /\ (room'.started => room.started)
              \/ L!StartIsHeard
<1> USE SameCalls, SameSubmit, SameHosting
<1>1. CASE LiveHandlerStep
  <2>1. R!RoundNext
    BY <1>1 DEF LiveHandlerStep, R!RoundNext, R!HostStep
  <2>2. UNCHANGED <<players, session, room>>
    BY <1>1 DEF LiveHandlerStep, R!SubmitStep, R!SubmitReadGame, R!SubmitCheck, R!SubmitReadTime,
       R!SubmitScore, R!SubmitReadAnswers, R!SubmitStore, R!SubmitCount, R!SubmitReread,
       R!SubmitClose, R!HostReadGame, R!HostSaveGame, R!SetQuestionTime
  <2>3. QED
    BY <1>1, <2>1, <2>2 DEF LiveHandlerStep, LiveInv
<1>2. CASE \E c \in Round!Calls : LiveSubmit(c)
  BY <1>2 DEF LiveSubmit, R!RoundNext, R!SubmitBegin, LiveInv
<1>3. ASSUME NEW h \in HostTasks, LiveHostCall(h)
      PROVE  /\ R!RoundNext /\ UNCHANGED <<players, session, room, lobbyOnly, heard>>
  <2>1. R!HostCall(h)
    BY <1>3 DEF LiveHostCall, Round!HostCall
  <2>2. UNCHANGED <<players, session, room>>
    BY <2>1 DEF R!HostCall, R!CallStartGame, R!CallSetQuestionNumber, R!CallGetQuestionResults,
       R!HostBegin
  <2>3. QED
    BY <1>3, <2>1, <2>2 DEF LiveHostCall, R!RoundNext
<1>4. ASSUME NEW h \in HostTasks, LiveEmit(h)
      PROVE  /\ R!RoundNext /\ UNCHANGED <<players, session>>
             /\ heard' \in [Sids -> SUBSET Questions]
             /\ \/ UNCHANGED lobbyOnly /\ (room'.started => room.started)
                \/ L!StartIsHeard
  <2>1. R!HostEmit(h)
    BY <1>4 DEF LiveEmit
  <2>2. R!RoundNext /\ UNCHANGED <<players, session>>
    BY <2>1 DEF R!RoundNext, R!HostStep, R!HostEmit
  <2>3. CASE hosting[h].op = "start_game"
    BY <1>4, <2>2, <2>3, SameStart DEF LiveEmit, LiveInv
  <2>4. CASE hosting[h].op # "start_game"
    <3>1. hosting[h].q \in Questions
      BY <2>1, <2>4, SameTypes
         DEF LiveInv, R!ScoredInv, R!TypeInv, R!HostCallsNamed, R!HostEmit
    <3>2. heard' \in [Sids -> SUBSET Questions] /\ UNCHANGED lobbyOnly
      BY <1>4, <2>4, <3>1 DEF LiveEmit, LiveInv
    <3>3. room'.started => room.started
      BY <2>1, <2>4 DEF R!HostEmit, LiveInv, R!ScoredInv, R!TypeInv, R!TypeOK
    <3>4. QED
      BY <2>2, <3>2, <3>3
  <2>5. QED
    BY <2>3, <2>4
<1>5. QED
  BY <1>1, <1>2, <1>3, <1>4 DEF LiveInv

\* Every step keeps the invariant, and no step takes the start back.
LEMMA NextLiveInv ==
    ASSUME LiveInv, [LiveNext]_liveVars
    PROVE  LiveInv' /\ (game.started => game'.started)
<1>1. CASE LiveLobbyStep
  BY <1>1, LobbyStepKeeps
<1>2. CASE UNCHANGED liveVars
  BY <1>2 DEF liveVars, lobbyOnly, roundOnly, LiveInv, L!SessionInv, L!LobbyTypeInv, L!LobbyTypeOK,
     L!HandlersFormed, L!SessionKept, L!IsCopy, L!CookiesKept, L!JoinedPagesAreTimed,
     L!HostsAreNameless, L!Informed, R!ScoredInv, R!StartInv, R!TypeInv, R!TypeOK,
     R!HostCallsNamed, R!ListedAnswersAreScored
<1>3. CASE \/ LiveHandlerStep
           \/ \E c \in Round!Calls : LiveSubmit(c)
           \/ \E h \in HostTasks : LiveHostCall(h) \/ LiveEmit(h)
  BY <1>3, RoundSteps, RoundStepKeeps
<1>4. QED
  BY <1>1, <1>2, <1>3 DEF LiveNext

\* The invariant of the composition: what each half keeps by itself, and that a page
\* that plays hears of the start however it came into the room.
THEOREM LiveInvariant == LiveSpec => []LiveInv
<1>1. LiveInv /\ [LiveNext]_liveVars => LiveInv'
  BY NextLiveInv
<1>2. QED
  BY <1>1, InitLiveInv, PTL DEF LiveSpec

\* The invariant is at least the property.
LEMMA LiveInvImplies == LiveInv => HalvesAgree
<1> SUFFICES ASSUME LiveInv PROVE HalvesAgree
  OBVIOUS
<1>1. Lobby!LobbyTypeOK
  <2>1. L!LobbyTypeOK
    BY DEF LiveInv, L!SessionInv, L!LobbyTypeInv
  <2>2. QED
    BY <2>1 DEF Lobby!LobbyTypeOK, L!LobbyTypeOK, Lobby!PlayGame, L!PlayGame, Lobby!Indices,
       L!Indices, Lobby!GamePlayer, L!GamePlayer, Lobby!Session, L!Session, Lobby!Entering,
       L!Entering, Lobby!EnterPc, L!EnterPc, Lobby!Echo, L!Echo, Lobby!Kicking, L!Kicking
<1>2. Round!TypeOK
  <2>1. R!TypeOK
    BY DEF LiveInv, R!ScoredInv, R!TypeInv
  <2>2. QED
    BY <2>1 DEF Round!TypeOK, R!TypeOK, Round!PlayGame, R!PlayGame, Round!Questions, R!Questions, Round!Indices, R!Indices,
       Round!GamePlayer, R!GamePlayer, Round!Session, R!Session, Round!Calls, R!Calls,
       Round!Submission, R!Submission, Round!SubmitPc, R!SubmitPc, Round!Hosting, R!Hosting,
       Round!HostOps, R!HostOps
<1>3. LiveAnswersAreScored
  BY DEF LiveInv, R!ScoredInv, R!ListedAnswersAreScored, LiveAnswersAreScored,
     Round!ListedAnswersAreScored, R!Questions, Round!Questions
<1>4. LivePagesFollowTheStart
  BY DEF LiveInv, L!Informed, LivePagesFollowTheStart, Lobby!PagesFollowTheStart
<1>5. QED
  BY <1>1, <1>2, <1>3, <1>4 DEF HalvesAgree, LiveTypeOK, LiveInv

\* Lobby and round on the same keys, for any number of players, connections,
\* questions and host handlers: the types of both, no listed answer without
\* its points, and no page that plays without knowing that the game started.
THEOREM HalvesAlwaysAgree == LiveSpec => []HalvesAgree
BY LiveInvariant, LiveInvImplies, PTL

\* The same for a game whose lobby is full when the behaviour begins, which is
\* how the larger instances begin.
THEOREM SeatedHalvesAgree == SeatedInit /\ [][LiveNext]_liveVars => []HalvesAgree
<1>1. LiveInv /\ [LiveNext]_liveVars => LiveInv'
  BY NextLiveInv
<1>2. QED
  BY <1>1, InitSeatedInv, LiveInvImplies, PTL

\* While players come, go and are kicked, a started game stays started.
THEOREM LiveStartIsPermanent == LiveSpec => [][game.started => game'.started]_liveVars
<1>1. LiveInv /\ [LiveNext]_liveVars => [game.started => game'.started]_liveVars
  BY NextLiveInv
<1>2. QED
  BY <1>1, LiveInvariant, PTL DEF LiveSpec

(***************************************************************************)
(* everyone_answered                                                       *)
(***************************************************************************)

\* A list that is counted holds stored answers to its own question, whoever
\* has come or gone since it was read.
LEMMA CountIsCovered ==
    ASSUME LiveInv, R!StoredOnly, [LiveNext]_liveVars,
           NEW c \in Round!Calls, submit[c].pc = "count", submit'[c].pc = "reread"
    PROVE  Cardinality({d \in Round!Stored : d.q = c.q}) >= Cardinality(players)
<1>0. /\ c \in R!Calls /\ c.q \in R!Questions /\ submit \in [R!Calls -> R!Submission]
      /\ IsFiniteSet(R!Calls)
  <2>1. IsFiniteSet(R!Calls)
    BY RoundAssumptions, R!CallsAreFinite, SameFinite
  <2>2. c.q \in R!Questions
    BY RoundAssumptions, SameCalls, R!CallIs
  <2>3. QED
    BY <2>1, <2>2, SameCalls DEF LiveInv, R!ScoredInv, R!TypeInv, R!TypeOK
<1>1. R!SubmitCount(c)
  <2>1. submit'[c] # submit[c]
    OBVIOUS
  <2>2. \/ \E d \in R!Calls : R!SubmitBegin(d) \/ R!SubmitStep(d)
        \/ UNCHANGED submit
    BY SameCalls, SameSubmit, SameHosting
       DEF LiveNext, liveVars, roundOnly, LiveLobbyStep, LiveHandlerStep, LiveSubmit, LiveHostCall,
           LiveEmit, Round!HostCall, R!HostCall, R!CallStartGame, R!CallSetQuestionNumber,
           R!CallGetQuestionResults, R!HostBegin, R!HostReadGame, R!HostSaveGame,
           R!SetQuestionTime, R!HostEmit
  <2>3. PICK d \in R!Calls : R!SubmitBegin(d) \/ R!SubmitStep(d)
    BY <2>1, <2>2
  <2>4. d = c
    BY <1>0, <2>1, <2>3 DEF R!SubmitBegin, R!SubmitStep, R!SubmitReadGame, R!SubmitCheck,
       R!SubmitReadTime, R!SubmitScore, R!SubmitReadAnswers, R!SubmitStore, R!SubmitCount,
       R!SubmitReread, R!SubmitClose
  <2>5. QED
    BY <2>3, <2>4 DEF R!At, R!SubmitBegin, R!SubmitStep, R!SubmitReadGame, R!SubmitCheck,
       R!SubmitReadTime, R!SubmitScore, R!SubmitReadAnswers, R!SubmitStore, R!SubmitReread,
       R!SubmitClose
<1>2. Cardinality(R!Appended(c)) = Cardinality(players)
  <2>1. CASE Cardinality(R!Appended(c)) # Cardinality(players)
    <3>1. submit'[c].pc = "accepted"
      BY <1>0, <1>1, <2>1, SameCardinality DEF R!SubmitCount, R!Submission
    <3>2. QED
      BY <3>1
  <2>2. QED
    BY <2>1
<1> DEFINE S == {d \in Round!Stored : d.q = c.q}
<1>3. R!Appended(c) \subseteq S
  BY <1>0, SameCalls DEF R!Appended, R!StoredOnly, R!Stored
<1>4. S \subseteq R!Calls
  BY SameCalls DEF R!Stored
<1>5. IsFiniteSet(S)
  BY <1>0, <1>4, FS_Subset
<1>6. Cardinality(R!Appended(c)) <= Cardinality(S)
  BY <1>3, <1>5, FS_Subset
<1>7. Cardinality(R!Appended(c)) \in Nat /\ Cardinality(S) \in Nat
  BY <1>3, <1>5, FS_Subset, FS_CardinalityType
<1>8. QED
  BY <1>2, <1>6, <1>7

\* A list holds stored answers only, whoever comes and goes.
LEMMA NextStored == LiveInv /\ R!StoredOnly /\ [LiveNext]_liveVars => R!StoredOnly'
<1> SUFFICES ASSUME LiveInv, R!StoredOnly, [LiveNext]_liveVars PROVE R!StoredOnly'
  OBVIOUS
<1>1. CASE LiveLobbyStep \/ UNCHANGED liveVars
  <2>1. UNCHANGED <<answers, submit>>
    BY <1>1 DEF LiveLobbyStep, liveVars, roundOnly
  <2>2. QED
    BY <2>1 DEF R!StoredOnly, R!Stored
<1>2. CASE \/ LiveHandlerStep
           \/ \E c \in Round!Calls : LiveSubmit(c)
           \/ \E h \in HostTasks : LiveHostCall(h) \/ LiveEmit(h)
  <2>1. R!RoundNext
    BY <1>2, RoundSteps
  <2>2. QED
    BY <2>1, RoundAssumptions, R!NextStoredOnly DEF LiveInv, R!ScoredInv, R!TypeInv
<1>3. QED
  BY <1>1, <1>2 DEF LiveNext

\* With any number of players who come and go, a handler goes on to announce
\* everyone_answered only if as many answers to the question have been stored
\* as there are players at that moment.
THEOREM EnoughAnswersAlways == LiveSpec => EnoughAnswersForEveryone
<1>1. LiveInit => R!StoredOnly
  <2> SUFFICES ASSUME LiveInit PROVE R!StoredOnly
    OBVIOUS
  <2>1. R!RoundInit
    BY AskedNothing DEF LiveInit
  <2>2. QED
    BY <2>1, RoundAssumptions, R!RoundInitStored
<1>2. LiveInv /\ R!StoredOnly /\ [LiveNext]_liveVars =>
         [\A c \in Round!Calls :
             submit[c].pc = "count" /\ submit'[c].pc = "reread" =>
                 Cardinality({d \in Round!Stored : d.q = c.q}) >= Cardinality(players)]_liveVars
  BY CountIsCovered
<1>3. QED
  BY <1>1, <1>2, LiveInvariant, NextStored, PTL DEF LiveSpec, EnoughAnswersForEveryone

==============================================================================
