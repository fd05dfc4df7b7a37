------------------------------ MODULE LobbyProofs ------------------------------
(***************************************************************************)
(* Theorems about Lobby, for any number of names and connections, however  *)
(* the handlers overlap.  Who is counted is proved of the names of which   *)
(* no two handlers were running at once (the other names are crossed).     *)
(***************************************************************************)
EXTENDS Lobby, TLAPS

JoinPcs   == {"name", "session", "key", "stack", "enter"}
RejoinPcs == {"re_sid", "re_key", "re_srem", "re_sadd", "re_session"}

(***************************************************************************)
(* Types                                                                   *)
(***************************************************************************)

\* Only a handler about a name has one, and it has what its steps use.
HandlersFormed ==
    /\ \A s \in Sids :
          /\ entering[s].pc \in JoinPcs \cup RejoinPcs <=> entering[s].username # None
          /\ entering[s].pc \in RejoinPcs => entering[s].old_sid \in Sids
          /\ entering[s].pc = "rm_save" => entering[s].loaded # None
          /\ echo[s].pc = "loaded" => echo[s].loaded # None
    /\ kicking.pc # "idle" => kicking.username \in Users

LobbyTypeInv == LobbyTypeOK /\ HandlersFormed

\* The records every actor starts with have their types.
LEMMA LobbyRecords ==
    /\ NewGame \in PlayGame /\ NotEntering \in Entering /\ NoEcho \in Echo /\ NotKicking \in Kicking
    /\ AdminSession \in Session /\ \A u \in Users : PlayerSession(u) \in Session
    /\ NotEntering.pc = "idle" /\ NotEntering.username = None
    /\ None \notin Users /\ None \notin Sids /\ None \notin Session
BY GameStoreAssumption, NoneIsNoSession
   DEF NewGame, PlayGame, NotEntering, Handler, Entering, EnterPc, NoEcho, Echo, NotKicking, Kicking,
       AdminSession, PlayerSession, Session

\* What the helpers of the handlers do to the variable they change.
LEMMA BeginShape ==
    ASSUME entering \in [Sids -> Entering], NEW s \in Sids, NEW e \in Entering, Begin(s, e)
    PROVE  /\ entering' \in [Sids -> Entering]
           /\ entering'[s] = e
           /\ \A t \in Sids : t # s => entering'[t] = entering[t]
BY DEF Begin

\* A handler that ends.
LEMMA LeaveShape ==
    ASSUME entering \in [Sids -> Entering], NEW s \in Sids, Leave(s)
    PROVE  /\ entering' \in [Sids -> Entering]
           /\ entering'[s].pc = "idle" /\ entering'[s].username = None
           /\ \A t \in Sids : t # s => entering'[t] = entering[t]
BY LobbyRecords, BeginShape DEF Leave

\* A handler that goes on to another command.
LEMMA GoToShape ==
    ASSUME entering \in [Sids -> Entering], NEW s \in Sids, NEW pc \in EnterPc, GoTo(s, pc)
    PROVE  /\ entering' \in [Sids -> Entering]
           /\ entering'[s].pc = pc
           /\ entering'[s].username = entering[s].username
           /\ entering'[s].old_sid = entering[s].old_sid
           /\ entering'[s].loaded = entering[s].loaded
           /\ entering'[s].started = entering[s].started
           /\ \A t \in Sids : t # s => entering'[t] = entering[t]
<1>1. entering[s] \in Entering
  OBVIOUS
<1>2. [entering[s] EXCEPT !.pc = pc] =
          [pc |-> pc, username |-> entering[s].username, old_sid |-> entering[s].old_sid,
           loaded |-> entering[s].loaded, started |-> entering[s].started]
  BY <1>1 DEF Entering
<1>3. entering'[s] = [entering[s] EXCEPT !.pc = pc] /\ \A t \in Sids : t # s => entering'[t] = entering[t]
  BY DEF GoTo
<1>4. [entering[s] EXCEPT !.pc = pc] \in Entering
  BY <1>1, <1>2 DEF Entering
<1>5. entering' \in [Sids -> Entering]
  BY <1>4 DEF GoTo
<1>6. QED
  BY <1>2, <1>3, <1>5

\* A session that is saved, unless its connection is lost.
LEMMA SaveShape ==
    ASSUME session \in [Sids -> Session \cup {None}], NEW s \in Sids, NEW data \in Session,
           SaveSession(s, data)
    PROVE  /\ session' \in [Sids -> Session \cup {None}]
           /\ session'[s] = IF s \in open THEN data ELSE session[s]
           /\ \A t \in Sids : t # s => session'[t] = session[t]
BY DEF SaveSession

\* An echo of the time that is asked for.
LEMMA SyncShape ==
    ASSUME echo \in [Sids -> Echo], NEW s \in Sids, TimeSync(s)
    PROVE  /\ echo' \in [Sids -> Echo]
           /\ s \in open => echo'[s].pc = "sent"
           /\ s \notin open => echo'[s] = echo[s]
           /\ \A t \in Sids : t # s => echo'[t] = echo[t]
<1>1. [NoEcho EXCEPT !.pc = "sent"] = [pc |-> "sent", loaded |-> None]
  BY DEF NoEcho
<1>2. [pc |-> "sent", loaded |-> None] \in Echo
  BY DEF Echo
<1> DEFINE sent == [NoEcho EXCEPT !.pc = "sent"]
<1>3. sent \in Echo /\ sent.pc = "sent"
  BY <1>1, <1>2
<1>4. echo' = IF s \in open THEN [echo EXCEPT ![s] = sent] ELSE echo
  BY DEF TimeSync
<1> HIDE DEF sent
<1>5. QED
  BY <1>3, <1>4

\* The records that they are given.
LEMMA ChangedSession ==
    ASSUME NEW c \in Session, NEW b \in BOOLEAN
    PROVE  /\ [c EXCEPT !.admin = b] = [username |-> c.username, admin |-> b, ping |-> c.ping]
           /\ [c EXCEPT !.ping = b] = [username |-> c.username, admin |-> c.admin, ping |-> b]
BY DEF Session

\* The handlers as they begin: join_game,
LEMMA JoiningShape ==
    ASSUME NEW u \in Users
    PROVE  /\ Joining(u) \in Entering
           /\ Joining(u).pc = "name" /\ Joining(u).username = u
BY DEF Joining, Handler, Entering, EnterPc

\* rejoin_game,
LEMMA RejoiningShape ==
    ASSUME NEW k \in GamePlayer, game \in PlayGame
    PROVE  /\ Rejoining(k) \in Entering
           /\ Rejoining(k).pc = "re_sid" /\ Rejoining(k).username = k.username
           /\ Rejoining(k).old_sid = k.sid /\ Rejoining(k).started = game.started
BY DEF Rejoining, Handler, Entering, EnterPc, GamePlayer, PlayGame

\* and register_as_remote.
LEMMA TakingOverShape ==
    ASSUME NEW c \in Session
    PROVE  /\ TakingOver(c) \in Entering
           /\ TakingOver(c).pc = "rm_save" /\ TakingOver(c).username = None
           /\ TakingOver(c).loaded = c
BY DEF TakingOver, Handler, Entering, EnterPc

\* The copies of a session that are saved.
LEMMA CopyShape ==
    ASSUME NEW c \in Session
    PROVE  /\ AsHost(c) \in Session
           /\ AsHost(c).username = c.username /\ AsHost(c).admin /\ AsHost(c).ping = c.ping
           /\ Pinged(c) \in Session
           /\ Pinged(c).username = c.username /\ Pinged(c).admin = c.admin /\ Pinged(c).ping
<1>0. c.username \in Users \cup {None} /\ c.admin \in BOOLEAN /\ c.ping \in BOOLEAN
  BY DEF Session
<1>1. AsHost(c) = [username |-> c.username, admin |-> TRUE, ping |-> c.ping]
  BY ChangedSession DEF AsHost
<1>2. Pinged(c) = [username |-> c.username, admin |-> c.admin, ping |-> TRUE]
  BY ChangedSession DEF Pinged
<1>3. AsHost(c) \in Session
  BY <1>0, <1>1 DEF Session
<1>4. Pinged(c) \in Session
  BY <1>0, <1>2 DEF Session
<1>5. QED
  BY <1>1, <1>2, <1>3, <1>4

\* The types hold in an empty lobby.
LEMMA InitLobbyTypeInv == LobbyInit => LobbyTypeInv
<1> SUFFICES ASSUME LobbyInit PROVE LobbyTypeInv
  OBVIOUS
<1> USE LobbyRecords DEF LobbyInit, LobbyOnlyInit
<1>1. LobbyTypeOK
  BY DEF LobbyTypeOK
<1>2. HandlersFormed
  BY DEF HandlersFormed, NotEntering, Handler, NoEcho, NotKicking, JoinPcs, RejoinPcs
<1>3. QED
  BY <1>1, <1>2 DEF LobbyTypeInv

\* A step of a handler of join_game, rejoin_game or register leaves the other
\* connections' handlers alone.
LEMMA EnterKeepsTypes ==
    ASSUME LobbyTypeInv, NEW s \in Sids, EnterStep(s)
    PROVE  LobbyTypeInv'
<1> USE LobbyRecords
        DEF LobbyTypeInv, LobbyTypeOK, HandlersFormed, Stage, JoinPcs, RejoinPcs
<1>0. entering[s] \in Entering
  OBVIOUS
<1>1. CASE JoinName(s)
  <2>1. LobbyTypeOK'
    BY <1>1, <1>0, GoToShape, LeaveShape DEF JoinName, Entering, EnterPc
  <2>2. HandlersFormed'
    BY <1>1, <1>0, GoToShape, LeaveShape DEF JoinName, Entering, EnterPc
  <2>3. QED
    BY <2>1, <2>2
<1>2. CASE JoinSession(s)
  <2>1. LobbyTypeOK'
    BY <1>2, <1>0, GoToShape, LeaveShape, SaveShape DEF JoinSession, Entering, EnterPc, GamePlayer
  <2>2. HandlersFormed'
    <3>1. CASE s \in open
      BY <1>2, <1>0, <3>1, GoToShape DEF JoinSession, Entering, EnterPc
    <3>2. CASE s \notin open
      BY <1>2, <1>0, <3>2, LeaveShape DEF JoinSession, Entering, EnterPc
    <3>3. QED
      BY <3>1, <3>2
  <2>3. QED
    BY <2>1, <2>2
<1>3. CASE JoinKey(s)
  <2>1. LobbyTypeOK'
    BY <1>3, <1>0, GoToShape DEF JoinKey, Entering, EnterPc
  <2>2. HandlersFormed'
    BY <1>3, <1>0, GoToShape DEF JoinKey, Entering, EnterPc
  <2>3. QED
    BY <2>1, <2>2
<1>4. CASE JoinStack(s)
  <2>1. LobbyTypeOK'
    BY <1>4, <1>0, GoToShape DEF JoinStack, Entering, EnterPc, GamePlayer
  <2>2. HandlersFormed'
    BY <1>4, <1>0, GoToShape DEF JoinStack, Entering, EnterPc
  <2>3. QED
    BY <2>1, <2>2
<1>5. CASE JoinEnter(s)
  <2>1. LobbyTypeOK'
    BY <1>5, <1>0, LeaveShape, SyncShape DEF JoinEnter, Entering, EnterPc, EnterRoom
  <2>2. HandlersFormed'
    BY <1>5, <1>0, LeaveShape, SyncShape DEF JoinEnter, Entering, EnterPc, EnterRoom
  <2>3. QED
    BY <2>1, <2>2
<1>6. CASE RejoinCheck(s)
  <2>1. LobbyTypeOK'
    BY <1>6, <1>0, GoToShape, LeaveShape, SyncShape DEF RejoinCheck, Entering, EnterPc
  <2>2. HandlersFormed'
    BY <1>6, <1>0, GoToShape, LeaveShape, SyncShape DEF RejoinCheck, Entering, EnterPc
  <2>3. QED
    BY <2>1, <2>2
<1>7. CASE RejoinKey(s)
  <2>1. LobbyTypeOK'
    BY <1>7, <1>0, GoToShape DEF RejoinKey, Entering, EnterPc
  <2>2. HandlersFormed'
    BY <1>7, <1>0, GoToShape, <2>1 DEF RejoinKey, Entering, EnterPc
  <2>3. QED
    BY <2>1, <2>2
<1>8. CASE RejoinRemove(s)
  <2>1. LobbyTypeOK'
    BY <1>8, <1>0, GoToShape DEF RejoinRemove, Entering, EnterPc
  <2>2. HandlersFormed'
    <3>1. GoTo(s, "re_sadd") /\ UNCHANGED <<echo, kicking>> /\ entering[s].pc = "re_srem"
      BY <1>8 DEF RejoinRemove
    <3>2. /\ entering'[s].pc = "re_sadd" /\ entering'[s].username = entering[s].username
          /\ entering'[s].old_sid = entering[s].old_sid
          /\ \A t \in Sids : t # s => entering'[t] = entering[t]
      BY <3>1, GoToShape DEF EnterPc
    <3>3. QED
      BY <3>1, <3>2
  <2>3. QED
    BY <2>1, <2>2
<1>9. CASE RejoinAdd(s)
  <2>1. LobbyTypeOK'
    BY <1>9, <1>0, GoToShape DEF RejoinAdd, Entering, EnterPc, GamePlayer
  <2>2. HandlersFormed'
    BY <1>9, <1>0, GoToShape DEF RejoinAdd, Entering, EnterPc
  <2>3. QED
    BY <2>1, <2>2
<1>10. CASE RejoinSession(s)
  <2>1. LobbyTypeOK'
    BY <1>10, <1>0, LeaveShape, SaveShape DEF RejoinSession, Entering, EnterPc, EnterRoom
  <2>2. HandlersFormed'
    BY <1>10, <1>0, LeaveShape, SaveShape DEF RejoinSession, Entering, EnterPc, EnterRoom
  <2>3. QED
    BY <2>1, <2>2
<1>11. CASE RegisterSave(s)
  <2>1. LobbyTypeOK'
    BY <1>11, <1>0, GoToShape DEF RegisterSave, Entering, EnterPc
  <2>2. HandlersFormed'
    BY <1>11, <1>0, GoToShape DEF RegisterSave, Entering, EnterPc
  <2>3. QED
    BY <2>1, <2>2
<1>12. CASE RegisterSession(s)
  <2>1. LobbyTypeOK'
    BY <1>12, <1>0, LeaveShape, SaveShape DEF RegisterSession, Entering, EnterPc, EnterRoom
  <2>2. HandlersFormed'
    BY <1>12, <1>0, LeaveShape, SaveShape DEF RegisterSession, Entering, EnterPc, EnterRoom
  <2>3. QED
    BY <2>1, <2>2
<1>13. CASE RemoteSave(s)
  <2>1. LobbyTypeOK'
    BY <1>13, <1>0, LeaveShape, SaveShape, CopyShape DEF RemoteSave, Entering, EnterPc, EnterRoom
  <2>2. HandlersFormed'
    BY <1>13, <1>0, LeaveShape, SaveShape, CopyShape DEF RemoteSave, Entering, EnterPc, EnterRoom
  <2>3. QED
    BY <2>1, <2>2
<1>14. QED
  BY <1>1, <1>2, <1>3, <1>4, <1>5, <1>6, <1>7, <1>8, <1>9, <1>10, <1>11, <1>12, <1>13
     DEF EnterStep

\* They are kept by every step of the lobby,
LEMMA LobbyKeepsTypes ==
    ASSUME LobbyTypeInv, LobbyNext
    PROVE  LobbyTypeInv'
<1> USE LobbyRecords
        DEF LobbyTypeInv, LobbyTypeOK, HandlersFormed, Stage, JoinPcs, RejoinPcs, MayEnter
<1>1. ASSUME NEW s \in Sids, NEW u \in Users, JoinBegin(s, u) PROVE LobbyTypeInv'
  BY <1>1, JoiningShape, BeginShape DEF JoinBegin, Cross
<1>2. ASSUME NEW s \in Sids, RejoinBegin(s) PROVE LobbyTypeInv'
  <2>1. PICK k \in cookies : Begin(s, Rejoining(k)) /\ Cross(k.username)
    BY <1>2 DEF RejoinBegin
  <2>2. k \in GamePlayer /\ k.username \in Users /\ k.sid \in Sids
    BY DEF GamePlayer
  <2>3. QED
    BY <1>2, <2>1, <2>2, RejoiningShape, BeginShape DEF RejoinBegin, Cross
<1>3. ASSUME NEW s \in Sids, RegisterBegin(s) PROVE LobbyTypeInv'
  BY <1>3, GoToShape DEF RegisterBegin, Entering, EnterPc
<1>4. ASSUME NEW s \in Sids, RemoteBegin(s) PROVE LobbyTypeInv'
  <2>1. CASE session[s] = None
    BY <1>4, <2>1 DEF RemoteBegin
  <2>2. CASE session[s] # None
    BY <1>4, <2>2, TakingOverShape, BeginShape DEF RemoteBegin
  <2>3. QED
    BY <2>1, <2>2
<1>5. ASSUME NEW s \in Sids, EnterStep(s) PROVE LobbyTypeInv'
  BY <1>5, EnterKeepsTypes
<1>6. ASSUME NEW s \in Sids, EchoLoad(s) PROVE LobbyTypeInv'
  BY <1>6 DEF EchoLoad, Echo, NoEcho
<1>7. ASSUME NEW s \in Sids, EchoSave(s) PROVE LobbyTypeInv'
  <2>1. echo[s].loaded \in Session
    BY <1>7 DEF EchoSave, Echo
  <2>2. QED
    BY <1>7, <2>1, CopyShape, SaveShape DEF EchoSave, NoEcho
<1>8. ASSUME NEW s \in Sids, Disconnect(s) PROVE LobbyTypeInv'
  BY <1>8 DEF Disconnect
<1>9. ASSUME NEW u \in Users, KickBegin(u) PROVE LobbyTypeInv'
  BY <1>9 DEF KickBegin, Kicking, Cross
<1>10. CASE KickRemove
  BY <1>10 DEF KickRemove, Kicking
<1>11. CASE KickLeave
  BY <1>11 DEF KickLeave, Kicking, NotKicking
<1>12. QED
  BY <1>1, <1>2, <1>3, <1>4, <1>5, <1>6, <1>7, <1>8, <1>9, <1>10, <1>11 DEF LobbyNext

\* and by the start of the game.
LEMMA NextLobbyTypeInv == LobbyTypeInv /\ [LobbyNext \/ GameStarts]_lobbyVars => LobbyTypeInv'
<1> SUFFICES ASSUME LobbyTypeInv, [LobbyNext \/ GameStarts]_lobbyVars PROVE LobbyTypeInv'
  OBVIOUS
<1>1. CASE UNCHANGED lobbyVars
  BY <1>1 DEF lobbyVars, lobbyOnly, LobbyTypeInv, LobbyTypeOK, HandlersFormed
<1>2. CASE GameStarts
  BY <1>2 DEF GameStarts, StartIsHeard, LobbyTypeInv, LobbyTypeOK, HandlersFormed, PlayGame
<1>3. QED
  BY <1>1, <1>2, LobbyKeepsTypes

\* Every variable keeps its type, and a handler that works for a name has one.
THEOREM LobbyTypeInvariant == LobbySpec => []LobbyTypeInv
BY InitLobbyTypeInv, NextLobbyTypeInv, PTL DEF LobbySpec

\* Every variable of the lobby keeps its type: in particular each entry of the
\* players set has a name and a connection.
THEOREM LobbyTypeCorrect == LobbySpec => []LobbyTypeOK
<1>1. LobbyTypeInv => LobbyTypeOK
  BY DEF LobbyTypeInv
<1>2. QED
  BY <1>1, LobbyTypeInvariant, PTL

(***************************************************************************)
(* Sessions                                                                *)
(***************************************************************************)

\* A copy of a connection's session: its name and its rights are those saved.
IsCopy(s, copy) ==
    /\ session[s] # None
    /\ copy.username = session[s].username
    /\ copy.admin = session[s].admin

\* A connection is given its session once, by the handler that lets it in, and
\* is in the room only after that.  The handlers that load a session and save
\* it back hold a copy of it.
SessionKept(s) ==
    /\ entering[s].pc \in {"name", "session", "ad_save", "ad_session"} \cup RejoinPcs =>
          session[s] = None
    /\ entering[s].pc \in {"key", "stack", "enter"} => session[s] # None /\ ~session[s].admin
    /\ entering[s].pc = "rm_save" =>
          IsCopy(s, entering[s].loaded) /\ session[s].admin
    /\ echo[s].pc = "loaded" => IsCopy(s, echo[s].loaded)
    /\ s \in inRoom =>
          session[s] # None /\ s \in open /\ entering[s].pc \in {"idle", "rm_save"}

\* The cookies are those of connections that were given a player's session.
CookiesKept == \A k \in cookies : session[k.sid] # None /\ ~session[k.sid].admin

SessionInv ==
    /\ LobbyTypeInv
    /\ \A s \in Sids : SessionKept(s)
    /\ CookiesKept
    /\ JoinedPagesAreTimed

\* What no step does to a session.
SessionsStay ==
    \A s \in Sids : session[s] # None =>
        /\ session'[s] # None
        /\ session'[s].username = session[s].username
        /\ session'[s].admin = session[s].admin

\* There is no session in an empty lobby.
LEMMA InitSessionInv == LobbyInit => SessionInv
<1> SUFFICES ASSUME LobbyInit PROVE SessionInv
  OBVIOUS
<1>1. LobbyTypeInv
  BY InitLobbyTypeInv
<1>2. \A s \in Sids : SessionKept(s)
  BY LobbyRecords DEF LobbyInit, LobbyOnlyInit, SessionKept, RejoinPcs, NoEcho
<1>3. CookiesKept /\ JoinedPagesAreTimed
  BY DEF LobbyInit, LobbyOnlyInit, CookiesKept, JoinedPagesAreTimed
<1>4. QED
  BY <1>1, <1>2, <1>3 DEF SessionInv

\* A step of the handler that lets s in.
LEMMA EnterKeepsSessions ==
    ASSUME SessionInv, NEW s \in Sids, EnterStep(s)
    PROVE  (\A t \in Sids : SessionKept(t)') /\ SessionsStay
<1> USE LobbyRecords DEF Stage, RejoinPcs, JoinPcs, SessionKept, IsCopy, SessionsStay
<1>0. LobbyTypeOK /\ HandlersFormed /\ entering[s] \in Entering
         /\ \A t \in Sids : SessionKept(t)
  BY DEF SessionInv, LobbyTypeInv, LobbyTypeOK
<1>. USE <1>0 DEF LobbyTypeOK
<1>1. CASE JoinName(s)
  BY <1>1, GoToShape, LeaveShape DEF JoinName, Entering, EnterPc
<1>2. CASE JoinSession(s)
  BY <1>2, GoToShape, LeaveShape, SaveShape
     DEF JoinSession, Entering, EnterPc, HandlersFormed, PlayerSession
<1>3. CASE JoinKey(s)
  BY <1>3, GoToShape DEF JoinKey, Entering, EnterPc
<1>4. CASE JoinStack(s)
  BY <1>4, GoToShape DEF JoinStack, Entering, EnterPc
<1>5. CASE JoinEnter(s)
  BY <1>5, LeaveShape, SyncShape DEF JoinEnter, Entering, EnterPc, EnterRoom
<1>6. CASE RejoinCheck(s)
  BY <1>6, GoToShape, LeaveShape, SyncShape DEF RejoinCheck, Entering, EnterPc
<1>7. CASE RejoinKey(s)
  BY <1>7, GoToShape DEF RejoinKey, Entering, EnterPc
<1>8. CASE RejoinRemove(s)
  BY <1>8, GoToShape DEF RejoinRemove, Entering, EnterPc
<1>9. CASE RejoinAdd(s)
  BY <1>9, GoToShape DEF RejoinAdd, Entering, EnterPc
<1>10. CASE RejoinSession(s)
  BY <1>10, LeaveShape, SaveShape
     DEF RejoinSession, Entering, EnterPc, EnterRoom, HandlersFormed, PlayerSession
<1>11. CASE RegisterSave(s)
  BY <1>11, GoToShape DEF RegisterSave, Entering, EnterPc
<1>12. CASE RegisterSession(s)
  BY <1>12, LeaveShape, SaveShape DEF RegisterSession, Entering, EnterPc, EnterRoom
<1>13. CASE RemoteSave(s)
  <2> DEFINE copy == AsHost(entering[s].loaded)
  <2>1. entering[s].loaded \in Session /\ session[s].admin /\ IsCopy(s, entering[s].loaded)
    BY <1>13 DEF RemoteSave, Entering, HandlersFormed
  <2>2. copy \in Session /\ copy.username = session[s].username /\ copy.admin = session[s].admin
    <3>1. copy \in Session /\ copy.username = entering[s].loaded.username /\ copy.admin
      BY <2>1, CopyShape
    <3>2. copy.admin \in BOOLEAN /\ session[s].admin \in BOOLEAN
      BY <2>1, <3>1 DEF Session
    <3>3. QED
      BY <2>1, <3>1, <3>2
  <2>3. SaveSession(s, copy) /\ EnterRoom(s) /\ Leave(s) /\ UNCHANGED <<open, echo>>
    BY <1>13 DEF RemoteSave
  <2> HIDE DEF copy
  <2>4. /\ session'[s] = IF s \in open THEN copy ELSE session[s]
        /\ \A t \in Sids : t # s => session'[t] = session[t] /\ entering'[t] = entering[t]
        /\ entering'[s].pc = "idle"
        /\ inRoom' = inRoom \cup ({s} \cap open)
    BY <2>2, <2>3, LeaveShape, SaveShape DEF EnterRoom
  <2>5. SessionsStay
    <3>1. session'[s] = copy \/ session'[s] = session[s]
      BY <2>4
    <3>2. copy # None /\ copy.username = session[s].username /\ copy.admin = session[s].admin
      BY <2>2
    <3>3. \A t \in Sids : t # s => session'[t] = session[t]
      BY <2>4
    <3>4. QED
      BY <3>1, <3>2, <3>3
  <2>6. SessionKept(s)'
    <3>1. echo[s].pc = "loaded" => IsCopy(s, echo[s].loaded)
      BY DEF SessionKept
    <3>2. session'[s] # None /\ session'[s].username = session[s].username
             /\ session'[s].admin = session[s].admin
      BY <2>1, <2>2, <2>4
    <3>3. (echo[s].pc = "loaded" => IsCopy(s, echo[s].loaded))'
      BY <2>3, <3>1, <3>2
    <3>4. (s \in inRoom => s \in open)'
      BY <2>3, <2>4
    <3>5. QED
      BY <2>4, <3>2, <3>3, <3>4
  <2>7. ASSUME NEW t \in Sids, t # s PROVE SessionKept(t)'
    BY <2>3, <2>4, <2>7
  <2>8. QED
    BY <2>5, <2>6, <2>7
<1>14. QED
  BY <1>1, <1>2, <1>3, <1>4, <1>5, <1>6, <1>7, <1>8, <1>9, <1>10, <1>11, <1>12, <1>13
     DEF EnterStep

\* A step of the lobby, of whatever handler.
LEMMA LobbyKeepsSessions ==
    ASSUME SessionInv, LobbyNext
    PROVE  (\A t \in Sids : SessionKept(t)') /\ SessionsStay
<1> USE LobbyRecords DEF Stage, RejoinPcs, JoinPcs, SessionKept, IsCopy, SessionsStay, MayEnter
<1>0. LobbyTypeOK /\ HandlersFormed /\ \A t \in Sids : SessionKept(t)
  BY DEF SessionInv, LobbyTypeInv
<1> USE <1>0 DEF LobbyTypeOK
<1> DEFINE Kept == (\A t \in Sids : SessionKept(t)') /\ SessionsStay
<1>1. ASSUME NEW s \in Sids, NEW u \in Users, JoinBegin(s, u) PROVE Kept
  BY <1>1, JoiningShape, BeginShape DEF JoinBegin
<1>2. ASSUME NEW s \in Sids, RejoinBegin(s) PROVE Kept
  <2>1. PICK k \in cookies : Begin(s, Rejoining(k))
    BY <1>2 DEF RejoinBegin
  <2>2. k \in GamePlayer
    OBVIOUS
  <2>3. QED
    BY <1>2, <2>1, <2>2, RejoiningShape, BeginShape DEF RejoinBegin
<1>3. ASSUME NEW s \in Sids, RegisterBegin(s) PROVE Kept
  BY <1>3, GoToShape DEF RegisterBegin, EnterPc
<1>4. ASSUME NEW s \in Sids, RemoteBegin(s) PROVE Kept
  <2>1. CASE session[s] = None
    BY <1>4, <2>1 DEF RemoteBegin
  <2>2. CASE session[s] # None
    BY <1>4, <2>2, TakingOverShape, BeginShape DEF RemoteBegin
  <2>3. QED
    BY <2>1, <2>2
<1>5. ASSUME NEW s \in Sids, EnterStep(s) PROVE Kept
  BY <1>5, EnterKeepsSessions
<1>6. ASSUME NEW s \in Sids, EchoLoad(s) PROVE Kept
  BY <1>6 DEF EchoLoad, NoEcho
<1>7. ASSUME NEW s \in Sids, EchoSave(s) PROVE Kept
  <2>1. echo[s].loaded \in Session /\ IsCopy(s, echo[s].loaded)
    BY <1>7 DEF EchoSave, Echo, HandlersFormed
  <2>2. QED
    BY <1>7, <2>1, CopyShape, SaveShape DEF EchoSave, NoEcho
<1>8. ASSUME NEW s \in Sids, Disconnect(s) PROVE Kept
  BY <1>8 DEF Disconnect
<1>9. ASSUME NEW u \in Users, KickBegin(u) PROVE Kept
  BY <1>9 DEF KickBegin
<1>10. CASE KickRemove
  BY <1>10 DEF KickRemove
<1>11. CASE KickLeave
  BY <1>11 DEF KickLeave
<1>12. QED
  BY <1>1, <1>2, <1>3, <1>4, <1>5, <1>6, <1>7, <1>8, <1>9, <1>10, <1>11 DEF LobbyNext

\* A cookie is that of a connection that was given a player's session.
LEMMA LobbyKeepsCookies ==
    ASSUME SessionInv, LobbyNext
    PROVE  CookiesKept'
<1> USE LobbyRecords DEF Stage, CookiesKept
<1>1. LobbyTypeOK /\ HandlersFormed /\ CookiesKept /\ LobbyTypeOK'
  BY LobbyKeepsTypes DEF SessionInv, LobbyTypeInv
<1>2. SessionsStay
  BY LobbyKeepsSessions
<1>3. CASE cookies' = cookies
  BY <1>1, <1>2, <1>3 DEF LobbyTypeOK, SessionsStay, GamePlayer
<1>4. ASSUME NEW s \in Sids, JoinSession(s), s \in open PROVE CookiesKept'
  <2>1. entering[s].username \in Users
    BY <1>1, <1>4 DEF JoinSession, LobbyTypeOK, Entering, HandlersFormed, JoinPcs
  <2>2. session'[s] # None /\ ~session'[s].admin
    BY <1>1, <1>4, <2>1, SaveShape DEF JoinSession, LobbyTypeOK, PlayerSession
  <2>3. cookies' = cookies \cup {[username |-> entering[s].username, sid |-> s]}
    BY <1>4 DEF JoinSession
  <2>4. ASSUME NEW k \in cookies PROVE session'[k.sid] # None /\ ~session'[k.sid].admin
    BY <1>1, <1>2, <2>4 DEF LobbyTypeOK, SessionsStay, GamePlayer
  <2>5. QED
    BY <2>2, <2>3, <2>4
<1>5. cookies' = cookies \/ \E s \in Sids : JoinSession(s) /\ s \in open
  BY DEF LobbyNext, EnterStep, JoinBegin, JoinName, JoinSession, JoinKey, JoinStack, JoinEnter,
         RejoinBegin, RejoinCheck, RejoinKey, RejoinRemove, RejoinAdd, RejoinSession,
         RegisterBegin, RegisterSave, RegisterSession, RemoteBegin, RemoteSave,
         EchoLoad, EchoSave, KickBegin, KickRemove, KickLeave, Disconnect
<1>6. QED
  BY <1>3, <1>4, <1>5

\* Whoever is put into the room with a cookie has been sent a time_sync.
LEMMA LobbyKeepsTimes ==
    ASSUME SessionInv, LobbyNext
    PROVE  JoinedPagesAreTimed'
<1> USE LobbyRecords DEF Stage
<1>1. /\ LobbyTypeOK /\ HandlersFormed /\ CookiesKept /\ JoinedPagesAreTimed
      /\ \A s \in Sids : SessionKept(s)
  BY DEF SessionInv, LobbyTypeInv
<1>2. \A k \in cookies : k.sid \in Sids
  BY <1>1 DEF LobbyTypeOK, GamePlayer
<1> USE <1>1, <1>2 DEF LobbyTypeOK, JoinedPagesAreTimed
<1>3. ASSUME NEW s \in Sids, JoinSession(s) PROVE JoinedPagesAreTimed'
  <2>1. s \notin inRoom
    BY <1>3 DEF JoinSession, SessionKept
  <2>2. PlayerSession(entering[s].username) \in Session
    BY <1>3 DEF JoinSession, Entering, HandlersFormed, JoinPcs
  <2>3. \A k \in cookies' : k \in cookies \/ k.sid = s
    BY <1>3 DEF JoinSession
  <2>4. \A t \in Sids : t # s => session'[t] = session[t]
    BY <1>3, <2>2, SaveShape DEF JoinSession
  <2>5. QED
    BY <1>3, <2>1, <2>3, <2>4 DEF JoinSession
<1>4. ASSUME NEW s \in Sids, JoinEnter(s) PROVE JoinedPagesAreTimed'
  BY <1>4, SyncShape DEF JoinEnter, EnterRoom
<1>5. ASSUME NEW s \in Sids, RejoinCheck(s) PROVE JoinedPagesAreTimed'
  BY <1>5, SyncShape DEF RejoinCheck
<1>6. ASSUME NEW s \in Sids, RejoinSession(s) \/ RegisterSession(s) \/ RemoteSave(s)
      PROVE  JoinedPagesAreTimed'
  <2>1. \A k \in cookies : k.sid # s
    BY <1>6 DEF RejoinSession, RegisterSession, RemoteSave, SessionKept, RejoinPcs, CookiesKept
  <2>2. \A t \in Sids : t # s => session'[t] = session[t]
    BY <1>6 DEF RejoinSession, RegisterSession, RemoteSave, SaveSession
  <2>3. UNCHANGED <<cookies, echo>> /\ inRoom' \subseteq inRoom \cup {s}
    BY <1>6 DEF RejoinSession, RegisterSession, RemoteSave, EnterRoom
  <2>4. QED
    BY <2>1, <2>2, <2>3
<1>7. ASSUME NEW s \in Sids, EchoLoad(s) PROVE JoinedPagesAreTimed'
  BY <1>7 DEF EchoLoad, SessionKept, NoEcho
<1>8. ASSUME NEW s \in Sids, EchoSave(s) PROVE JoinedPagesAreTimed'
  <2>1. echo[s].loaded \in Session
    BY <1>8 DEF EchoSave, Echo, HandlersFormed
  <2>2. s \in open => session'[s].ping
    BY <1>8, <2>1, CopyShape, SaveShape DEF EchoSave
  <2>3. \A t \in Sids : t # s => session'[t] = session[t] /\ echo'[t] = echo[t]
    BY <1>8, <2>1, CopyShape, SaveShape DEF EchoSave
  <2>4. s \in inRoom => s \in open
    BY DEF SessionKept
  <2>5. QED
    BY <1>8, <2>2, <2>3, <2>4 DEF EchoSave
<1>9. CASE UNCHANGED <<session, cookies, echo>> /\ inRoom' \subseteq inRoom
  BY <1>9
<1>10. \/ UNCHANGED <<session, cookies, echo>> /\ inRoom' \subseteq inRoom
       \/ \E s \in Sids :
             \/ JoinSession(s) \/ JoinEnter(s) \/ RejoinCheck(s)
             \/ RejoinSession(s) \/ RegisterSession(s) \/ RemoteSave(s)
             \/ EchoLoad(s) \/ EchoSave(s)
  BY DEF LobbyNext, EnterStep, JoinBegin, JoinName, JoinKey, JoinStack,
         RejoinBegin, RejoinKey, RejoinRemove, RejoinAdd, RegisterBegin, RegisterSave, RemoteBegin,
         KickBegin, KickRemove, KickLeave, Disconnect
<1>11. QED
  BY <1>3, <1>4, <1>5, <1>6, <1>7, <1>8, <1>9, <1>10

\* Every step of the lobby keeps the sessions,
LEMMA LobbyKeepsSessionInv ==
    ASSUME SessionInv, LobbyNext
    PROVE  SessionInv' /\ SessionsStay
<1>1. LobbyTypeInv'
  BY LobbyKeepsTypes DEF SessionInv
<1>2. (\A t \in Sids : SessionKept(t)') /\ SessionsStay
  BY LobbyKeepsSessions
<1>3. CookiesKept' /\ JoinedPagesAreTimed'
  BY LobbyKeepsCookies, LobbyKeepsTimes
<1>4. QED
  BY <1>1, <1>2, <1>3 DEF SessionInv

\* and so does the start of the game.
LEMMA NextSessionInv ==
    SessionInv /\ [LobbyNext \/ GameStarts]_lobbyVars => SessionInv' /\ SessionsStay
<1> SUFFICES ASSUME SessionInv, [LobbyNext \/ GameStarts]_lobbyVars
             PROVE  SessionInv' /\ SessionsStay
  OBVIOUS
<1>1. LobbyTypeInv'
  BY NextLobbyTypeInv DEF SessionInv
<1>2. CASE UNCHANGED <<players, session, inRoom, open, cookies, entering, echo>>
  BY <1>1, <1>2 DEF SessionInv, SessionsStay, SessionKept, IsCopy, CookiesKept, JoinedPagesAreTimed
<1>3. CASE GameStarts
  BY <1>2, <1>3 DEF GameStarts, StartIsHeard
<1>4. CASE UNCHANGED lobbyVars
  BY <1>2, <1>4 DEF lobbyVars, lobbyOnly
<1>5. QED
  BY <1>3, <1>4, LobbyKeepsSessionInv

\* A handler that will save a session saves what the connection is already: a player
\* stays that player, and a host does not become one.
THEOREM SessionInvariant == LobbySpec => []SessionInv
BY InitSessionInv, NextSessionInv, PTL DEF LobbySpec

\* However the handlers overlap, the page of every connection that joined has
\* its time_sync recorded once the echo is through.
THEOREM JoinedPagesAreAlwaysTimed == LobbySpec => []JoinedPagesAreTimed
<1>1. SessionInv => JoinedPagesAreTimed
  BY DEF SessionInv
<1>2. QED
  BY <1>1, SessionInvariant, PTL

\* However the handlers overlap, no save of a session loaded earlier changes
\* the name that a connection has.
THEOREM PlayersAlwaysKeepTheirNames == LobbySpec => PlayersKeepTheirNames
<1>1. SessionInv /\ [LobbyNext \/ GameStarts]_lobbyVars =>
          [\A s \in Sids :
              session[s] # None /\ session[s].username # None =>
                  session'[s] # None /\ session'[s].username = session[s].username]_lobbyVars
  BY NextSessionInv DEF SessionsStay
<1>2. QED
  BY <1>1, SessionInvariant, PTL DEF LobbySpec, PlayersKeepTheirNames

(***************************************************************************)
(* The start of the game                                                   *)
(***************************************************************************)

HostsAreNameless ==
    \A s \in Sids : session[s] # None /\ session[s].admin => session[s].username = None

\* Once the event of the start has been sent: a handler that lets a player in
\* was running then or, rejoining, has read that the game had started, and
\* every player's page in the room was there for the event or has been told.
Informed ==
    /\ \A s \in Sids : entering[s].pc \in JoinPcs => s \in raced
    /\ \A s \in Sids : entering[s].pc \in RejoinPcs => s \in raced \/ entering[s].started
    /\ \A s \in inRoom \ raced : session[s].username # None => s \in onStage

StartedInv == SessionInv /\ HostsAreNameless /\ (game.started => Informed)

\* A host's session carries no name.
LEMMA LobbyKeepsNameless ==
    ASSUME SessionInv, HostsAreNameless, LobbyNext
    PROVE  HostsAreNameless'
<1> SUFFICES ASSUME NEW s \in Sids, session'[s] # None, session'[s].admin
             PROVE  session'[s].username = None
  BY DEF HostsAreNameless
<1> USE LobbyRecords DEF Stage
<1>1. LobbyTypeOK /\ HandlersFormed /\ SessionsStay
  BY LobbyKeepsSessionInv DEF SessionInv, LobbyTypeInv
<1>2. CASE session[s] # None
  BY <1>1, <1>2 DEF SessionsStay, HostsAreNameless
<1>3. CASE session[s] = None
  <2>1. JoinSession(s) \/ RejoinSession(s) \/ RegisterSession(s) \/ RemoteSave(s) \/ EchoSave(s)
    BY <1>1, <1>3 DEF LobbyNext, EnterStep, JoinBegin, JoinName, JoinSession, JoinKey, JoinStack,
           JoinEnter, RejoinBegin, RejoinCheck, RejoinKey, RejoinRemove, RejoinAdd, RejoinSession,
           RegisterBegin, RegisterSave, RegisterSession, RemoteBegin, RemoteSave,
           EchoLoad, EchoSave, KickBegin, KickRemove, KickLeave, Disconnect, SaveSession,
           LobbyTypeOK
  <2>2. ~RemoteSave(s) /\ ~EchoSave(s)
    BY <1>3 DEF SessionInv, SessionKept, IsCopy, RemoteSave, EchoSave
  <2>3. CASE JoinSession(s) \/ RejoinSession(s)
    <3>1. entering[s].username \in Users
      BY <1>1, <2>3 DEF JoinSession, RejoinSession, LobbyTypeOK, Entering, HandlersFormed, JoinPcs,
             RejoinPcs
    <3>2. session'[s] = session[s] \/ session'[s] = PlayerSession(entering[s].username)
      BY <1>1, <2>3, <3>1, SaveShape DEF JoinSession, RejoinSession, LobbyTypeOK
    <3>3. QED
      BY <1>3, <3>2 DEF PlayerSession
  <2>4. CASE RegisterSession(s)
    BY <1>1, <1>3, <2>4, SaveShape DEF RegisterSession, LobbyTypeOK, AdminSession
  <2>5. QED
    BY <2>1, <2>2, <2>3, <2>4
<1>4. QED
  BY <1>2, <1>3

\* Whoever enters the room after the event.
LEMMA LobbyKeepsInformed ==
    ASSUME SessionInv, HostsAreNameless, game.started, Informed, LobbyNext
    PROVE  Informed'
<1> USE LobbyRecords DEF Stage
<1>1. LobbyTypeOK /\ HandlersFormed /\ SessionsStay /\ SessionInv' /\ HostsAreNameless'
  BY LobbyKeepsSessionInv, LobbyKeepsNameless DEF SessionInv, LobbyTypeInv
<1>2. UNCHANGED raced /\ onStage \subseteq onStage'
  BY DEF LobbyNext, EnterStep, JoinBegin, JoinName, JoinSession, JoinKey, JoinStack, JoinEnter,
         RejoinBegin, RejoinCheck, RejoinKey, RejoinRemove, RejoinAdd, RejoinSession,
         RegisterBegin, RegisterSave, RegisterSession, RemoteBegin, RemoteSave,
         EchoLoad, EchoSave, KickBegin, KickRemove, KickLeave, Disconnect
<1>3. ASSUME NEW s \in Sids
      PROVE  /\ entering'[s].pc \in JoinPcs => s \in raced
             /\ entering'[s].pc \in RejoinPcs => s \in raced \/ entering'[s].started
  <2> USE DEF LobbyTypeOK, Informed, JoinPcs, RejoinPcs
  <2>1. CASE entering'[s] = entering[s]
    BY <2>1
  <2>2. CASE EnterStep(s)
    <3>1. \/ entering'[s].pc = "idle"
          \/ /\ entering'[s].started = entering[s].started
             /\ \/ entering[s].pc \in JoinPcs /\ entering'[s].pc \in JoinPcs
                \/ entering[s].pc \in RejoinPcs /\ entering'[s].pc \in RejoinPcs
                \/ entering'[s].pc \notin JoinPcs \cup RejoinPcs
      BY <1>1, <2>2, GoToShape, LeaveShape
         DEF EnterStep, JoinName, JoinSession, JoinKey, JoinStack, JoinEnter,
             RejoinCheck, RejoinKey, RejoinRemove, RejoinAdd, RejoinSession,
             RegisterSave, RegisterSession, RemoteSave, EnterPc
    <3>2. QED
      BY <3>1
  <2>3. CASE RejoinBegin(s)
    <3>1. PICK k \in cookies : Begin(s, Rejoining(k))
      BY <2>3 DEF RejoinBegin
    <3>2. entering'[s] = Rejoining(k) /\ Rejoining(k).pc = "re_sid" /\ Rejoining(k).started
      BY <1>1, <3>1, RejoiningShape, BeginShape
    <3>3. QED
      BY <3>2
  <2>4. CASE RegisterBegin(s)
    BY <1>1, <2>4, GoToShape DEF RegisterBegin, EnterPc
  <2>5. CASE RemoteBegin(s) /\ session[s] # None
    BY <1>1, <2>5, TakingOverShape, BeginShape DEF RemoteBegin
  <2>6. \A t \in Sids :
           (RejoinBegin(t) \/ RegisterBegin(t) \/ RemoteBegin(t) \/ EnterStep(t)) =>
              t = s \/ entering'[s] = entering[s]
    BY <1>1 DEF EnterStep, JoinName, JoinSession, JoinKey, JoinStack, JoinEnter,
             RejoinBegin, RejoinCheck, RejoinKey, RejoinRemove, RejoinAdd, RejoinSession,
             RegisterBegin, RegisterSave, RegisterSession, RemoteBegin, RemoteSave,
             GoTo, Leave, Begin
  <2>7. QED
    BY <2>1, <2>2, <2>3, <2>4, <2>5, <2>6
       DEF LobbyNext, JoinBegin, EchoLoad, EchoSave, KickBegin, KickRemove, KickLeave, Disconnect,
           RemoteBegin
<1>4. ASSUME NEW s \in inRoom' \ raced', session'[s].username # None PROVE s \in onStage'
  <2>0. s \in Sids
    BY <1>1 DEF SessionInv, LobbyTypeInv, LobbyTypeOK
  <2>1. CASE s \in inRoom
    BY <1>1, <1>2, <1>4, <2>0, <2>1 DEF SessionInv, SessionKept, SessionsStay, Informed
  <2>2. CASE s \notin inRoom
    <3>1. JoinEnter(s) \/ RejoinSession(s) \/ RegisterSession(s) \/ RemoteSave(s)
      BY <2>0, <2>2 DEF LobbyNext, EnterStep, JoinBegin, JoinName, JoinSession, JoinKey, JoinStack,
           JoinEnter, RejoinBegin, RejoinCheck, RejoinKey, RejoinRemove, RejoinAdd, RejoinSession,
           RegisterBegin, RegisterSave, RegisterSession, RemoteBegin, RemoteSave,
           EchoLoad, EchoSave, KickBegin, KickRemove, KickLeave, Disconnect, EnterRoom
    <3>2. ~JoinEnter(s)
      BY <1>2, <1>4, <2>0 DEF JoinEnter, Informed, JoinPcs
    <3>3. RejoinSession(s) => s \in onStage'
      BY <1>2, <1>4, <2>0, <2>2 DEF RejoinSession, EnterRoom, Informed, RejoinPcs
    <3>4. ~RegisterSession(s) /\ ~RemoteSave(s)
      <4>1. session'[s] # None /\ ~session'[s].admin
        BY <1>1, <1>4, <2>0 DEF SessionInv, SessionKept, HostsAreNameless
      <4>2. ~RegisterSession(s)
        BY <1>1, <2>0, <2>2, <4>1, SaveShape DEF RegisterSession, EnterRoom, LobbyTypeOK, AdminSession
      <4>3. ~RemoteSave(s)
        BY <1>1, <2>0, <4>1 DEF SessionInv, SessionKept, IsCopy, SessionsStay, RemoteSave
      <4>4. QED
        BY <4>2, <4>3
    <3>5. QED
      BY <3>1, <3>2, <3>3, <3>4
  <2>3. QED
    BY <2>1, <2>2
<1>5. QED
  BY <1>2, <1>3, <1>4 DEF Informed

\* The event itself.
LEMMA StartInforms ==
    ASSUME LobbyTypeInv, StartIsHeard, UNCHANGED session
    PROVE  Informed'
BY LobbyRecords DEF StartIsHeard, Informed, LobbyTypeInv, HandlersFormed

\* The game has not started in an empty lobby.
LEMMA InitStartedInv == LobbyInit => StartedInv
BY InitSessionInv, LobbyRecords DEF LobbyInit, NewGame, StartedInv, HostsAreNameless

\* Every step keeps the pages informed of the start.
LEMMA NextStartedInv == StartedInv /\ [LobbyNext \/ GameStarts]_lobbyVars => StartedInv'
<1> SUFFICES ASSUME StartedInv, [LobbyNext \/ GameStarts]_lobbyVars PROVE StartedInv'
  OBVIOUS
<1>1. SessionInv /\ SessionInv'
  BY NextSessionInv DEF StartedInv
<1>2. CASE LobbyNext
  <2>1. UNCHANGED game
    BY <1>2 DEF LobbyNext, EnterStep, JoinBegin, JoinName, JoinSession, JoinKey, JoinStack, JoinEnter,
         RejoinBegin, RejoinCheck, RejoinKey, RejoinRemove, RejoinAdd, RejoinSession,
         RegisterBegin, RegisterSave, RegisterSession, RemoteBegin, RemoteSave,
         EchoLoad, EchoSave, KickBegin, KickRemove, KickLeave, Disconnect
  <2>2. QED
    BY <1>1, <1>2, <2>1, LobbyKeepsNameless, LobbyKeepsInformed DEF StartedInv
<1>3. CASE GameStarts
  BY <1>1, <1>3, StartInforms DEF GameStarts, StartedInv, HostsAreNameless, SessionInv
<1>4. CASE UNCHANGED lobbyVars
  BY <1>1, <1>4 DEF lobbyVars, lobbyOnly, StartedInv, HostsAreNameless, Informed
<1>5. QED
  BY <1>2, <1>3, <1>4

\* However the handlers overlap, a player's page in the room knows that the
\* game has started, unless its handler was running when the event was sent.
THEOREM PagesAlwaysFollowTheStart == LobbySpec => []PagesFollowTheStart
<1>1. LobbySpec => []StartedInv
  BY InitStartedInv, NextStartedInv, PTL DEF LobbySpec
<1>2. StartedInv => PagesFollowTheStart
  BY DEF StartedInv, Informed, PagesFollowTheStart
<1>3. QED
  BY <1>1, <1>2, PTL

(***************************************************************************)
(* Names and players                                                       *)
(***************************************************************************)

\* The stages of a handler that has written the name's key.
HoldPcs == {"stack", "enter", "re_srem", "re_sadd", "re_session"}

\* A connection that will be let into the game no more: it has its session, or
\* it is lost.
Spent(s) == entering[s].pc \in {"idle", "rm_save"} /\ (s \notin open \/ session[s] # None)

\* A name of which two handlers were running at once stays crossed, and nothing
\* is known of its entry; all other names are calm.
Calm(u) == u \notin crossed

OneHandler ==
    /\ \A s, t \in Sids :
          /\ entering[s].username # None /\ Calm(entering[s].username)
          /\ entering[s].username = entering[t].username
          => s = t
    /\ kicking.pc # "idle" /\ Calm(kicking.username) =>
          \A s \in Sids : entering[s].username # kicking.username

\* What the handler of s knows of the calm name it is about.
StageKept(s) ==
    LET e == entering[s] IN
    Calm(e.username) =>
        /\ e.pc \in {"session", "key"} => sidOf[e.username] = None
        /\ e.pc = "re_key" => sidOf[e.username] = e.old_sid
        /\ e.pc \in HoldPcs => sidOf[e.username] = s
        /\ e.pc \in {"stack", "re_sadd"} => \A p \in players : p.username # e.username
        /\ e.pc = "re_srem" => \A p \in players : p.username = e.username => p.sid = e.old_sid
        /\ e.pc \in {"enter", "re_session"} => [username |-> e.username, sid |-> s] \in players

KickKept ==
    Calm(kicking.username) =>
        /\ kicking.pc # "idle" => kicking.sid = sidOf[kicking.username]
        /\ kicking.pc = "leave" => \A p \in players : p.username # kicking.username

\* However the handlers overlap, the connection that a kick takes out of the
\* room plays under no name but the one that is kicked.
KickedKept ==
    kicking.pc # "idle" /\ kicking.sid # None =>
        /\ \/ Spent(kicking.sid)
           \/ entering[kicking.sid].pc \in HoldPcs /\ entering[kicking.sid].username = kicking.username
        /\ \A u \in Users : sidOf[u] = kicking.sid => u = kicking.username
        /\ \A p \in players : p.sid = kicking.sid => p.username = kicking.username

\* However the handlers overlap, a name is held by a connection that is through
\* with its handler or about to be, is no host's, and holds no other name.
HolderKept(u) ==
    sidOf[u] # None =>
        /\ \/ Spent(sidOf[u])
           \/ entering[sidOf[u]].pc \in HoldPcs /\ entering[sidOf[u]].username = u
        /\ session[sidOf[u]] # None => ~session[sidOf[u]].admin
        /\ \A v \in Users : sidOf[u] = sidOf[v] => u = v

\* However the handlers overlap, an entry is of a connection that is through
\* with its handler or about to be, and that holds no other name.
PlaceKept(p) ==
    /\ \/ Spent(p.sid)
       \/ entering[p.sid].pc \in {"enter", "re_session"} /\ entering[p.sid].username = p.username
    /\ \A u \in Users : p.sid = sidOf[u] => p.username = u

\* The entry of a calm name is that of its holder - or is being taken out - and
\* the holder hears the questions, is lost or is about to enter.
EntryKept(p) ==
    Calm(p.username) =>
        /\ \/ p.sid = sidOf[p.username]
           \/ \E s \in Sids : entering[s].pc = "re_srem" /\ entering[s].username = p.username
        /\ Spent(p.sid) => p.sid \in inRoom \/ p.sid \notin open

\* The holder of a calm name that hears the questions is counted, unless it is
\* being kicked.
HearerKept(u) ==
    Calm(u) /\ sidOf[u] \in inRoom =>
        \/ [username |-> u, sid |-> sidOf[u]] \in players
        \/ kicking.pc = "leave" /\ kicking.username = u

NamesInv ==
    /\ SessionInv
    /\ OneHandler
    /\ \A s \in Sids : StageKept(s)
    /\ KickKept /\ KickedKept
    /\ \A u \in Users : HolderKept(u) /\ HearerKept(u)
    /\ \A p \in players : PlaceKept(p) /\ EntryKept(p)

\* No name is taken in an empty lobby.
LEMMA InitNamesInv == LobbyInit => NamesInv
<1> SUFFICES ASSUME LobbyInit PROVE NamesInv
  OBVIOUS
<1>1. SessionInv
  BY InitSessionInv
<1>2. QED
  BY <1>1, LobbyRecords
     DEF LobbyInit, LobbyOnlyInit, NamesInv, OneHandler, StageKept, KickKept, KickedKept, HolderKept,
         HearerKept, PlaceKept, EntryKept, HoldPcs, NotKicking

\* The handlers that let somebody in are about a name of the game.
LEMMA NamedHandlers ==
    ASSUME LobbyTypeInv, NEW s \in Sids
    PROVE  /\ entering[s] \in Entering
           /\ entering[s].pc \in JoinPcs \cup RejoinPcs => entering[s].username \in Users
           /\ entering[s].username # None => entering[s].pc \in JoinPcs \cup RejoinPcs
BY LobbyRecords DEF LobbyTypeInv, LobbyTypeOK, HandlersFormed, Entering

\* Only these steps change who holds a name or who is counted.
LEMMA NameSteps ==
    ASSUME LobbyNext
    PROVE  \/ UNCHANGED <<sidOf, players>>
           \/ \E s \in Sids : JoinKey(s) \/ RejoinKey(s)
           \/ \E s \in Sids : JoinStack(s) \/ RejoinRemove(s) \/ RejoinAdd(s)
           \/ KickRemove
BY DEF LobbyNext, EnterStep, JoinBegin, JoinName, JoinSession, JoinEnter,
       RejoinBegin, RejoinCheck, RejoinSession, RegisterBegin, RegisterSave, RegisterSession,
       RemoteBegin, RemoteSave, EchoLoad, EchoSave, KickBegin, KickLeave, Disconnect

\* What one step does to the handler of a connection.
LEMMA HandlerSteps ==
    ASSUME LobbyTypeInv, LobbyNext, NEW s \in Sids
    PROVE  \/ entering'[s] = entering[s]
           \/ EnterStep(s)
           \/ \E u \in Users : JoinBegin(s, u)
           \/ RejoinBegin(s)
           \/ RegisterBegin(s)
           \/ RemoteBegin(s) /\ session[s] # None
<1> USE DEF LobbyTypeInv, LobbyTypeOK, GoTo, Leave, Begin
<1>1. \A t \in Sids, u \in Users : JoinBegin(t, u) => t = s \/ entering'[s] = entering[s]
  BY DEF JoinBegin
<1>2. \A t \in Sids : RejoinBegin(t) \/ RegisterBegin(t) => t = s \/ entering'[s] = entering[s]
  BY DEF RejoinBegin, RegisterBegin
<1>3. \A t \in Sids : RemoteBegin(t) => (t = s /\ session[s] # None) \/ entering'[s] = entering[s]
  BY DEF RemoteBegin
<1>4. \A t \in Sids : EnterStep(t) => t = s \/ entering'[s] = entering[s]
  BY DEF EnterStep, JoinName, JoinSession, JoinKey, JoinStack, JoinEnter,
         RejoinCheck, RejoinKey, RejoinRemove, RejoinAdd, RejoinSession,
         RegisterSave, RegisterSession, RemoteSave
<1>5. \A t \in Sids : EchoLoad(t) \/ EchoSave(t) \/ Disconnect(t) => entering'[s] = entering[s]
  BY DEF EchoLoad, EchoSave, Disconnect
<1>6. (\E u \in Users : KickBegin(u)) \/ KickRemove \/ KickLeave => entering'[s] = entering[s]
  BY DEF KickBegin, KickRemove, KickLeave
<1>7. QED
  BY <1>1, <1>2, <1>3, <1>4, <1>5, <1>6 DEF LobbyNext

\* A connection that will be let into the game no more never is.
LEMMA SpentStays ==
    ASSUME SessionInv, LobbyNext, NEW s \in Sids, Spent(s)
    PROVE  Spent(s)'
<1> USE LobbyRecords DEF Spent
<1>1. LobbyTypeInv /\ LobbyTypeOK /\ SessionsStay
  BY LobbyKeepsSessionInv DEF SessionInv, LobbyTypeInv
<1>2. open' \subseteq open
  BY DEF LobbyNext, EnterStep, JoinBegin, JoinName, JoinSession, JoinKey, JoinStack, JoinEnter,
         RejoinBegin, RejoinCheck, RejoinKey, RejoinRemove, RejoinAdd, RejoinSession,
         RegisterBegin, RegisterSave, RegisterSession, RemoteBegin, RemoteSave,
         EchoLoad, EchoSave, KickBegin, KickRemove, KickLeave, Disconnect
<1>3. s \notin open' \/ session'[s] # None
  BY <1>1, <1>2 DEF SessionsStay
<1>4. entering'[s].pc \in {"idle", "rm_save"}
  <2>1. CASE EnterStep(s)
    <3>1. RemoteSave(s)
      BY <2>1 DEF Stage, EnterStep, JoinName, JoinSession, JoinKey, JoinStack, JoinEnter,
         RejoinCheck, RejoinKey, RejoinRemove, RejoinAdd, RejoinSession, RegisterSave, RegisterSession
    <3>2. QED
      BY <1>1, <3>1, LeaveShape DEF RemoteSave, LobbyTypeOK
  <2>2. CASE RemoteBegin(s) /\ session[s] # None
    BY <1>1, <2>2, TakingOverShape, BeginShape DEF RemoteBegin, LobbyTypeOK
  <2>3. ~RejoinBegin(s) /\ ~RegisterBegin(s) /\ \A u \in Users : ~JoinBegin(s, u)
    BY DEF RejoinBegin, RegisterBegin, JoinBegin, MayEnter
  <2>4. QED
    BY <1>1, <2>1, <2>2, <2>3, HandlerSteps
<1>5. QED
  BY <1>3, <1>4

\* A name that is calm after a step was calm before it, and "no name" always is.
LEMMA CalmBefore ==
    ASSUME LobbyTypeInv, LobbyNext
    PROVE  /\ crossed \subseteq crossed'
           /\ Calm(None) /\ Calm(None)'
<1>1. crossed \subseteq crossed'
  BY DEF LobbyNext, EnterStep, JoinBegin, JoinName, JoinSession, JoinKey, JoinStack, JoinEnter,
         RejoinBegin, RejoinCheck, RejoinKey, RejoinRemove, RejoinAdd, RejoinSession,
         RegisterBegin, RegisterSave, RegisterSession, RemoteBegin, RemoteSave,
         EchoLoad, EchoSave, KickBegin, KickRemove, KickLeave, Disconnect, Cross
<1>2. Calm(None) /\ Calm(None)'
  BY LobbyRecords, LobbyKeepsTypes DEF Calm, LobbyTypeInv, LobbyTypeOK
<1>3. QED
  BY <1>1, <1>2

\* A handler is about the name it was about, or begins with one that no other
\* handler is about, or that is crossed from now on.
LEMMA NewNames ==
    ASSUME SessionInv, LobbyNext, NEW s \in Sids, entering'[s].username # None
    PROVE  \/ entering'[s].username = entering[s].username
           \/ /\ NameBusy(entering'[s].username) => entering'[s].username \in crossed'
              /\ UNCHANGED <<players, sidOf, kicking>>
              /\ entering'[s].pc \in {"name", "re_sid"}
              /\ \A t \in Sids : t # s => entering'[t] = entering[t]
<1> USE LobbyRecords DEF Stage
<1>1. LobbyTypeInv /\ LobbyTypeOK
  BY DEF SessionInv, LobbyTypeInv
<1>2. CASE EnterStep(s)
  BY <1>1, <1>2, GoToShape, LeaveShape
     DEF EnterStep, JoinName, JoinSession, JoinKey, JoinStack, JoinEnter,
         RejoinCheck, RejoinKey, RejoinRemove, RejoinAdd, RejoinSession,
         RegisterSave, RegisterSession, RemoteSave, EnterPc, LobbyTypeOK
<1>3. ASSUME NEW u \in Users, JoinBegin(s, u)
      PROVE  /\ entering'[s].username = u /\ entering'[s].pc = "name"
             /\ NameBusy(u) => u \in crossed'
             /\ UNCHANGED <<players, sidOf, kicking>>
             /\ \A t \in Sids : t # s => entering'[t] = entering[t]
  BY <1>1, <1>3, JoiningShape, BeginShape DEF JoinBegin, Cross, LobbyTypeOK
<1>4. CASE RejoinBegin(s)
  <2>1. PICK k \in cookies : Begin(s, Rejoining(k)) /\ Cross(k.username)
    BY <1>4 DEF RejoinBegin
  <2>2. k \in GamePlayer
    BY <1>1 DEF LobbyTypeOK
  <2>3. /\ entering'[s].username = k.username /\ entering'[s].pc = "re_sid"
        /\ \A t \in Sids : t # s => entering'[t] = entering[t]
    BY <1>1, <2>1, <2>2, RejoiningShape, BeginShape DEF LobbyTypeOK
  <2>4. NameBusy(k.username) => k.username \in crossed'
    BY <2>1 DEF Cross
  <2>5. QED
    BY <1>4, <2>3, <2>4 DEF RejoinBegin
<1>5. CASE RegisterBegin(s)
  BY <1>1, <1>5, GoToShape DEF RegisterBegin, EnterPc, LobbyTypeOK
<1>6. CASE RemoteBegin(s) /\ session[s] # None
  BY <1>1, <1>6, TakingOverShape, BeginShape DEF RemoteBegin, LobbyTypeOK
<1>7. QED
  BY <1>1, <1>2, <1>3, <1>4, <1>5, <1>6, HandlerSteps

\* One handler works for a calm name at a time.
LEMMA OneHandlerStays ==
    ASSUME NamesInv, LobbyNext
    PROVE  OneHandler'
<1> USE LobbyRecords
<1>1. SessionInv /\ LobbyTypeInv /\ LobbyTypeOK /\ OneHandler
  BY DEF NamesInv, SessionInv, LobbyTypeInv
<1>2. \A s \in Sids : entering[s].username # None => NameBusy(entering[s].username)
  BY <1>1, NamedHandlers DEF NameBusy, JoinPcs, RejoinPcs
<1>3. ASSUME NEW s \in Sids, NEW t \in Sids, entering'[s].username # None,
             entering'[s].username \notin crossed', entering'[s].username = entering'[t].username
      PROVE  s = t
  <2>1. CASE entering'[s].username = entering[s].username /\ entering'[t].username = entering[t].username
    BY <1>1, <1>3, <2>1, CalmBefore DEF OneHandler, Calm
  <2>2. CASE entering'[s].username # entering[s].username
    <3>1. ~NameBusy(entering'[s].username) /\ \A r \in Sids : r # s => entering'[r] = entering[r]
      BY <1>1, <1>3, <2>2, NewNames
    <3>2. QED
      BY <1>2, <1>3, <3>1
  <2>3. CASE entering'[t].username # entering[t].username
    <3>1. ~NameBusy(entering'[t].username) /\ \A r \in Sids : r # t => entering'[r] = entering[r]
      BY <1>1, <1>3, <2>3, NewNames
    <3>2. QED
      BY <1>2, <1>3, <3>1
  <2>4. QED
    BY <2>1, <2>2, <2>3
<1>4. ASSUME kicking'.pc # "idle", kicking'.username \notin crossed', NEW s \in Sids
      PROVE  entering'[s].username # kicking'.username
  <2>1. CASE kicking.pc # "idle"
    <3>1. kicking'.username = kicking.username /\ kicking'.username # None
      BY <1>1, <1>4, <2>1
         DEF LobbyNext, EnterStep, JoinBegin, JoinName, JoinSession, JoinKey, JoinStack, JoinEnter,
             RejoinBegin, RejoinCheck, RejoinKey, RejoinRemove, RejoinAdd, RejoinSession,
             RegisterBegin, RegisterSave, RegisterSession, RemoteBegin, RemoteSave,
             EchoLoad, EchoSave, KickBegin, KickRemove, KickLeave, Disconnect,
             LobbyTypeInv, HandlersFormed, LobbyTypeOK, Kicking, NotKicking
    <3>2. entering[s].username # kicking.username /\ NameBusy(kicking.username)
      BY <1>1, <1>4, <2>1, <3>1, CalmBefore DEF OneHandler, NameBusy, Calm
    <3>3. QED
      BY <1>1, <1>4, <3>1, <3>2, NewNames
  <2>2. CASE kicking.pc = "idle"
    <3>1. PICK u \in Users : KickBegin(u)
      BY <1>4, <2>2
         DEF LobbyNext, EnterStep, JoinBegin, JoinName, JoinSession, JoinKey, JoinStack, JoinEnter,
             RejoinBegin, RejoinCheck, RejoinKey, RejoinRemove, RejoinAdd, RejoinSession,
             RegisterBegin, RegisterSave, RegisterSession, RemoteBegin, RemoteSave,
             EchoLoad, EchoSave, KickRemove, KickLeave, Disconnect
    <3>2. kicking'.username = u /\ ~NameBusy(u) /\ UNCHANGED entering
      BY <1>4, <3>1 DEF KickBegin, Cross
    <3>3. QED
      BY <1>2, <3>2, LobbyRecords
  <2>3. QED
    BY <2>1, <2>2
<1>5. QED
  BY <1>3, <1>4 DEF OneHandler, Calm

\* Only a calm name's own handler changes who holds it, and who is counted by it:
\* its handler of join_game or rejoin_game ...
LEMMA OthersLeaveTheName ==
    ASSUME NamesInv, LobbyNext, NEW s \in Sids, entering[s].username # None,
           Calm(entering[s].username), entering'[s] = entering[s]
    PROVE  /\ sidOf'[entering[s].username] = sidOf[entering[s].username]
           /\ \A p \in GamePlayer : p.username = entering[s].username =>
                 (p \in players' <=> p \in players)
<1> USE LobbyRecords DEF Stage
<1>1. LobbyTypeInv /\ LobbyTypeOK /\ OneHandler
  BY DEF NamesInv, SessionInv, LobbyTypeInv
<1>2. ASSUME NEW t \in Sids,
             JoinKey(t) \/ RejoinKey(t) \/ JoinStack(t) \/ RejoinRemove(t) \/ RejoinAdd(t)
      PROVE  entering[t].username # entering[s].username
  <2>1. entering'[t].pc # entering[t].pc
    BY <1>1, <1>2, GoToShape
       DEF JoinKey, RejoinKey, JoinStack, RejoinRemove, RejoinAdd, EnterPc, LobbyTypeOK
  <2>2. t # s
    BY <2>1
  <2>3. QED
    BY <1>1, <2>2 DEF OneHandler
<1>3. \A t \in Sids : entering[t].username = entering[s].username => t = s
  BY <1>1 DEF OneHandler
<1>4. CASE \E t \in Sids : JoinKey(t) \/ RejoinKey(t)
  BY <1>1, <1>2, <1>4, NamedHandlers DEF JoinKey, RejoinKey, LobbyTypeOK, JoinPcs, RejoinPcs
<1>5. CASE \E t \in Sids : JoinStack(t) \/ RejoinRemove(t) \/ RejoinAdd(t)
  BY <1>1, <1>2, <1>5 DEF JoinStack, RejoinRemove, RejoinAdd
<1>6. CASE KickRemove
  BY <1>1, <1>6 DEF KickRemove, OneHandler
<1>7. QED
  BY <1>4, <1>5, <1>6, NameSteps

\* ... or of kick_player.
LEMMA OthersLeaveTheKicked ==
    ASSUME NamesInv, LobbyNext, kicking.pc # "idle", Calm(kicking.username)
    PROVE  /\ sidOf'[kicking.username] = sidOf[kicking.username]
           /\ \A p \in players' : p.username = kicking.username => p \in players
<1> USE LobbyRecords DEF Stage
<1>1. LobbyTypeInv /\ LobbyTypeOK /\ OneHandler /\ kicking.username \in Users
  BY DEF NamesInv, SessionInv, LobbyTypeInv, HandlersFormed
<1>2. \A t \in Sids : entering[t].username # kicking.username
  BY <1>1 DEF OneHandler
<1>3. CASE \E t \in Sids : JoinKey(t) \/ RejoinKey(t)
  BY <1>1, <1>2, <1>3, NamedHandlers DEF JoinKey, RejoinKey, LobbyTypeOK, JoinPcs, RejoinPcs
<1>4. CASE \E t \in Sids : JoinStack(t) \/ RejoinRemove(t) \/ RejoinAdd(t)
  BY <1>1, <1>2, <1>4 DEF JoinStack, RejoinRemove, RejoinAdd
<1>5. CASE KickRemove
  BY <1>1, <1>5 DEF KickRemove
<1>6. QED
  BY <1>3, <1>4, <1>5, NameSteps

\* What is stored of a calm name follows the stage of its handler.
LEMMA StagesStay ==
    ASSUME NamesInv, LobbyNext, NEW s \in Sids
    PROVE  StageKept(s)'
<1> SUFFICES ASSUME entering'[s].username \notin crossed' PROVE StageKept(s)'
  BY DEF StageKept, Calm
<1> USE LobbyRecords DEF Stage
<1>1. /\ SessionInv /\ LobbyTypeInv /\ LobbyTypeOK /\ OneHandler /\ StageKept(s)
      /\ \A p \in players : EntryKept(p)
      /\ entering[s] \in Entering
      /\ entering'[s].username = entering[s].username => Calm(entering[s].username)
  BY NamedHandlers, CalmBefore DEF NamesInv, SessionInv, LobbyTypeInv, Calm
<1> DEFINE u == entering[s].username
<1>2. CASE entering'[s] = entering[s]
  <2>1. CASE u = None
    BY <1>1, <1>2, <2>1 DEF StageKept, HoldPcs, LobbyTypeInv, HandlersFormed, JoinPcs, RejoinPcs
  <2>2. CASE u # None
    <3>1. u \in Users /\ [username |-> u, sid |-> s] \in GamePlayer
      BY <1>1, <2>2 DEF Entering, GamePlayer
    <3>2. /\ sidOf'[u] = sidOf[u]
          /\ \A p \in GamePlayer : p.username = u => (p \in players' <=> p \in players)
      BY <1>1, <1>2, <2>2, OthersLeaveTheName
    <3>3. players' \subseteq GamePlayer
      BY LobbyKeepsTypes, <1>1 DEF LobbyTypeInv, LobbyTypeOK
    <3>4. QED
      BY <1>1, <1>2, <3>1, <3>2, <3>3 DEF StageKept
  <2>3. QED
    BY <2>1, <2>2
<1>3. CASE EnterStep(s)
  <2> USE DEF StageKept, HoldPcs, EnterPc, LobbyTypeOK
  <2>0. Calm(entering[s].username) \/ entering'[s].pc = "idle"
    BY <1>1, <1>3, GoToShape, LeaveShape
       DEF EnterStep, JoinName, JoinSession, JoinKey, JoinStack, JoinEnter, RejoinCheck, RejoinKey,
           RejoinRemove, RejoinAdd, RejoinSession, RegisterSave, RegisterSession, RemoteSave
  <2>1. CASE JoinName(s)
    BY <1>1, <2>0, <2>1, GoToShape, LeaveShape DEF JoinName
  <2>2. CASE JoinSession(s)
    BY <1>1, <2>0, <2>2, GoToShape, LeaveShape DEF JoinSession
  <2>3. CASE JoinKey(s)
    <3>1. u \in Users
      BY <1>1, <2>0, <2>3, NamedHandlers DEF JoinKey, JoinPcs
    <3>0. Calm(u) /\ entering[s].pc = "key" /\ sidOf[u] = None
      BY <1>1, <2>0, <2>3, GoToShape DEF JoinKey
    <3>2. \A p \in players : p.username # u
      <4>1. SUFFICES ASSUME NEW p \in players, p.username = u PROVE FALSE
        OBVIOUS
      <4>2. p.sid \in Sids /\ EntryKept(p) /\ Calm(p.username)
        BY <1>1, <3>0, <4>1 DEF GamePlayer, Calm
      <4>3. \A t \in Sids : entering[t].username = u => t = s
        BY <1>1, <3>0, <3>1 DEF OneHandler
      <4>4. QED
        BY <3>0, <4>1, <4>2, <4>3 DEF EntryKept
    <3>3. QED
      BY <1>1, <2>0, <2>3, <3>1, <3>2, GoToShape DEF JoinKey
  <2>4. CASE JoinStack(s)
    BY <1>1, <2>0, <2>4, GoToShape DEF JoinStack
  <2>5. CASE JoinEnter(s)
    BY <1>1, <2>0, <2>5, LeaveShape DEF JoinEnter
  <2>6. CASE RejoinCheck(s)
    BY <1>1, <2>0, <2>6, GoToShape, LeaveShape DEF RejoinCheck
  <2>7. CASE RejoinKey(s)
    <3>1. u \in Users
      BY <1>1, <2>0, <2>7, NamedHandlers DEF RejoinKey, RejoinPcs
    <3>0. Calm(u) /\ entering[s].pc = "re_key" /\ sidOf[u] = entering[s].old_sid
      BY <1>1, <2>0, <2>7, GoToShape DEF RejoinKey
    <3>2. \A p \in players : p.username = u => p.sid = entering[s].old_sid
      <4>1. SUFFICES ASSUME NEW p \in players, p.username = u PROVE p.sid = entering[s].old_sid
        OBVIOUS
      <4>2. EntryKept(p) /\ Calm(p.username)
        BY <1>1, <3>0, <4>1 DEF Calm
      <4>3. \A t \in Sids : entering[t].username = u => t = s
        BY <1>1, <3>0, <3>1 DEF OneHandler
      <4>4. QED
        BY <3>0, <4>1, <4>2, <4>3 DEF EntryKept
    <3>3. QED
      BY <1>1, <2>0, <2>7, <3>1, <3>2, GoToShape DEF RejoinKey
  <2>8. CASE RejoinRemove(s)
    <3>0. Calm(u) /\ entering[s].pc = "re_srem"
      BY <1>1, <2>0, <2>8, GoToShape DEF RejoinRemove
    <3>1. \A p \in players : p.username = u => p = [username |-> u, sid |-> entering[s].old_sid]
      <4>1. \A p \in players : p.username = u => p.sid = entering[s].old_sid
        BY <1>1, <3>0
      <4>2. QED
        BY <1>1, <4>1 DEF GamePlayer
    <3>2. QED
      BY <1>1, <2>0, <2>8, <3>1, GoToShape DEF RejoinRemove
  <2>9. CASE RejoinAdd(s)
    BY <1>1, <2>0, <2>9, GoToShape DEF RejoinAdd
  <2>10. CASE RejoinSession(s)
    BY <1>1, <2>0, <2>10, LeaveShape DEF RejoinSession
  <2>11. CASE RegisterSave(s)
    BY <1>1, <2>0, <2>11, GoToShape DEF RegisterSave
  <2>12. CASE RegisterSession(s) \/ RemoteSave(s)
    BY <1>1, <2>0, <2>12, LeaveShape DEF RegisterSession, RemoteSave
  <2>13. QED
    BY <1>3, <2>1, <2>2, <2>3, <2>4, <2>5, <2>6, <2>7, <2>8, <2>9, <2>10, <2>11, <2>12 DEF EnterStep
<1>4. CASE entering'[s].pc \in {"name", "re_sid", "ad_save", "rm_save"}
  BY <1>4 DEF StageKept, HoldPcs
<1>5. ASSUME NEW v \in Users, JoinBegin(s, v) PROVE entering'[s].pc = "name"
  BY <1>1, <1>5, JoiningShape, BeginShape DEF JoinBegin, LobbyTypeOK
<1>6. ASSUME RejoinBegin(s) PROVE entering'[s].pc = "re_sid"
  <2>1. PICK k \in cookies : Begin(s, Rejoining(k))
    BY <1>6 DEF RejoinBegin
  <2>2. k \in GamePlayer
    BY <1>1 DEF LobbyTypeOK
  <2>3. QED
    BY <1>1, <2>1, <2>2, RejoiningShape, BeginShape DEF LobbyTypeOK
<1>7. RegisterBegin(s) => entering'[s].pc = "ad_save"
  BY <1>1, GoToShape DEF RegisterBegin, EnterPc, LobbyTypeOK
<1>8. RemoteBegin(s) /\ session[s] # None => entering'[s].pc = "rm_save"
  BY <1>1, TakingOverShape, BeginShape DEF RemoteBegin, LobbyTypeOK
<1>9. QED
  BY <1>1, <1>2, <1>3, <1>4, <1>5, <1>6, <1>7, <1>8, HandlerSteps

\* A kick of a calm name works on an entry that is still the same.
LEMMA KickStays ==
    ASSUME NamesInv, LobbyNext
    PROVE  KickKept'
<1> SUFFICES ASSUME kicking'.username \notin crossed' PROVE KickKept'
  BY DEF KickKept, Calm
<1>1. /\ SessionInv /\ LobbyTypeInv /\ LobbyTypeOK /\ OneHandler /\ KickKept
      /\ \A p \in players : EntryKept(p)
      /\ kicking'.username = kicking.username => Calm(kicking.username)
  BY CalmBefore DEF NamesInv, SessionInv, LobbyTypeInv, Calm
<1>2. kicking.pc # "idle" /\ Calm(kicking.username) =>
         /\ sidOf'[kicking.username] = sidOf[kicking.username]
         /\ \A p \in players' : p.username = kicking.username => p \in players
  BY OthersLeaveTheKicked
<1>3. CASE UNCHANGED kicking
  BY <1>1, <1>2, <1>3 DEF KickKept
<1>4. CASE \E u \in Users : KickBegin(u)
  BY <1>4 DEF KickBegin, KickKept
<1>5. CASE KickRemove
  <2>1. Calm(kicking.username) /\ kicking'.username = kicking.username /\ kicking'.sid = kicking.sid
    BY <1>1, <1>5 DEF KickRemove, LobbyTypeOK, Kicking
  <2>2. ASSUME NEW p \in players, p.username = kicking.username
        PROVE  p = [username |-> kicking.username, sid |-> kicking.sid]
    BY <1>1, <1>5, <2>1, <2>2 DEF KickRemove, KickKept, EntryKept, OneHandler, LobbyTypeOK, GamePlayer
  <2>3. QED
    BY <1>1, <1>2, <1>5, <2>1, <2>2 DEF KickRemove, KickKept, LobbyTypeOK, Kicking
<1>6. CASE KickLeave
  BY <1>6 DEF KickLeave, KickKept, NotKicking
<1>7. UNCHANGED kicking \/ (\E u \in Users : KickBegin(u)) \/ KickRemove \/ KickLeave
  BY DEF LobbyNext, EnterStep, JoinBegin, JoinName, JoinSession, JoinKey, JoinStack, JoinEnter,
         RejoinBegin, RejoinCheck, RejoinKey, RejoinRemove, RejoinAdd, RejoinSession,
         RegisterBegin, RegisterSave, RegisterSession, RemoteBegin, RemoteSave,
         EchoLoad, EchoSave, Disconnect
<1>8. QED
  BY <1>3, <1>4, <1>5, <1>6, <1>7

\* A handler that has written its name's key goes on to the end, where its
\* connection is spent.
LEMMA HoldersGoOn ==
    ASSUME SessionInv, LobbyNext, NEW s \in Sids, entering[s].pc \in HoldPcs
    PROVE  \/ entering'[s].pc \in HoldPcs /\ entering'[s].username = entering[s].username
           \/ Spent(s)' /\ (s \in inRoom' \/ s \notin open')
<1> USE LobbyRecords DEF Stage, HoldPcs
<1>1. LobbyTypeInv /\ LobbyTypeOK /\ SessionKept(s) /\ SessionsStay
  BY LobbyKeepsSessionInv DEF SessionInv, LobbyTypeInv
<1>2. CASE entering'[s] = entering[s]
  BY <1>2
<1>3. CASE EnterStep(s)
  <2>1. CASE JoinStack(s) \/ RejoinRemove(s) \/ RejoinAdd(s)
    BY <1>1, <2>1, GoToShape DEF JoinStack, RejoinRemove, RejoinAdd, EnterPc, LobbyTypeOK
  <2>2. CASE JoinEnter(s)
    BY <1>1, <2>2, LeaveShape DEF JoinEnter, EnterRoom, Spent, LobbyTypeOK, SessionKept, SessionsStay
  <2>3. CASE RejoinSession(s)
    <3>1. PlayerSession(entering[s].username) \in Session
      BY <1>1, <2>3, NamedHandlers DEF RejoinSession, RejoinPcs
    <3>2. QED
      BY <1>1, <2>3, <3>1, LeaveShape, SaveShape DEF RejoinSession, EnterRoom, Spent, LobbyTypeOK
  <2>4. QED
    BY <1>3, <2>1, <2>2, <2>3
       DEF EnterStep, JoinName, JoinSession, JoinKey, RejoinCheck, RejoinKey, RegisterSave,
           RegisterSession, RemoteSave
<1>4. ~RejoinBegin(s) /\ ~RegisterBegin(s) /\ ~RemoteBegin(s) /\ \A u \in Users : ~JoinBegin(s, u)
  BY DEF RejoinBegin, RegisterBegin, RemoteBegin, JoinBegin, MayEnter
<1>5. QED
  BY <1>1, <1>2, <1>3, <1>4, HandlerSteps

\* The holder of a name changes only to a connection whose handler writes the
\* name's key, and which holds no other name.
LEMMA NewHolder ==
    ASSUME NamesInv, LobbyNext, NEW u \in Users
    PROVE  \/ sidOf'[u] = sidOf[u]
           \/ \E s \in Sids :
                 /\ JoinKey(s) \/ RejoinKey(s)
                 /\ entering[s].username = u
                 /\ sidOf'[u] = s
BY NameSteps, NamedHandlers
   DEF JoinKey, RejoinKey, JoinStack, RejoinRemove, RejoinAdd, KickRemove, NamesInv, SessionInv,
       LobbyTypeInv, LobbyTypeOK, Stage, JoinPcs, RejoinPcs

\* A connection about to take a name holds none and is nobody's entry.
LEMMA WriterHoldsNothing ==
    ASSUME NamesInv, NEW s \in Sids, JoinKey(s) \/ RejoinKey(s)
    PROVE  /\ \A v \in Users : sidOf[v] # s
           /\ \A p \in players : p.sid # s
           /\ s \notin inRoom
<1> USE LobbyRecords DEF Stage
<1>1. entering[s].pc \in {"key", "re_key"}
  BY DEF JoinKey, RejoinKey
<1>2. \A v \in Users : sidOf[v] # s
  BY <1>1 DEF NamesInv, HolderKept, Spent, HoldPcs
<1>3. \A p \in players : p.sid # s
  BY <1>1 DEF NamesInv, PlaceKept, Spent
<1>4. s \notin inRoom
  BY <1>1 DEF NamesInv, SessionInv, SessionKept
<1>5. QED
  BY <1>2, <1>3, <1>4

\* A name is held by a connection that has joined with it.
LEMMA HoldersStay ==
    ASSUME NamesInv, LobbyNext, NEW u \in Users
    PROVE  HolderKept(u)'
<1> USE LobbyRecords DEF Stage
<1>1. /\ SessionInv /\ LobbyTypeInv /\ LobbyTypeOK /\ SessionInv' /\ SessionsStay
      /\ \A s \in Sids : StageKept(s) /\ SessionKept(s) /\ SessionKept(s)'
      /\ \A v \in Users : HolderKept(v)
  BY LobbyKeepsSessionInv DEF NamesInv, SessionInv, LobbyTypeInv
<1>2. ASSUME NEW s \in Sids, JoinKey(s) \/ RejoinKey(s), entering[s].username = u, sidOf'[u] = s
      PROVE  HolderKept(u)'
  <2>1. entering'[s].pc \in HoldPcs /\ entering'[s].username = u
    BY <1>1, <1>2, GoToShape DEF JoinKey, RejoinKey, HoldPcs, EnterPc, LobbyTypeOK
  <2>2. session'[s] # None => ~session'[s].admin
    BY <1>1, <1>2 DEF JoinKey, RejoinKey, SessionKept, RejoinPcs
  <2>3. \A v \in Users : v # u => sidOf'[v] = sidOf[v] /\ sidOf[v] # s
    <3>1. sidOf' = [sidOf EXCEPT ![u] = s]
      BY <1>2 DEF JoinKey, RejoinKey
    <3>2. QED
      BY <1>1, <1>2, <3>1, WriterHoldsNothing DEF LobbyTypeOK
  <2>4. QED
    BY <1>2, <2>1, <2>2, <2>3 DEF HolderKept
<1>3. CASE sidOf'[u] = sidOf[u] /\ sidOf[u] # None
  <2>1. PICK s \in Sids : s = sidOf[u] /\ s = sidOf'[u]
    BY <1>1, <1>3 DEF LobbyTypeOK
  <2>2. Spent(s) \/ (entering[s].pc \in HoldPcs /\ entering[s].username = u)
    BY <1>1, <1>3, <2>1 DEF HolderKept
  <2>3. Spent(s)' \/ (entering'[s].pc \in HoldPcs /\ entering'[s].username = u)
    BY <1>1, <2>1, <2>2, SpentStays, HoldersGoOn
  <2>4. session'[s] # None => ~session'[s].admin
    <3>1. CASE session[s] # None
      BY <1>1, <1>3, <2>1, <3>1 DEF SessionsStay, HolderKept
    <3>2. CASE session[s] = None /\ session'[s] # None
      <4>1. entering[s].pc \in HoldPcs /\ entering[s].pc \notin {"stack", "enter"}
        <5>1. CASE Spent(s)
          <6>1. session'[s] = session[s]
            BY <1>1, <2>1, <3>2, <5>1
               DEF Spent, SessionKept, IsCopy, LobbyNext, EnterStep, JoinBegin, JoinName, JoinSession,
                   JoinKey, JoinStack, JoinEnter, RejoinBegin, RejoinCheck, RejoinKey, RejoinRemove,
                   RejoinAdd, RejoinSession, RegisterBegin, RegisterSave, RegisterSession, RemoteBegin,
                   RemoteSave, EchoLoad, EchoSave, KickBegin, KickRemove, KickLeave, Disconnect,
                   SaveSession, LobbyTypeOK
          <6>2. QED
            BY <3>2, <6>1
        <5>2. QED
          BY <1>1, <2>1, <2>2, <3>2, <5>1 DEF SessionKept
      <4>2. entering'[s].pc \notin {"re_srem", "re_sadd", "re_session"}
        BY <1>1, <2>1, <3>2 DEF SessionKept, RejoinPcs
      <4>3. RejoinSession(s)
        BY <1>1, <2>1, <4>1, <4>2, HandlerSteps, GoToShape
           DEF EnterStep, JoinName, JoinSession, JoinKey, JoinStack, JoinEnter, RejoinCheck, RejoinKey,
               RejoinRemove, RejoinAdd, RegisterSave, RegisterSession, RemoteSave, JoinBegin, RejoinBegin,
               RegisterBegin, RemoteBegin, MayEnter, HoldPcs, EnterPc, LobbyTypeOK
      <4>4. PlayerSession(entering[s].username) \in Session
        BY <1>1, <2>1, <4>3, NamedHandlers DEF RejoinSession, RejoinPcs
      <4>5. QED
        BY <1>1, <2>1, <3>2, <4>3, <4>4, SaveShape DEF RejoinSession, PlayerSession, LobbyTypeOK
    <3>3. QED
      BY <3>1, <3>2
  <2>5. \A v \in Users : sidOf'[v] = s => v = u
    <3>1. SUFFICES ASSUME NEW v \in Users, v # u, sidOf'[v] = s PROVE FALSE
      OBVIOUS
    <3>2. sidOf[v] # s
      BY <1>1, <1>3, <2>1, <3>1 DEF HolderKept
    <3>3. PICK t \in Sids : (JoinKey(t) \/ RejoinKey(t)) /\ sidOf'[v] = t
      BY <3>1, <3>2, NewHolder
    <3>4. QED
      BY <2>1, <3>1, <3>3, WriterHoldsNothing
  <2>6. QED
    BY <1>3, <2>1, <2>3, <2>4, <2>5 DEF HolderKept
<1>4. CASE sidOf'[u] = None
  BY <1>4 DEF HolderKept
<1>5. QED
  BY <1>2, <1>3, <1>4, NewHolder

\* A new entry is that of a connection at work, under the name it works for.
LEMMA NewEntry ==
    ASSUME NamesInv, LobbyNext, NEW p \in players'
    PROVE  \/ p \in players
           \/ \E s \in Sids :
                 /\ JoinStack(s) \/ RejoinAdd(s)
                 /\ p.username = entering[s].username /\ p.sid = s
BY NameSteps DEF JoinKey, RejoinKey, JoinStack, RejoinRemove, RejoinAdd, KickRemove

\* A connection that works under a name is through with it, or works on.
LEMMA PlacedStays ==
    ASSUME SessionInv, LobbyNext, NEW s \in Sids, NEW u \in Users,
           \/ Spent(s)
           \/ entering[s].pc \in {"enter", "re_session"} /\ entering[s].username = u
    PROVE  \/ Spent(s)'
           \/ entering'[s].pc \in {"enter", "re_session"} /\ entering'[s].username = u
<1> USE LobbyRecords DEF Stage
<1>1. LobbyTypeInv /\ LobbyTypeOK
  BY DEF SessionInv, LobbyTypeInv
<1>2. CASE Spent(s)
  BY <1>2, SpentStays
<1>3. CASE entering[s].pc \in {"enter", "re_session"} /\ entering[s].username = u
  <2>1. CASE entering'[s].pc \in HoldPcs /\ entering'[s].username = entering[s].username
    <3>1. ~JoinEnter(s) /\ ~RejoinSession(s)
      BY <1>1, <2>1, LeaveShape DEF JoinEnter, RejoinSession, HoldPcs, LobbyTypeOK
    <3>2. entering'[s] = entering[s]
      BY <1>1, <1>3, <3>1, HandlerSteps
         DEF EnterStep, JoinName, JoinSession, JoinKey, JoinStack, RejoinCheck, RejoinKey,
             RejoinRemove, RejoinAdd, RegisterSave, RegisterSession, RemoteSave, JoinBegin,
             RejoinBegin, RegisterBegin, RemoteBegin, MayEnter
    <3>3. QED
      BY <1>3, <3>2
  <2>2. QED
    BY <1>3, <2>1, HoldersGoOn DEF HoldPcs
<1>4. QED
  BY <1>2, <1>3

\* An entry of the players set is of a connection that has come in.
LEMMA PlacesStay ==
    ASSUME NamesInv, LobbyNext, NEW p \in players'
    PROVE  PlaceKept(p)'
<1> USE LobbyRecords DEF Stage
<1>1. /\ SessionInv /\ LobbyTypeInv /\ LobbyTypeOK
      /\ \A v \in Users : HolderKept(v)
      /\ \A r \in players : PlaceKept(r)
      /\ p \in GamePlayer /\ p.username \in Users /\ p.sid \in Sids
  BY LobbyKeepsTypes DEF NamesInv, SessionInv, LobbyTypeInv, LobbyTypeOK, GamePlayer
\* The entry is new.
<1>2. ASSUME NEW s \in Sids, JoinStack(s) \/ RejoinAdd(s),
             p.username = entering[s].username, p.sid = s
      PROVE  PlaceKept(p)'
  <2>1. /\ entering'[s].pc \in {"enter", "re_session"}
        /\ entering'[s].username = entering[s].username
        /\ UNCHANGED sidOf
        /\ entering[s].pc \in {"stack", "re_sadd"}
    BY <1>1, <1>2, GoToShape DEF JoinStack, RejoinAdd, EnterPc, LobbyTypeOK
  <2>2. \A v \in Users : sidOf[v] = s => v = entering[s].username
    BY <1>1, <2>1 DEF HolderKept, Spent
  <2>3. QED
    BY <1>2, <2>1, <2>2 DEF PlaceKept
\* The entry was there.
<1>3. ASSUME p \in players PROVE PlaceKept(p)'
  <2>1. PlaceKept(p)
    BY <1>1, <1>3
  <2>2. \/ Spent(p.sid)'
        \/ entering'[p.sid].pc \in {"enter", "re_session"} /\ entering'[p.sid].username = p.username
    BY <1>1, <2>1, PlacedStays DEF PlaceKept
  <2>3. ASSUME NEW v \in Users, p.sid = sidOf'[v] PROVE p.username = v
    <3>1. CASE sidOf'[v] = sidOf[v]
      BY <2>1, <2>3, <3>1 DEF PlaceKept
    <3>2. CASE sidOf'[v] # sidOf[v]
      <4>1. PICK s \in Sids : (JoinKey(s) \/ RejoinKey(s)) /\ sidOf'[v] = s
        BY <3>2, NewHolder
      <4>2. QED
        BY <1>3, <2>3, <4>1, WriterHoldsNothing
    <3>3. QED
      BY <3>1, <3>2
  <2>4. QED
    BY <2>2, <2>3 DEF PlaceKept
<1>4. QED
  BY <1>2, <1>3, NewEntry

\* What a kick will take out of the room plays under the name that is kicked.
LEMMA KickedStays ==
    ASSUME NamesInv, LobbyNext
    PROVE  KickedKept'
<1> USE LobbyRecords DEF Stage
<1>1. /\ SessionInv /\ LobbyTypeInv /\ LobbyTypeOK /\ LobbyTypeInv' /\ KickedKept
      /\ \A v \in Users : HolderKept(v)
      /\ \A r \in players : PlaceKept(r)
  BY LobbyKeepsTypes DEF NamesInv, SessionInv, LobbyTypeInv
<1>2. CASE kicking'.pc = "idle"
  BY <1>2 DEF KickedKept
<1>3. CASE kicking.pc # "idle" /\ kicking'.sid = kicking.sid /\ kicking'.username = kicking.username
  <2>1. SUFFICES ASSUME kicking.sid # None PROVE KickedKept'
    BY <1>3 DEF KickedKept
  <2>2. PICK s \in Sids : s = kicking.sid
    BY <1>1, <2>1 DEF LobbyTypeOK, Kicking
  <2>3. PICK u : u = kicking.username
    OBVIOUS
  <2>4. /\ Spent(s) \/ (entering[s].pc \in HoldPcs /\ entering[s].username = u)
        /\ \A v \in Users : sidOf[v] = s => v = u
        /\ \A p \in players : p.sid = s => p.username = u
    BY <1>1, <1>3, <2>1, <2>2, <2>3 DEF KickedKept
  <2>5. Spent(s)' \/ (entering'[s].pc \in HoldPcs /\ entering'[s].username = u)
    BY <1>1, <2>4, SpentStays, HoldersGoOn
  <2>6. ASSUME NEW v \in Users, sidOf'[v] = s PROVE v = u
    <3>1. CASE sidOf'[v] = sidOf[v]
      BY <2>4, <2>6, <3>1
    <3>2. CASE sidOf'[v] # sidOf[v]
      <4>1. JoinKey(s) \/ RejoinKey(s)
        BY <2>6, <3>2, NewHolder
      <4>2. QED
        BY <2>4, <4>1 DEF JoinKey, RejoinKey, Spent, HoldPcs
    <3>3. QED
      BY <3>1, <3>2
  <2>7. ASSUME NEW p \in players', p.sid = s PROVE p.username = u
    <3>1. CASE p \in players
      BY <2>4, <2>7, <3>1
    <3>2. CASE p \notin players
      <4>1. (JoinStack(s) \/ RejoinAdd(s)) /\ p.username = entering[s].username
        BY <2>7, <3>2, NewEntry
      <4>2. QED
        BY <2>4, <4>1 DEF JoinStack, RejoinAdd, Spent
    <3>3. QED
      BY <3>1, <3>2
  <2>8. kicking'.sid = s /\ kicking'.username = u
    BY <1>3, <2>2, <2>3
  <2>9. QED
    BY <2>5, <2>6, <2>7, <2>8 DEF KickedKept
<1>4. ASSUME NEW u \in Users, KickBegin(u) PROVE KickedKept'
  <2>1. /\ kicking'.sid = sidOf[u] /\ kicking'.username = u
        /\ UNCHANGED <<session, sidOf, players, open, entering>>
    BY <1>4 DEF KickBegin
  <2>2. QED
    BY <1>1, <2>1 DEF KickedKept, HolderKept, PlaceKept, Spent
<1>5. \/ kicking'.pc = "idle"
      \/ kicking.pc # "idle" /\ kicking'.sid = kicking.sid /\ kicking'.username = kicking.username
      \/ \E u \in Users : KickBegin(u)
  BY <1>1 DEF LobbyNext, EnterStep, JoinBegin, JoinName, JoinSession, JoinKey, JoinStack, JoinEnter,
         RejoinBegin, RejoinCheck, RejoinKey, RejoinRemove, RejoinAdd, RejoinSession,
         RegisterBegin, RegisterSave, RegisterSession, RemoteBegin, RemoteSave,
         EchoLoad, EchoSave, Disconnect, KickRemove, KickLeave, NotKicking, LobbyTypeOK, Kicking
<1>6. QED
  BY <1>2, <1>3, <1>4, <1>5

\* The entry of a calm name is that of its holder.
LEMMA EntriesStay ==
    ASSUME NamesInv, LobbyNext, NEW p \in players'
    PROVE  EntryKept(p)'
<1> SUFFICES ASSUME p.username \notin crossed' PROVE EntryKept(p)'
  BY DEF EntryKept, Calm
<1> USE LobbyRecords DEF Stage
<1>1. /\ SessionInv /\ LobbyTypeInv /\ LobbyTypeOK /\ OneHandler /\ KickKept /\ KickedKept
      /\ \A s \in Sids : StageKept(s) /\ SessionKept(s)
      /\ \A v \in Users : HolderKept(v)
      /\ \A r \in players : EntryKept(r) /\ PlaceKept(r)
      /\ p \in GamePlayer /\ p.username \in Users /\ p.sid \in Sids
      /\ Calm(p.username)
  BY LobbyKeepsTypes, CalmBefore
     DEF NamesInv, SessionInv, LobbyTypeInv, LobbyTypeOK, GamePlayer, Calm
\* The entry is new.
<1>2. ASSUME NEW s \in Sids, JoinStack(s) \/ RejoinAdd(s),
             p.username = entering[s].username, p.sid = s
      PROVE  EntryKept(p)'
  <2>1. entering'[s].pc \in {"enter", "re_session"} /\ UNCHANGED sidOf
    BY <1>1, <1>2, GoToShape DEF JoinStack, RejoinAdd, EnterPc, LobbyTypeOK
  <2>2. sidOf[entering[s].username] = s
    BY <1>1, <1>2 DEF JoinStack, RejoinAdd, StageKept, HoldPcs
  <2>3. QED
    BY <1>2, <2>1, <2>2 DEF EntryKept, Spent
\* The entry was there.
<1>3. ASSUME p \in players PROVE EntryKept(p)'
  <2>1. EntryKept(p) /\ PlaceKept(p)
    BY <1>1, <1>3
  \* It is the holder's, or is being taken out.
  <2>2. \/ p.sid = sidOf'[p.username]
        \/ \E s \in Sids : entering'[s].pc = "re_srem" /\ entering'[s].username = p.username
    <3>1. CASE p.sid = sidOf[p.username] /\ sidOf'[p.username] # sidOf[p.username]
      <4>1. PICK s \in Sids : (JoinKey(s) \/ RejoinKey(s)) /\ entering[s].username = p.username
        BY <1>1, <3>1, NewHolder
      <4>2. ~JoinKey(s)
        <5>1. Calm(entering[s].username) /\ StageKept(s)
          BY <1>1, <4>1 DEF Calm
        <5>2. sidOf[entering[s].username] # None
          BY <1>1, <3>1, <4>1
        <5>3. QED
          BY <5>1, <5>2 DEF JoinKey, StageKept
      <4>3. entering'[s].pc = "re_srem" /\ entering'[s].username = p.username
        BY <1>1, <4>1, <4>2, GoToShape DEF RejoinKey, EnterPc, LobbyTypeOK
      <4>4. QED
        BY <4>3
    <3>2. CASE \E s \in Sids : entering[s].pc = "re_srem" /\ entering[s].username = p.username
      <4>1. PICK s \in Sids : entering[s].pc = "re_srem" /\ entering[s].username = p.username
        BY <3>2
      <4>2. p = [username |-> entering[s].username, sid |-> entering[s].old_sid]
        BY <1>1, <1>3, <4>1 DEF StageKept, GamePlayer
      <4>3. ~RejoinRemove(s)
        BY <1>3, <4>2 DEF RejoinRemove
      <4>4. entering'[s] = entering[s]
        BY <1>1, <4>1, <4>3, HandlerSteps
           DEF EnterStep, JoinName, JoinSession, JoinKey, JoinStack, JoinEnter, RejoinCheck, RejoinKey,
               RejoinAdd, RejoinSession, RegisterSave, RegisterSession, RemoteSave, JoinBegin,
               RejoinBegin, RegisterBegin, RemoteBegin, MayEnter
      <4>5. QED
        BY <4>1, <4>4
    <3>3. QED
      BY <1>1, <2>1, <3>1, <3>2 DEF EntryKept
  \* Its connection, once through, hears the questions or is lost.
  <2>3. ASSUME Spent(p.sid)' PROVE p.sid \in inRoom' \/ p.sid \notin open'
    <3>1. CASE Spent(p.sid) /\ (p.sid \in inRoom \/ p.sid \notin open)
      <4>2. CASE p.sid \notin open
        BY <4>2
           DEF LobbyNext, EnterStep, JoinBegin, JoinName, JoinSession, JoinKey, JoinStack, JoinEnter,
               RejoinBegin, RejoinCheck, RejoinKey, RejoinRemove, RejoinAdd, RejoinSession,
               RegisterBegin, RegisterSave, RegisterSession, RemoteBegin, RemoteSave,
               EchoLoad, EchoSave, KickBegin, KickRemove, KickLeave, Disconnect
      <4>3. CASE p.sid \in inRoom
        <5>1. CASE KickLeave
          <6>1. CASE Calm(kicking.username)
            <7>1. p.username # kicking.username
              BY <1>1, <1>3, <5>1, <6>1 DEF KickLeave, KickKept
            <7>2. p.sid # kicking.sid
              BY <1>1, <1>3, <5>1, <7>1 DEF KickLeave, KickedKept
            <7>3. QED
              BY <4>3, <5>1, <7>2 DEF KickLeave
          <6>2. CASE ~Calm(kicking.username)
            <7>1. p.sid # kicking.sid
              BY <1>1, <1>3, <5>1, <6>2 DEF KickLeave, KickedKept
            <7>2. QED
              BY <4>3, <5>1, <7>1 DEF KickLeave
          <6>3. QED
            BY <6>1, <6>2
        <5>2. CASE \E s \in Sids : Disconnect(s)
          BY <4>3, <5>2 DEF Disconnect
        <5>3. CASE ~KickLeave /\ ~\E s \in Sids : Disconnect(s)
          <6>1. inRoom \subseteq inRoom'
            BY <5>3
               DEF LobbyNext, EnterStep, JoinBegin, JoinName, JoinSession, JoinKey, JoinStack, JoinEnter,
                   RejoinBegin, RejoinCheck, RejoinKey, RejoinRemove, RejoinAdd, RejoinSession,
                   RegisterBegin, RegisterSave, RegisterSession, RemoteBegin, RemoteSave,
                   EchoLoad, EchoSave, KickBegin, KickRemove, EnterRoom
          <6>2. QED
            BY <4>3, <6>1
        <5>4. QED
          BY <5>1, <5>2, <5>3
      <4>4. QED
        BY <3>1, <4>2, <4>3
    <3>2. CASE entering[p.sid].pc \in {"enter", "re_session"}
      <4>1. ~(entering'[p.sid].pc \in HoldPcs)
        BY <2>3 DEF Spent, HoldPcs
      <4>2. QED
        BY <1>1, <3>2, <4>1, HoldersGoOn DEF HoldPcs
    <3>3. QED
      BY <1>1, <2>1, <3>1, <3>2 DEF EntryKept, PlaceKept
  <2>4. QED
    BY <2>2, <2>3 DEF EntryKept
<1>4. QED
  BY <1>2, <1>3, NewEntry

\* The holder hears the game, or has gone.
LEMMA HearersStay ==
    ASSUME NamesInv, LobbyNext, NEW u \in Users
    PROVE  HearerKept(u)'
<1> USE LobbyRecords DEF Stage
<1>1. /\ SessionInv /\ LobbyTypeInv /\ LobbyTypeOK /\ OneHandler /\ KickKept /\ LobbyTypeOK'
      /\ \A s \in Sids : StageKept(s) /\ SessionKept(s)
      /\ \A v \in Users : HolderKept(v) /\ HearerKept(v)
      /\ u \notin crossed' => Calm(u)
  BY LobbyKeepsTypes, CalmBefore DEF NamesInv, SessionInv, LobbyTypeInv, Calm
<1>2. SUFFICES ASSUME Calm(u), sidOf'[u] \in inRoom'
               PROVE  \/ [username |-> u, sid |-> sidOf'[u]] \in players'
                      \/ kicking'.pc = "leave" /\ kicking'.username = u
  BY <1>1 DEF HearerKept, Calm
<1>3. PICK s \in Sids : s = sidOf'[u]
  BY <1>1, <1>2 DEF LobbyTypeOK
<1>4. sidOf[u] = s
  <2>1. SUFFICES ASSUME JoinKey(s) \/ RejoinKey(s) PROVE FALSE
    BY <1>3, NewHolder
  <2>2. inRoom' = inRoom
    BY <2>1 DEF JoinKey, RejoinKey
  <2>3. QED
    BY <1>2, <1>3, <2>1, <2>2, WriterHoldsNothing
<1>5. CASE s \notin inRoom
  <2>1. JoinEnter(s) \/ RejoinSession(s) \/ RegisterSession(s) \/ RemoteSave(s)
    BY <1>2, <1>3, <1>5
       DEF LobbyNext, EnterStep, JoinBegin, JoinName, JoinSession, JoinKey, JoinStack,
           JoinEnter, RejoinBegin, RejoinCheck, RejoinKey, RejoinRemove, RejoinAdd, RejoinSession,
           RegisterBegin, RegisterSave, RegisterSession, RemoteBegin, RemoteSave,
           EchoLoad, EchoSave, KickBegin, KickRemove, KickLeave, Disconnect, EnterRoom
  <2>2. ~RegisterSession(s)
    BY <1>1, <1>4 DEF RegisterSession, HolderKept, Spent, HoldPcs
  <2>3. ~RemoteSave(s)
    BY <1>1, <1>4 DEF RemoteSave, HolderKept, SessionKept, IsCopy
  <2>4. entering[s].pc \in {"enter", "re_session"} /\ UNCHANGED players
    BY <2>1, <2>2, <2>3 DEF JoinEnter, RejoinSession
  <2>5. entering[s].username = u
    BY <1>1, <1>4, <2>4 DEF HolderKept, Spent
  <2>6. [username |-> u, sid |-> s] \in players'
    BY <1>1, <1>2, <2>4, <2>5 DEF StageKept
  <2>7. QED
    BY <1>3, <2>6
<1>6. CASE s \in inRoom /\ [username |-> u, sid |-> s] \in players
  <2>1. SUFFICES ASSUME [username |-> u, sid |-> s] \notin players'
                 PROVE  kicking'.pc = "leave" /\ kicking'.username = u
    BY <1>3
  <2>2. CASE \E t \in Sids : RejoinRemove(t)
    <3>1. PICK t \in Sids : RejoinRemove(t)
      BY <2>2
    <3>2. entering[t].username = u
      BY <1>6, <2>1, <3>1 DEF RejoinRemove
    <3>3. t = s
      BY <1>1, <1>2, <1>4, <3>1, <3>2 DEF RejoinRemove, StageKept, HoldPcs
    <3>4. QED
      BY <1>1, <1>6, <3>1, <3>3 DEF RejoinRemove, SessionKept
  <2>3. CASE KickRemove
    BY <1>1, <1>6, <2>1, <2>3 DEF KickRemove, LobbyTypeOK, Kicking
  <2>4. QED
    BY <1>6, <2>1, <2>2, <2>3, NameSteps DEF JoinKey, RejoinKey, JoinStack, RejoinAdd
<1>7. CASE s \in inRoom /\ kicking.pc = "leave" /\ kicking.username = u
  <2>1. CASE KickLeave
    <3>1. kicking.sid = s
      BY <1>1, <1>2, <1>4, <1>7 DEF KickKept
    <3>2. QED
      BY <1>2, <1>3, <2>1, <3>1 DEF KickLeave
  <2>2. CASE ~KickLeave
    BY <1>7, <2>2
       DEF LobbyNext, EnterStep, JoinBegin, JoinName, JoinSession, JoinKey, JoinStack, JoinEnter,
           RejoinBegin, RejoinCheck, RejoinKey, RejoinRemove, RejoinAdd, RejoinSession,
           RegisterBegin, RegisterSave, RegisterSession, RemoteBegin, RemoteSave,
           EchoLoad, EchoSave, KickBegin, KickRemove, Disconnect
  <2>3. QED
    BY <2>1, <2>2
<1>8. QED
  BY <1>1, <1>2, <1>4, <1>5, <1>6, <1>7 DEF HearerKept

\* Every step of the lobby keeps the names,
LEMMA LobbyKeepsNames ==
    ASSUME NamesInv, LobbyNext
    PROVE  NamesInv'
<1>1. SessionInv'
  BY LobbyKeepsSessionInv DEF NamesInv
<1>2. OneHandler' /\ KickKept' /\ KickedKept'
  BY OneHandlerStays, KickStays, KickedStays
<1>3. \A s \in Sids : StageKept(s)'
  BY StagesStay
<1>4. \A u \in Users : HolderKept(u)' /\ HearerKept(u)'
  BY HoldersStay, HearersStay
<1>5. \A p \in players' : PlaceKept(p)' /\ EntryKept(p)'
  BY PlacesStay, EntriesStay
<1>6. QED
  BY <1>1, <1>2, <1>3, <1>4, <1>5 DEF NamesInv

\* and so does the start of the game.
LEMMA NextNamesInv ==
    NamesInv /\ [LobbyNext \/ GameStarts]_lobbyVars => NamesInv'
<1> SUFFICES ASSUME NamesInv, [LobbyNext \/ GameStarts]_lobbyVars PROVE NamesInv'
  OBVIOUS
<1>1. SessionInv'
  BY NextSessionInv DEF NamesInv
<1>2. CASE UNCHANGED <<players, session, sidOf, inRoom, open, cookies, crossed, entering, kicking>>
  <2>1. (\A s \in Sids : StageKept(s)') /\ (\A s : Spent(s)' <=> Spent(s)) /\ OneHandler'
    BY <1>2 DEF NamesInv, OneHandler, StageKept, Spent, Calm
  <2>2. KickKept' /\ KickedKept'
    BY <1>2, <2>1 DEF NamesInv, KickKept, KickedKept, Calm
  <2>3. \A u \in Users : HolderKept(u)' /\ HearerKept(u)'
    BY <1>2, <2>1 DEF NamesInv, HolderKept, HearerKept, Calm
  <2>4. \A p \in players' : PlaceKept(p)' /\ EntryKept(p)'
    BY <1>2, <2>1 DEF NamesInv, PlaceKept, EntryKept, Calm
  <2>5. QED
    BY <1>1, <2>1, <2>2, <2>3, <2>4 DEF NamesInv
<1>3. CASE GameStarts
  BY <1>2, <1>3 DEF GameStarts, StartIsHeard
<1>4. CASE UNCHANGED lobbyVars
  BY <1>2, <1>4 DEF lobbyVars, lobbyOnly
<1>5. QED
  BY <1>3, <1>4, LobbyKeepsNames

\* The invariant implies the property.
LEMMA NamesAreCounted == NamesInv => PlayersAreCounted
<1> SUFFICES ASSUME NamesInv PROVE PlayersAreCounted
  OBVIOUS
<1> USE LobbyRecords
<1>1. /\ LobbyTypeInv /\ LobbyTypeOK /\ OneHandler
      /\ \A s \in Sids : StageKept(s)
      /\ \A v \in Users : HearerKept(v)
      /\ \A p \in players :
            EntryKept(p) /\ PlaceKept(p) /\ p.username \in Users /\ p.sid \in Sids
  BY DEF NamesInv, SessionInv, LobbyTypeInv, LobbyTypeOK, GamePlayer
<1>2. OneEntryPerPlayer
  <2>1. ASSUME NEW p \in players, NEW r \in players, p.username = r.username, Calm(p.username)
        PROVE  p.sid = r.sid
    <3>1. ASSUME NEW s \in Sids, entering[s].pc = "re_srem", entering[s].username = p.username
          PROVE  p.sid = entering[s].old_sid /\ r.sid = entering[s].old_sid
      <4>1. \A e \in players : e.username = entering[s].username => e.sid = entering[s].old_sid
        BY <1>1, <2>1, <3>1 DEF StageKept, Calm
      <4>2. QED
        BY <2>1, <3>1, <4>1
    <3>2. QED
      BY <1>1, <2>1, <3>1 DEF EntryKept
  <2>2. \A p, r \in GamePlayer : p.username = r.username /\ p.sid = r.sid => p = r
    BY DEF GamePlayer
  <2>3. QED
    BY <1>1, <2>1, <2>2 DEF OneEntryPerPlayer, LobbyTypeOK, Calm
<1>3. CountedPlayersHear
  BY <1>1 DEF CountedPlayersHear, EntryKept, PlaceKept, NameBusy, Calm
<1>4. HoldersAreCounted
  BY <1>1 DEF HoldersAreCounted, HearerKept, NameBusy, Calm
<1>5. QED
  BY <1>2, <1>3, <1>4 DEF PlayersAreCounted

\* However the handlers overlap, a connection plays under one name at most; and
\* the stage of the handler of a calm name says what is stored of it: the name
\* key, the entry in the players set and the place in the room change hands together.
THEOREM NamesInvariant == LobbySpec => []NamesInv
<1>1. NamesInv /\ [LobbyNext \/ GameStarts]_lobbyVars => NamesInv'
  BY NextNamesInv
<1>2. QED
  BY <1>1, InitNamesInv, PTL DEF LobbySpec

\* The players set is right for every name of which no two handlers have been
\* running at once: one entry while it is held, for the connection that holds
\* it and hears the questions.
THEOREM PlayersAreAlwaysCounted == LobbySpec => []PlayersAreCounted
BY NamesInvariant, NamesAreCounted, PTL

\* Whoever takes over a name shows the cookie of the connection that held it.
LEMMA HoldersShowTheirCookie ==
    ASSUME NamesInv, LobbyNext, NEW u \in Users \ crossed, sidOf[u] # None, sidOf'[u] # sidOf[u]
    PROVE  sidOf'[u] # None /\ entering[sidOf'[u]].old_sid = sidOf[u]
<1>1. PICK s \in Sids : (JoinKey(s) \/ RejoinKey(s)) /\ entering[s].username = u /\ sidOf'[u] = s
  BY NewHolder
<1>2. StageKept(s)
  BY DEF NamesInv
<1>3. RejoinKey(s)
  BY <1>1, <1>2 DEF JoinKey, Stage, StageKept, Calm
<1>4. QED
  BY <1>1, <1>2, <1>3, LobbyRecords DEF RejoinKey, Stage, StageKept, Calm

\* And a name that is held, of which no two handlers have been running at once,
\* passes only to a connection that presented the cookie of its holder.
THEOREM NamesAlwaysPassByCookie == LobbySpec => NamesPassByCookie
<1>1. NamesInv /\ [LobbyNext \/ GameStarts]_lobbyVars =>
          [\A u \in Users \ crossed :
              sidOf[u] # None /\ sidOf'[u] # sidOf[u] =>
                  /\ sidOf'[u] # None
                  /\ entering[sidOf'[u]].old_sid = sidOf[u]]_lobbyVars
  BY HoldersShowTheirCookie DEF GameStarts, StartIsHeard
<1>2. QED
  BY <1>1, NamesInvariant, PTL DEF LobbySpec, NamesPassByCookie

==============================================================================
