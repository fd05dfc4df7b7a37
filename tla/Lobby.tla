-------------------------------- MODULE Lobby --------------------------------
(***************************************************************************)
(* Who is in a game: join_game, rejoin_game, register_as_admin,            *)
(* register_as_remote, echo_time_sync and kick_player of                   *)
(* classquiz/socket_server/__init__.py, with the records they keep in      *)
(* Redis, the rooms of the Socket.IO server and what the pages at the      *)
(* other end remember.  As in AnswerRound an action is one Redis command   *)
(* and the Python code up to the next one.                                 *)
(***************************************************************************)
EXTENDS GameStore

VARIABLES
    game,       \* game:{pin}
    players,    \* game_session:{pin}:players
    session,    \* socket_io_session:{...} of every connection, None if unset
    sidOf,      \* game_session:{pin}:players:{username}
    admin,      \* game_session:{pin}, the sid in GameSession.admin
    inRoom,     \* the connections in the game's room
    open,       \* the connections that have not been lost
    cookies,    \* the joined_game cookies the play pages have stored
    told,       \* the connections that received registered_as_admin
    listed,     \* the names the host's page lists after player_joined
    banned,     \* the names whose page got the kick event
    onStage,    \* the play pages that know the game has started (gameMeta.started)
    raced,      \* history: the handlers that were running when start_game was sent
    crossed,    \* history: the names of which two handlers were running at once
    entering,   \* the running join/rejoin/register handler of a connection
    echo,       \* the running echo_time_sync of a connection
    kicking     \* the running kick_player

lobbyOnly == <<sidOf, admin, inRoom, open, cookies, told, listed, banned, onStage, raced, crossed,
               entering, echo, kicking>>
lobbyVars == <<game, players, session, lobbyOnly>>

EnterPc == {"idle", "name", "session", "key", "stack", "enter",
            "re_sid", "re_key", "re_srem", "re_sadd", "re_session",
            "ad_save", "ad_session", "rm_save"}

Entering == [pc : EnterPc, username : Users \cup {None}, old_sid : Sids \cup {None},
             loaded : Session \cup {None}, started : BOOLEAN]

Handler(pc, u, old_sid, loaded, started) ==
    [pc |-> pc, username |-> u, old_sid |-> old_sid, loaded |-> loaded, started |-> started]

NotEntering   == Handler("idle", None, None, None, FALSE)
Joining(u)    == Handler("name", u, None, None, FALSE)
Rejoining(k)  == Handler("re_sid", k.username, k.sid, None, game.started)
TakingOver(c) == Handler("rm_save", None, None, c, FALSE)

Echo == [pc : {"none", "sent", "loaded"}, loaded : Session \cup {None}]
NoEcho == [pc |-> "none", loaded |-> None]

Kicking == [pc : {"idle", "srem", "leave"}, username : Users \cup {None}, sid : Sids \cup {None}]
NotKicking == [pc |-> "idle", username |-> None, sid |-> None]

LobbyTypeOK ==
    /\ game \in PlayGame
    /\ players \in SUBSET GamePlayer
    /\ session \in [Sids -> Session \cup {None}]
    /\ sidOf \in [Users -> Sids \cup {None}]
    /\ admin \in Sids \cup {None}
    /\ inRoom \in SUBSET Sids /\ open \in SUBSET Sids /\ told \in SUBSET Sids
    /\ cookies \in SUBSET GamePlayer
    /\ listed \in SUBSET Users /\ banned \in SUBSET Users
    /\ onStage \in SUBSET Sids /\ raced \in SUBSET Sids /\ crossed \in SUBSET Users
    /\ entering \in [Sids -> Entering]
    /\ echo \in [Sids -> Echo]
    /\ kicking \in Kicking

LobbyOnlyInit ==
    /\ sidOf = [u \in Users |-> None]
    /\ admin = None
    /\ inRoom = {} /\ open = Sids /\ told = {}
    /\ cookies = {} /\ listed = {} /\ banned = {}
    /\ onStage = {} /\ raced = {} /\ crossed = {}
    /\ entering = [s \in Sids |-> NotEntering]
    /\ echo = [s \in Sids |-> NoEcho]
    /\ kicking = NotKicking

LobbyInit ==
    /\ game = NewGame
    /\ players = {}
    /\ session = [s \in Sids |-> None]
    /\ LobbyOnlyInit

(***************************************************************************)
(* Helpers                                                                 *)
(***************************************************************************)

Stage(s, pc) == entering[s].pc = pc

\* A page sends its next join, rejoin or register event only after the
\* answer to the one before.
MayEnter(s) == s \in open /\ Stage(s, "idle")

\* Some handler about this name is running.
NameBusy(u) ==
    \/ \E s \in Sids : entering[s].pc # "idle" /\ entering[s].username = u
    \/ kicking.pc # "idle" /\ kicking.username = u

\* Nothing in the server makes the handlers about one name wait for one another.
Cross(u) == crossed' = IF NameBusy(u) THEN crossed \cup {u} ELSE crossed

\* A handler begins, goes on, and ends.
Begin(s, handler) == entering' = [entering EXCEPT ![s] = handler]
GoTo(s, pc) == entering' = [entering EXCEPT ![s].pc = pc]
Leave(s) == Begin(s, NotEntering)

\* save_session, which fails for a lost connection.
SaveSession(s, data) == session' = IF s \in open THEN [session EXCEPT ![s] = data] ELSE session

\* A loaded session with one field set.
AsHost(data) == [data EXCEPT !.admin = TRUE]
Pinged(data) == [data EXCEPT !.ping = TRUE]

\* enter_room, which a lost connection cannot.
EnterRoom(s) == inRoom' = inRoom \cup ({s} \cap open)

\* time_sync to the connection, whose page will echo it.
TimeSync(s) == echo' = IF s \in open THEN [echo EXCEPT ![s] = [NoEcho EXCEPT !.pc = "sent"]]
                       ELSE echo

(***************************************************************************)
(* join_game.  As in AnswerRound, operators called Bug_... are faulty      *)
(* variants of the definition that follows them.                           *)
(***************************************************************************)

\* The game document; a game that has started lets nobody in.  The join page
\* is shown to a connection that has no session, unless it was kicked.  The
\* captcha cannot refuse: check_captcha is called without await, and a
\* coroutine object is true.
JoinBegin(s, u) ==
    /\ MayEnter(s) /\ session[s] = None /\ u \notin banned
    /\ ~game.started
    /\ Begin(s, Joining(u)) /\ Cross(u)
    /\ UNCHANGED <<game, players, session, sidOf, admin, inRoom, open, cookies, told,
                   listed, banned, onStage, raced, echo, kicking>>

\* The test is left out.
Bug_JoinName(s) ==
    /\ Stage(s, "name")
    /\ GoTo(s, "session")
    /\ UNCHANGED <<game, players, session, sidOf, admin, inRoom, open, cookies, told,
                   listed, banned, onStage, raced, crossed, echo, kicking>>

\* The test whether the name has a key; username_already_exists.
JoinName(s) ==
    /\ Stage(s, "name")
    /\ IF sidOf[entering[s].username] # None THEN Leave(s) ELSE GoTo(s, "session")
    /\ UNCHANGED <<game, players, session, sidOf, admin, inRoom, open, cookies, told,
                   listed, banned, onStage, raced, crossed, echo, kicking>>

\* save_session - an error, for a lost connection - then joined_game, upon
\* which the page stores its cookie.
JoinSession(s) ==
    LET u == entering[s].username IN
    /\ Stage(s, "session")
    /\ SaveSession(s, PlayerSession(u))
    /\ IF s \in open
          THEN /\ cookies' = cookies \cup {[username |-> u, sid |-> s]}
               /\ GoTo(s, "key")
          ELSE Leave(s) /\ UNCHANGED cookies
    /\ UNCHANGED <<game, players, sidOf, admin, inRoom, open, told, listed, banned,
                   onStage, raced, crossed, echo, kicking>>

\* The name's key.
JoinKey(s) ==
    /\ Stage(s, "key")
    /\ sidOf' = [sidOf EXCEPT ![entering[s].username] = s]
    /\ GoTo(s, "stack")
    /\ UNCHANGED <<game, players, session, admin, inRoom, open, cookies, told, listed,
                   banned, onStage, raced, crossed, echo, kicking>>

\* The two fields of the entry swapped.
Bug_JoinStack(s) ==
    /\ Stage(s, "stack")
    /\ players' = players \cup {[username |-> s, sid |-> entering[s].username]}
    /\ GoTo(s, "enter")
    /\ UNCHANGED <<game, session, sidOf, admin, inRoom, open, cookies, told, listed,
                   banned, onStage, raced, crossed, echo, kicking>>

\* GamePlayer.to_player_stack.
JoinStack(s) ==
    /\ Stage(s, "stack")
    /\ players' = players \cup {[username |-> entering[s].username, sid |-> s]}
    /\ GoTo(s, "enter")
    /\ UNCHANGED <<game, session, sidOf, admin, inRoom, open, cookies, told, listed,
                   banned, onStage, raced, crossed, echo, kicking>>

\* player_joined to the host's page, time_sync to the player's, and the room.
JoinEnter(s) ==
    /\ Stage(s, "enter")
    /\ listed' = listed \cup {entering[s].username}
    /\ TimeSync(s) /\ EnterRoom(s)
    /\ Leave(s)
    /\ UNCHANGED <<game, players, session, sidOf, admin, open, cookies, told, banned,
                   onStage, raced, crossed, kicking>>

(***************************************************************************)
(* rejoin_game                                                             *)
(***************************************************************************)

\* A page that finds a joined_game cookie when it connects.
RejoinBegin(s) ==
    /\ MayEnter(s) /\ session[s] = None
    /\ \E cookie \in cookies : Begin(s, Rejoining(cookie)) /\ Cross(cookie.username)
    /\ UNCHANGED <<game, players, session, sidOf, admin, inRoom, open, cookies, told,
                   listed, banned, onStage, raced, echo, kicking>>

\* The cookie has to name the connection that holds the name; time_sync.
RejoinCheck(s) ==
    /\ Stage(s, "re_sid")
    /\ IF sidOf[entering[s].username] = entering[s].old_sid
          THEN GoTo(s, "re_key") /\ TimeSync(s)
          ELSE Leave(s) /\ UNCHANGED echo
    /\ UNCHANGED <<game, players, session, sidOf, admin, inRoom, open, cookies, told,
                   listed, banned, onStage, raced, crossed, kicking>>

RejoinKey(s) ==
    /\ Stage(s, "re_key")
    /\ sidOf' = [sidOf EXCEPT ![entering[s].username] = s]
    /\ GoTo(s, "re_srem")
    /\ UNCHANGED <<game, players, session, admin, inRoom, open, cookies, told, listed,
                   banned, onStage, raced, crossed, echo, kicking>>

\* The entry looked for is that of the new connection.
Bug_RejoinRemove(s) ==
    /\ Stage(s, "re_srem")
    /\ players' = players \ {[username |-> entering[s].username, sid |-> s]}
    /\ GoTo(s, "re_sadd")
    /\ UNCHANGED <<game, session, sidOf, admin, inRoom, open, cookies, told, listed,
                   banned, onStage, raced, crossed, echo, kicking>>

RejoinRemove(s) ==
    /\ Stage(s, "re_srem")
    /\ players' = players \ {[username |-> entering[s].username, sid |-> entering[s].old_sid]}
    /\ GoTo(s, "re_sadd")
    /\ UNCHANGED <<game, session, sidOf, admin, inRoom, open, cookies, told, listed,
                   banned, onStage, raced, crossed, echo, kicking>>

\* The entry is put back as it was.
Bug_RejoinAdd(s) ==
    /\ Stage(s, "re_sadd")
    /\ players' = players \cup {[username |-> entering[s].username, sid |-> entering[s].old_sid]}
    /\ GoTo(s, "re_session")
    /\ UNCHANGED <<game, session, sidOf, admin, inRoom, open, cookies, told, listed,
                   banned, onStage, raced, crossed, echo, kicking>>

RejoinAdd(s) ==
    /\ Stage(s, "re_sadd")
    /\ players' = players \cup {[username |-> entering[s].username, sid |-> s]}
    /\ GoTo(s, "re_session")
    /\ UNCHANGED <<game, session, sidOf, admin, inRoom, open, cookies, told, listed,
                   banned, onStage, raced, crossed, echo, kicking>>

\* rejoined_game leaves out whether the game has started.
Bug_RejoinSession(s) ==
    /\ Stage(s, "re_session")
    /\ SaveSession(s, PlayerSession(entering[s].username)) /\ EnterRoom(s)
    /\ UNCHANGED onStage
    /\ Leave(s)
    /\ UNCHANGED <<game, players, sidOf, admin, open, cookies, told, listed, banned, raced, crossed,
                   echo, kicking>>

\* save_session, the room and rejoined_game, which tells whether the game had
\* started when the handler began.  The page does not renew its cookie.
RejoinSession(s) ==
    /\ Stage(s, "re_session")
    /\ SaveSession(s, PlayerSession(entering[s].username)) /\ EnterRoom(s)
    /\ onStage' = IF entering[s].started THEN onStage \cup ({s} \cap open) ELSE onStage
    /\ Leave(s)
    /\ UNCHANGED <<game, players, sidOf, admin, open, cookies, told, listed, banned,
                   raced, crossed, echo, kicking>>

(***************************************************************************)
(* register_as_admin, register_as_remote                                   *)
(***************************************************************************)

\* The test whether a host is registered; already_registered_as_admin.
RegisterBegin(s) ==
    /\ MayEnter(s) /\ session[s] = None
    /\ admin = None
    /\ GoTo(s, "ad_save")
    /\ UNCHANGED <<game, players, session, sidOf, admin, inRoom, open, cookies, told,
                   listed, banned, onStage, raced, crossed, echo, kicking>>

\* GameSession.save, then registered_as_admin.
RegisterSave(s) ==
    /\ Stage(s, "ad_save")
    /\ admin' = s
    /\ told' = told \cup ({s} \cap open)
    /\ GoTo(s, "ad_session")
    /\ UNCHANGED <<game, players, session, sidOf, inRoom, open, cookies, listed, banned,
                   onStage, raced, crossed, echo, kicking>>

\* save_session and the rooms.
RegisterSession(s) ==
    /\ Stage(s, "ad_session")
    /\ SaveSession(s, AdminSession) /\ EnterRoom(s)
    /\ Leave(s)
    /\ UNCHANGED <<game, players, sidOf, admin, open, cookies, told, listed, banned,
                   onStage, raced, crossed, echo, kicking>>

\* The remote's page - a fresh connection, or that of a host who moved on to
\* it - is told at once; only then get_session raises ConnectionRefusedError
\* if the connection has no session yet.
RemoteBegin(s) ==
    /\ MayEnter(s) /\ (session[s] # None => session[s].admin)
    /\ told' = told \cup {s}
    /\ IF session[s] = None THEN UNCHANGED entering ELSE Begin(s, TakingOver(session[s]))
    /\ UNCHANGED <<game, players, session, sidOf, admin, inRoom, open, cookies, listed,
                   banned, onStage, raced, crossed, echo, kicking>>

\* The session goes back as it was loaded, with admin set.
RemoteSave(s) ==
    /\ Stage(s, "rm_save")
    /\ SaveSession(s, AsHost(entering[s].loaded)) /\ EnterRoom(s)
    /\ Leave(s)
    /\ UNCHANGED <<game, players, sidOf, admin, open, cookies, told, listed, banned,
                   onStage, raced, crossed, echo, kicking>>

(***************************************************************************)
(* echo_time_sync                                                          *)
(***************************************************************************)

\* get_session hands out an empty session where there is none.
Bug_EchoLoad(s) ==
    /\ echo[s].pc = "sent" /\ s \in open
    /\ echo' = [echo EXCEPT ![s] =
          [pc |-> "loaded",
           loaded |-> IF session[s] = None THEN [AdminSession EXCEPT !.admin = FALSE]
                      ELSE session[s]]]
    /\ UNCHANGED <<game, players, session, sidOf, admin, inRoom, open, cookies, told,
                   listed, banned, onStage, raced, crossed, entering, kicking>>

\* A page echoes every time_sync.  get_session refuses a connection that has
\* no session yet, and the ping is never recorded.
EchoLoad(s) ==
    /\ echo[s].pc = "sent" /\ s \in open
    /\ echo' = [echo EXCEPT ![s] = IF session[s] = None THEN NoEcho
                                   ELSE [pc |-> "loaded", loaded |-> session[s]]]
    /\ UNCHANGED <<game, players, session, sidOf, admin, inRoom, open, cookies, told,
                   listed, banned, onStage, raced, crossed, entering, kicking>>

\* The ping is not put in.
Bug_EchoSave(s) ==
    /\ echo[s].pc = "loaded"
    /\ SaveSession(s, echo[s].loaded)
    /\ echo' = [echo EXCEPT ![s] = NoEcho]
    /\ UNCHANGED <<game, players, sidOf, admin, inRoom, open, cookies, told, listed, banned,
                   onStage, raced, crossed, entering, kicking>>

\* The session goes back as it was loaded, with the ping.
EchoSave(s) ==
    /\ echo[s].pc = "loaded"
    /\ SaveSession(s, Pinged(echo[s].loaded))
    /\ echo' = [echo EXCEPT ![s] = NoEcho]
    /\ UNCHANGED <<game, players, sidOf, admin, inRoom, open, cookies, told, listed,
                   banned, onStage, raced, crossed, entering, kicking>>

(***************************************************************************)
(* kick_player                                                             *)
(***************************************************************************)

\* A host kicks a name its page lists; the name's key is read.
KickBegin(u) ==
    /\ kicking.pc = "idle" /\ u \in listed
    /\ \E s \in open : session[s] # None /\ session[s].admin
    /\ kicking' = [pc |-> "srem", username |-> u, sid |-> sidOf[u]] /\ Cross(u)
    /\ UNCHANGED <<game, players, session, sidOf, admin, inRoom, open, cookies, told,
                   listed, banned, onStage, raced, entering, echo>>

\* The player stays in the set.
Bug_KickRemove ==
    /\ kicking.pc = "srem"
    /\ kicking' = [kicking EXCEPT !.pc = "leave"]
    /\ UNCHANGED <<game, players, session, sidOf, admin, inRoom, open, cookies, told,
                   listed, banned, onStage, raced, crossed, entering, echo>>

KickRemove ==
    /\ kicking.pc = "srem"
    /\ players' = players \ {[username |-> kicking.username, sid |-> kicking.sid]}
    /\ kicking' = [kicking EXCEPT !.pc = "leave"]
    /\ UNCHANGED <<game, session, sidOf, admin, inRoom, open, cookies, told, listed,
                   banned, onStage, raced, crossed, entering, echo>>

\* leave_room and the kick event, upon which the page bans itself from the
\* join form; the host's page forgets the name.
KickLeave ==
    /\ kicking.pc = "leave"
    /\ inRoom' = inRoom \ {kicking.sid}
    /\ banned' = IF kicking.sid \in open THEN banned \cup {kicking.username} ELSE banned
    /\ listed' = listed \ {kicking.username}
    /\ kicking' = NotKicking
    /\ UNCHANGED <<game, players, session, sidOf, admin, open, cookies, told, onStage,
                   raced, crossed, entering, echo>>

------------------------------------------------------------------------------

\* A connection is lost: the server takes it out of its rooms and does
\* nothing else (there is no disconnect handler); its handlers run on.
Disconnect(s) ==
    /\ s \in open
    /\ open' = open \ {s}
    /\ inRoom' = inRoom \ {s}
    /\ UNCHANGED <<game, players, session, sidOf, admin, cookies, told, listed, banned,
                   onStage, raced, crossed, entering, echo, kicking>>

EnterStep(s) ==
    \/ JoinName(s) \/ JoinSession(s) \/ JoinKey(s) \/ JoinStack(s) \/ JoinEnter(s)
    \/ RejoinCheck(s) \/ RejoinKey(s) \/ RejoinRemove(s) \/ RejoinAdd(s) \/ RejoinSession(s)
    \/ RegisterSave(s) \/ RegisterSession(s) \/ RemoteSave(s)

LobbyNext ==
    \/ \E s \in Sids, u \in Users : JoinBegin(s, u)
    \/ \E s \in Sids :
          \/ RejoinBegin(s) \/ RegisterBegin(s) \/ RemoteBegin(s)
          \/ EnterStep(s)
          \/ EchoLoad(s) \/ EchoSave(s)
          \/ Disconnect(s)
    \/ \E u \in Users : KickBegin(u)
    \/ KickRemove \/ KickLeave

(***************************************************************************)
(* The event of start_game to the room.  The lobby on its own takes the    *)
(* handler, which AnswerRound has in full, as one step.                    *)
(***************************************************************************)

\* Only the room of the hosts.
Bug_StartIsHeard ==
    /\ onStage' = onStage \cup (inRoom \cap told)
    /\ raced' = raced \cup {s \in Sids : entering[s].username # None}
    /\ UNCHANGED <<sidOf, admin, inRoom, open, cookies, told, listed, banned, crossed, entering,
                   echo, kicking>>

\* Everybody in the room.
StartIsHeard ==
    /\ onStage' = onStage \cup inRoom
    /\ raced' = raced \cup {s \in Sids : entering[s].username # None}
    /\ UNCHANGED <<sidOf, admin, inRoom, open, cookies, told, listed, banned, crossed, entering,
                   echo, kicking>>

GameStarts ==
    /\ ~game.started
    /\ \E s \in open : session[s] # None /\ session[s].admin
    /\ game' = [game EXCEPT !.started = TRUE]
    /\ StartIsHeard
    /\ UNCHANGED <<players, session>>

LobbySpec == LobbyInit /\ [][LobbyNext \/ GameStarts]_lobbyVars

(***************************************************************************)
(* Properties                                                              *)
(***************************************************************************)

\* A player is counted once: the set holds one entry per name.  SCARD of it
\* is "the current number of players to check if everyone has answered"
\* (live_redis_data.md).  The code keeps this only for names whose handlers
\* have not overlapped.
OneEntryPerPlayer ==
    \A p, r \in players : p.username = r.username => p = r \/ p.username \in crossed

\* A counted player's connection is in the room unless it was lost, once its
\* handler is through: everybody the host waits for can hear the questions.
CountedPlayersHear ==
    \A p \in players :
        \/ p.sid \in inRoom
        \/ p.sid \notin open
        \/ NameBusy(p.username)
        \/ p.username \in crossed

\* Conversely a play page that holds a name and hears the game is counted.
HoldersAreCounted ==
    \A u \in Users \ crossed :
        sidOf[u] \in inRoom /\ ~NameBusy(u) => [username |-> u, sid |-> sidOf[u]] \in players

\* The players set is right: one entry for each name that is held, for the
\* connection that holds it and hears the questions - unless two handlers
\* about the name have overlapped.
PlayersAreCounted == OneEntryPerPlayer /\ CountedPlayersHear /\ HoldersAreCounted

\* A name that is held passes only to a connection that presented the cookie
\* of its holder, unless handlers about it have overlapped.
NamesPassByCookie ==
    [][\A u \in Users \ crossed :
          sidOf[u] # None /\ sidOf'[u] # sidOf[u] =>
              /\ sidOf'[u] # None
              /\ entering[sidOf'[u]].old_sid = sidOf[u]]_lobbyVars

\* Sessions are loaded, changed and saved back as a whole, by the time echo
\* among others, which is triggered before rejoin_game has saved the session
\* it needs.  No such save ever turns a player into another one.
PlayersKeepTheirNames ==
    [][\A s \in Sids :
          session[s] # None /\ session[s].username # None =>
              session'[s] # None /\ session'[s].username = session[s].username]_lobbyVars

\* A page that plays the game knows that it has started - from the event to
\* the room or, rejoining, from rejoined_game - unless its handler was at work
\* when the event was sent: it read the game before the start and entered the
\* room after the event.  Such a page shows neither title nor question.
PagesFollowTheStart ==
    game.started =>
        \A s \in inRoom \ raced : session[s].username # None => s \in onStage

\* A page that joined, has its time_sync echoed, and so can answer, unless
\* the echo is still on its way: join_game sends time_sync after it has saved
\* the session that the echo needs (rejoin_game sends it before).
JoinedPagesAreTimed ==
    \A cookie \in cookies :
        cookie.sid \in inRoom /\ echo[cookie.sid].pc = "none" => session[cookie.sid].ping

==============================================================================
