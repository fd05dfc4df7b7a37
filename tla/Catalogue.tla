------------------------------ MODULE Catalogue ------------------------------
(***************************************************************************)
(* What is done to stored quizzes without opening an editor: the dashboard *)
(* of a teacher in both clients, which lists, starts and deletes, the page *)
(* of a public quiz, on which readers rate and start it, and the practice  *)
(* page.  The handlers of quiz.py, community.py and quiztivity are cut     *)
(* where they await the database or Redis: all that count something read   *)
(* the row of the quiz, and write all of it back.                          *)
(***************************************************************************)
EXTENDS Practice, FiniteSets, SequencesExt

CONSTANTS
    Tabs, Pins, Scenes,
    Items           \* the quizzes and quiztivities of the teacher

Users   == {"teacher", "reader"}
Dialogs == {"delete", "start", "analytics", "download"}
Bounds  == {"visits", "starts", "deletes", "rates", "saves", "fail", "expire"}

ASSUME CatalogueAssumption ==
    Scenes \subseteq
       [ui     : [Tabs -> {"web", "legacy", "view", "practice", "editor", "closed"}],
        user   : [Tabs -> Users],
        quizzes : SUBSET Items,        \* the others are quiztivities
        public : SUBSET Items,
        asked  : Seq(Asking),          \* for the practice page
        uses   : SUBSET Dialogs,
        bound  : [Bounds -> Nat]]      \* bounds: how often each may happen

Rows  == [text : Nat, likes : Int, dislikes : Int, views : Nat, plays : Nat]
Games == [id : Nat, user : Users, item : Items, started : BOOLEAN]
Hosts == [pin : Pins, id : Nat]
Answers == {"ok", "401", "404", "409", "failed"}

ASSUME NoneIsNothing == None \notin Items \cup Pins \cup Rows \cup Games \cup Hosts \cup Answers

VARIABLES
    scene,
    db,        \* the rows
    ratings,   \* the rating rows of each user and quiz
    found,     \* the quizzes the search finds
    games,     \* Redis game:<pin>
    lobby,     \* Redis game_in_lobby:<user>
    latest,    \* Redis game_pin:<user>:<quiz>
    starting,  \* the handlers of start_game between their two commands
    signed,    \* the users whose session is valid
    page,      \* the page of each tab
    work,      \* the requests of each tab
    done,      \* history: how often each quiz was viewed, started and saved
    risks,     \* history: what a property excludes
    count      \* how often bounded things happened

server == <<db, ratings, found, games, lobby, latest>>
vars   == <<scene, server, starting, signed, page, work, done, risks, count, practice>>

Web(t)    == scene.ui[t] = "web"
Legacy(t) == scene.ui[t] = "legacy"
IsQuiz(x) == x \in scene.quizzes
User(t)   == scene.user[t]

NewRow == [text |-> 0, likes |-> 0, dislikes |-> 0, views |-> 0, plays |-> 0]

ClosedPage ==
    [stage |-> "closed", visit |-> 0, items |-> [x \in Items |-> None], dialog |-> "none", item |-> None,
     pending |-> 0, removing |-> FALSE, error |-> FALSE, hosts |-> None, seen |-> None, deleted |-> {}]

Init ==
    /\ scene \in Scenes
    /\ db = [x \in Items |-> NewRow] /\ found = scene.quizzes \cap scene.public
    /\ ratings = [u \in Users |-> [x \in Items |-> <<>>]]
    /\ games = [p \in Pins |-> None] /\ lobby = [u \in Users |-> None]
    /\ latest = [u \in Users |-> [x \in Items |-> None]]
    /\ signed = Users /\ starting = {}
    /\ page = [t \in Tabs |-> ClosedPage] /\ work = [t \in Tabs |-> <<>>]
    /\ done = [x \in Items |-> [views |-> 0, plays |-> 0, text |-> 0]]
    /\ risks = {} /\ count = [b \in Bounds |-> 0] /\ practice = None

Bump(b) == count[b] < scene.bound[b] /\ count' = [count EXCEPT ![b] = @ + 1]
Put(t, p) == page' = [page EXCEPT ![t] = p]

\* The stages at which a handler holds a row that it will write.
Writing == {"counted", "rated", "old", "new", "kept"}

Requests ==
    {r \in [kind : {"list", "delete", "start", "view", "rate", "save"}, item : Items \cup {None},
            stage : {"sent", "unlinked", "asking", "pinned", "stored", "done"} \cup Writing,
            answer : Answers \cup {None}, row : Rows \cup {None},
            visit : Nat, likes : BOOLEAN, pin : Pins \cup {None}, id : Nat,
            left : SUBSET {"quizzes", "quiztivities"}, list : [Items -> Rows \cup {None}]] :
        /\ r.kind # "list" => r.item \in Items
        /\ r.stage = "unlinked" => r.kind = "delete"
        /\ r.stage = "counted" => r.kind \in {"start", "view", "save"}
        /\ r.stage \in Writing \ {"counted"} => r.kind = "rate"
        /\ r.stage \in {"asking", "pinned", "stored"} => r.kind = "start"
        /\ r.stage # "done" => r.answer = None
        /\ r.stage \in Writing \/ (r.kind = "view" /\ r.answer = "ok") => r.row \in Rows
        /\ r.stage \in {"pinned", "stored"} \/ (r.kind = "start" /\ r.answer = "ok") => r.pin \in Pins}

PageStates ==
    {p \in [stage : {"closed", "loading", "list", "error", "stuck", "login", "admin", "view", "practice"},
            visit : Nat, items : [Items -> Rows \cup {None}], dialog : Dialogs \cup {"none"},
            item : Items \cup {None}, pending : Nat, removing : BOOLEAN, error : BOOLEAN,
            hosts : Hosts \cup {None}, seen : Rows \cup {None}, deleted : SUBSET Items] :
        /\ p.dialog # "none" => p.stage \in {"list", "view"} /\ p.item \in Items
        /\ p.dialog = "delete" => p.stage = "list"
        /\ p.removing => p.dialog = "delete"
        /\ p.stage = "view" => p.item \in Items /\ p.seen \in Rows
        /\ p.hosts # None => p.stage = "admin"}

Request(t, kind, x) ==
    [kind |-> kind, item |-> x, stage |-> "sent", answer |-> None, row |-> None, visit |-> page[t].visit,
     likes |-> FALSE, pin |-> None, id |-> 0, left |-> {"quizzes", "quiztivities"}, list |-> [y \in Items |-> None]]

Send(t, r) == work' = [work EXCEPT ![t] = Append(@, r)]

InFlight(P(_, _)) == \E t \in Tabs : \E i \in DOMAIN work[t] : P(t, work[t][i])

-----------------------------------------------------------------------------
(* The server. *)

Advance(t, i, r) == work' = [work EXCEPT ![t][i] = r]
Finish(t, i, answer) == Advance(t, i, [work[t][i] EXCEPT !.stage = "done", !.answer = answer])

\* The handler works on a row that was kept since the quiz was made.
Bug_Row(x) == [NewRow EXCEPT !.likes = db[x].likes, !.dislikes = db[x].dislikes]

Row(x) == db[x]

\* The row is written although it was deleted.
Bug_Update(x, row) == db' = [db EXCEPT ![x] = row]

\* quiz.update() writes every column, if there is a row.
Update(x, row) == db' = [db EXCEPT ![x] = IF @ = None THEN None ELSE row]

\* A handler reads the row that another one is about to write.
Overlaps(x) == InFlight(LAMBDA t, r : r.item = x /\ r.stage \in Writing)
Hold(x) == risks' = IF Overlaps(x) THEN risks \cup {"overlap"} ELSE risks

Tally(x, what) == done' = [done EXCEPT ![x][what] = @ + 1]

\* Of a dashboard's two requests the legacy page sends the second after the first.
InOrder(t, r, k) == Web(t) \/ k = "quizzes" \/ "quizzes" \notin r.left

\* The two requests read the rows one after the other.
List(t, i, r) ==
    /\ UNCHANGED <<server, done, risks>>
    /\ IF User(t) \notin signed THEN Finish(t, i, "401")
       ELSE \E k \in r.left :
              /\ InOrder(t, r, k)
              /\ LET left == r.left \ {k}
                     list == [x \in Items |-> IF IsQuiz(x) = (k = "quizzes") THEN db[x] ELSE r.list[x]]
                 IN  Advance(t, i, [r EXCEPT !.left = left, !.list = list,
                                             !.stage = IF left = {} THEN "done" ELSE "sent",
                                             !.answer = IF left = {} THEN "ok" ELSE None])

\* delete_quiz: pictures and the search entry go before the row, and the row
\* of a rated quiz cannot be deleted: its ratings refer to it.
DeleteQuiz(t, i, r) ==
    LET x == r.item IN
    \/ /\ r.stage = "sent" /\ UNCHANGED server
       /\ User(t) \notin signed \/ db[x] = None \/ User(t) # "teacher"
       /\ Finish(t, i, IF User(t) \notin signed THEN "401" ELSE "404")
    \/ /\ r.stage = "sent" /\ User(t) \in signed /\ db[x] # None /\ User(t) = "teacher"
       /\ found' = found \ {x}
       /\ Advance(t, i, [r EXCEPT !.stage = "unlinked"])
       /\ UNCHANGED <<db, ratings, games, lobby, latest>>
    \/ /\ r.stage = "unlinked"
       /\ IF \E u \in Users : ratings[u][x] # <<>>
            THEN Finish(t, i, "failed") /\ UNCHANGED server
            ELSE /\ db' = [db EXCEPT ![x] = None] /\ Finish(t, i, "ok")
                 /\ UNCHANGED <<ratings, found, games, lobby, latest>>

DeleteQuiztivity(t, i, r) ==
    LET x == r.item IN
    IF db[x] = None THEN Finish(t, i, "404") /\ UNCHANGED server
    ELSE /\ db' = [db EXCEPT ![x] = None] /\ Finish(t, i, "ok")
         /\ UNCHANGED <<ratings, found, games, lobby, latest>>

MayStart(t, x) == db[x] # None /\ (User(t) = "teacher" \/ x \in scene.public)

\* A pin is taken without looking for a game that has it.
Bug_FreePins == Pins

FreePins == {p \in Pins : games[p] = None}

SetLobby(t, r) ==
    /\ lobby' = [lobby EXCEPT ![User(t)] = r.pin]
    /\ latest' = [latest EXCEPT ![User(t)][r.item] = r.pin]

SetGame(t, r) == games' = [games EXCEPT ![r.pin] = [id |-> r.id, user |-> User(t), item |-> r.item,
                                                    started |-> FALSE]]

\* The remote is told of the game before there is one.
Bug_Keep(t, i, r) ==
    \/ /\ r.stage = "pinned" /\ SetLobby(t, r)
       /\ Advance(t, i, [r EXCEPT !.stage = "stored"]) /\ UNCHANGED <<games>>
    \/ /\ r.stage = "stored" /\ SetGame(t, r)
       /\ Finish(t, i, "ok") /\ UNCHANGED <<lobby, latest>>

Keep(t, i, r) ==
    \/ /\ r.stage = "pinned" /\ SetGame(t, r)
       /\ Advance(t, i, [r EXCEPT !.stage = "stored"]) /\ UNCHANGED <<lobby, latest>>
    \/ /\ r.stage = "stored" /\ SetLobby(t, r)
       /\ Finish(t, i, "ok") /\ UNCHANGED games

\* start_quiz: the play is counted, a free pin looked for and then taken.
StartQuiz(t, i, r) ==
    LET x == r.item IN
    \/ /\ r.stage = "sent" /\ ~(User(t) \in signed /\ MayStart(t, x))
       /\ Finish(t, i, IF User(t) \notin signed THEN "401" ELSE "404")
       /\ UNCHANGED <<server, done, risks>>
    \/ /\ r.stage = "sent" /\ User(t) \in signed /\ MayStart(t, x) /\ Hold(x)
       /\ Advance(t, i, [r EXCEPT !.stage = "counted", !.row = [Row(x) EXCEPT !.plays = @ + 1]])
       /\ UNCHANGED <<server, done>>
    \/ /\ r.stage = "counted" /\ Update(x, r.row) /\ Tally(x, "plays")
       /\ Advance(t, i, [r EXCEPT !.stage = "asking"])
       /\ UNCHANGED <<ratings, found, games, lobby, latest, risks>>
    \/ /\ r.stage = "asking"
       /\ \E p \in FreePins :
             /\ Advance(t, i, [r EXCEPT !.stage = "pinned", !.pin = p])
             /\ risks' = IF InFlight(LAMBDA u, s : s.stage = "pinned" /\ s.pin = p)
                         THEN risks \cup {"race"} ELSE risks
       /\ UNCHANGED <<server, done>>
    \/ Keep(t, i, r) /\ UNCHANGED <<db, ratings, found, done, risks>>

View(t, i, r) ==
    LET x == r.item IN
    \/ /\ r.stage = "sent" /\ UNCHANGED <<server, done>>
       /\ IF db[x] = None THEN Finish(t, i, "404") /\ UNCHANGED risks
          ELSE /\ Hold(x)
               /\ Advance(t, i, [r EXCEPT !.stage = "counted", !.row = [Row(x) EXCEPT !.views = @ + 1]])
    \/ /\ r.stage = "counted" /\ Update(x, r.row) /\ Tally(x, "views") /\ Finish(t, i, "ok")
       /\ UNCHANGED <<ratings, found, games, lobby, latest, risks>>

\* The end of finish_edit, whose other steps are in Editor.
Save(t, i, r) ==
    LET x == r.item IN
    \/ /\ r.stage = "sent" /\ UNCHANGED <<server, done>>
       /\ IF db[x] = None THEN Finish(t, i, "404") /\ UNCHANGED risks
          ELSE /\ Hold(x)
               /\ Advance(t, i, [r EXCEPT !.stage = "counted", !.row = [Row(x) EXCEPT !.text = @ + 1]])
    \/ /\ r.stage = "counted" /\ Update(x, r.row) /\ Tally(x, "text") /\ Finish(t, i, "ok")
       /\ UNCHANGED <<ratings, found, games, lobby, latest, risks>>

\* The counter of the other opinion keeps the rating that was taken back.
Bug_Withdraw(row, likes) == row

Withdraw(row, likes) == IF likes THEN [row EXCEPT !.dislikes = @ - 1] ELSE [row EXCEPT !.likes = @ - 1]

\* One row goes, if it is still there.
Without(list, likes) ==
    IF \E i \in DOMAIN list : list[i] = likes
      THEN RemoveAt(list, CHOOSE i \in DOMAIN list : list[i] = likes) ELSE list

Cast(row, likes) == IF likes THEN [row EXCEPT !.likes = @ + 1] ELSE [row EXCEPT !.dislikes = @ + 1]

\* Nothing looks for an earlier rating.
Bug_Rated(t, r) == "new"

\* What the rating rows of this user say: more than one is an error.
Rated(t, r) ==
    LET mine == ratings[User(t)][r.item] IN
    IF Len(mine) > 1 THEN "failed"
    ELSE IF mine = <<>> THEN "new"
    ELSE IF mine[1] = r.likes THEN "409" ELSE "old"

\* rate_quiz: the old rating is deleted, a new one saved, the row written last.
Rate(t, i, r) ==
    LET x == r.item
        mine == ratings[User(t)][x]
    IN
    \/ /\ r.stage = "sent" /\ UNCHANGED server
       /\ IF User(t) \notin signed \/ db[x] = None \/ x \notin scene.public
            THEN Finish(t, i, IF User(t) \notin signed THEN "401" ELSE "404") /\ UNCHANGED risks
            ELSE Hold(x) /\ Advance(t, i, [r EXCEPT !.stage = "rated", !.row = Row(x)])
    \/ /\ r.stage = "rated" /\ UNCHANGED <<server, risks>>
       /\ IF Rated(t, r) \in {"failed", "409"} THEN Finish(t, i, Rated(t, r))
          ELSE Advance(t, i, [r EXCEPT !.stage = Rated(t, r)])
    \/ /\ r.stage = "old"
       /\ ratings' = [ratings EXCEPT ![User(t)][x] = Without(@, ~r.likes)]
       /\ Advance(t, i, [r EXCEPT !.stage = "new", !.row = Withdraw(@, r.likes)])
       /\ UNCHANGED <<db, found, games, lobby, latest, risks>>
    \/ /\ r.stage = "new"
       /\ IF db[x] = None THEN Finish(t, i, "failed") /\ UNCHANGED ratings
          ELSE /\ ratings' = [ratings EXCEPT ![User(t)][x] = Append(mine, r.likes)]
               /\ Advance(t, i, [r EXCEPT !.stage = "kept", !.row = Cast(@, r.likes)])
       /\ UNCHANGED <<db, found, games, lobby, latest, risks>>
    \/ /\ r.stage = "kept" /\ Update(x, r.row) /\ Finish(t, i, "ok")
       /\ UNCHANGED <<ratings, found, games, lobby, latest, risks>>

Handle(t) ==
    /\ \E i \in DOMAIN work[t] : LET r == work[t][i] IN
         /\ r.stage # "done"
         /\ \/ r.kind = "list" /\ List(t, i, r)
            \/ r.kind = "delete" /\ IsQuiz(r.item) /\ DeleteQuiz(t, i, r) /\ UNCHANGED <<done, risks>>
            \/ r.kind = "delete" /\ ~IsQuiz(r.item) /\ DeleteQuiztivity(t, i, r) /\ UNCHANGED <<done, risks>>
            \/ r.kind = "start" /\ StartQuiz(t, i, r)
            \/ r.kind = "view" /\ View(t, i, r)
            \/ r.kind = "save" /\ Save(t, i, r)
            \/ r.kind = "rate" /\ Rate(t, i, r) /\ UNCHANGED done
    /\ UNCHANGED <<scene, starting, signed, page, count, practice>>

\* The socket's start_game saves the game as started.
HostStarts(t) ==
    LET p == page[t].hosts.pin IN
    /\ page[t].hosts # None /\ ~games[p].started
    /\ games' = [games EXCEPT ![p].started = TRUE]
    /\ starting' = starting \cup {<<p, games[p].user>>}
    /\ UNCHANGED <<scene, db, ratings, found, lobby, latest, signed, page, work, done, risks, count, practice>>

\* Its next command: no game of this user waits any more, whichever was named.
StartGame(u, p) ==
    /\ <<p, u>> \in starting /\ starting' = starting \ {<<p, u>>}
    /\ lobby' = [lobby EXCEPT ![u] = None]
    /\ UNCHANGED <<scene, db, ratings, found, games, latest, signed, page, work, done, risks, count, practice>>

LobbyExpires(u) ==
    /\ lobby[u] # None /\ lobby' = [lobby EXCEPT ![u] = None] /\ Bump("expire")
    /\ UNCHANGED <<scene, db, ratings, found, games, latest, starting, signed, page, work, done, risks, practice>>

SessionExpires(u) ==
    /\ u \in signed /\ signed' = signed \ {u} /\ Bump("expire")
    /\ UNCHANGED <<scene, server, starting, page, work, done, risks, practice>>

\* A request does not get there, or its answer does not come back.
Fails(t) ==
    /\ \E i \in DOMAIN work[t] :
          /\ work[t][i].stage \in {"sent", "done"} /\ Finish(t, i, "failed")
          /\ risks' = IF work[t][i].kind = "start" /\ work[t][i].answer = "ok"
                      THEN risks \cup {"stray"} ELSE risks
    /\ Bump("fail")
    /\ UNCHANGED <<scene, server, starting, signed, page, done, practice>>

-----------------------------------------------------------------------------
(* The pages. *)

Rest == UNCHANGED <<scene, server, starting, signed, done, practice>>

\* A game this page asked for: the web client stays when its routes change.
Starting(t) == \E i \in DOMAIN work[t] :
                  work[t][i].kind = "start" /\ (Web(t) \/ work[t][i].visit = page[t].visit)

Open(t, x) ==
    /\ page[t].stage = "closed" \/ (Web(t) /\ page[t].stage = "error") \/ page[t].stage = "view"
    /\ ~Starting(t) /\ Bump("visits")
    /\ Put(t, [ClosedPage EXCEPT !.stage = "loading", !.visit = page[t].visit + 1, !.item = x,
                                 !.deleted = page[t].deleted])
    /\ Send(t, [Request(t, IF Web(t) \/ Legacy(t) THEN "list" ELSE "view", x) EXCEPT !.visit = @ + 1])
    /\ Rest /\ UNCHANGED risks

OpenPage(t) ==
    \/ /\ Web(t) \/ Legacy(t)
       /\ Open(t, None)
    \/ \E x \in scene.quizzes : scene.ui[t] \in {"view", "practice"} /\ Open(t, x)

\* The buttons of a card: only a quiz can be started and downloaded.
DashboardItemCard(t, x, dialog) ==
    /\ Web(t) /\ page[t].stage = "list" /\ page[t].dialog = "none" /\ page[t].items[x] # None
    /\ dialog \in scene.uses
    /\ dialog \in {"start", "download"} => IsQuiz(x)
    /\ Put(t, [page[t] EXCEPT !.dialog = dialog, !.item = x])
    /\ Rest /\ UNCHANGED <<work, risks, count>>

LegacyCard(t, x, dialog) ==
    /\ Legacy(t) /\ page[t].stage = "list" /\ page[t].dialog = "none" /\ page[t].items[x] # None
    /\ dialog \in scene.uses \ {"delete"}
    /\ dialog \in {"start", "download"} => IsQuiz(x)
    /\ Put(t, [page[t] EXCEPT !.dialog = dialog, !.item = x])
    /\ Rest /\ UNCHANGED <<work, risks, count>>

\* The page of a quiz has the same popups, for readers who are signed in.
ViewPopup(t, dialog) ==
    /\ page[t].stage = "view" /\ page[t].dialog = "none" /\ User(t) \in signed
    /\ dialog \in scene.uses \cap {"start", "download"}
    /\ Put(t, [page[t] EXCEPT !.dialog = dialog])
    /\ Rest /\ UNCHANGED <<work, risks, count>>

\* A deletion under way does not keep its dialog.
Bug_CloseDialog(t) ==
    /\ Web(t) /\ page[t].dialog # "none"
    /\ Put(t, [page[t] EXCEPT !.dialog = "none", !.pending = 0, !.error = FALSE])
    /\ Rest /\ UNCHANGED <<work, risks, count>>

\* The form of the start dialog goes with it, a deletion under way keeps its dialog.
CloseDialog(t) ==
    /\ Web(t) /\ page[t].dialog # "none" /\ ~page[t].removing
    /\ Put(t, [page[t] EXCEPT !.dialog = "none", !.pending = 0, !.error = FALSE])
    /\ Rest /\ UNCHANGED <<work, risks, count>>

\* Escape or a click beside it closes a legacy popup, what it sent goes on.
LegacyClose(t) ==
    /\ ~Web(t) /\ page[t].dialog # "none"
    /\ Put(t, [page[t] EXCEPT !.dialog = "none"])
    /\ Rest /\ UNCHANGED <<work, risks, count>>

ConfirmDelete(t) ==
    /\ Web(t) /\ page[t].dialog = "delete" /\ ~page[t].removing /\ Bump("deletes")
    /\ Put(t, [page[t] EXCEPT !.removing = TRUE])
    /\ Send(t, Request(t, "delete", page[t].item))
    /\ Rest /\ UNCHANGED risks

LegacyDelete(t, x) ==
    /\ Legacy(t) /\ page[t].stage = "list" /\ page[t].dialog = "none" /\ page[t].items[x] # None
    /\ "delete" \in scene.uses /\ Bump("deletes")
    /\ Send(t, Request(t, "delete", x))
    /\ Rest /\ UNCHANGED <<page, risks>>

Leave(t, stage, hosts) == [ClosedPage EXCEPT !.stage = stage, !.hosts = hosts, !.visit = page[t].visit + 1,
                                             !.deleted = page[t].deleted]

Stray(b) == risks' = IF b THEN risks \cup {"stray"} ELSE risks

\* The page of a game is left, which tells the server nothing: a game that
\* still waits goes on waiting.
LeaveHost(t) ==
    /\ page[t].hosts # None
    /\ Put(t, Leave(t, "closed", None))
    /\ Stray(lobby[User(t)] = page[t].hosts.pin)
    /\ Rest /\ UNCHANGED <<work, count>>

StartRequest(t) == [Request(t, "start", page[t].item) EXCEPT !.id = count["starts"] + 1]

\* The button stays enabled while the game is being started.
Bug_StartForm(t) ==
    /\ Web(t) /\ page[t].dialog = "start" /\ Bump("starts")
    /\ Put(t, [page[t] EXCEPT !.pending = count["starts"] + 1, !.error = FALSE])
    /\ Stray(Starting(t) /\ page[t].pending = 0)
    /\ Send(t, StartRequest(t))
    /\ Rest

StartForm(t) ==
    /\ Web(t) /\ page[t].dialog = "start" /\ page[t].pending = 0 /\ Bump("starts")
    /\ Put(t, [page[t] EXCEPT !.pending = count["starts"] + 1, !.error = FALSE])
    /\ Stray(Starting(t))
    /\ Send(t, StartRequest(t))
    /\ Rest

\* The legacy popup's button is not disabled while it loads.
LegacyStart(t) ==
    /\ ~Web(t) /\ page[t].dialog = "start" /\ Bump("starts")
    /\ Stray(Starting(t))
    /\ Send(t, StartRequest(t))
    /\ Rest /\ UNCHANGED page

\* The buttons of the rating box, which nothing disables.
RatingComponent(t, likes) ==
    /\ page[t].stage = "view" /\ page[t].dialog = "none" /\ Bump("rates")
    /\ Send(t, [Request(t, "rate", page[t].item) EXCEPT !.likes = likes])
    /\ risks' = IF InFlight(LAMBDA u, r : r.kind = "rate" /\ User(u) = User(t) /\ r.stage # "done")
                THEN risks \cup {"twice"} ELSE risks
    /\ Rest /\ UNCHANGED page

\* Another tab of the teacher saves the quiz it edits.
SaveEdit(t, x) ==
    /\ scene.ui[t] = "editor" /\ Bump("saves") /\ Send(t, Request(t, "save", x))
    /\ Rest /\ UNCHANGED <<page, risks>>

-----------------------------------------------------------------------------
(* The answers. *)

Taken(t, i) == work' = [work EXCEPT ![t] = RemoveAt(@, i)]

Listed(t, i, r) ==
    /\ Taken(t, i) /\ UNCHANGED <<risks, practice>>
    /\ LET p == [page[t] EXCEPT !.removing = FALSE, !.dialog = IF page[t].removing THEN "none" ELSE @] IN
       Put(t, IF r.answer = "ok" THEN [p EXCEPT !.stage = "list", !.items = r.list]
              ELSE [p EXCEPT !.stage = "error"])

\* Without the two lists the legacy page stays as it was while it loaded.
LegacyListed(t, i, r) ==
    /\ Taken(t, i) /\ UNCHANGED <<risks, practice>>
    /\ Put(t, IF r.answer = "ok" THEN [page[t] EXCEPT !.stage = "list", !.items = r.list]
              ELSE [page[t] EXCEPT !.stage = "stuck"])

\* A deletion that failed leaves its dialog open.
Bug_Settled(t) == [page[t] EXCEPT !.removing = FALSE]

Settled(t) == [page[t] EXCEPT !.removing = FALSE, !.dialog = "none"]

\* The list is not fetched again.
Bug_Removed(t, i, r) ==
    /\ UNCHANGED <<risks, practice>> /\ Taken(t, i)
    /\ Put(t, IF r.answer = "ok" THEN [page[t] EXCEPT !.removing = FALSE, !.dialog = "none",
                                                      !.deleted = @ \cup {r.item}]
              ELSE Settled(t))

\* The list is fetched again, and the dialog closes after that.
Removed(t, i, r) ==
    /\ UNCHANGED <<risks, practice>>
    /\ IF r.answer = "ok"
         THEN /\ Put(t, [page[t] EXCEPT !.deleted = @ \cup {r.item}])
              /\ work' = [work EXCEPT ![t] = Append(RemoveAt(@, i), Request(t, "list", None))]
         ELSE Taken(t, i) /\ Put(t, Settled(t))

\* window.location.reload(), whether it worked or not.
Reloaded(t, i, r) ==
    /\ Stray(Starting(t)) /\ UNCHANGED practice
    /\ Put(t, [ClosedPage EXCEPT !.stage = "loading", !.visit = page[t].visit + 1,
                                 !.deleted = IF r.answer = "ok" THEN page[t].deleted \cup {r.item}
                                             ELSE page[t].deleted])
    /\ work' = [work EXCEPT ![t] = Append(RemoveAt(@, i), [Request(t, "list", None) EXCEPT !.visit = @ + 1])]

\* The answer to a form that was closed counts too, unless it is a failure.
Started(t, i, r) ==
    /\ Taken(t, i) /\ UNCHANGED <<risks, practice>>
    /\ CASE r.answer = "ok"  -> Put(t, Leave(t, "admin", [pin |-> r.pin, id |-> r.id]))
         [] r.answer = "401" -> Put(t, Leave(t, "login", None))
         [] OTHER -> IF r.id = page[t].pending
                     THEN Put(t, [page[t] EXCEPT !.pending = 0, !.error = TRUE]) ELSE UNCHANGED page

\* The first answer takes the legacy page away, to the game or to the login.
LegacyStarted(t, i, r) ==
    /\ Taken(t, i) /\ UNCHANGED <<risks, practice>>
    /\ Put(t, IF r.answer = "ok" THEN Leave(t, "admin", [pin |-> r.pin, id |-> r.id])
              ELSE Leave(t, "login", None))

Viewed(t, i, r) ==
    /\ Taken(t, i) /\ UNCHANGED risks
    /\ Put(t, [page[t] EXCEPT !.stage = CASE r.answer # "ok" -> "error"
                                          [] r.answer = "ok" -> scene.ui[t],
                              !.seen = IF r.answer = "ok" THEN r.row ELSE None])
    /\ IF scene.ui[t] = "practice" /\ r.answer = "ok"
         THEN PracticeOpens(scene.asked) ELSE UNCHANGED practice

\* The page counts the new rating, and does not take the old one back.
RatingTaken(t, i, r) ==
    /\ Taken(t, i) /\ UNCHANGED <<risks, practice>>
    /\ Put(t, IF r.answer = "ok" THEN [page[t] EXCEPT !.seen = Cast(@, r.likes)] ELSE page[t])

Ignored(t, i, r) == Taken(t, i) /\ UNCHANGED <<page, risks, practice>>

Arrives(t) ==
    /\ \E i \in DOMAIN work[t] : LET r == work[t][i] IN
         /\ r.stage = "done"
         /\ IF r.visit # page[t].visit /\ ~(Web(t) /\ r.kind = "start") THEN Ignored(t, i, r)
            ELSE \/ r.kind = "list" /\ Web(t) /\ Listed(t, i, r)
                 \/ r.kind = "list" /\ Legacy(t) /\ LegacyListed(t, i, r)
                 \/ r.kind = "delete" /\ Web(t) /\ Removed(t, i, r)
                 \/ r.kind = "delete" /\ Legacy(t) /\ Reloaded(t, i, r)
                 \/ r.kind = "start" /\ Web(t) /\ Started(t, i, r)
                 \/ r.kind = "start" /\ ~Web(t) /\ LegacyStarted(t, i, r)
                 \/ r.kind = "view" /\ Viewed(t, i, r)
                 \/ r.kind = "rate" /\ RatingTaken(t, i, r)
                 \/ r.kind = "save" /\ Ignored(t, i, r)
    /\ UNCHANGED <<scene, server, starting, signed, done, count>>

Practise == PracticeStep /\ UNCHANGED <<scene, server, starting, signed, page, work, done, risks, count>>

Next ==
    \/ \E t \in Tabs :
          \/ Handle(t) \/ Arrives(t) \/ Fails(t) \/ HostStarts(t)
          \/ OpenPage(t) \/ LeaveHost(t) \/ CloseDialog(t) \/ LegacyClose(t) \/ ConfirmDelete(t) \/ StartForm(t) \/ LegacyStart(t)
          \/ \E dialog \in Dialogs : ViewPopup(t, dialog)
          \/ \E likes \in BOOLEAN : RatingComponent(t, likes)
          \/ \E x \in Items : LegacyDelete(t, x) \/ SaveEdit(t, x)
          \/ \E x \in Items, dialog \in Dialogs : DashboardItemCard(t, x, dialog) \/ LegacyCard(t, x, dialog)
    \/ \E u \in Users : LobbyExpires(u) \/ SessionExpires(u) \/ \E p \in Pins : StartGame(u, p)
    \/ Practise

\* The server handles what it was sent, and answers reach the pages.
CatalogueSpec ==
    Init /\ [][Next]_vars /\ \A t \in Tabs : WF_vars(Handle(t)) /\ WF_vars(Arrives(t))
-----------------------------------------------------------------------------

CatalogueTypeOK ==
    /\ db \in [Items -> Rows \cup {None}] /\ found \subseteq Items /\ signed \subseteq Users
    /\ ratings \in [Users -> [Items -> Seq(BOOLEAN)]]
    /\ latest \in [Users -> [Items -> Pins \cup {None}]] /\ lobby \in [Users -> Pins \cup {None}]
    /\ games \in [Pins -> Games \cup {None}]
    /\ starting \subseteq Pins \X Users
    /\ page \in [Tabs -> PageStates] /\ work \in [Tabs -> Seq(Requests)]
    /\ done \in [Items -> [views : Nat, plays : Nat, text : Nat]]
    /\ risks \subseteq {"overlap", "race", "stray", "twice"} /\ count \in [Bounds -> Nat]

\* The game of a teacher who was sent to host it is not overwritten by a later
\* game, unless two starts looked for the same pin before either took it.
HostsKeepTheirPins ==
    "race" \notin risks =>
       \A t \in Tabs : page[t].hosts # None => games[page[t].hosts.pin].id = page[t].hosts.id

\* What a page was told is deleted stays deleted, whatever handler still holds
\* the row and writes it back.
DeletedStaysGone ==
    \A t \in Tabs : \A x \in page[t].deleted : db[x] = None

\* A list that is shown after the page's own deletion does not offer the
\* deleted quiz again.
DeletedIsNotListed ==
    \A t \in Tabs : (page[t].stage = "list" /\ ~page[t].removing) =>
       \A x \in page[t].deleted :
          page[t].items[x] = None \/ \E i \in DOMAIN work[t] : work[t][i].kind \in {"delete", "list"}

\* A deletion that was confirmed holds, in the database and on the pages.
DeletedIsGone == DeletedStaysGone /\ DeletedIsNotListed

RatingsOf(x, likes) ==
    Cardinality(UNION {{u} \X {i \in DOMAIN ratings[u][x] : ratings[u][x][i] = likes} : u \in Users})

\* The counters of a quiz agree with the rating rows when nobody is rating,
\* unless two handlers held its row at once.
RatingsAreCounted ==
    "overlap" \notin risks =>
       \A x \in Items : (db[x] # None /\ ~Overlaps(x)) =>
          db[x].likes = RatingsOf(x, TRUE) /\ db[x].dislikes = RatingsOf(x, FALSE)

\* A quiz has the text of the last save and all its views and plays, whatever
\* else was counted meanwhile; handlers that held its row at once may lose
\* some of it and never add any.
NothingIsUndone ==
    \A x \in Items : db[x] # None =>
       /\ db[x].text <= done[x].text /\ db[x].views <= done[x].views /\ db[x].plays <= done[x].plays
       /\ "overlap" \notin risks =>
             db[x].text = done[x].text /\ db[x].views = done[x].views /\ db[x].plays = done[x].plays

\* A user has one rating of a quiz, however often they change their mind,
\* unless they rate again before the answer.
OneRatingEach ==
    "twice" \notin risks => \A u \in Users, x \in Items : Len(ratings[u][x]) <= 1

\* The rows add up, with each other and with what was done, although most
\* handlers write a whole row for one field of it.
RowsAddUp == CatalogueTypeOK /\ RatingsAreCounted /\ NothingIsUndone /\ OneRatingEach

\* What Redis names as a user's waiting game, and as the last game of a quiz,
\* is there, is theirs, and in the first case has not started or is about to
\* be named no more.
NamesOwnGame ==
    "race" \notin risks =>
       \A u \in Users :
          /\ lobby[u] # None =>
                games[lobby[u]] # None /\ games[lobby[u]].user = u
                /\ (games[lobby[u]].started => <<lobby[u], u>> \in starting)
          /\ \A x \in Items : latest[u][x] # None =>
                games[latest[u][x]] # None /\ games[latest[u][x]].user = u /\ games[latest[u][x]].item = x

\* The game a remote is offered is one that a page of the user hosts, unless a
\* start was pressed twice, left or closed, its answer was lost, or the page
\* of the game was left while it waited.
RemoteJoinsHosted ==
    ("stray" \notin risks /\ "race" \notin risks) =>
       \A u \in Users :
          (lobby[u] # None /\ ~InFlight(LAMBDA t, r : r.kind = "start" /\ User(t) = u)) =>
             \E t \in Tabs : User(t) = u /\ page[t].hosts # None /\ page[t].hosts.pin = lobby[u]

\* Teachers, pins and remotes stay together: a hosted game keeps its pin, and
\* what Redis names as somebody's game is theirs and hosted.
GamesKeepTheirHosts == HostsKeepTheirPins /\ NamesOwnGame /\ RemoteJoinsHosted

Waiting(t) == page[t].removing \/ page[t].pending # 0

\* The web client's delete dialog closes when the deletion settles; its start
\* dialog goes, to the game or the login, or shows an error.
PressedSettles ==
    \A t \in Tabs : Waiting(t) ~> (page[t].dialog = "none" \/ page[t].error)
=============================================================================
