# LingoLab in TLA+

LingoLab is a fork of ClassQuiz: a teacher runs a quiz, players join with a pin
and answer on their own devices. This directory specifies the program, checks
the specifications with TLC and proves theorems about them with TLAPS. The
specifications are written from the source (`src/`), one action per step the
program takes; `PROJECT.json` says for each definition which lines it stands for.

## 1. The system

### How it runs

The backend (`classquiz/`) is a FastAPI application with a python-socketio server
in ONE process with ONE asyncio event loop (`docker-compose.yml` sets
`MAX_WORKERS: "1"`). Every Socket.IO event and every HTTP request is a task. A
task runs undisturbed from one `await` to the next and can be interrupted at
each. Game state is kept in Redis, whose single commands are atomic and whose
sequences of commands are not: nothing in the program uses MULTI, WATCH or a
lock. Accounts, quizzes, files and ratings are rows of a PostgreSQL database
that are read, changed and written back by ORM calls, again without
transactions. An arq worker runs background jobs in a second process. Two web
clients exist: the Svelte pages in `frontend/`, which play games, and a React
client in `web/`, which does not yet.

The granularity of all models follows from this: **an action is one Redis command
(or database call) together with the Python code up to the next one.**

### Inventory

| component | source | state | operations | what is hard | module |
|---|---|---|---|---|---|
| lobby | `socket_server/__init__.py` | name keys, `players` set, host key, sessions, rooms, cookies of the pages | join, rejoin, register as host or remote, time echo, kick, lose the connection | names tested and taken in separate commands; pages that reload | `Lobby` |
| questions and answers | `socket_server/` | game document, start time, an answer list per question, scores | start, set question, show results, submit | lists and documents read, changed and written back whole | `AnswerRound` |
| game pages | `routes/play`, `routes/admin`, `routes/remote`, `lib/play` | what each page shows, selects and counts, timers | the host's buttons, answers, reloads, events | every page rebuilds the game from events that come late | `GamePages` |
| login | `routers/login.py`, `features/auth`, `routes/account/login` | login session in Redis, step and method of each page | start, two steps, backup code | order of the steps, answers that come late | `SignIn` |
| sessions and accounts | `routers/users/`, `oauth/`, `features/settings`, `routes/account` | account row, session rows, tokens, cached identities | register, reset, change, end sessions | pages that trust a cached identity | `Accounts` |
| caches, second factors | `cache.py`, `users/twofa.py`, `users/webauthn.py` | copy of the row in Redis, security keys, challenges | fill, clear, write back | rows written whole from old copies | `Accounts` |
| editors | `routers/editor.py`, `features/editor`, `lib/editor` | form, draft, edit sessions, rows, search index | gestures, save, expire, crash | saves repeated; parts of a form that outlive their question | `Editor`, `EditorData` |
| pictures and the worker | `routers/storage.py`, `worker/storage.py` | files, links from quizzes to files, jobs | upload, delete, mend the links | a job that runs beside the next save | `Editor` |
| lifecycle of games | `routers/quiz.py`, start dialogs | pins, game, lobby and "latest game" keys | start, offer to the remote | pins tested and taken apart; buttons that stay enabled | `Catalogue` |
| dashboard, quiz page, ratings | `routers/quiz.py`, `community.py`, dashboards, `routes/view` | rows with their counters, rating rows, lists of the pages | list, view, start, delete, rate | rows written whole; counters apart from their rows | `Catalogue` |
| practice page | `routes/practice`, `lib/practice` | a copy of the quiz, clock, choice | answer, go ahead and back | a copy shuffled in place | `Practice` |
| scoring, box controllers, live HTTP API, results, shares, importers, e-mails, search, S3 | see section 6 | | | | none |

How they interact: pages call the socket server by events and hear from it
through rooms (one room per game, one for its hosts). The lobby decides who is in
the `players` set; the answering handlers compare the length of an answer list
with its size. The host's page steers by `start_game` and `set_question_number`;
what it has selected and what the server plays are two counters. HTTP routes
authenticate through the copy of the account in Redis. The editor, the worker and
the files page share the links from quizzes to pictures; the editor, the
dashboard, starts, views and ratings all write the same row. `PROJECT.json` has
the components with their status, and under `hazards` the places where this code
is hard to test, with the properties aimed at them.

## 2. The modules

| module | models |
|---|---|
| `GameStore` | the records of one running game, shared by the others |
| `AnswerRound` | `start_game`, `set_question_number`, `get_question_results`, `submit_answer` |
| `ScoreLedger` | what those handlers promise, without how they do it |
| `Lobby` | `join_game`, `rejoin_game`, `register_as_admin`, `register_as_remote`, `echo_time_sync`, `kick_player`, lost connections |
| `LiveGame` | `Lobby` and `AnswerRound` on the same keys |
| `GamePages` | the pages of a game, their requests and the events they get |
| `SignIn` | both login pages and `routers/login.py` |
| `Accounts` | registration, reset, settings and security pages of both clients, `routers/users/`, `cache.py` |
| `EditorData` | what a quiz is to the editors: forms, kinds of answers, conversions, gestures |
| `Editor` | both editors, `routers/editor.py`, pictures, `worker/storage.py` |
| `Practice` | the practice page |
| `Catalogue` | dashboards, start dialogs, quiz page; `routers/quiz.py`, `community.py`, listing and deleting quiztivities; with `Practice` |
| `MC...` | instances for TLC: players, connections, tabs and scenes |
| `AnswerRoundProofs`, `LobbyProofs`, `LiveGameProofs`, `GamePagesProofs`, `SignInProofs`, `AccountsProofs`, `CatalogueProofs` | theorems |

### GameStore

One game, so keys lose their pin. The `PlayGame` document keeps the three fields
that handlers change (`started`, `current_question`, `question_show`); it is
always read and written as a whole, and the models keep that. A session keeps
who the connection is and whether the `ping` field has been added.

### AnswerRound

`submit[c]` is one call of `submit_answer` (connection, question, attempt) with
its program counter and the local variables that survive an await: the name and
ping from the session, the start time, the answer list as it was read (`seen`)
and the game document as it was read (`blob`). The Redis side is `game`,
`players`, `startTime`, `answers` and `scores`. An answer list is the SET of calls
on it: handlers only append to a copy and store the copy, test whether a name is
on it, and take its length; each call appends itself once, so the length is the
cardinality. `scores` is the set of calls whose points were added; HINCRBY
commutes, and the sum is not looked at. `hosting[h]` is a running handler of a
host; how many run at once is the size of `HostTasks`. `room` is what the clients
in the room have been told: a page answers what it has been shown, and the
host's page offers its buttons by it. `Attempts` says how often a connection answers
a question: the buttons of RANGE, TEXT and CHECK questions stay enabled after an answer.
`Indices` has one index more than the quiz has questions: the host's page asks for the
question after the last one when its results are hidden (`controls.svelte:80`), and
`set_question_number` saves that index and its start time before it raises.

Errors are part of the model: a missing session refuses the event, a missing
`ping` or start time and a wrong RANGE answer end the handler by an exception,
after which whatever it had written stays.

### ScoreLedger

The abstract promise: points are credited before the answer is published, lists
only ever show published answers of their own topic, and a topic is announced only
when every name has published, or one of them twice. `AnswerRound!KeepsLedger` states the refinement
(`INSTANCE ScoreLedger WITH ...`), and a run checks it.

### Lobby

`entering[s]` is the join, rejoin or register handler of a connection, `echo[s]` its
`echo_time_sync`, `kicking` the host's `kick_player`. The pages are part of the
component, because the protocol depends on them: `cookies` are what
`+page.svelte` stores on `joined_game` and never renews, `listed` is the host's
list, `banned` the names whose page was kicked, `onStage` the pages that know the
game has started. `raced` and `crossed` are history variables and influence nothing.
A lost connection leaves its rooms at once (python-socketio does that; the
program has no disconnect handler) and its running handlers go on; their writes to
the lost connection's session fail. Nothing makes the handlers about one name wait for
each other; `crossed` is the set of names of which two were running at once, and what
is said of the players set leaves those names out: section 3 says what they lose.

### LiveGame

Every step is a step of `Lobby` or of `AnswerRound`. What is added is where they
meet: events reach those who are in the room at that moment (`heard`, `onStage`),
a lost connection sends nothing, and the start button needs a listed player.
`LiveInit` is the empty lobby; `SeatedInit` is a state that joins lead to, used to
give larger instances a head start.

### The modules of pages

`GamePages`, `SignIn`, `Accounts`, `Editor` and `Catalogue` have the same shape.

*Scenes.* A constant `Scenes` is the set of situations that are checked: which
client runs in which tab, what is stored at first, what the person does, and how
often bounded things (visits, edits, failures, expiries) happen. `Init` picks one
and it never changes; the `ASSUME` of the module says what a scene is, and the
MC module lists them. A run therefore checks many small instances at once, and a
property is about all of them.

*Requests.* Every page has a sequence of requests. The server handles any of them
at any time, cut at each `await` of the database or Redis where another request
could come between (`GamePages` takes handlers whole, except `submit_answer`, which
tests, lists and announces at three times: `AnswerRound` and `Lobby` take them apart). A request's `stage` is the program
counter of its handler and its other fields are the handler's local variables: in
particular the ROW it read, which the ORM writes back whole. Answers reach their
page in any order; socket.io events reach a page in the order they were sent.

*Pages.* An action is one gesture or one arriving answer: the component's
handler from beginning to end, with the guard from `disabled` and `{#if}`. React
Query's cache, the router's guards (`requireAuth`, `hooks.server.ts`) and what
`localStorage` or cookies keep are state, since the hazards are there.

*History.* `risks`, `calm`, `hasty`, `again`, `careful` and `back` record that something
happened which a property excludes by name (two handlers of one row overlapped, a
press did not wait, an answer was lost). They influence nothing. Excluded cases
stay in the state space, so that every OTHER property has to survive them.

- `GamePages`: `server` is the game, `host` the admin page and the remote with
  `selected` (the page's own counter) beside `shown`, `play` the players' pages with
  the five variables their template branches on, `inbox` the events on their way.
  Which screen shows is computed from the page's variables as the templates do.
  `server.checked` counts the handlers of `submit_answer` past their test,
  `server.announce` those that will announce, `server.again` the answers on a list that
  are not a player's first. Three events are emitted without a room and reach the pages
  of every game on the server (`socket_server/__init__.py:333`, `:338`, `:463`):
  `server.others` bounds how often another game sends one of the two that these pages
  act on.
- `SignIn`: `sessions` are the login sessions in Redis; `page` has step, method and
  session of each login form, and `Screen` is what the card renders for them.
- `Accounts`: secrets are version numbers; `held` is what the person was told last.
  `cached` is the copy of the row in Redis.
- `EditorData` has quizzes as records of a few text values and answer lists; the
  conversions between form and stored quiz (`ToQuizInput`, the loaders) are
  operators. `Editor` keeps the row, search entry, links and files apart, as the
  code does; a deleted picture keeps its row, which the legacy library still offers
  (`routers/storage.py:244`) and the links take (`editor.py:176`, `worker/storage.py:104`).
- `Catalogue`: rows with counters, ratings, pins and the Redis keys of games; `starting`
  are the handlers of `start_game` between its two commands; the page of a game may be
  left, which tells the server nothing; the dialogs of both dashboards; `Practice` is extended and runs in one of the tabs.

Where these modules are coarser than the code: the guards' `/users/check` is one
step; a page is opened again only after its last save has ended; in `Catalogue`
games do not expire, an editor's save is one read and one write, and deleting a
quiz's pictures is its search entry going.

## 3. What TLC checks

All runs explore their state space completely. Runs of kind *violation* show that
the code does not do what the quoted document says; `PROJECT.json` has the quotes
under `findings`.

| run | instance | what it shows |
|---|---|---|
| `round_pressed_twice` | 2 players, one of whom answers twice, 1 question, fairness | listed answers are scored; `everyone_answered` means that all have answered or somebody twice, and a full list leads to it; settled answers stay; the ledger refinement; the index past the end |
| `round_two_questions` | 1 player with 2 attempts; a RANGE question and a SLIDE | no answer meets a missing start time; saves of the whole document never un-start the game; a settled answer blocks later ones |
| `round_lost_answer` | 2 players | *violation*: an answer written over by a concurrent one |
| `lobby_names` | 1 name, 3 connections, handlers that overlap in every way | one entry per name that was not crossed, for the connection that holds it and hears the game; such names pass by cookie; sessions keep their names; joined pages are timed |
| `live_coming_back` | 1 name and 2 connections from the empty lobby; 2 players and 4 connections in a full one | everything together: types, scored before listed, pages follow the start, enough answers for `everyone_answered` |
| `game_pages` | 8 games of 1 or 2 questions, 1 or 2 players, one of them beside another game | the host's page selects what is played, all pages agree, count each answer once and end with the same standings; no blank screen, none that breaks once a question is shown; timers stop for their own question; started games finish |
| `sign_in` | 72 scenes: kinds of account, browser and person | second steps are earned, right answers pass, no page is stranded, a signed-in browser leaves the form, who knows the answers gets in |
| `accounts` | 1 or 2 browsers, both clients, 28 scenes | one registration wins; right passwords pass; codes, passwords and lists shown are those stored; a changed password signs out; who wants in gets in |
| `account_old_backup_code` | a new backup code, then a new password | *violation*: the replaced code comes back |
| `editor` | 1 or 2 tabs, up to 3 quizzes and 3 pictures, 25 scenes | questions left alone stay as they were; ranges have a span; typed work is kept; one visit stores one quiz; what was reported saved is stored; links, files and search entries agree with the rows, with deleted pictures too; a pressed save ends |
| `editor_saved_twice` | a new quiz, an answer that is lost | *violation*: a second press stores it twice |
| `catalogue` | 2 items, up to 3 tabs, 32 scenes | pins stay with their hosts; deleted stays gone and unlisted; counters count; nothing undone; one rating each; the remote joins a game that is hosted; names follow the two steps of `start_game`; practice shows the right order; a press always settles |

### Disagreements met

Three have a run. These were found with the same models and are not run any more;
each was the counterexample of one property:

- `classquiz/socket_server/__init__.py:336`: the save of the handler that found
  everyone had answered overwrites a `set_question_number` in between; the question
  falls back and every answer to the one on the screens is refused.
- `:308`: a late answer reads the start time of the next question.
- `:154`: two connections that join with one name together are both counted; so are two
  that rejoin, or a join and a kick. `crossed` has these names.
- `:300`: a player who presses the button of a RANGE, TEXT or CHECK question again while
  the first answer is handled (`question.svelte:222`, `:248`, `:353`) is on the list twice;
  the list is then as long as there are players although one has not answered, and
  `everyone_answered` stops that player's timer. `AnsweredTwice` and `Repeated` name it.
- `:338`: the event is emitted without a room: it stops the timers of all other games on
  the server, and before the first question of one of them breaks its host's page, whose
  template reads the type of a question that is not selected. `Disturbed` names it.
- `:108`: a reloading player is missing from the players set for one command, and
  `everyone_answered` may be announced without their answer.
- `:338`: `everyone_answered` names no question; a host who presses on while an
  answer is handled has the next question's timers stopped at once.
- `:399`: a kicked page reloads and rejoins by its cookie; only the join form looks
  at `kicked`.
- `classquiz/routers/storage.py:244`: the legacy picture library lists deleted pictures; a
  quiz that is given one is saved and linked to it, and shows nothing there.
- `classquiz/routers/users/__init__.py:219`: a browser that ends its own session
  keeps its access token and is sent on to the dashboard, where the new client
  (`SessionsCard.tsx:57`) says the cookie is gone.
- `web/src/features/editor/RangeAnswerEditor.tsx:68`: the span of a RANGE question is
  fitted when the field of a bound is left, and the draft is written on every
  keystroke. A tab that dies while a bound is typed leaves a draft whose correct span
  lies outside the range; opened again it is valid (`editorSchema.ts:28` compares only
  the bounds) and is stored so, though `fitRange` "keeps a RANGE question's correct
  span inside its selectable span" (`editorData.ts:66`). `RangesArePlayable` has the
  excuse `"halfway"` for it.

More that the models have in them as the code does, and that every passing run
holds with: a wrong RANGE answer is scored and never stored; two pages that
register together both become host; a remote is told it is registered before its
missing session refuses it; with hidden results the host's page asks for a
question after the last, whose index is saved; between the two commands of `start_game`
the game that is named as waiting has started; a rated quiz cannot be deleted but loses its pictures and
search entry; a second rating that overlaps the first saves a second row, and all
later ratings of that reader fail; going back on the practice page keeps the
component of the question left; the search index gets the title from before the
change.

### Bounds

Interference in `submit_answer` is pairwise (one handler's write between another's
read and write), and `everyone_answered` is wrong or right by one answer too many or
too few: two players of whom one answers twice give all of that. Two attempts are also
what the test for an earlier answer is about, two questions what the current question,
the one on the screens and the one the clock belongs to can differ by. In the lobby a name can be joined on one
connection, rejoined on a second, and a third is the host's. One handler of a host
runs at a time in the runs: a page waits for each answer before it offers the next
button (the theorems hold for any number). `Calm` and `FromScratch` in `MCLiveGame`
name what each of its two instances leaves out; what one leaves out the other has.

In the modules of pages every bound is a field of the scene: a first and a second
visit, press, failure or expiry, because the faults are in the second one or in
the overlap of two. Two tabs are two clients, two people or one person twice; more
would only add the same pairs. Games have two questions at most: going on, going
on from the last one, and being at one ahead. `MaxQuizzes = 3` leaves room for the
quiz that a repeated save must not create; two pins let games collide or not.

`CHECK_DEADLOCK FALSE` appears where a connection may be lost or the bounds of a
scene may be used up, after which nothing can happen any more; rounds never stop.

### Fairness

Weak fairness of the steps of handlers that have begun: asyncio resumes every task
whose command has answered, and the event loop starts the task of every request.
In the modules of pages also of an answer or event reaching its page, and of
timers (`setTimeout`, the countdown). People are only assumed to act where a
property is about getting somewhere: in `GamePages` the host presses what is
offered when the page has settled, in `SignIn` the person answers right (after any
number of wrong answers), leaves the backup form and goes on, in `Accounts` a
person who is not signed in goes on. Strong fairness is used for exactly those
presses that another event can disable for a while. `Editor` and `Catalogue` assume
nothing of people. Players, kicks, reloads, failures and expiries are never fair.

Each property has a mutant (`Bug_...`, beside the definition it replaces): a
plausible fault in the code that breaks that property. Where a run checks a
conjunction of named invariants (`PlayersAreCounted`, `HalvesAgree`, `ScreensAgree`,
`ScoresAgree`, `StepsAgree`, `ToldIsStored`, `SavesHold`, `StoresAgree`, `RowsAddUp`,
`DeletedIsGone`, `GamesKeepTheirHosts`, `PracticeIsRight`), its parts have mutants of
their own. The type invariants of the composed modules are among these parts.

## 4. What is proved

Every theorem is stated for all values of the constants: any number of players,
names, connections, questions, attempts, concurrent host handlers, pages, quizzes,
pins and scenes. Each rests on an inductive invariant that TLC checked on a run's
instance first; the run shows the property on that instance, the theorem in general.
An invariant is a conjunction of named parts, its proof has one lemma per operation.

**`AnswerRoundProofs`** (over `AnswerRound`)

- `TypeCorrect`: not inductive by itself, since a running `set_question_number`
  has to carry a question that becomes the current one (`HostCallsNamed`).
- `ListedAnswersAreAlwaysScored`: a handler past HINCRBY is in `scores`, and every
  copy of a list that a handler still holds contains scored answers of its own
  question only. The copies matter: it is they that become lists later.
- `SettledAnswersAlwaysStay`: a step can only write a list from a copy that, by the
  definition of *settled*, holds the answer; a new copy holds it too.
- `ClockAlwaysRunsBeforeAnswers`: a question reaches the screens only after its
  start time was set, a call begins only after that, the time is never unset.
- `StartedIsAlwaysPermanent` (`StartInv`): nothing but `start_game` is asked for before
  the pages were told of the start, and every document that a handler is about to
  save is one that has started.
- `LaterAnswersAreAlwaysRefused` (`NamedInv`): a call works under its connection's
  name and is not scored before it begins; so a settled answer is in whatever list
  a later call of the same player tests, and not its own.
- `EveryoneAnsweredIsAlwaysSound` (`EveryoneInv`), for any number of presses: the answers
  on a list are stored ones of its question; if no player has two of them there is an
  injection from the list into the players, and equal cardinalities leave nobody out.
- `HandlersKeepTheLedger`: the refinement. The initial state maps to one of `ScoreLedger`,
  and every step to a step of the ledger or none.

**`LobbyProofs`** (over `Lobby`)

- `LobbyTypeCorrect` (`LobbyTypeInv`: what a handler has read by the stage it is at).
- `JoinedPagesAreAlwaysTimed` (`SessionInv`): sessions and cookies are those of
  joined connections, and the entry a rejoin handler carries was in a session.
- `PlayersAlwaysKeepTheirNames`: an action property; a handler that saves a session
  saves the name the connection has.
- `PagesAlwaysFollowTheStart` (`StartedInv`): of a started game, every connection in the
  room that is not on stage was inside a handler when the event was sent.
- `PlayersAreAlwaysCounted`, `NamesAlwaysPassByCookie` (`NamesInv`): a name that was not
  crossed has one handler at a time, whose stage says which of the name's key, its
  entry among the players and its place in the room are already moved; the steps of
  the handlers of crossed names touch no entry of another name.

**`LiveGameProofs`** (over `LiveGame`)

- `HalvesAlwaysAgree` (`LiveInv`): each half keeps its invariant under the other
  half's steps, and one fact spans both: if the pages were told of the start, every
  connection in the room is on stage or raced with it. `SeatedHalvesAgree` and
  `LiveStartIsPermanent` follow from it.
- `EnoughAnswersAlways`, for finitely many connections.

**`GamePagesProofs`** (over `GamePages`), for any games, numbers of players, reloads and
presses. The actions are first put into one form each (`Moves`): what a step reads of
a page, which fields it writes, what it adds to a box or takes from it. All that
travels is then spoken of by four predicates on boxes: something of a kind is `In` it,
at most `Once`, `Led` by something of another kind, and `LastIs` what the last one is.

- `PagesTyped` (`CoreInv`), in layers: one news of a player at a time between its join
  and the end of its page, so that it is kicked once (`KickInv`); the name is kept for
  the page that the room holds, and who waits to enter hears nothing yet (`LinkInv`);
  before the start nobody asks for a question (`StartedInv`); the news of the entry,
  of the start and of a question come in this order (`BlankInv`); the last question on
  its way to a page, or the one it shows, is the one that is played (`ShownInv`).
- `ScreensAgreeAlways` (`ScreenInv`): for hosts who wait, nothing is asked or told of a
  question before each host was told of it (`BegunInv`); all hosts expect the same
  question, the one after it is asked for once, by one of them, when all were told of
  the last (`TurnInv`). Only then does a counter of events (`selected_question`) agree
  with what the events say (`shown_question_now`).
- `ScoresAgreeAlways` (`ScoreInv`). No page counts twice: results come to all hosts or
  to none (`AfterInv`), are asked for once, of a question that is over, when the last
  ones have reached everybody and are added (`ReckonInv`), so that what a page has
  added, has on its way and is about to add is at most the number of answers to the
  questions whose results were told (`CountInv`, by cardinalities). All pages count the
  same: after the final results were asked for nothing of a question travels
  (`EndInv`); results come to a host that has none yet and are added before the next
  question (`TellInv`); and a page that was never opened anew is told of a question
  before its results, so that its score and the host's grow together (`EqualInv`).

**`SignInProofs`** (over `SignIn`)

- `StepsAlwaysAgree`, `NobodyIsStranded`, `SignedInIsAlwaysHome` (`SignInInv`): a person
  who waits has one answer under way; what is offered is what the session's account
  has; a page that is as far as a step has an answer to that step behind it or on the
  way; a browser with a token is past the form or is asking who it is. `ClosedInv`
  says that tabs which the scene leaves closed stay so.

**`AccountsProofs`** (over `Accounts`), for any number of browsers, scenes and requests

- `AccountsHold` (`AccountsInv`): types; whose a session, a reset token and a request are
  (`OwnerInv`); which registration has won (`WinnerInv`); a browser that changed the
  password is on its way to the login page (`SignedOutInv`); and while one thing is
  done at a time (`CalmInv`), what the copy of the account in Redis, the running
  requests, the sessions and the lists on the pages are compared with the row.
- `OneCreatedAlways`, `ChangedIsSignedOutAlways` follow from the first parts,
  `RightPasswordPassesAlways` and `ToldIsStoredAlways` from `CalmInv`: a handler may
  work on an old copy, but a copy that is older than the password has been cleared.

**`CatalogueProofs`** (over `Catalogue` and `Practice`)

- `PracticeIsAlwaysRight` (`PracticeInv`), for quizzes of any length: ahead of the
  reader the quiz is as it was loaded, a component holds a shuffle of its own
  question's answers, and the order to compare with is that of the loaded quiz.
- `CatalogueTypeCorrect`, `DeletedIsAlwaysGone` (`DeletedInv`): a page fetches one
  thing at a time; the requests it may have in flight follow from what it shows; an
  answered deletion is in the database; a list that is on its way to a page that
  knows of a deletion does not have what was deleted. Two things had to be added
  for it to be inductive: a game that was once made is there, since what a page
  hosts depends on it, and a handler that writes holds a row.
- `GamesAlwaysKeepTheirHosts` (`GamesInv`), for any number of tabs, pins and users:
  start requests have different numbers, and none has that of a hosted game; without a
  race the requests that hold a pin hold different ones, a pin that is looked for is
  still free when it is taken, and a stored game is the one its request asked for;
  without a stray start a tab has one start under way and hosts nothing meanwhile, so
  that what Redis offers to a remote is hosted or its answer is on the way. The code
  checks none of this: the pin is looked for in one request to Redis and taken in
  another, and what keeps hosts and remotes together is the order of the three writes.
- `RowsAlwaysAddUp` (`RowsInv`), for any number of tabs, users and quizzes: the row that
  a handler holds has never more than was viewed, started and saved, plus what it will
  count itself, and all of it unless two handlers overlapped; then too its counters are
  those of the rating rows. Without an overlap two handlers hold rows of different
  quizzes, and without a user who rates twice at once two ratings under way are of
  different users. A quiz whose counters are behind its rating rows has a handler that
  has changed the one and not yet the other. The two excuses are needed together in one
  place: a handler knows that the one rating it found is still the one it takes back
  unless another rating of the same user (`"twice"`) held the same row (`"overlap"`).
  The lemmas on `Raters` count ratings: one that is added or taken back changes one
  counter by one.

What the attempts showed of the models: `SignIn` bounded an old page's step by 3 only
because people made one wrong attempt (the invariant bounds it by the answers
under way, and `MCSignIn` now lets an impatient person be wrong twice); three CASE
expressions had arms that overlapped (`Taken` in `SignIn`, `Leaves` in `Accounts`,
`WithPicture` in `Editor`), which TLC reads in order and a proof may not; the type
invariants of `Lobby`, `SignIn` and `Catalogue` did not say which fields a handler has
filled at which stage, without which no step of theirs could be typed. In `Accounts` a
closed browser could open the link of a reset or log in, two properties were also
claimed of a login without a verified account, and scenes were allowed that are no
state of the program (`SceneAssumption`). In `GamePages` what a host selects agreed
with what is played only because no instance had a slide and a remote: a slide is
told to the connection that asks for it and to nobody else
(`socket_server/__init__.py:257`), so that with a remote, which is meant as a "remote
control for the host" (`MIGRATION.md:104`), the two pages select different questions
from the first slide on. The properties about hosts who wait now say `InStep`, and a
scene has the remote and the slide. In `Editor`, before any proof of it was attempted,
looking for what its invariants need showed that four claimed more than the code does:
a range was said to be fitted always (a draft left halfway is not, see section 3); a report of a save was
compared with what its page had sent, though another tab may have pressed since (`press`
is the number of the press a page sent last); pictures that a draft holds can be deleted
under it; and `UntouchedStay` left out every form with two questions of one kind, of
which only the range that shares its slider is changed by being shown.

**Assumptions.** The named ASSUMEs (TLC evaluates each in a run): sets of the scenes
and games (`GameStoreAssumption`, `LiveAssumption`, `SignInAssumption`,
`AccountsAssumption`, `SceneAssumption`, `PagesAssumption`, `CatalogueAssumption`) and that
`None` is no value of the sets it is added to
(`NoneIsNoSession`, `NoneIsNoComponent`, `NoneIsNothing`). No theorem has a hypothesis
beside them. What a property excludes is in its own statement (two handlers of one name,
two answers of one player, news of another game, a press that did not wait), and each
such case is one that section 3 names.

**Model-checked only.** Liveness under fairness (`FullListIsAnnounced`, `PressedSettles`,
`PressedIsSaved`, `GetsIn`, `GameFinishes` and the like): out of the prover's reach, as is
ENABLED. `TimersStopWhenHostsWait` of `GamePages`, and the invariants and the action property
of `Editor`: within reach, not proved.

## 5. Plan

The modelling of what the repository's own clients do is complete apart from
section 6. What is left to prove are `TimersStopWhenHostsWait` (an inductive invariant needs
where each player is between two questions) and the properties of `Editor`: first
`SavesHold` and `StoresAgree`, then `UntouchedStay` and `WorkIsKept`.

No module declares a RECURSIVE operator, so `Editor` can be proved about as it stands.

## 6. What is not modelled, and why

- Texts, colours, images and the wording of events: no handler decides by them.
  Custom fields and the visibility of controls are forwarded and never read.
- The number of points of an answer and the comparison of typed answers:
  floating-point arithmetic and strings, which TLC has no data for.
- Box controllers and the live HTTP API: clients that are not in the repository.
  Their save of a whole game is of the kind `AnswerRound` shows at `submit_answer`.
- Results, exports, moderation: rows written once and read; file formats.
- The space a user's files take, its limit, the hash of a file and the job that
  removes forgotten files: nothing modelled depends on them.
- Deleting an account, avatars, signing in through another provider: requests to
  other services, or one row that goes with all that belongs to it.
- The captcha: its check is called without `await`, so that it never refuses anybody.
- Expiry of keys during a game, and an expired game's leftover players: the models'
  games are short beside the hours that keys live.
- Quiztivity editors, imports, search, statistics, e-mails, the S3 client, pages
  that only show what one request returned, generated code.
