------------------------------- MODULE Editor -------------------------------
(***************************************************************************)
(* A teacher's quiz editors: the pages /create and /edit of both clients   *)
(* in one browser, with the draft they share, the edit sessions and the    *)
(* handlers of routers/editor.py that store a quiz, the search index, the  *)
(* pictures and their links to quizzes, and the job of worker/storage.py   *)
(* that mends those links two seconds after a quiz was changed.  A handler *)
(* and the job are cut where they await the database or Redis.             *)
(***************************************************************************)
EXTENDS EditorData

CONSTANTS
    Tabs, Scenes,
    MaxQuizzes      \* bound: the ids of quizzes, the stored one first

Gestures == {"settings", "card", "answers", "span", "order", "add", "delete",
             "slide", "picture", "crash", "leave"}

Ids == 1 .. MaxQuizzes

ASSUME EditorAssumption ==
    /\ MaxQuizzes \in Nat \ {0} /\ IsFiniteSet(Tabs)
    /\ None \notin Texts \cup Pictures \cup Quizzes
    /\ Scenes \subseteq
        [ui      : [Tabs -> {"web", "legacy", "closed"}],
         creating : BOOLEAN,               \* /create, or /edit of quiz 1
         stored  : Quizzes \cup {None},    \* quiz 1 at first
         draft   : Quizzes \cup {None},    \* the draft a past visit left
         files   : SUBSET Pictures,        \* the teacher's stored pictures at first
         does    : SUBSET Gestures,        \* what the teacher uses
         adds    : SUBSET Types,           \* the types of new questions
         edits   : Nat,                    \* bound: changes, over all tabs
         visits  : Nat,                    \* bound: pages opened, over all tabs
         saves   : Nat,                    \* bound: presses of the save button
         expire  : Nat,                    \* bound: edit sessions that expire
         fail    : Nat,                    \* bound: requests that fail
         deletes : Nat]                    \* bound: quizzes and pictures deleted

VARIABLES
    scene,
    db,        \* the stored quizzes
    index,     \* the titles the search finds, by quiz
    links,     \* the pictures linked to each quiz (storageitems)
    files,     \* what became of each picture (storage_items)
    sessions,  \* the edit sessions, in the order they were opened
    jobs,      \* the quiz_update jobs that are not done
    draft,     \* localStorage, key create_game
    listing,   \* the open files page: the pictures it offers to delete, or None
    page,      \* the page of each tab
    work,      \* the requests of each tab that have not come back
    risks,     \* what the teacher or the network did that a property excludes
    count      \* how often bounded things happened

stored == <<db, index, links, files, sessions, jobs>>
vars   == <<scene, stored, draft, listing, page, work, risks, count>>

Web(t)    == scene.ui[t] = "web"
Legacy(t) == scene.ui[t] = "legacy"
Uses(g)   == g \in scene.does

\* The rows of storage_items, and those whose file was not deleted.
Items == {pic \in Pictures : files[pic] # "none"}
Kept  == {pic \in Pictures : files[pic] = "kept"}

HeldBy(quiz) == IF quiz = None THEN {} ELSE PicturesOf(quiz)

ClosedPage ==
    [stage |-> "closed", form |-> EmptyQuiz, initial |-> EmptyQuiz, sel |-> 0, dialog |-> "none",
     doomed |-> 0, focus |-> FALSE, part |-> None, upload |-> None, sid |-> 0, next |-> 1,
     touched |-> {}, sent |-> None, press |-> 0, failed |-> FALSE]

Init ==
    /\ scene \in Scenes
    /\ db = [q \in Ids |-> IF q = 1 THEN scene.stored ELSE None]
    /\ index = [q \in Ids |-> IF q = 1 /\ scene.stored # None /\ scene.stored.public
                              THEN scene.stored.title ELSE None]
    /\ links = [q \in Ids |-> IF q = 1 /\ scene.stored # None THEN PicturesOf(scene.stored) \cap scene.files
                                   ELSE {}]
    /\ files = [pic \in Pictures |-> IF pic \in scene.files THEN "kept" ELSE "none"]
    /\ draft = scene.draft
    /\ sessions = <<>> /\ jobs = <<>> /\ listing = None
    /\ page = [t \in Tabs |-> ClosedPage]
    /\ work = [t \in Tabs |-> <<>>]
    /\ risks = IF (HeldBy(scene.stored) \cup HeldBy(scene.draft)) \subseteq scene.files THEN {} ELSE {"files"}
    /\ count = [x \in {"edits", "visits", "saves", "expire", "fail", "deletes"} |-> 0]

Bump(x) == count[x] < scene[x] /\ count' = [count EXCEPT ![x] = @ + 1]

Put(t, p) == page' = [page EXCEPT ![t] = p]

Risk(taken, name) == risks' = IF taken THEN risks \cup {name} ELSE risks

Editing(t) == page[t].stage = "editing"
Dirty(t)   == ToQuizInput(page[t].form) # ToQuizInput(page[t].initial)
Position(p, key) == IF \E k \in DOMAIN p.form.questions : p.form.questions[k].of = key
                    THEN CHOOSE k \in DOMAIN p.form.questions : p.form.questions[k].of = key
                    ELSE 0

-----------------------------------------------------------------------------
(* The server. *)

FreshId == 1 + Cardinality({i \in DOMAIN sessions : ~sessions[i].edit})
             + IF scene.stored = None THEN 0 ELSE 1

\* init_editor: an edited quiz has to be there, a new one gets an id.
MayStart(creating) == IF creating THEN FreshId \in Ids ELSE db[1] # None

\* The session of an edited quiz does not name it.
Bug_NewSession(creating) ==
    sessions' = Append(sessions, [quiz |-> IF creating THEN FreshId ELSE 0,
                                  edit |-> ~creating, live |-> TRUE])

NewSession(creating) ==
    sessions' = Append(sessions, [quiz |-> IF creating THEN FreshId ELSE 1,
                                  edit |-> ~creating, live |-> TRUE])

Stage(t, i, stage, old, answer) ==
    work' = [work EXCEPT ![t][i].stage = stage, ![t][i].old = old, ![t][i].answer = answer]

IndexEntry(quiz) == IF quiz.public THEN quiz.title ELSE None

\* A quiz that is made private stays in the index.
Bug_ChangeQuiz(t, i, r, q) ==
    CASE r.stage = "read" /\ r.old = None ->
            Stage(t, i, "done", None, "failed") /\ UNCHANGED stored
      [] r.stage = "read" /\ r.old # None ->
            /\ jobs' = Append(jobs, [quiz |-> q, old |-> r.old, copy |-> None])
            /\ index' = [index EXCEPT ![q] = r.old.title]
            /\ Stage(t, i, "indexed", r.old, None)
            /\ UNCHANGED <<db, links, files, sessions>>
      [] r.stage = "closed" ->
            /\ db' = [db EXCEPT ![q] = IF @ = None THEN None ELSE r.data]
            /\ Stage(t, i, "done", None, "ok")
            /\ UNCHANGED <<index, links, files, sessions, jobs>>

\* finish_edit of a quiz that is there.  The entry of the index is made of the
\* row as it was: a new title is found only after the next change.
ChangeQuiz(t, i, r, q) ==
    CASE r.stage = "read" /\ r.old = None ->
            Stage(t, i, "done", None, "failed") /\ UNCHANGED stored
      [] r.stage = "read" /\ r.old # None ->
            /\ jobs' = Append(jobs, [quiz |-> q, old |-> r.old, copy |-> None])
            /\ index' = [index EXCEPT ![q] = IF r.data.public THEN r.old.title ELSE None]
            /\ Stage(t, i, "indexed", r.old, None)
            /\ UNCHANGED <<db, links, files, sessions>>
      [] r.stage = "closed" ->
            /\ db' = [db EXCEPT ![q] = IF @ = None THEN None ELSE r.data]
            /\ Stage(t, i, "done", None, "ok")
            /\ UNCHANGED <<index, links, files, sessions, jobs>>

\* A new quiz gets its id when it is stored.
Bug_StoreQuiz(t, i, r, q) ==
    IF r.stage = "closed"
    THEN /\ \E n \in Ids : /\ db[n] = None /\ \A m \in 1 .. n - 1 : db[m] # None
                          /\ db' = [db EXCEPT ![n] = r.data]
         /\ Stage(t, i, "saved", None, None)
         /\ UNCHANGED <<index, links, files, sessions, jobs>>
    ELSE /\ Stage(t, i, IF r.stage = "read" THEN "indexed" ELSE "done", None, "ok")
         /\ UNCHANGED stored

\* finish_edit of a new quiz: a second one with its id is refused.  A picture is
\* linked when it has a row, deleted or not.
StoreQuiz(t, i, r, q) ==
    CASE r.stage = "read" ->
            /\ index' = [index EXCEPT ![q] = IF r.data.public THEN r.data.title ELSE @]
            /\ Stage(t, i, "indexed", None, None)
            /\ UNCHANGED <<db, links, files, sessions, jobs>>
      [] r.stage = "closed" ->
            /\ db' = [db EXCEPT ![q] = IF @ = None THEN r.data ELSE @]
            /\ IF db[q] = None THEN Stage(t, i, "saved", None, None) ELSE Stage(t, i, "done", None, "failed")
            /\ UNCHANGED <<index, links, files, sessions, jobs>>
      [] r.stage = "saved" ->
            /\ links' = [links EXCEPT ![q] = PicturesOf(r.data) \cap Items]
            /\ Stage(t, i, "done", None, "ok")
            /\ UNCHANGED <<db, index, files, sessions, jobs>>

\* finish_edit: the session is read first and deleted before the row is written.
Finish(t, i, r) ==
    LET s == sessions[r.sid] IN
    CASE r.stage = "sent" ->
            /\ IF s.live THEN Stage(t, i, "read", IF s.edit THEN db[s.quiz] ELSE None, None)
                         ELSE Stage(t, i, "done", None, "expired")
            /\ UNCHANGED stored
      [] r.stage = "indexed" ->
            /\ sessions' = [sessions EXCEPT ![r.sid].live = FALSE]
            /\ Stage(t, i, "closed", None, None)
            /\ UNCHANGED <<db, index, links, files, jobs>>
      [] OTHER -> IF s.edit THEN ChangeQuiz(t, i, r, s.quiz) ELSE StoreQuiz(t, i, r, s.quiz)

Handle(t) ==
    \E i \in DOMAIN work[t] :
        /\ work[t][i].stage # "done"
        /\ Finish(t, i, work[t][i])
        /\ UNCHANGED <<scene, draft, listing, page, risks, count>>

\* The handler raises, or its answer does not arrive.
Fail(t) ==
    \E i \in DOMAIN work[t] :
        /\ work[t][i].answer # "failed" /\ Bump("fail")
        /\ Stage(t, i, "done", None, "failed")
        /\ Risk(TRUE, IF work[t][i].stage = "saved" \/ work[t][i].answer = "ok" THEN "lost" ELSE "fail")
        /\ UNCHANGED <<scene, stored, draft, listing, page>>

\* A session lasts an hour.
Expire ==
    /\ Bump("expire")
    /\ \E i \in DOMAIN sessions : sessions[i].live /\ sessions' = [sessions EXCEPT ![i].live = FALSE]
    /\ UNCHANGED <<scene, db, index, links, files, jobs, draft, listing, page, work, risks>>

\* Added pictures are not linked.
Bug_QuizUpdate(j) ==
    LET job     == jobs[j]
        old     == PicturesOf(job.old)
        new     == PicturesOf(job.copy) IN
    /\ job.copy # None
    /\ links' = [links EXCEPT ![job.quiz] = @ \ (old \ new)]
    /\ db' = [db EXCEPT ![job.quiz] = job.copy]
    /\ jobs' = RemoveAt(jobs, j)

\* The row is written back as it was when the job was queued.
Bug_QuizUpdateOld(j) ==
    /\ jobs[j].copy # None
    /\ db' = [db EXCEPT ![jobs[j].quiz] = jobs[j].old]
    /\ links' = [links EXCEPT ![jobs[j].quiz] = PicturesOf(jobs[j].copy)]
    /\ jobs' = RemoveAt(jobs, j)

\* quiz_update: reads the quiz, mends the links of the pictures that changed
\* and writes the whole row back as it was read.
QuizUpdate(j) ==
    LET job     == jobs[j]
        old     == PicturesOf(job.old)
        new     == PicturesOf(job.copy)
        removed == (old \ new) \cap links[job.quiz]
        added   == (new \ old) \cap Items IN
    /\ job.copy # None
    /\ links' = [links EXCEPT ![job.quiz] = (@ \ removed) \cup added]
    /\ db' = [db EXCEPT ![job.quiz] = IF removed \cup added = {} \/ @ = None THEN @ ELSE job.copy]
    /\ jobs' = RemoveAt(jobs, j)

\* The job fails when the quiz is gone, and ends when no picture changed.
ReadForUpdate(j) ==
    LET job == jobs[j] IN
    /\ job.copy = None
    /\ jobs' = IF db[job.quiz] = None \/ PicturesOf(db[job.quiz]) = PicturesOf(job.old)
               THEN RemoveAt(jobs, j)
               ELSE [jobs EXCEPT ![j].copy = db[job.quiz]]
    /\ UNCHANGED <<db, links>>

\* A job is due two seconds after it was queued, when its handler has ended as a rule.
Work ==
    /\ \E j \in DOMAIN jobs : ReadForUpdate(j) \/ QuizUpdate(j)
    /\ Risk(\E t \in Tabs : \E i \in DOMAIN work[t] : work[t][i].stage # "done", "slow")
    /\ UNCHANGED <<scene, index, files, sessions, draft, listing, page, work, count>>

\* delete_quiz, from the dashboard.
DeleteQuiz ==
    /\ scene.stored # None /\ db[1] # None /\ Bump("deletes")
    /\ db' = [db EXCEPT ![1] = None] /\ index' = [index EXCEPT ![1] = None]
    /\ links' = [links EXCEPT ![1] = {}]
    /\ Risk(TRUE, "deleted")
    /\ UNCHANGED <<scene, files, sessions, jobs, draft, listing, page, work>>

-----------------------------------------------------------------------------
(* Pages opening: what both clients do. *)

\* A page with a form asks for its edit session.
Opened(content) ==
    LET form == ToEditorState(content) IN
    [ClosedPage EXCEPT !.stage = "starting", !.form = form, !.initial = form,
                       !.next = Len(form.questions) + 1]

\* A page is opened again once its last save has ended.
MayOpen(t) == page[t].stage \in {"closed", "left", "dashboard"} /\ work[t] = <<>> /\ Bump("visits")

Enter(t, p) == Put(t, [p EXCEPT !.sent = page[t].sent, !.press = page[t].press])

EnterNothing(t) == Enter(t, [ClosedPage EXCEPT !.stage = "missing"]) /\ UNCHANGED risks

\* A form whose span is not fitted was left while a bound of it was typed.
EnterForm(t, content) == Enter(t, Opened(content)) /\ Risk(~Fitted(content), "halfway")

\* EditorSkeleton, then the editor; EditorLoadError where there is no quiz (the
\* legacy page still shows its form then, but has no session to save it with).
Start(t) ==
    /\ page[t].stage = "starting"
    /\ IF MayStart(scene.creating)
       THEN /\ NewSession(scene.creating)
            /\ Put(t, [page[t] EXCEPT !.stage = "editing", !.sid = Len(sessions) + 1])
       ELSE Put(t, [page[t] EXCEPT !.stage = "missing"]) /\ UNCHANGED sessions
    /\ UNCHANGED <<scene, db, index, links, files, jobs, draft, listing, work, risks, count>>

\* /create of the new client: a stored draft wins over an empty quiz.
CreatePage(t) ==
    /\ Web(t) /\ scene.creating /\ MayOpen(t)
    /\ EnterForm(t, IF draft = None THEN EmptyQuiz ELSE Normalise(draft))
    /\ UNCHANGED <<scene, stored, draft, listing, work>>

LegacyCreatePage(t) ==
    /\ Legacy(t) /\ scene.creating /\ MayOpen(t)
    /\ EnterForm(t, IF draft = None THEN EmptyQuiz ELSE draft)
    /\ UNCHANGED <<scene, stored, draft, listing, work>>

\* /edit of the new client: the quiz is loaded first.
EditPage(t) ==
    /\ Web(t) /\ ~scene.creating /\ MayOpen(t)
    /\ IF db[1] = None THEN EnterNothing(t) ELSE EnterForm(t, Normalise(db[1]))
    /\ UNCHANGED <<scene, stored, draft, listing, work>>

LegacyEditPage(t) ==
    /\ Legacy(t) /\ ~scene.creating /\ MayOpen(t)
    /\ IF db[1] = None THEN EnterNothing(t) ELSE EnterForm(t, db[1])
    /\ UNCHANGED <<scene, stored, draft, listing, work>>

Open(t) == CreatePage(t) \/ LegacyCreatePage(t) \/ EditPage(t) \/ LegacyEditPage(t) \/ Start(t)

-----------------------------------------------------------------------------
(* The editor of the new client. *)

\* The draft is written where nothing reads it, as in the legacy client.
Bug_Keep(p) == draft' = draft

\* The draft of a new quiz is written after every change that makes it differ.
Keep(p) ==
    draft' = IF scene.creating /\ ToQuizInput(p.form) # ToQuizInput(p.initial)
             THEN ToQuizInput(p.form) ELSE draft

\* Every gesture on the form: it changes, and what was sent is behind it.
Change(t, p) ==
    /\ Bump("edits")
    /\ Put(t, p)
    /\ Keep(p)
    /\ Risk(work[t] # <<>>, "typed")
    /\ UNCHANGED <<scene, stored, listing, work>>

Only(t, p) == Put(t, p) /\ UNCHANGED <<scene, stored, draft, listing, work, risks, count>>

\* Nothing covers the form, and no field of a range is being typed in.
Free(t) == Web(t) /\ Editing(t) /\ page[t].dialog = "none" /\ ~page[t].focus

Selected(t) == Position(page[t], page[t].sel)

SelectQuestion(t) ==
    /\ Free(t)
    /\ \E key \in {0} \cup {page[t].form.questions[k].of : k \in DOMAIN page[t].form.questions} :
          key # page[t].sel /\ Only(t, [page[t] EXCEPT !.sel = key])

EditSettings(t) ==
    /\ Free(t) /\ Uses("settings") /\ Selected(t) = 0
    /\ \E f \in SettingsCard(page[t].form) \ {page[t].form} : Change(t, [page[t] EXCEPT !.form = f])

\* The question the form replaces is the one that was edited, found by its place.
Bug_UpdateQuestion(t, q) ==
    [page[t] EXCEPT !.form.questions[Least(q.of, Len(page[t].form.questions))] = q,
                    !.touched = @ \cup {q.of}]

UpdateQuestion(t, q) ==
    [page[t] EXCEPT !.form.questions[Position(page[t], q.of)] = q, !.touched = @ \cup {q.of}]

EditQuestion(t) ==
    /\ Free(t) /\ Selected(t) # 0
    /\ LET q == page[t].form.questions[Selected(t)] IN
       \E r \in ((IF Uses("card") THEN QuestionCard(q) ELSE {})
                   \cup (IF Uses("answers") THEN AnswerPart(q) ELSE {})
                   \cup (IF Uses("span") THEN Slider(q) ELSE {})) \ {q} :
           Change(t, UpdateQuestion(t, r))

\* A bound is committed as it is typed.
TypeBound(t) ==
    /\ Free(t) /\ Uses("span") /\ Selected(t) # 0
    /\ \E r \in BoundField(page[t].form.questions[Selected(t)]) :
          Change(t, [UpdateQuestion(t, r) EXCEPT !.focus = TRUE])

\* The field is left: the correct span is fitted into the bounds.
RangeAnswerEditor(t) ==
    /\ Web(t) /\ Editing(t) /\ page[t].focus
    /\ LET q == page[t].form.questions[Selected(t)]
           p == [UpdateQuestion(t, [q EXCEPT !.span = FitRange(@)]) EXCEPT !.focus = FALSE] IN
       Put(t, p) /\ Keep(p)
    /\ UNCHANGED <<scene, stored, listing, work, risks, count>>

\* handleDragEnd of the sidebar.
DragQuestion(t) ==
    /\ Free(t) /\ Uses("order")
    /\ \E from, to \in DOMAIN page[t].form.questions :
          from # to /\ Change(t, [page[t] EXCEPT !.form.questions = MoveItem(@, from, to)])

AddQuestion(t) ==
    /\ Free(t) /\ Uses("add")
    /\ \E type \in scene.adds \ {"SLIDE"} :
          Change(t, [page[t] EXCEPT !.form.questions = Append(@, EmptyQuestion(type, page[t].next)),
                                    !.sel = page[t].next, !.next = @ + 1])

\* The bin asks first: the question named when it is confirmed is the one binned.
AskDelete(t) ==
    /\ Free(t) /\ Uses("delete")
    /\ \E k \in DOMAIN page[t].form.questions :
          Only(t, [page[t] EXCEPT !.dialog = "delete", !.doomed = page[t].form.questions[k].of])

DeleteQuestion(t) ==
    /\ Web(t) /\ Editing(t) /\ page[t].dialog = "delete"
    /\ LET p == [page[t] EXCEPT !.dialog = "none", !.doomed = 0] IN
       \/ Only(t, p)
       \/ Change(t, [p EXCEPT !.form.questions = RemoveAt(@, Position(p, page[t].doomed)),
                              !.sel = 0, !.touched = @ \cup {page[t].doomed}])

Request(t, op, sid, again) ==
    [op |-> op, sid |-> sid, data |-> ToQuizInput(page[t].form), stage |-> "sent",
     old |-> None, answer |-> None, again |-> again]

Others == jobs # <<>> \/ \E u \in Tabs : work[u] # <<>>

PressSave(t) ==
    /\ Free(t) /\ IsValid(TRUE, page[t].form) /\ work[t] = <<>> /\ Bump("saves")
    /\ work' = [work EXCEPT ![t] = <<Request(t, "finish", page[t].sid, FALSE)>>]
    /\ Put(t, [page[t] EXCEPT !.failed = FALSE, !.sent = ToQuizInput(page[t].form),
                              !.press = count["saves"] + 1])
    /\ Risk(Others, "overlap")
    /\ UNCHANGED <<scene, stored, draft, listing>>

\* An expired session is not opened again.
Bug_Reopened(t, r) ==
    /\ work' = [work EXCEPT ![t] = <<>>]
    /\ Put(t, [page[t] EXCEPT !.failed = TRUE])
    /\ UNCHANGED sessions

\* saveQuiz: a session that is gone is opened again, once, and the save repeated.
Reopened(t, r) ==
    IF MayStart(scene.creating)
    THEN /\ NewSession(scene.creating)
         /\ work' = [work EXCEPT ![t] = <<[r EXCEPT !.sid = Len(sessions) + 1, !.stage = "sent",
                                                    !.answer = None, !.again = TRUE]>>]
         /\ UNCHANGED page
    ELSE /\ work' = [work EXCEPT ![t] = <<>>]
         /\ Put(t, [page[t] EXCEPT !.failed = TRUE])
         /\ UNCHANGED sessions

\* onSuccess clears the draft and goes to the dashboard, also when the page was
\* left meanwhile; onError stays.
Saved(t) ==
    /\ Web(t) /\ page[t].stage \in {"editing", "left"} /\ work[t] # <<>> /\ work[t][1].stage = "done"
    /\ LET r == work[t][1] IN
       CASE r.answer = "ok" ->
               /\ work' = [work EXCEPT ![t] = <<>>]
               /\ Put(t, [page[t] EXCEPT !.stage = "dashboard", !.dialog = "none"])
               /\ draft' = IF scene.creating THEN None ELSE draft
               /\ UNCHANGED sessions
         [] r.answer = "expired" /\ ~r.again -> Reopened(t, r) /\ UNCHANGED draft
         [] OTHER ->
               /\ work' = [work EXCEPT ![t] = <<>>]
               /\ Put(t, [page[t] EXCEPT !.failed = TRUE])
               /\ UNCHANGED <<sessions, draft>>
    /\ UNCHANGED <<scene, db, index, links, files, jobs, listing, risks, count>>

\* The blocker asks whether to leave; an unchanged form is left at once.
Leave(t) ==
    /\ Free(t) /\ Uses("leave")
    /\ Only(t, IF Dirty(t) THEN [page[t] EXCEPT !.dialog = "leave"] ELSE [page[t] EXCEPT !.stage = "left"])

AnswerBlocker(t) ==
    /\ Web(t) /\ Editing(t) /\ page[t].dialog = "leave"
    /\ \/ Only(t, [page[t] EXCEPT !.dialog = "none"])
       \/ Only(t, [page[t] EXCEPT !.dialog = "none", !.stage = "left"])

\* The tab is closed or dies, whatever is open in it.
Crash(t) ==
    /\ Uses("crash") /\ Editing(t)
    /\ Only(t, [page[t] EXCEPT !.stage = "closed", !.dialog = "none"])

QuizEditor(t) ==
    \/ SelectQuestion(t) \/ EditSettings(t) \/ EditQuestion(t) \/ TypeBound(t) \/ RangeAnswerEditor(t)
    \/ DragQuestion(t) \/ AddQuestion(t) \/ AskDelete(t) \/ DeleteQuestion(t)
    \/ PressSave(t) \/ Saved(t) \/ Leave(t) \/ AnswerBlocker(t) \/ Crash(t)

-----------------------------------------------------------------------------
(* The legacy editor: a question is known by its place. *)

Kind(type) == IF type = "CHECK" THEN "ABCD" ELSE type

\* What the mounted parts do to the question they are shown for.  A part stays
\* mounted while the selected question is of its kind: the slider and the
\* canvas then still hold the values of the question they were mounted for, and
\* the slider writes them into the one that is shown now.
Settled(p) ==
    IF p.sel \notin DOMAIN p.form.questions THEN [p EXCEPT !.part = None]
    ELSE LET q    == p.form.questions[p.sel]
             kept == p.part # None /\ p.part.kind = Kind(q.type)
             part == IF kept THEN p.part
                     ELSE [kind |-> Kind(q.type), low |-> q.span.low, high |-> q.span.high,
                           canvas |-> q.canvas]
             list == IF q.type # "TEXT" THEN Coloured(q.list)
                     ELSE IF kept THEN q.list
                     ELSE [i \in DOMAIN q.list |-> [q.list[i] EXCEPT !.mark = FALSE]] IN
         [p EXCEPT !.part = part,
                   !.form.questions[p.sel] =
                       [q EXCEPT !.list = list,
                                 !.span = IF q.type = "RANGE"
                                          THEN [@ EXCEPT !.low = part.low, !.high = part.high] ELSE @]]

LegacyFree(t) == Legacy(t) /\ Editing(t) /\ page[t].dialog = "none"

Shown(t) == page[t].sel \in DOMAIN page[t].form.questions

LegacyPut(t, p, names) ==
    /\ Bump("edits")
    /\ Put(t, Settled(p))
    /\ risks' = risks \cup names \cup (IF work[t] # <<>> THEN {"typed"} ELSE {})
    /\ UNCHANGED <<scene, stored, draft, listing, work>>

LegacyChange(t, p) == LegacyPut(t, p, {})

\* The sidebar: a card is selected; not in the mode that reorders them.
SetSelectedQuestion(t) ==
    /\ LegacyFree(t)
    /\ \E k \in {0} \cup DOMAIN page[t].form.questions :
          k # page[t].sel /\ Only(t, Settled([page[t] EXCEPT !.sel = k]))

ReorderMode(t) ==
    /\ Legacy(t) /\ Editing(t) /\ Uses("order") /\ page[t].dialog \in {"none", "reorder"}
    /\ Only(t, [page[t] EXCEPT !.dialog = IF @ = "none" THEN "reorder" ELSE "none"])

SwapArrayElements(t) ==
    /\ Legacy(t) /\ Editing(t) /\ page[t].dialog = "reorder"
    /\ \E k \in 1 .. Len(page[t].form.questions) - 1 :
          LegacyChange(t, [page[t] EXCEPT !.form.questions = Swap(@, k, k + 1)])

\* The bin of a card: the click then reaches the card and selects its place,
\* where the next question is by now, or none.
DeleteCard(t) ==
    /\ LegacyFree(t) /\ Uses("delete")
    /\ \E k \in DOMAIN page[t].form.questions :
          LegacyChange(t, [page[t] EXCEPT !.sel = k, !.form.questions = RemoveAt(@, k),
                                          !.touched = @ \cup {page[t].form.questions[k].of}])

AddNewQuestionPopup(t) ==
    /\ LegacyFree(t) /\ Uses("add")
    /\ \E type \in scene.adds \ {"SLIDE"} :
          LegacyChange(t, [page[t] EXCEPT !.form.questions = Append(@, EmptyQuestion(type, page[t].next)),
                                          !.sel = Len(page[t].form.questions) + 1, !.next = @ + 1])

\* A new slide is not selected.
AddSlide(t) ==
    /\ LegacyFree(t) /\ "SLIDE" \in scene.adds
    /\ LET slide == [EmptyQuestion("SLIDE", page[t].next) EXCEPT !.text = "text"] IN
       LegacyChange(t, [page[t] EXCEPT !.form.questions = Append(@, slide), !.next = @ + 1])

LegacySettingsCard(t) ==
    /\ LegacyFree(t) /\ Uses("settings") /\ page[t].sel = 0
    /\ \E f \in LegacySettings(page[t].form) \ {page[t].form} :
          LegacyChange(t, [page[t] EXCEPT !.form = f])

EditAt(p, q) == [p EXCEPT !.form.questions[p.sel] = q, !.touched = @ \cup {q.of}]

QuizCard(t) ==
    /\ LegacyFree(t) /\ Shown(t)
    /\ LET q == page[t].form.questions[page[t].sel] IN
       \E r \in ((IF Uses("card") THEN LegacyCard(q) ELSE {})
                   \cup (IF Uses("answers") THEN LegacyAnswerPart(q) ELSE {})) \ {q} :
           LegacyChange(t, EditAt(page[t], r))

\* The bounds are bound to the question, the thumbs to the slider's own values.
RangeSelectorEditorPart(t) ==
    /\ LegacyFree(t) /\ Uses("span") /\ Shown(t)
    /\ LET p == page[t]
           q == p.form.questions[p.sel] IN
       /\ q.type = "RANGE"
       /\ \/ \E r \in BoundField(q) : r # q /\ LegacyChange(t, EditAt(p, r))
          \/ LegacyChange(t, [EditAt(p, q) EXCEPT !.part.low = q.span.min, !.part.high = q.span.max])

\* Every event of the canvas writes the drawing into the question that is shown.
Slide(t) ==
    /\ LegacyFree(t) /\ Uses("slide") /\ Shown(t)
    /\ LET p == page[t]
           q == p.form.questions[p.sel] IN
       /\ q.type = "SLIDE"
       /\ \E c \in ElementSelection(p.part.canvas) \cup EditMenu(p.part.canvas) :
             LegacyChange(t, [EditAt(p, [q EXCEPT !.canvas = c]) EXCEPT !.part.canvas = c])

\* SaveQuiz of the legacy page: nothing keeps it from being pressed twice.
SaveQuiz(t) ==
    /\ LegacyFree(t) /\ IsValid(FALSE, page[t].form) /\ Bump("saves")
    /\ work' = [work EXCEPT ![t] = Append(@, Request(t, "finish", page[t].sid, TRUE))]
    /\ Put(t, [page[t] EXCEPT !.failed = FALSE, !.sent = ToQuizInput(page[t].form),
                              !.press = count["saves"] + 1])
    /\ Risk(Others, "overlap")
    /\ UNCHANGED <<scene, stored, draft, listing>>

LegacySaved(t) ==
    /\ Legacy(t) /\ Editing(t)
    /\ \E i \in DOMAIN work[t] :
          /\ work[t][i].stage = "done"
          /\ work' = [work EXCEPT ![t] = RemoveAt(@, i)]
          /\ Put(t, IF work[t][i].answer = "ok" THEN [page[t] EXCEPT !.stage = "dashboard", !.dialog = "none"]
                                                ELSE [page[t] EXCEPT !.failed = TRUE])
    /\ UNCHANGED <<scene, stored, draft, listing, risks, count>>

\* beforeunload asks; what it stores is read by nobody.
ConfirmUnload(t) ==
    /\ LegacyFree(t) /\ Uses("leave")
    /\ Only(t, [page[t] EXCEPT !.stage = "left"])

\* Nobody hears the answer of a page that is gone.
Unheard(t) ==
    /\ page[t].stage \in {"closed", "dashboard"} \/ (Legacy(t) /\ page[t].stage = "left")
    /\ \E i \in DOMAIN work[t] :
          work[t][i].stage = "done" /\ work' = [work EXCEPT ![t] = RemoveAt(@, i)]
    /\ UNCHANGED <<scene, stored, draft, listing, page, risks, count>>

-----------------------------------------------------------------------------
(* The pictures of the legacy client. *)

\* The uploader of the settings (cover or background) or of a question
\* without a picture.
OpenUploader(t) ==
    /\ LegacyFree(t) /\ Uses("picture") /\ page[t].upload = None
    /\ \E at \in {"cover", "back", "question"} :
          /\ CASE at = "cover" -> page[t].sel = 0 /\ page[t].form.cover = None
               [] at = "back"  -> page[t].sel = 0 /\ page[t].form.back = None
               [] OTHER        -> Shown(t) /\ page[t].form.questions[page[t].sel].image = None
          /\ Only(t, [page[t] EXCEPT !.dialog = "upload",
                                     !.upload = [at |-> at, sel |-> page[t].sel, step |-> "choosing"]])

\* Escape, or a click beside the window: an upload that runs goes on.
CloseUploader(t) ==
    /\ Legacy(t) /\ Editing(t) /\ page[t].dialog = "upload"
    /\ Put(t, [page[t] EXCEPT !.dialog = "none",
                              !.upload = IF @.step = "choosing" THEN None ELSE @])
    /\ Risk(page[t].upload.step # "choosing", "strayed")
    /\ UNCHANGED <<scene, stored, draft, listing, work, count>>

\* Where a picture goes: to the cover, the background (also for "question -1"),
\* or the question.
WithPicture(p, at, k, pic) ==
    CASE at = "cover" -> [p EXCEPT !.form.cover = pic]
      [] at = "back" \/ (at = "question" /\ k = 0) -> [p EXCEPT !.form.back = pic]
      [] at = "question" /\ k \in DOMAIN p.form.questions ->
            [p EXCEPT !.form.questions[k].image = pic,
                      !.touched = IF k = p.upload.sel THEN @ \cup {p.form.questions[k].of} ELSE @]
      [] OTHER -> p

\* A picture of the library, which lists the deleted ones too.
Library(t) ==
    /\ Legacy(t) /\ Editing(t) /\ page[t].dialog = "upload" /\ page[t].upload.step = "choosing"
    /\ \E pic \in Items :
          LegacyPut(t, [WithPicture(page[t], page[t].upload.at, page[t].sel, pic)
                        EXCEPT !.dialog = "none", !.upload = None],
                    IF pic \in Kept THEN {} ELSE {"files"})

\* A file is sent, or Pixabay is asked to save one of its pictures.
SendPicture(t) ==
    /\ Legacy(t) /\ Editing(t) /\ page[t].dialog = "upload" /\ page[t].upload.step = "choosing"
    /\ Items # Pictures
    /\ Only(t, [page[t] EXCEPT !.upload.step = "sending"])

\* The page /edit/videos: a film is compressed, then sent, and its id stored
\* where the editor listens.
VideoPage(t) ==
    /\ Legacy(t) /\ Editing(t) /\ page[t].upload # None /\ Items # Pictures
    /\ \/ /\ page[t].dialog = "upload" /\ page[t].upload.at = "question"
          /\ page[t].upload.step = "choosing"
          /\ Only(t, [page[t] EXCEPT !.upload.step = "compressing"])
       \/ /\ page[t].upload.step = "compressing"
          /\ Only(t, [page[t] EXCEPT !.upload.step = "sending"])

\* The picture is stored and goes to the question that is selected now; an
\* uploader that is no longer shown may still see the one it was opened for.
PictureArrives(t) ==
    /\ Legacy(t) /\ Editing(t) /\ page[t].upload # None /\ page[t].upload.step = "sending"
    /\ \E pic \in Pictures \ Items :
       \E k \in IF Shown(t) /\ page[t].form.questions[page[t].sel].image = None
                THEN {page[t].sel} ELSE {page[t].sel, page[t].upload.sel} :
          /\ files' = [files EXCEPT ![pic] = "kept"]
          /\ Put(t, Settled([WithPicture(page[t], page[t].upload.at, k, pic)
                             EXCEPT !.dialog = "none", !.upload = None]))
    /\ UNCHANGED <<scene, db, index, links, sessions, jobs, draft, listing, work, risks, count>>

Linked == UNION {links[q] : q \in Ids}

\* The files page offers the bin for every picture.
Bug_FilesPage ==
    /\ listing = None /\ Uses("picture") /\ count["deletes"] < scene.deletes
    /\ listing' = [offered |-> Kept, linked |-> Linked]
    /\ UNCHANGED <<scene, stored, draft, page, work, risks, count>>

\* The files page offers the bin for pictures no quiz is linked to.
FilesPage ==
    /\ listing = None /\ Uses("picture") /\ count["deletes"] < scene.deletes
    /\ listing' = [offered |-> Kept \ Linked, linked |-> Linked]
    /\ UNCHANGED <<scene, stored, draft, page, work, risks, count>>

\* mark_file_as_deleted asks nobody whether the picture is used by now.
DeleteImage ==
    /\ listing # None /\ Bump("deletes")
    /\ \E pic \in listing.offered : files' = [files EXCEPT ![pic] = "deleted"]
    /\ listing' = None
    /\ Risk(\/ Others
            \/ listing.linked # Linked
            \/ draft # None
            \/ \E t \in Tabs : page[t].stage \in {"starting", "editing"}, "files")
    /\ UNCHANGED <<scene, db, index, links, sessions, jobs, draft, page, work>>

LegacyEditor(t) ==
    \/ SetSelectedQuestion(t) \/ ReorderMode(t) \/ SwapArrayElements(t) \/ DeleteCard(t)
    \/ AddNewQuestionPopup(t) \/ AddSlide(t) \/ LegacySettingsCard(t) \/ QuizCard(t)
    \/ RangeSelectorEditorPart(t) \/ Slide(t) \/ SaveQuiz(t) \/ LegacySaved(t) \/ ConfirmUnload(t)

Uploader(t) ==
    OpenUploader(t) \/ CloseUploader(t) \/ Library(t) \/ SendPicture(t) \/ VideoPage(t) \/ PictureArrives(t)

-----------------------------------------------------------------------------
Next ==
    \/ \E t \in Tabs : \/ Open(t) \/ QuizEditor(t) \/ LegacyEditor(t) \/ Uploader(t)
                       \/ Unheard(t) \/ Handle(t) \/ Fail(t)
    \/ Expire \/ Work \/ DeleteQuiz \/ FilesPage \/ DeleteImage

\* The handlers and the worker go on, and an answer that is there reaches its page.
EditorSpec ==
    /\ Init /\ [][Next]_vars
    /\ \A t \in Tabs : WF_vars(Handle(t)) /\ WF_vars(Saved(t) \/ LegacySaved(t))

-----------------------------------------------------------------------------
(* Properties. *)

\* Every variable has its type.
EditorTypeOK ==
    /\ scene \in Scenes
    /\ \A q \in Ids : /\ db[q] = None \/ db[q] \in Quizzes
                      /\ index[q] \in Texts \cup {None} /\ links[q] \subseteq Pictures
    /\ files \in [Pictures -> {"none", "kept", "deleted"}]
    /\ draft = None \/ draft \in Quizzes
    /\ listing = None \/ (listing.offered \cup listing.linked) \subseteq Pictures
    /\ \A i \in DOMAIN sessions : sessions[i] \in [quiz : Ids, edit : BOOLEAN, live : BOOLEAN]
    /\ \A j \in DOMAIN jobs : jobs[j].quiz \in Ids /\ jobs[j].old \in Quizzes
    /\ \A t \in Tabs :
          /\ page[t].stage \in {"closed", "starting", "missing", "editing", "left", "dashboard"}
          /\ page[t].form \in Quizzes /\ page[t].initial \in Quizzes
          /\ page[t].dialog \in {"none", "delete", "leave", "reorder", "upload"}
          /\ page[t].sid \in 0 .. Len(sessions)
          /\ \A i \in DOMAIN work[t] :
                /\ work[t][i].stage \in {"sent", "read", "indexed", "closed", "saved", "done"}
                /\ work[t][i].answer \in {None, "ok", "expired", "failed"}
                /\ work[t][i].data \in Quizzes
    /\ risks \subseteq {"typed", "overlap", "slow", "fail", "lost", "deleted", "files", "strayed", "halfway"}

\* What the legacy editor changes by showing it: a text answer that minds case, and
\* a range beside another one, whose slider it shares.
ChangedByShowing(t, was) ==
    \/ was.type = "TEXT" /\ \E i \in DOMAIN was.list : was.list[i].mark
    \/ was.type = "RANGE" /\ \/ "RANGE" \in scene.adds
                             \/ \E k \in DOMAIN page[t].initial.questions :
                                   k # was.of /\ page[t].initial.questions[k].type = "RANGE"

Recoloured(q) == [q EXCEPT !.list = Coloured(@)]

\* However questions are dragged, added, binned and edited in between, one the
\* teacher neither edited nor binned is still there with what it was loaded with
\* (colours that were missing apart): always in the new editor, in the legacy one
\* unless showing it changes it or an upload strays.
UntouchedStay ==
    \A t \in Tabs : Editing(t) =>
       \A key \in DOMAIN page[t].initial.questions \ page[t].touched :
          LET was == page[t].initial.questions[key] IN
          (Web(t) \/ ~(ChangedByShowing(t, was) \/ "strayed" \in risks)) =>
             \E k \in DOMAIN page[t].form.questions :
                Recoloured(page[t].form.questions[k]) = Recoloured(was)

\* "Keeps a RANGE question's correct span inside its selectable span"
\* (editorData.ts:66): a range the new editor saved has a span, whatever was typed
\* into its bounds, and the correct span lies in it, unless a draft was left while a
\* bound was typed and opened again.
RangesArePlayable ==
    (\A t \in Tabs : ~Legacy(t)) =>
       \A q \in Ids : db[q] \notin {None, scene.stored} =>
          Spanned(db[q]) /\ ("halfway" \notin risks => Fitted(db[q]))

OneTab == Cardinality({t \in Tabs : scene.ui[t] # "closed"}) = 1

\* What was typed into the only tab that makes a new quiz is in the draft or in
\* a stored quiz, through crashes and departures, unless more was typed after
\* the save button was pressed.
WorkIsKept ==
    (scene.creating /\ "typed" \notin risks /\ OneTab) =>
       \A t \in Tabs :
          (Web(t) /\ page[t].stage # "starting" /\ Dirty(t)) =>
             ToQuizInput(page[t].form) \in {draft} \cup {db[q] : q \in Ids}

Existing == IF scene.stored = None THEN {} ELSE {1}

\* One visit to /create stores one quiz, however often its form is sent, its
\* session expires or its save fails, unless the answer to a save that
\* succeeded is lost.
SavedOnce ==
    (scene.creating /\ "lost" \notin risks) =>
       Cardinality({q \in Ids : db[q] # None} \ Existing) <= count["visits"]

\* The same without the exception: the save is repeated only for a session that
\* expired ("an expired session is reopened once and the save repeated").
RepeatedOnlyWhenExpired ==
    scene.creating => Cardinality({q \in Ids : db[q] # None} \ Existing) <= count["visits"]

\* What an editor reported as saved is what is stored, until the same quiz is sent
\* again, also after the job that mends the links wrote the row again; saves that
\* overlap apart.
SavedIsStored ==
    (risks \cap {"overlap", "deleted"} = {}) =>
       \A t \in Tabs :
          (page[t].stage = "dashboard" /\ (scene.creating \/ page[t].press = count["saves"])) =>
             \E q \in Ids : db[q] = page[t].sent

\* Saving is right: what was saved is stored, once, and can be played.
SavesHold == SavedIsStored /\ SavedOnce /\ RangesArePlayable

Quiet == jobs = <<>> /\ \A t \in Tabs : work[t] = <<>>

\* When all is done, a quiz is linked to its pictures that have a row, and to no
\* others, also when a deleted picture was chosen.
PicturesAreLinked ==
    (Quiet /\ risks \cap {"overlap", "slow", "lost"} = {}) =>
       \A q \in Ids : db[q] # None => links[q] = PicturesOf(db[q]) \cap Items

\* The files page never deletes a picture of a stored quiz while nothing is being
\* edited; but a picture that it deleted can still be chosen for a quiz.
PicturesExist ==
    (Quiet /\ risks \cap {"overlap", "slow", "lost", "files"} = {}) =>
       \A q \in Ids : db[q] # None => PicturesOf(db[q]) \subseteq Kept

\* When all is done, the search finds the public quizzes and no private one.
FoundIffPublic ==
    (Quiet /\ risks \cap {"overlap", "fail", "deleted"} = {}) =>
       \A q \in Ids : index[q] # None <=> (db[q] # None /\ db[q].public)

\* The search index, the links and the files agree with the stored quizzes, which
\* the same handlers write in separate calls.
StoresAgree == EditorTypeOK /\ PicturesAreLinked /\ PicturesExist /\ FoundIffPublic

\* A save of the new editor gets through, also when its session expired, unless
\* something failed or the quiz was deleted.
PressedIsSaved ==
    \A t \in Tabs :
       (Web(t) /\ Editing(t) /\ work[t] # <<>>)
          ~> (page[t].stage # "editing" \/ risks \cap {"fail", "lost", "deleted"} # {})
=============================================================================
