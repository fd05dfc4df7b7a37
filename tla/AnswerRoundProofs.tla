-------------------------- MODULE AnswerRoundProofs --------------------------
(* Theorems about AnswerRound, for every value of its constants. *)
EXTENDS AnswerRound, FiniteSetTheorems, TLAPS

(***************************************************************************)
(* Types                                                                   *)
(***************************************************************************)

\* The records every actor starts with have their types.
LEMMA InitialRecords == NewGame \in PlayGame /\ NewSubmission \in Submission
                        /\ IdleHost \in Hosting
BY DEF NewGame, PlayGame, NewSubmission, Submission, SubmitPc, IdleHost, Hosting, HostOps

LEMMA QuestionsAreIndices == Questions \subseteq Indices /\ None \notin Indices
BY GameStoreAssumption DEF Questions, Indices

\* A call belongs to a connection and a question.
LEMMA CallIs ==
    ASSUME NEW c \in Calls
    PROVE  /\ c.sid \in Sids /\ c.q \in Questions /\ c.n \in 1 .. Attempts[c.sid]
           /\ c = [sid |-> c.sid, q |-> c.q, n |-> c.n]
BY DEF Calls

\* TypeOK alone is not inductive: what a host's handler writes is typed
\* because a running set_question_number carries a question.
HostCallsNamed ==
    \A h \in HostTasks :
        /\ hosting[h].op = "set_question_number" => hosting[h].q \in Indices
        /\ hosting[h].pc = "time" => hosting[h].op = "set_question_number"
        /\ hosting[h].pc = "emit" =>
              \/ hosting[h].op = "start_game"
              \/ hosting[h].op = "set_question_number" /\ hosting[h].q \in Questions

TypeInv == TypeOK /\ HostCallsNamed

\* Nothing has been asked yet, whoever is in the game.
LEMMA RoundInitTypes ==
    ASSUME RoundInit, game = NewGame, players \in SUBSET GamePlayer,
           session \in [Sids -> Session \cup {None}]
    PROVE  TypeInv
<1> USE DEF RoundInit
<1>1. game \in PlayGame /\ hosting \in [HostTasks -> Hosting] /\ submit \in [Calls -> Submission]
  BY InitialRecords
<1>2. room \in [started : BOOLEAN, question : {-1} \cup Questions, shown : SUBSET Questions]
  OBVIOUS
<1>3. HostCallsNamed
  BY DEF HostCallsNamed, IdleHost
<1>4. QED
  BY <1>1, <1>2, <1>3 DEF TypeInv, TypeOK

\* The types hold at the start.
LEMMA InitTypeInv == Init => TypeInv
<1> SUFFICES ASSUME Init PROVE TypeInv
  OBVIOUS
<1> USE DEF Init
<1>1. players \in SUBSET GamePlayer
  BY HostAssumption DEF GamePlayer
<1>2. session \in [Sids -> Session \cup {None}]
  BY HostAssumption DEF Session, AdminSession, PlayerSession
<1>3. QED
  BY <1>1, <1>2, RoundInitTypes

\* No step of submit_answer leaves the types.
LEMMA SubmitKeepsTypes ==
    ASSUME TypeOK, NEW c \in Calls, SubmitBegin(c) \/ SubmitStep(c)
    PROVE  TypeOK'
<1> USE DEF TypeOK, At
<1>0. /\ c.sid \in Sids /\ c.q \in Questions
      /\ submit[c] \in Submission
  BY DEF Calls
<1>1. CASE SubmitBegin(c)
  <2>1. PICK right \in BOOLEAN :
           submit' = [submit EXCEPT ![c].pc = "game",
                                    ![c].username = session[c.sid].username,
                                    ![c].ping = session[c.sid].ping,
                                    ![c].right = right]
    BY <1>1 DEF SubmitBegin
  <2>2. session[c.sid] \in Session
    BY <1>0, <1>1 DEF SubmitBegin
  <2>3. submit' \in [Calls -> Submission]
    BY <1>0, <2>1, <2>2 DEF Submission, SubmitPc, Session
  <2>4. QED
    BY <1>1, <2>3 DEF SubmitBegin
<1>2. CASE SubmitReadGame(c)
  BY <1>0, <1>2 DEF SubmitReadGame, Submission, SubmitPc
<1>3. CASE SubmitCheck(c)
  BY <1>0, <1>3 DEF SubmitCheck, Submission, SubmitPc
<1>4. CASE SubmitReadTime(c)
  BY <1>0, <1>4 DEF SubmitReadTime, Submission, SubmitPc
<1>5. CASE SubmitScore(c)
  BY <1>0, <1>5 DEF SubmitScore, Submission, SubmitPc
<1>6. CASE SubmitReadAnswers(c)
  BY <1>0, <1>6 DEF SubmitReadAnswers, Submission, SubmitPc
<1>7. CASE SubmitStore(c)
  BY <1>0, <1>7 DEF SubmitStore, Submission, SubmitPc, Appended
<1>8. CASE SubmitCount(c)
  BY <1>0, <1>8 DEF SubmitCount, Submission, SubmitPc
<1>9. CASE SubmitReread(c)
  BY <1>0, <1>9 DEF SubmitReread, Submission, SubmitPc
<1>10. CASE SubmitClose(c)
  BY <1>0, <1>10, InitialRecords DEF SubmitClose, Submission, SubmitPc, PlayGame
<1>11. QED
  BY <1>1, <1>2, <1>3, <1>4, <1>5, <1>6, <1>7, <1>8, <1>9, <1>10 DEF SubmitStep

\* The host's handlers.
LEMMA HostKeepsTypes ==
    ASSUME TypeInv, NEW h \in HostTasks, HostCall(h) \/ HostStep(h)
    PROVE  TypeInv'
<1> USE DEF TypeInv
<1>0. hosting[h] \in Hosting
  BY DEF TypeOK
<1>1. ASSUME NEW op \in HostOps, NEW q \in Indices \cup {None}, HostBegin(h, op, q),
             op = "set_question_number" => q \in Indices
      PROVE  TypeInv'
  <2>1. hosting' = [hosting EXCEPT ![h] = [IdleHost EXCEPT !.pc = "read", !.op = op, !.q = q]]
    BY <1>1 DEF HostBegin
  <2>2. [IdleHost EXCEPT !.pc = "read", !.op = op, !.q = q] \in Hosting
    BY InitialRecords DEF Hosting
  <2>3. TypeOK'
    BY <1>1, <2>1, <2>2 DEF TypeOK, HostBegin
  <2>4. HostCallsNamed'
    BY <1>1, <2>1 DEF TypeOK, HostCallsNamed, IdleHost, Hosting
  <2>5. QED
    BY <2>3, <2>4
<1>2. CASE CallStartGame(h)
  BY <1>1, <1>2 DEF CallStartGame, HostOps
<1>3. CASE CallSetQuestionNumber(h)
  BY <1>1, <1>3 DEF CallSetQuestionNumber, HostOps
<1>4. CASE CallGetQuestionResults(h)
  <2>1. room.question \in Indices
    BY <1>4, QuestionsAreIndices DEF CallGetQuestionResults, TypeOK
  <2>2. QED
    BY <1>1, <1>4, <2>1 DEF CallGetQuestionResults, HostOps
<1>5. CASE HostReadGame(h)
  <2>1. Edited(h, game) \in PlayGame
    BY <1>0 DEF TypeOK, HostCallsNamed, Hosting, HostOps, Edited, PlayGame
  <2>2. QED
    BY <1>0, <1>5, <2>1 DEF HostReadGame, TypeOK, HostCallsNamed, Hosting
<1>6. CASE HostSaveGame(h)
  <2>1. game' \in PlayGame
    BY <1>0, <1>6 DEF HostSaveGame, Hosting
  <2>2. PICK r : /\ hosting' = [hosting EXCEPT ![h] = r]
                 /\ \/ /\ hosting[h].op = "start_game"
                       /\ r = [hosting[h] EXCEPT !.pc = "emit", !.blob = NewGame]
                    \/ /\ hosting[h].op = "set_question_number"
                       /\ r = [hosting[h] EXCEPT !.pc = "time", !.blob = NewGame]
                    \/ r = IdleHost
    BY <1>0, <1>6 DEF HostSaveGame, TypeOK, Hosting, HostOps
  <2>3. r \in Hosting /\ (r.op = "set_question_number" => r.q \in Indices)
        /\ (r.pc = "time" => r.op = "set_question_number")
        /\ (r.pc = "emit" => r.op = "start_game")
    <3>0. NewGame \in PlayGame /\ IdleHost \in Hosting
      BY InitialRecords
    <3>1. CASE r = IdleHost
      BY <3>0, <3>1 DEF IdleHost
    <3>2. CASE r = [hosting[h] EXCEPT !.pc = "emit", !.blob = NewGame]
               /\ hosting[h].op = "start_game"
      BY <1>0, <3>0, <3>2 DEF Hosting
    <3>3. CASE r = [hosting[h] EXCEPT !.pc = "time", !.blob = NewGame]
               /\ hosting[h].op = "set_question_number"
      BY <1>0, <3>0, <3>3 DEF Hosting, HostCallsNamed
    <3>4. QED
      BY <2>2, <3>1, <3>2, <3>3
  <2>4. QED
    BY <1>6, <2>1, <2>2, <2>3 DEF HostSaveGame, TypeOK, HostCallsNamed
<1>7. CASE SetQuestionTime(h)
  <2>1. hosting[h].q \in Indices /\ hosting[h].op = "set_question_number"
    BY <1>7 DEF SetQuestionTime, HostCallsNamed
  <2>2. PICK r : /\ hosting' = [hosting EXCEPT ![h] = r]
                 /\ \/ r = IdleHost
                    \/ hosting[h].q \in Questions /\ r = [hosting[h] EXCEPT !.pc = "emit"]
    BY <1>0, <1>7 DEF SetQuestionTime, TypeOK
  <2>3. r \in Hosting /\ (r.op = "set_question_number" => r.q \in Indices)
        /\ r.pc # "time"
        /\ (r.pc = "emit" => r.op = "set_question_number" /\ r.q \in Questions)
    BY <1>0, <2>1, <2>2, InitialRecords DEF Hosting, IdleHost
  <2>4. QED
    BY <1>7, <2>1, <2>2, <2>3 DEF SetQuestionTime, TypeOK, HostCallsNamed
<1>8. CASE HostEmit(h)
  <2>1. room' \in [started : BOOLEAN, question : {-1} \cup Questions, shown : SUBSET Questions]
    BY <1>0, <1>8 DEF HostEmit, TypeOK, HostCallsNamed
  <2>2. hosting' \in [HostTasks -> Hosting] /\ HostCallsNamed'
    BY <1>0, <1>8, InitialRecords DEF HostEmit, TypeOK, HostCallsNamed, IdleHost
  <2>3. QED
    BY <1>8, <2>1, <2>2 DEF HostEmit, TypeOK
<1>9. QED
  BY <1>2, <1>3, <1>4, <1>5, <1>6, <1>7, <1>8 DEF HostCall, HostStep

\* submit_answer leaves the calls of the hosts alone.
LEMMA SubmitKeepsHosting ==
    ASSUME TypeInv, NEW c \in Calls, SubmitBegin(c) \/ SubmitStep(c)
    PROVE  HostCallsNamed'
BY DEF TypeInv, HostCallsNamed, SubmitBegin, SubmitStep, SubmitReadGame, SubmitCheck,
       SubmitReadTime, SubmitScore, SubmitReadAnswers, SubmitStore, SubmitCount,
       SubmitReread, SubmitClose

\* The types are kept by every step.
LEMMA NextTypeInv == TypeInv /\ [RoundNext]_vars => TypeInv'
<1> SUFFICES ASSUME TypeInv, [RoundNext]_vars PROVE TypeInv'
  OBVIOUS
<1>1. CASE UNCHANGED vars
  BY <1>1 DEF vars, TypeInv, TypeOK, HostCallsNamed
<1>2. ASSUME NEW c \in Calls, SubmitBegin(c) \/ SubmitStep(c) PROVE TypeInv'
  BY <1>2, SubmitKeepsTypes, SubmitKeepsHosting DEF TypeInv
<1>3. ASSUME NEW h \in HostTasks, HostCall(h) \/ HostStep(h) PROVE TypeInv'
  BY <1>3, HostKeepsTypes
<1>4. QED
  BY <1>1, <1>2, <1>3 DEF RoundNext

\* Every variable keeps its type, and a host's running call names a question when it is
\* a set_question_number: the inductive invariant under all that follows.
THEOREM TypeInvariant == Spec => []TypeInv
BY InitTypeInv, NextTypeInv, PTL DEF Spec

\* Every variable keeps its type: in particular no handler ever saves a game
\* whose current_question is more than one past the last index of the quiz.
THEOREM TypeCorrect == Spec => []TypeOK
<1>1. TypeInv => TypeOK
  BY DEF TypeInv
<1>2. QED
  BY <1>1, TypeInvariant, PTL

(***************************************************************************)
(* Lists and scores                                                        *)
(***************************************************************************)

\* Why a listed answer is always scored: a handler is past HINCRBY when it
\* reads the list, and its snapshot of the list holds scored answers of the
\* same question only.  The snapshot outlives the list it was taken from, so
\* it has to be part of the invariant.
PastScore == {"read", "store", "count", "reread", "close", "accepted", "everyone"}

ScoredInv ==
    /\ TypeInv
    /\ ListedAnswersAreScored
    /\ \A c \in Calls : submit[c].pc \in PastScore => c \in scores
    /\ \A c \in Calls : submit[c].seen \subseteq {d \in scores : d.q = c.q}

\* Nothing is stored or scored when a round begins.
LEMMA RoundInitScored == RoundInit /\ TypeInv => ScoredInv
BY DEF RoundInit, ScoredInv, ListedAnswersAreScored, NewSubmission, PastScore

\* No list shows an unscored answer at the start.
LEMMA InitScoredInv == Init => ScoredInv
BY InitTypeInv, RoundInitScored DEF Init

\* Every step keeps the listed answers scored, handlers that hold an older copy included.
LEMMA NextScoredInv == ScoredInv /\ [RoundNext]_vars => ScoredInv'
<1> SUFFICES ASSUME ScoredInv, [RoundNext]_vars PROVE ScoredInv'
  OBVIOUS
<1> USE DEF ScoredInv
<1>0. TypeInv' /\ TypeOK
  BY NextTypeInv DEF TypeInv
<1>1. ASSUME UNCHANGED <<answers, scores, submit>> PROVE ScoredInv'
  BY <1>0, <1>1 DEF ListedAnswersAreScored
<1>2. CASE UNCHANGED vars
  BY <1>1, <1>2 DEF vars
<1>3. ASSUME NEW h \in HostTasks, HostCall(h) \/ HostStep(h) PROVE ScoredInv'
  BY <1>1, <1>3 DEF HostCall, HostStep, CallStartGame, CallSetQuestionNumber,
     CallGetQuestionResults, HostBegin, HostReadGame, HostSaveGame, SetQuestionTime, HostEmit
<1>4. ASSUME NEW c \in Calls, SubmitBegin(c) \/ SubmitStep(c) PROVE ScoredInv'
  <2>0. submit \in [Calls -> Submission] /\ answers \in [Questions -> SUBSET Calls]
        /\ c.q \in Questions
    BY <1>0 DEF TypeOK, Calls
  \* A step that leaves lists, scores and snapshots alone and does not enter
  \* the part of the handler behind HINCRBY.
  <2>1. ASSUME UNCHANGED <<answers, scores>>,
               \A d \in Calls : d # c => submit'[d] = submit[d],
               submit'[c].seen \in {submit[c].seen, {}},
               submit'[c].pc \in PastScore => submit[c].pc \in PastScore
        PROVE  ScoredInv'
    BY <1>0, <2>1 DEF ListedAnswersAreScored
  <2>2. CASE SubmitBegin(c)
    BY <2>0, <2>1, <2>2 DEF SubmitBegin, At, PastScore, Submission
  <2>3. CASE SubmitReadGame(c)
    BY <2>0, <2>1, <2>3 DEF SubmitReadGame, At, PastScore, Submission
  <2>4. CASE SubmitCheck(c)
    BY <2>0, <2>1, <2>4 DEF SubmitCheck, At, PastScore, Submission
  <2>5. CASE SubmitReadTime(c)
    BY <2>0, <2>1, <2>5 DEF SubmitReadTime, At, PastScore, Submission
  <2>6. CASE SubmitScore(c)
    <3>1. scores \subseteq scores' /\ c \in scores'
      BY <2>6 DEF SubmitScore
    <3>2. \A d \in Calls : submit'[d].seen = submit[d].seen /\ (d # c => submit'[d] = submit[d])
      BY <2>0, <2>6 DEF SubmitScore, Submission
    <3>3. QED
      BY <1>0, <2>6, <3>1, <3>2 DEF SubmitScore, ListedAnswersAreScored
  <2>7. CASE SubmitReadAnswers(c)
    <3>1. submit'[c].seen = answers[c.q] /\ submit'[c].pc = "store"
          /\ \A d \in Calls : d # c => submit'[d] = submit[d]
      BY <2>0, <2>7 DEF SubmitReadAnswers, Submission
    <3>2. c \in scores /\ UNCHANGED <<answers, scores>>
      BY <2>7 DEF SubmitReadAnswers, At, PastScore
    <3>3. QED
      BY <1>0, <2>0, <3>1, <3>2 DEF ListedAnswersAreScored
  <2>8. CASE SubmitStore(c)
    <3>1. c \in scores /\ Appended(c) \subseteq {d \in scores : d.q = c.q}
      BY <2>8 DEF SubmitStore, At, PastScore, Appended
    <3>2. \A q \in Questions : answers'[q] = IF q = c.q THEN Appended(c) ELSE answers[q]
      BY <2>0, <2>8 DEF SubmitStore
    <3>3. \A d \in Calls : submit'[d].seen = submit[d].seen /\ (d # c => submit'[d] = submit[d])
      BY <2>0, <2>8 DEF SubmitStore, Submission
    <3>4. QED
      BY <1>0, <2>8, <3>1, <3>2, <3>3 DEF SubmitStore, ListedAnswersAreScored
  <2>9. CASE SubmitCount(c)
    BY <2>0, <2>1, <2>9 DEF SubmitCount, At, PastScore, Submission
  <2>10. CASE SubmitReread(c)
    BY <2>0, <2>1, <2>10 DEF SubmitReread, At, PastScore, Submission
  <2>11. CASE SubmitClose(c)
    BY <2>0, <2>1, <2>11 DEF SubmitClose, At, PastScore, Submission
  <2>12. QED
    BY <1>4, <2>2, <2>3, <2>4, <2>5, <2>6, <2>7, <2>8, <2>9, <2>10, <2>11 DEF SubmitStep
<1>5. QED
  BY <1>2, <1>3, <1>4 DEF RoundNext

\* However the handlers interleave, the results of a question never show an
\* answer whose points are missing from the scoreboard.
THEOREM ListedAnswersAreAlwaysScored == Spec => []ListedAnswersAreScored
<1>1. ScoredInv => ListedAnswersAreScored
  BY DEF ScoredInv
<1>2. QED
  BY <1>1, InitScoredInv, NextScoredInv, PTL DEF Spec

(***************************************************************************)
(* Stored answers                                                          *)
(***************************************************************************)

\* Lists, and the copies of them that handlers hold, only have stored answers
\* to their own question.
StoredOnly ==
    /\ \A q \in Questions : answers[q] \subseteq {d \in Stored : d.q = q}
    /\ \A c \in Calls : submit[c].seen \subseteq {d \in Stored : d.q = c.q}

\* No list holds anything when a round begins.
LEMMA RoundInitStored == RoundInit => StoredOnly
BY DEF RoundInit, StoredOnly, NewSubmission

\* What is on a list, or on a copy of one, was put there by the call itself.
LEMMA NextStoredOnly ==
    ASSUME TypeOK, StoredOnly, [RoundNext]_vars
    PROVE  StoredOnly'
<1> USE DEF At
<1>0. submit \in [Calls -> Submission] /\ answers \in [Questions -> SUBSET Calls]
  BY DEF TypeOK
<1>1. ASSUME UNCHANGED <<answers, submit>> PROVE StoredOnly'
  BY <1>1 DEF StoredOnly, Stored
<1>2. CASE UNCHANGED vars
  BY <1>1, <1>2 DEF vars
<1>3. ASSUME NEW h \in HostTasks, HostCall(h) \/ HostStep(h) PROVE StoredOnly'
  BY <1>1, <1>3 DEF HostCall, HostStep, CallStartGame, CallSetQuestionNumber,
     CallGetQuestionResults, HostBegin, HostReadGame, HostSaveGame, SetQuestionTime, HostEmit
<1>4. ASSUME NEW c \in Calls, SubmitBegin(c) \/ SubmitStep(c) PROVE StoredOnly'
  <2>0. c.q \in Questions
    BY DEF Calls
  \* A step that writes no list and takes no copy of one.
  <2>1. ASSUME answers' = answers, submit'[c].seen \in {submit[c].seen, {}},
               \A d \in Calls : d # c => submit'[d] = submit[d],
               c \in Stored => c \in Stored'
        PROVE  StoredOnly'
    <3>1. Stored \subseteq Stored'
      BY <2>1 DEF Stored
    <3>2. QED
      BY <2>1, <3>1 DEF StoredOnly
  <2>2. CASE SubmitBegin(c)
    BY <1>0, <2>1, <2>2 DEF SubmitBegin, Submission, Stored
  <2>3. CASE SubmitReadGame(c) \/ SubmitCheck(c) \/ SubmitReadTime(c) \/ SubmitScore(c)
    <3>1. /\ answers' = answers /\ submit'[c].seen = submit[c].seen /\ c \notin Stored
          /\ \A d \in Calls : d # c => submit'[d] = submit[d]
      BY <1>0, <2>3 DEF SubmitReadGame, SubmitCheck, SubmitReadTime, SubmitScore, Submission, Stored
    <3>2. QED
      BY <2>1, <3>1
  <2>4. CASE SubmitReadAnswers(c)
    <3>1. submit'[c].seen = answers[c.q] /\ answers' = answers /\ c \notin Stored
          /\ \A d \in Calls : d # c => submit'[d] = submit[d]
      BY <1>0, <2>4 DEF SubmitReadAnswers, Submission, Stored
    <3>2. Stored \subseteq Stored'
      BY <3>1 DEF Stored
    <3>3. QED
      BY <2>0, <3>1, <3>2 DEF StoredOnly
  <2>5. CASE SubmitStore(c)
    <3>1. submit'[c].seen = submit[c].seen /\ submit'[c].pc = "count"
          /\ \A d \in Calls : d # c => submit'[d] = submit[d]
      BY <1>0, <2>5 DEF SubmitStore, Submission
    <3>2. Stored \subseteq Stored' /\ c \in Stored'
      BY <3>1 DEF Stored
    <3>3. \A q \in Questions : answers'[q] = IF q = c.q THEN Appended(c) ELSE answers[q]
      BY <1>0, <2>5 DEF SubmitStore
    <3>4. QED
      BY <3>1, <3>2, <3>3 DEF StoredOnly, Appended
  <2>6. CASE SubmitCount(c)
    BY <1>0, <2>1, <2>6 DEF SubmitCount, Submission, Stored
  <2>7. CASE SubmitReread(c)
    BY <1>0, <2>1, <2>7 DEF SubmitReread, Submission, Stored
  <2>8. CASE SubmitClose(c)
    BY <1>0, <2>1, <2>8 DEF SubmitClose, Submission, Stored
  <2>9. QED
    BY <1>4, <2>2, <2>3, <2>4, <2>5, <2>6, <2>7, <2>8 DEF SubmitStep
<1>5. QED
  BY <1>2, <1>3, <1>4 DEF RoundNext

(***************************************************************************)
(* Settled answers                                                         *)
(***************************************************************************)

\* A settled answer is settled after every step.
LEMMA NextSettled ==
    ASSUME TypeOK, [RoundNext]_vars, NEW d \in Calls, Settled(d)
    PROVE  Settled(d)'
<1> USE DEF Settled, At
<1>0. submit \in [Calls -> Submission] /\ answers \in [Questions -> SUBSET Calls]
      /\ d.q \in Questions
  BY DEF TypeOK, Calls
<1>1. CASE UNCHANGED <<answers, submit>>
  BY <1>1
<1>2. ASSUME NEW h \in HostTasks, HostCall(h) \/ HostStep(h) PROVE Settled(d)'
  BY <1>1, <1>2 DEF HostCall, HostStep, CallStartGame, CallSetQuestionNumber,
     CallGetQuestionResults, HostBegin, HostReadGame, HostSaveGame, SetQuestionTime, HostEmit
<1>3. ASSUME NEW c \in Calls, SubmitBegin(c) \/ SubmitStep(c) PROVE Settled(d)'
  <2>1. \A e \in Calls : e # c => submit'[e] = submit[e]
    BY <1>0, <1>3 DEF SubmitBegin, SubmitStep, SubmitReadGame, SubmitCheck, SubmitReadTime,
       SubmitScore, SubmitReadAnswers, SubmitStore, SubmitCount, SubmitReread, SubmitClose
  \* Only SubmitReadAnswers brings a handler to its write, and the snapshot
  \* it takes is the list the answer is on.
  <2>2. CASE SubmitReadAnswers(c)
    <3>1. submit'[c].seen = answers[c.q] /\ answers' = answers
      BY <1>0, <2>2 DEF SubmitReadAnswers, Submission
    <3>2. QED
      BY <2>1, <3>1
  \* The one step that writes a list, from a snapshot that holds the answer.
  <2>3. CASE SubmitStore(c)
    <3>1. d \in answers'[d.q]
      BY <1>0, <2>3 DEF SubmitStore, Appended
    <3>2. submit'[c].pc = "count"
      BY <1>0, <2>3 DEF SubmitStore, Submission
    <3>3. QED
      BY <2>1, <3>1, <3>2
  <2>4. ASSUME ~SubmitReadAnswers(c), ~SubmitStore(c)
        PROVE  submit'[c].pc # "store" /\ answers' = answers
    <3>1. CASE SubmitBegin(c)
      BY <1>0, <3>1 DEF SubmitBegin
    <3>2. CASE SubmitReadGame(c) \/ SubmitCheck(c) \/ SubmitScore(c)
      BY <1>0, <3>2 DEF SubmitReadGame, SubmitCheck, SubmitScore, Submission
    <3>3. CASE SubmitCount(c) \/ SubmitReadTime(c)
      BY <1>0, <3>3 DEF SubmitCount, SubmitReadTime, Submission
    <3>4. CASE SubmitReread(c) \/ SubmitClose(c)
      BY <1>0, <3>4 DEF SubmitReread, SubmitClose, Submission
    <3>5. QED
      BY <1>3, <2>4, <3>1, <3>2, <3>3, <3>4 DEF SubmitStep
  <2>5. QED
    BY <2>1, <2>2, <2>3, <2>4
<1>4. QED
  BY <1>1, <1>2, <1>3 DEF RoundNext, vars

\* An answer every pending writer has seen can no longer be lost.
THEOREM SettledAnswersAlwaysStay == Spec => SettledAnswersStay
<1>1. TypeOK /\ [RoundNext]_vars => [\A d \in Calls : Settled(d) => Settled(d)']_vars
  BY NextSettled
<1>2. QED
  BY <1>1, TypeCorrect, PTL DEF Spec, SettledAnswersStay

(***************************************************************************)
(* The clock                                                               *)
(***************************************************************************)

\* A question reaches the screens only after SetQuestionTime, and nothing
\* deletes the key while the game runs.
ClockInv ==
    /\ TypeInv
    /\ \A h \in HostTasks :
          hosting[h].pc = "emit" /\ hosting[h].op = "set_question_number" => startTime # None
    /\ room.shown # {} => startTime # None
    /\ \A c \in Calls : submit[c].pc # "new" => startTime # None

\* The invariant about the clock is at least the property.
LEMMA ClockImpliesProperty == ClockInv => ClockRunsBeforeAnswers
BY DEF ClockInv, ClockRunsBeforeAnswers

\* No question is on the screens at the start.
LEMMA InitClockInv == Init => ClockInv
BY InitTypeInv DEF Init, RoundInit, ClockInv, IdleHost, NewSubmission

\* A question reaches the screens only after its clock was set, and a clock stays set.
LEMMA NextClockInv == ClockInv /\ [RoundNext]_vars => ClockInv'
<1> SUFFICES ASSUME ClockInv, [RoundNext]_vars PROVE ClockInv'
  OBVIOUS
<1> USE DEF ClockInv
<1>0. TypeInv' /\ TypeOK /\ None \notin Indices
  BY NextTypeInv, QuestionsAreIndices DEF TypeInv
<1>1. CASE UNCHANGED vars
  BY <1>0, <1>1 DEF vars
<1>2. ASSUME NEW c \in Calls, SubmitBegin(c) PROVE ClockInv'
  BY <1>0, <1>2 DEF SubmitBegin
<1>3. ASSUME NEW c \in Calls, SubmitStep(c) PROVE ClockInv'
  <2>1. submit[c].pc # "new" /\ UNCHANGED <<startTime, room, hosting>>
    BY <1>3 DEF SubmitStep, At, SubmitReadGame, SubmitCheck, SubmitReadTime, SubmitScore,
       SubmitReadAnswers, SubmitStore, SubmitCount, SubmitReread, SubmitClose
  <2>2. QED
    BY <1>0, <2>1
<1>4. ASSUME NEW h \in HostTasks, HostCall(h) PROVE ClockInv'
  <2>1. hosting'[h].pc # "emit" /\ \A g \in HostTasks : g # h => hosting'[g] = hosting[g]
    <3>1. PICK op, q : HostBegin(h, op, q)
      BY <1>4 DEF HostCall, CallStartGame, CallSetQuestionNumber, CallGetQuestionResults
    <3>2. QED
      BY <1>0, <3>1 DEF TypeOK, HostBegin, IdleHost
  <2>2. UNCHANGED <<startTime, room, submit>>
    BY <1>4 DEF HostCall, CallStartGame, CallSetQuestionNumber, CallGetQuestionResults, HostBegin
  <2>3. QED
    BY <1>0, <2>1, <2>2
<1>5. ASSUME NEW h \in HostTasks, HostReadGame(h) PROVE ClockInv'
  BY <1>0, <1>5 DEF TypeOK, HostReadGame, Hosting
<1>6. ASSUME NEW h \in HostTasks, HostSaveGame(h) PROVE ClockInv'
  <2>1. hosting'[h].pc = "emit" => hosting'[h].op = "start_game"
    BY <1>0, <1>6 DEF TypeOK, HostSaveGame, Hosting, HostOps, IdleHost
  <2>2. \A g \in HostTasks : g # h => hosting'[g] = hosting[g]
    BY <1>0, <1>6 DEF TypeOK, HostSaveGame
  <2>3. QED
    BY <1>0, <1>6, <2>1, <2>2 DEF HostSaveGame
<1>7. ASSUME NEW h \in HostTasks, SetQuestionTime(h) PROVE ClockInv'
  <2>1. startTime' \in Indices
    BY <1>0, <1>7 DEF SetQuestionTime, TypeInv, HostCallsNamed
  <2>2. QED
    BY <1>0, <2>1
<1>8. ASSUME NEW h \in HostTasks, HostEmit(h) PROVE ClockInv'
  <2>1. room'.shown # {} => startTime # None
    BY <1>0, <1>8 DEF HostEmit, TypeOK, TypeInv, HostCallsNamed
  <2>2. QED
    BY <1>0, <1>8, <2>1 DEF HostEmit, TypeOK, IdleHost
<1>9. QED
  BY <1>1, <1>2, <1>3, <1>4, <1>5, <1>6, <1>7, <1>8 DEF RoundNext, HostStep

\* submit_answer never fails because a question has no start time yet.
THEOREM ClockAlwaysRunsBeforeAnswers == Spec => []ClockRunsBeforeAnswers
BY InitClockInv, NextClockInv, ClockImpliesProperty, PTL DEF Spec

(***************************************************************************)
(* The start                                                               *)
(***************************************************************************)

\* Why no save of the whole document takes the start back: apart from
\* start_game, which sets it, every handler that saves the game began after
\* the start was sent, so the copy it saves was read from a started game.
StartInv ==
    /\ TypeInv
    /\ room.started => game.started
    /\ room.shown # {} \/ room.question # -1 => room.started
    /\ \A h \in HostTasks :
          /\ hosting[h].pc # "idle" /\ hosting[h].op # "start_game" => room.started
          /\ hosting[h].pc = "save" => hosting[h].blob.started
          /\ hosting[h].pc = "emit" => game.started
    /\ \A c \in Calls :
          /\ submit[c].pc # "new" => room.started
          /\ submit[c].pc = "close" => submit[c].blob.started

\* Nobody has been told of a start when a round begins.
LEMMA RoundInitStart == RoundInit /\ TypeInv => StartInv
BY DEF RoundInit, StartInv, IdleHost, NewSubmission

\* Nor at the very beginning.
LEMMA InitStartInv == Init => StartInv
BY InitTypeInv, RoundInitStart DEF Init

\* Every copy of the game that is about to be saved is one that has started, so no save
\* takes the start back.
LEMMA NextStartInv ==
    ASSUME StartInv, [RoundNext]_vars
    PROVE  StartInv' /\ (game.started => game'.started)
<1> USE DEF StartInv
<1>0. /\ TypeInv' /\ TypeOK
      /\ submit \in [Calls -> Submission] /\ hosting \in [HostTasks -> Hosting]
      /\ game \in PlayGame
      /\ room \in [started : BOOLEAN, question : {-1} \cup Questions, shown : SUBSET Questions]
  BY NextTypeInv DEF TypeInv, TypeOK
<1>1. CASE UNCHANGED vars
  BY <1>0, <1>1 DEF vars
<1>2. ASSUME NEW c \in Calls, SubmitBegin(c) \/ SubmitStep(c)
      PROVE  StartInv' /\ (game.started => game'.started)
  <2>0. UNCHANGED <<room, hosting>> /\ \A d \in Calls : d # c => submit'[d] = submit[d]
    BY <1>0, <1>2 DEF SubmitBegin, SubmitStep, SubmitReadGame, SubmitCheck, SubmitReadTime,
       SubmitScore, SubmitReadAnswers, SubmitStore, SubmitCount, SubmitReread, SubmitClose
  <2>1. room.started
    BY <1>2 DEF SubmitBegin, SubmitStep, At, SubmitReadGame, SubmitCheck, SubmitReadTime,
       SubmitScore, SubmitReadAnswers, SubmitStore, SubmitCount, SubmitReread, SubmitClose
  <2>2. CASE SubmitReread(c)
    <3>1. submit'[c].blob = game /\ game' = game
      BY <1>0, <2>2 DEF SubmitReread, Submission
    <3>2. QED
      BY <1>0, <2>0, <2>1, <3>1
  <2>3. CASE SubmitClose(c)
    <3>1. submit[c].blob \in PlayGame /\ submit[c].blob.started
      BY <1>0, <2>3 DEF SubmitClose, At, Submission
    <3>2. game'.started
      BY <2>3, <3>1 DEF SubmitClose, PlayGame
    <3>3. submit'[c].pc = "everyone"
      BY <1>0, <2>3 DEF SubmitClose, Submission
    <3>4. QED
      BY <1>0, <2>0, <2>1, <3>2, <3>3
  <2>4. ASSUME ~SubmitReread(c), ~SubmitClose(c) PROVE game' = game /\ submit'[c].pc # "close"
    <3>1. CASE SubmitBegin(c)
      <4>1. PICK right \in BOOLEAN :
               submit' = [submit EXCEPT ![c].pc = "game",
                                        ![c].username = session[c.sid].username,
                                        ![c].ping = session[c.sid].ping,
                                        ![c].right = right]
        BY <3>1 DEF SubmitBegin
      <4>2. QED
        BY <1>0, <3>1, <4>1 DEF SubmitBegin, Submission
    <3>2. CASE SubmitReadGame(c) \/ SubmitCheck(c) \/ SubmitReadTime(c)
      BY <1>0, <3>2 DEF SubmitReadGame, SubmitCheck, SubmitReadTime, Submission
    <3>3. CASE SubmitScore(c) \/ SubmitReadAnswers(c)
      BY <1>0, <3>3 DEF SubmitScore, SubmitReadAnswers, Submission
    <3>4. CASE SubmitStore(c) \/ SubmitCount(c)
      BY <1>0, <3>4 DEF SubmitStore, SubmitCount, Submission
    <3>5. QED
      BY <1>2, <2>4, <3>1, <3>2, <3>3, <3>4 DEF SubmitStep
  <2>5. QED
    BY <1>0, <2>0, <2>1, <2>2, <2>3, <2>4
<1>3. ASSUME NEW h \in HostTasks, HostCall(h)
      PROVE  StartInv' /\ (game.started => game'.started)
  <2>1. PICK op \in HostOps, q \in Indices \cup {None} :
           HostBegin(h, op, q) /\ (op # "start_game" => room.started)
    BY <1>0, QuestionsAreIndices, <1>3 DEF HostCall, CallStartGame, CallSetQuestionNumber, CallGetQuestionResults,
       HostOps
  <2>2. /\ hosting'[h].pc = "read" /\ hosting'[h].op = op
        /\ \A g \in HostTasks : g # h => hosting'[g] = hosting[g]
    BY <1>0, <2>1 DEF HostBegin, IdleHost
  <2>3. UNCHANGED <<game, room, submit>>
    BY <2>1 DEF HostBegin
  <2>4. QED
    BY <1>0, <2>1, <2>2, <2>3
<1>4. ASSUME NEW h \in HostTasks, HostReadGame(h)
      PROVE  StartInv' /\ (game.started => game'.started)
  <2>1. Edited(h, game).started
    BY <1>0, <1>4 DEF HostReadGame, Hosting, HostOps, PlayGame, Edited
  <2>2. hosting'[h].blob = Edited(h, game) /\ hosting'[h].pc = "save"
        /\ hosting'[h].op = hosting[h].op /\ \A g \in HostTasks : g # h => hosting'[g] = hosting[g]
    BY <1>0, <1>4 DEF HostReadGame, Hosting
  <2>3. UNCHANGED <<game, room, submit>> /\ hosting[h].pc = "read"
    BY <1>4 DEF HostReadGame
  <2>4. QED
    BY <1>0, <2>1, <2>2, <2>3
<1>5. ASSUME NEW h \in HostTasks, HostSaveGame(h)
      PROVE  StartInv' /\ (game.started => game'.started)
  <2>1. game'.started /\ hosting[h].pc = "save" /\ UNCHANGED <<room, submit>>
    BY <1>5 DEF HostSaveGame
  <2>2. \/ hosting'[h].pc = "idle"
        \/ hosting'[h].pc \in {"emit", "time"} /\ hosting'[h].op = hosting[h].op
    BY <1>0, <1>5 DEF HostSaveGame, Hosting, HostOps, IdleHost
  <2>3. \A g \in HostTasks : g # h => hosting'[g] = hosting[g]
    BY <1>0, <1>5 DEF HostSaveGame
  <2>4. QED
    BY <1>0, <2>1, <2>2, <2>3
<1>6. ASSUME NEW h \in HostTasks, SetQuestionTime(h)
      PROVE  StartInv' /\ (game.started => game'.started)
  <2>1. hosting[h].op = "set_question_number" /\ UNCHANGED <<game, room, submit>>
    BY <1>6 DEF SetQuestionTime, TypeInv, HostCallsNamed
  <2>2. \/ hosting'[h].pc = "idle"
        \/ hosting'[h].pc = "emit" /\ hosting'[h].op = hosting[h].op
    BY <1>0, <1>6 DEF SetQuestionTime, Hosting, IdleHost
  <2>4. \A g \in HostTasks : g # h => hosting'[g] = hosting[g]
    BY <1>0, <1>6 DEF SetQuestionTime
  <2>3. QED
    BY <1>0, <1>6, <2>1, <2>2, <2>4 DEF SetQuestionTime
<1>7. ASSUME NEW h \in HostTasks, HostEmit(h)
      PROVE  StartInv' /\ (game.started => game'.started)
  <2>1. game.started /\ room'.started \in {TRUE, room.started}
        /\ (room'.shown # {} \/ room'.question # -1 => room'.started)
        /\ (room.started => room'.started)
    BY <1>0, <1>7 DEF HostEmit, TypeInv, HostCallsNamed
  <2>2. hosting'[h].pc = "idle" /\ UNCHANGED <<game, submit>>
        /\ \A g \in HostTasks : g # h => hosting'[g] = hosting[g]
    BY <1>0, <1>7 DEF HostEmit, IdleHost
  <2>3. QED
    BY <1>0, <2>1, <2>2
<1>8. QED
  BY <1>1, <1>2, <1>3, <1>4, <1>5, <1>6, <1>7 DEF RoundNext, HostStep

\* A game that has started never goes back to the lobby, however many handlers
\* hold copies of its document and save them whenever they like.
THEOREM StartedIsAlwaysPermanent == Spec => StartedIsPermanent
<1>1. StartInv /\ [RoundNext]_vars => StartInv'
  BY NextStartInv
<1>2. StartInv /\ [RoundNext]_vars => [game.started => game'.started]_vars
  BY NextStartInv
<1>3. QED
  BY InitStartInv, <1>1, <1>2, PTL DEF Spec, StartedIsPermanent

(***************************************************************************)
(* One answer of a player                                                  *)
(***************************************************************************)

\* Nobody joins or leaves while AnswerRound runs on its own.
FixedPlayers ==
    /\ players = {[username |-> PlayerOf[s], sid |-> s] : s \in Sids \ {Host}}
    /\ \A s \in Sids : session[s].username = IF s = Host THEN None ELSE PlayerOf[s]

\* A call has the name of its connection.
NamedCalls ==
    \A c \in Calls : submit[c].pc # "new" =>
        c.sid # Host /\ submit[c].username = PlayerOf[c.sid]

\* The test for an earlier answer goes by names, and settled answers by
\* connections: the name on a listed answer is that of its connection.
NamedInv ==
    /\ ScoredInv /\ FixedPlayers /\ NamedCalls
    /\ \A c \in scores : submit[c].pc # "new"

\* No call has read a name at the start.
LEMMA InitNamedInv == Init => NamedInv
<1> SUFFICES ASSUME Init PROVE NamedInv
  OBVIOUS
<1>1. FixedPlayers
  BY HostAssumption DEF Init, FixedPlayers, AdminSession, PlayerSession
<1>2. NamedCalls
  BY DEF Init, RoundInit, NamedCalls, NewSubmission
<1>3. QED
  BY <1>1, <1>2, InitScoredInv DEF NamedInv, Init, RoundInit

\* The name a call has read is the name of its connection, and stays so.
LEMMA NextNamedInv == NamedInv /\ [RoundNext]_vars => NamedInv'
<1> SUFFICES ASSUME NamedInv, [RoundNext]_vars PROVE NamedInv'
  OBVIOUS
<1> USE DEF NamedInv
<1>0. ScoredInv' /\ submit \in [Calls -> Submission] /\ scores \subseteq Calls
  BY NextScoredInv DEF ScoredInv, TypeInv, TypeOK
<1>1. UNCHANGED <<players, session>>
  BY DEF RoundNext, vars, SubmitBegin, SubmitStep, SubmitReadGame, SubmitCheck,
     SubmitReadTime, SubmitScore, SubmitReadAnswers, SubmitStore, SubmitCount,
     SubmitReread, SubmitClose, HostCall, HostStep, CallStartGame, CallSetQuestionNumber,
     CallGetQuestionResults, HostBegin, HostReadGame, HostSaveGame, SetQuestionTime, HostEmit
<1>2. FixedPlayers'
  BY <1>1 DEF FixedPlayers
<1>3. CASE UNCHANGED <<submit, scores>>
  BY <1>0, <1>2, <1>3 DEF NamedCalls
<1>4. ASSUME NEW h \in HostTasks, HostCall(h) \/ HostStep(h) PROVE NamedInv'
  BY <1>3, <1>4 DEF HostCall, HostStep, CallStartGame, CallSetQuestionNumber,
     CallGetQuestionResults, HostBegin, HostReadGame, HostSaveGame, SetQuestionTime, HostEmit
<1>5. ASSUME NEW c \in Calls, SubmitBegin(c) PROVE NamedInv'
  <2>1. c.sid \in Sids /\ c.sid # Host /\ session[c.sid].username = PlayerOf[c.sid]
    BY <1>5 DEF SubmitBegin, FixedPlayers, Calls
  <2>2. PICK right \in BOOLEAN :
           submit' = [submit EXCEPT ![c].pc = "game",
                                    ![c].username = session[c.sid].username,
                                    ![c].ping = session[c.sid].ping,
                                    ![c].right = right]
    BY <1>5 DEF SubmitBegin
  <2>3. /\ submit'[c].pc = "game" /\ submit'[c].username = PlayerOf[c.sid]
        /\ \A d \in Calls : d # c => submit'[d] = submit[d]
    BY <1>0, <2>1, <2>2 DEF Submission
  <2>4. QED
    BY <1>0, <1>2, <1>5, <2>1, <2>3 DEF NamedCalls, SubmitBegin
<1>6. ASSUME NEW c \in Calls, SubmitStep(c) PROVE NamedInv'
  <2>1. submit[c].pc # "new" /\ scores' \in {scores, scores \cup {c}}
    BY <1>6 DEF SubmitStep, At, SubmitReadGame, SubmitCheck, SubmitReadTime, SubmitScore,
       SubmitReadAnswers, SubmitStore, SubmitCount, SubmitReread, SubmitClose
  <2>2. /\ submit'[c].username = submit[c].username
        /\ \A d \in Calls : d # c => submit'[d] = submit[d]
    BY <1>0, <1>6 DEF Submission, SubmitStep, SubmitReadGame, SubmitCheck, SubmitReadTime,
       SubmitScore, SubmitReadAnswers, SubmitStore, SubmitCount, SubmitReread, SubmitClose
  <2>3. submit'[c].pc # "new"
    <3>1. CASE SubmitReadGame(c) \/ SubmitCheck(c) \/ SubmitReadTime(c)
      BY <1>0, <3>1 DEF SubmitReadGame, SubmitCheck, SubmitReadTime, Submission
    <3>2. CASE SubmitScore(c) \/ SubmitReadAnswers(c) \/ SubmitStore(c)
      BY <1>0, <3>2 DEF SubmitScore, SubmitReadAnswers, SubmitStore, Submission
    <3>3. CASE SubmitCount(c) \/ SubmitReread(c) \/ SubmitClose(c)
      BY <1>0, <3>3 DEF SubmitCount, SubmitReread, SubmitClose, Submission
    <3>4. QED
      BY <1>6, <3>1, <3>2, <3>3 DEF SubmitStep
  <2>4. QED
    BY <1>0, <1>2, <2>1, <2>2, <2>3 DEF NamedCalls
<1>7. QED
  BY <1>3, <1>4, <1>5, <1>6 DEF RoundNext, vars

\* A call works under the name of its connection: what submit_answer's test for an earlier
\* answer relies on.
THEOREM NamedInvariant == Spec => []NamedInv
BY InitNamedInv, NextNamedInv, PTL DEF Spec

\* While an answer is settled, another call of its page cannot get past the test.
LEMMA SettledRefusesOthers ==
    ASSUME NamedInv, [RoundNext]_vars, NEW c \in Calls, NEW d \in Calls,
           c.sid = d.sid, c.q = d.q, Settled(d), c \in Untested
    PROVE  c \in Untested'
<1> USE DEF Untested, At
<1>0. submit \in [Calls -> Submission]
  BY DEF NamedInv, ScoredInv, TypeInv, TypeOK
<1>1. SUFFICES ASSUME submit'[c] # submit[c]
               PROVE  submit'[c].pc \in {"new", "game", "check", "inactive", "replied"}
  BY DEF Untested
<1>2. SubmitBegin(c) \/ SubmitStep(c)
  <2>1. CASE UNCHANGED vars
    BY <1>1, <2>1 DEF vars
  <2>2. ASSUME NEW h \in HostTasks, HostCall(h) \/ HostStep(h) PROVE FALSE
    BY <1>1, <2>2 DEF HostCall, HostStep, CallStartGame, CallSetQuestionNumber,
       CallGetQuestionResults, HostBegin, HostReadGame, HostSaveGame, SetQuestionTime, HostEmit
  <2>3. ASSUME NEW e \in Calls, SubmitBegin(e) \/ SubmitStep(e), e # c PROVE FALSE
    BY <1>0, <1>1, <2>3 DEF SubmitBegin, SubmitStep, SubmitReadGame, SubmitCheck,
       SubmitReadTime, SubmitScore, SubmitReadAnswers, SubmitStore, SubmitCount,
       SubmitReread, SubmitClose
  <2>4. QED
    BY <2>1, <2>2, <2>3 DEF RoundNext
<1>3. CASE SubmitBegin(c)
  <2>1. PICK right \in BOOLEAN :
           submit' = [submit EXCEPT ![c].pc = "game",
                                    ![c].username = session[c.sid].username,
                                    ![c].ping = session[c.sid].ping,
                                    ![c].right = right]
    BY <1>3 DEF SubmitBegin
  <2>2. QED
    BY <1>0, <2>1 DEF Submission
<1>4. CASE SubmitReadGame(c)
  BY <1>0, <1>4 DEF SubmitReadGame, Submission
\* The test: the settled answer is on the list, under the same name.
<1>5. CASE SubmitCheck(c)
  <2>1. d \in answers[c.q] /\ submit[d].pc # "new" /\ submit[c].pc # "new"
    BY <1>5 DEF Settled, SubmitCheck, NamedInv, ScoredInv, ListedAnswersAreScored, Calls
  <2>2. submit[c].username \in Answered(c.q)
    BY <2>1 DEF Answered, NamedInv, NamedCalls
  <2>3. QED
    BY <1>0, <1>5, <2>2 DEF SubmitCheck, Submission
<1>6. QED
  BY <1>0, <1>2, <1>3, <1>4, <1>5 DEF SubmitStep, SubmitReadTime, SubmitScore,
     SubmitReadAnswers, SubmitStore, SubmitCount, SubmitReread, SubmitClose

\* Once an answer is settled, no other answer of its connection to the same
\* question ever passes the test, with any number of attempts.
THEOREM LaterAnswersAreAlwaysRefused == Spec => LaterAnswersAreRefused
<1>1. NamedInv /\ [RoundNext]_vars =>
         [\A c, d \in Calls :
             c.sid = d.sid /\ c.q = d.q /\ c # d /\ Settled(d) /\ c \in Untested =>
                 c \in Untested']_vars
  BY SettledRefusesOthers
<1>2. QED
  BY <1>1, NamedInvariant, PTL DEF Spec, LaterAnswersAreRefused

-----------------------------------------------------------------------------
(* When everyone_answered is announced, and the ledger. *)

EveryoneInv ==
    /\ TypeInv
    /\ FixedPlayers /\ NamedCalls /\ StoredOnly
    /\ EveryoneAnsweredIsSound

(***************************************************************************)
(* The argument: a list with as many answers as there are players names    *)
(* every one of them, unless it names somebody twice.  When no name is on  *)
(* it twice, it has as many names as answers, and the players, who are as  *)
(* many, have no more names than that.                                     *)
(***************************************************************************)
LEMMA PlayersAreFinite == ASSUME FixedPlayers PROVE IsFiniteSet(players)
<1> DEFINE E == [s \in Sids \ {Host} |-> [username |-> PlayerOf[s], sid |-> s]]
<1>1. E \in Surjection(Sids \ {Host}, players)
  BY DEF FixedPlayers, Surjection
<1>2. IsFiniteSet(Sids \ {Host})
  BY FS_Subset, GameStoreAssumption
<1>3. QED
  BY <1>1, <1>2, FS_Surjection

\* The calls are finitely many.
LEMMA CallsAreFinite == IsFiniteSet(Calls)
<1> DEFINE Of(s) == [sid : {s}, q : Questions, n : 1 .. Attempts[s]]
           F == {Of(s) : s \in Sids}
<1>1. ASSUME NEW s \in Sids PROVE IsFiniteSet(Of(s))
  <2>1. NumQuestions - 1 \in Int /\ Attempts[s] \in Int /\ 0 \in Int /\ 1 \in Int
    BY <1>1, GameStoreAssumption, AnswerRoundAssumption
  <2> DEFINE P == Questions \X (1 .. Attempts[s])
             f == [t \in P |-> [sid |-> s, q |-> t[1], n |-> t[2]]]
  <2>2. IsFiniteSet(0 .. (NumQuestions - 1)) /\ IsFiniteSet(1 .. Attempts[s])
    BY ONLY <2>1, FS_Interval
  <2>3. IsFiniteSet(P)
    BY <2>2, FS_Product DEF Questions
  <2>4. ASSUME NEW d \in Of(s) PROVE \E t \in P : f[t] = d
    <3>1. <<d.q, d.n>> \in P /\ d = [sid |-> s, q |-> d.q, n |-> d.n]
      OBVIOUS
    <3>2. QED
      BY <3>1
  <2>5. f \in Surjection(P, Of(s))
    BY <2>4 DEF Surjection
  <2>6. QED
    BY <2>3, <2>5, FS_Surjection
<1>2. IsFiniteSet(F)
  <2> DEFINE g == [s \in Sids |-> Of(s)]
  <2>1. g \in Surjection(Sids, F)
    BY DEF Surjection
  <2>2. QED
    BY <2>1, FS_Surjection, GameStoreAssumption
<1>3. \A T \in F : IsFiniteSet(T)
  BY <1>1
<1>4. IsFiniteSet(UNION F)
  BY <1>2, <1>3, FS_UNION
<1>5. QED
  BY <1>4 DEF Calls

\* The counting argument: as many answers as players, no two of one player,
\* leave nobody out.
LEMMA FullListNamesEveryone ==
    ASSUME FixedPlayers, NEW list, IsFiniteSet(list),
           NEW name \in [list -> {p.username : p \in players}],
           Cardinality(list) = Cardinality(players),
           \A d, e \in list : name[d] = name[e] => d = e
    PROVE  \A p \in players : \E d \in list : name[d] = p.username
<1> DEFINE Names == {p.username : p \in players}
           Listed == {name[d] : d \in list}
           g == [p \in players |-> p.username]
<1>1. IsFiniteSet(players)
  BY PlayersAreFinite
<1>2. g \in Surjection(players, Names)
  BY DEF Surjection
<1>3. IsFiniteSet(Names) /\ Cardinality(Names) <= Cardinality(players)
  BY <1>1, <1>2, FS_Surjection
<1>4. name \in Surjection(list, Listed) /\ name \in Injection(list, Listed)
  BY DEF Surjection, Injection, IsInjective
<1>5. Cardinality(Listed) = Cardinality(list)
  BY <1>4, FS_Surjection
<1>6. Listed \subseteq Names
  OBVIOUS
<1>7. IsFiniteSet(Listed) /\ Cardinality(Listed) <= Cardinality(Names)
      /\ (Cardinality(Listed) = Cardinality(Names) => Listed = Names)
  BY <1>3, <1>6, FS_Subset
<1>8. Cardinality(Listed) \in Nat /\ Cardinality(Names) \in Nat /\ Cardinality(players) \in Nat
  BY <1>1, <1>3, <1>7, FS_CardinalityType
<1>9. Listed = Names
  <2>1. Cardinality(Names) = Cardinality(Listed)
    BY <1>3, <1>5, <1>7, <1>8
  <2>2. QED
    BY <1>7, <2>1
<1>10. QED
  BY <1>9

(***************************************************************************)
(* The invariant                                                           *)
(***************************************************************************)
LEMMA InitEveryoneInv == Init => EveryoneInv
<1> SUFFICES ASSUME Init PROVE EveryoneInv
  OBVIOUS
<1>1. \A c \in Calls : submit[c] = NewSubmission
  BY DEF Init, RoundInit
<1>2. FixedPlayers
  BY InitNamedInv DEF NamedInv
<1>3. QED
  BY <1>1, <1>2, InitTypeInv DEF Init, RoundInit, EveryoneInv, NamedCalls, StoredOnly,
     EveryoneAnsweredIsSound, NewSubmission

\* What is stored stays stored, so a sound decision stays sound.
LEMMA SoundnessIsKept ==
    ASSUME EveryoneAnsweredIsSound, players' = players, Stored \subseteq Stored',
           \A d \in Stored : submit'[d].username = submit[d].username,
           \A d \in Calls : submit'[d].pc \in {"reread", "close", "everyone"} =>
                            submit[d].pc \in {"reread", "close", "everyone"}
    PROVE  EveryoneAnsweredIsSound'
<1>1. ASSUME NEW q, AnsweredTwice(q) PROVE AnsweredTwice(q)'
  <2>1. PICK d \in Stored, e \in Stored :
           d # e /\ d.q = q /\ e.q = q /\ submit[d].username = submit[e].username
    BY <1>1 DEF AnsweredTwice
  <2>2. d \in Stored' /\ e \in Stored' /\ submit'[d].username = submit'[e].username
    BY <2>1
  <2>3. QED
    BY <2>1, <2>2 DEF AnsweredTwice
<1>2. SUFFICES ASSUME NEW c \in Calls, submit'[c].pc \in {"reread", "close", "everyone"},
                      ~AnsweredTwice(c.q), NEW p \in players
               PROVE  \E d \in Stored' : d.q = c.q /\ submit'[d].username = p.username
  BY <1>1 DEF EveryoneAnsweredIsSound
<1>3. PICK d \in Stored : d.q = c.q /\ submit[d].username = p.username
  BY <1>2 DEF EveryoneAnsweredIsSound
<1>4. QED
  BY <1>3

\* What has to hold when call c decides to announce everyone_answered.
SoundFor(c) ==
    \/ \A p \in players : \E d \in Stored : d.q = c.q /\ submit[d].username = p.username
    \/ AnsweredTwice(c.q)

\* A call may decide when that holds.
LEMMA DecisionIsSound ==
    ASSUME EveryoneAnsweredIsSound, NEW c \in Calls, SoundFor(c),
           players' = players, Stored' = Stored,
           \A d \in Calls : submit'[d].username = submit[d].username /\ (d # c => submit'[d] = submit[d])
    PROVE  EveryoneAnsweredIsSound'
<1>1. \A q : AnsweredTwice(q)' <=> AnsweredTwice(q)
  BY DEF AnsweredTwice, Stored
<1>2. \A d \in Calls : submit'[d].pc \in {"reread", "close", "everyone"} => SoundFor(d)
  BY DEF EveryoneAnsweredIsSound, SoundFor
<1>3. ASSUME NEW d \in Calls, SoundFor(d)
      PROVE  \/ \A p \in players' : \E e \in Stored' : e.q = d.q /\ submit'[e].username = p.username
             \/ AnsweredTwice(d.q)'
  BY <1>1, <1>3 DEF SoundFor, Stored
<1>4. QED
  BY <1>2, <1>3 DEF EveryoneAnsweredIsSound

\* A step of call c that stores nothing and takes no snapshot, and does not
\* make up its mind about everyone_answered.
LEMMA QuietStep ==
    ASSUME EveryoneInv, TypeInv', NEW c \in Calls,
           UNCHANGED <<players, session, answers>>,
           \A d \in Calls : d # c => submit'[d] = submit[d],
           submit'[c].seen \in {submit[c].seen, {}},
           submit'[c].pc # "new" => c.sid # Host /\ submit'[c].username = PlayerOf[c.sid],
           c \in Stored => c \in Stored',
           submit[c].pc # "new" => submit'[c].username = submit[c].username,
           submit'[c].pc \in {"reread", "close", "everyone"} =>
               submit[c].pc \in {"reread", "close", "everyone"}
    PROVE  EveryoneInv'
<1> USE DEF EveryoneInv
<1>1. Stored \subseteq Stored'
  BY DEF Stored
<1>2. FixedPlayers' /\ NamedCalls' /\ StoredOnly'
  BY <1>1 DEF FixedPlayers, NamedCalls, StoredOnly
<1>3. \A d \in Stored : submit'[d].username = submit[d].username
  BY DEF Stored
<1>4. EveryoneAnsweredIsSound'
  <2>1. \A d \in Calls : submit'[d].pc \in {"reread", "close", "everyone"} =>
                          submit[d].pc \in {"reread", "close", "everyone"}
    OBVIOUS
  <2>2. QED
    BY <1>1, <1>3, <2>1, SoundnessIsKept
<1>5. QED
  BY <1>2, <1>4

\* Every step of submit_answer keeps the invariant.
LEMMA SubmitKeepsEveryoneInv ==
    ASSUME EveryoneInv, TypeInv', NEW c \in Calls, SubmitBegin(c) \/ SubmitStep(c)
    PROVE  EveryoneInv'
<1> USE DEF At
<1>0. /\ submit \in [Calls -> Submission] /\ answers \in [Questions -> SUBSET Calls]
      /\ c.q \in Questions /\ c.sid \in Sids
      /\ NamedCalls /\ StoredOnly /\ FixedPlayers
  BY DEF EveryoneInv, TypeInv, TypeOK, Calls
<1>1. CASE SubmitBegin(c)
  <2>1. c.sid # Host /\ session[c.sid].username = PlayerOf[c.sid]
    BY <1>0, <1>1 DEF SubmitBegin, FixedPlayers
  <2>2. submit'[c].pc = "game" /\ submit'[c].username = PlayerOf[c.sid]
        /\ submit'[c].seen = submit[c].seen
        /\ \A d \in Calls : d # c => submit'[d] = submit[d]
    <3>1. PICK right \in BOOLEAN :
             submit' = [submit EXCEPT ![c].pc = "game",
                                      ![c].username = session[c.sid].username,
                                      ![c].ping = session[c.sid].ping,
                                      ![c].right = right]
      BY <1>1 DEF SubmitBegin
    <3>2. QED
      BY <1>0, <2>1, <3>1 DEF Submission
  <2>3. QED
    BY <1>1, <2>1, <2>2, QuietStep DEF SubmitBegin, Stored
<1>2. ASSUME submit[c].pc # "new" PROVE c.sid # Host /\ submit[c].username = PlayerOf[c.sid]
  BY <1>0, <1>2 DEF NamedCalls
<1>3. CASE SubmitReadGame(c)
  BY <1>0, <1>2, <1>3, QuietStep DEF SubmitReadGame, Submission, Stored
<1>4. CASE SubmitCheck(c)
  BY <1>0, <1>2, <1>4, QuietStep DEF SubmitCheck, Submission, Stored
<1>5. CASE SubmitReadTime(c)
  BY <1>0, <1>2, <1>5, QuietStep DEF SubmitReadTime, Submission, Stored
<1>6. CASE SubmitScore(c)
  BY <1>0, <1>2, <1>6, QuietStep DEF SubmitScore, Submission, Stored
<1>7. CASE SubmitReadAnswers(c)
  <2>1. submit'[c].seen = answers[c.q] /\ submit'[c].pc = "store"
        /\ submit'[c].username = submit[c].username
        /\ (\A d \in Calls : d # c => submit'[d] = submit[d]) /\ submit[c].pc = "read"
        /\ UNCHANGED <<players, session, answers>>
    BY <1>0, <1>7 DEF SubmitReadAnswers, Submission
  <2>2. Stored' = Stored /\ \A d \in Calls : submit'[d].username = submit[d].username
    BY <2>1 DEF Stored
  <2>3. StoredOnly' /\ NamedCalls' /\ FixedPlayers'
    BY <1>0, <2>1, <2>2 DEF StoredOnly, NamedCalls, FixedPlayers
  <2>4. EveryoneAnsweredIsSound'
    <3>1. \A d \in Calls : submit'[d].pc \in {"reread", "close", "everyone"} =>
                            submit[d].pc \in {"reread", "close", "everyone"}
      BY <2>1
    <3>2. Stored \subseteq Stored' /\ players' = players
          /\ \A d \in Stored : submit'[d].username = submit[d].username
      BY <2>1, <2>2 DEF Stored
    <3>3. QED
      BY <2>2, <3>1, <3>2, SoundnessIsKept DEF EveryoneInv
  <2>5. QED
    BY <1>0, <2>3, <2>4 DEF EveryoneInv
<1>8. CASE SubmitStore(c)
  <2>1. submit'[c].seen = submit[c].seen /\ submit'[c].pc = "count"
        /\ submit'[c].username = submit[c].username
        /\ (\A d \in Calls : d # c => submit'[d] = submit[d]) /\ submit[c].pc = "store"
        /\ UNCHANGED <<players, session>>
    BY <1>0, <1>8 DEF SubmitStore, Submission
  <2>2. Stored' = Stored \cup {c} /\ \A d \in Calls : submit'[d].username = submit[d].username
    BY <2>1 DEF Stored
  <2>3. \A q \in Questions : answers'[q] = IF q = c.q THEN Appended(c) ELSE answers[q]
    BY <1>0, <1>8 DEF SubmitStore
  <2>4. StoredOnly'
    BY <1>0, <2>1, <2>2, <2>3 DEF StoredOnly, Appended
  <2>5. NamedCalls' /\ FixedPlayers'
    BY <1>0, <2>1, <2>2 DEF NamedCalls, FixedPlayers
  <2>6. EveryoneAnsweredIsSound'
    <3>1. \A d \in Calls : submit'[d].pc \in {"reread", "close", "everyone"} =>
                            submit[d].pc \in {"reread", "close", "everyone"}
      BY <2>1
    <3>2. Stored \subseteq Stored' /\ players' = players
          /\ \A d \in Stored : submit'[d].username = submit[d].username
      BY <2>1, <2>2 DEF Stored
    <3>3. QED
      BY <2>2, <3>1, <3>2, SoundnessIsKept DEF EveryoneInv
  <2>7. QED
    BY <1>0, <2>4, <2>5, <2>6 DEF EveryoneInv
\* The one step that makes up its mind.
<1>9. CASE SubmitCount(c)
  <2>1. CASE Cardinality(Appended(c)) # Cardinality(players)
    BY <1>0, <1>2, <1>9, <2>1, QuietStep DEF SubmitCount, Submission, Stored
  <2>2. CASE Cardinality(Appended(c)) = Cardinality(players)
    <3>1. submit' = [submit EXCEPT ![c].pc = "reread"] /\ submit[c].pc = "count"
          /\ UNCHANGED <<players, session, answers>>
      BY <1>9, <2>2 DEF SubmitCount
    <3>2. Stored' = Stored /\ c \in Stored
          /\ \A d \in Calls : submit'[d].username = submit[d].username
                              /\ submit'[d].seen = submit[d].seen
                              /\ (d # c => submit'[d] = submit[d])
      BY <1>0, <3>1 DEF Stored, Submission
    <3>3. Appended(c) \subseteq {d \in Stored : d.q = c.q}
      BY <1>0, <3>2 DEF Appended, StoredOnly
    <3>4. \A d \in Stored : d \in Calls /\ d.sid # Host
                           /\ submit[d].username = PlayerOf[d.sid]
      BY <1>0 DEF Stored, NamedCalls
    <3>0. EveryoneAnsweredIsSound
      BY DEF EveryoneInv
    <3> DEFINE list == Appended(c)
               name == [d \in list |-> submit[d].username]
    <3>5. IsFiniteSet(list)
      BY <3>3, CallsAreFinite, FS_Subset DEF Stored
    <3>6. name \in [list -> {p.username : p \in players}]
      <4>1. ASSUME NEW d \in list PROVE \E p \in players : p.username = submit[d].username
        <5>1. d.sid \in Sids \ {Host} /\ submit[d].username = PlayerOf[d.sid]
          BY <3>3, <3>4, <4>1, CallIs
        <5>2. QED
          <6>1. [username |-> PlayerOf[d.sid], sid |-> d.sid] \in players
            BY <1>0, <5>1 DEF FixedPlayers
          <6>2. QED
            BY <5>1, <6>1
      <4>2. QED
        BY <4>1
    <3>7. ASSUME \A d, e \in list : name[d] = name[e] => d = e
          PROVE  EveryoneAnsweredIsSound'
      <4>1. \A p \in players : \E d \in list : name[d] = p.username
        BY <1>0, <2>2, <3>5, <3>6, <3>7, FullListNamesEveryone
      <4>2. \A p \in players : \E d \in Stored : d.q = c.q /\ submit[d].username = p.username
        BY <3>3, <4>1
      <4>3. SoundFor(c)
        BY <4>2 DEF SoundFor
      <4>4. QED
        BY <3>1, <3>2, <4>3, <3>0, DecisionIsSound
    <3>8. ASSUME \E d, e \in list : name[d] = name[e] /\ d # e
          PROVE  EveryoneAnsweredIsSound'
      <4>1. AnsweredTwice(c.q)
        BY <3>3, <3>8 DEF AnsweredTwice
      <4>2. SoundFor(c)
        BY <4>1 DEF SoundFor
      <4>3. QED
        BY <3>1, <3>2, <4>2, <3>0, DecisionIsSound
    <3>9. StoredOnly' /\ NamedCalls' /\ FixedPlayers'
      BY <1>0, <3>1, <3>2 DEF StoredOnly, NamedCalls, FixedPlayers
    <3>10. QED
      BY <1>0, <3>7, <3>8, <3>9 DEF EveryoneInv
  <2>3. QED
    BY <2>1, <2>2
<1>10. CASE SubmitReread(c)
  BY <1>0, <1>2, <1>10, QuietStep DEF SubmitReread, Submission, Stored
<1>11. CASE SubmitClose(c)
  BY <1>0, <1>2, <1>11, QuietStep DEF SubmitClose, Submission, Stored
<1>12. QED
  BY <1>1, <1>3, <1>4, <1>5, <1>6, <1>7, <1>8, <1>9, <1>10, <1>11 DEF SubmitStep

\* Every step of the round keeps it.
LEMMA NextEveryoneInv == EveryoneInv /\ [RoundNext]_vars => EveryoneInv'
<1> SUFFICES ASSUME EveryoneInv, [RoundNext]_vars PROVE EveryoneInv'
  OBVIOUS
<1>0. TypeInv'
  BY NextTypeInv DEF EveryoneInv
<1>1. ASSUME UNCHANGED <<players, session, answers, submit>> PROVE EveryoneInv'
  BY <1>0, <1>1 DEF EveryoneInv, FixedPlayers, NamedCalls, StoredOnly, Stored,
     EveryoneAnsweredIsSound, AnsweredTwice
<1>2. CASE UNCHANGED vars
  BY <1>1, <1>2 DEF vars
<1>3. ASSUME NEW h \in HostTasks, HostCall(h) \/ HostStep(h) PROVE EveryoneInv'
  BY <1>1, <1>3 DEF HostCall, HostStep, CallStartGame, CallSetQuestionNumber,
     CallGetQuestionResults, HostBegin, HostReadGame, HostSaveGame, SetQuestionTime, HostEmit
<1>4. QED
  BY <1>0, <1>2, <1>3, SubmitKeepsEveryoneInv DEF RoundNext

\* For any number of players, questions and presses, everyone_answered is on
\* its way only when every player has an answer stored or somebody has two -
\* whatever has happened to the list since it was counted.
THEOREM EveryoneAnsweredIsAlwaysSound == Spec => []EveryoneAnsweredIsSound
<1>1. EveryoneInv => EveryoneAnsweredIsSound
  BY DEF EveryoneInv
<1>2. QED
  BY <1>1, InitEveryoneInv, NextEveryoneInv, PTL DEF Spec

(***************************************************************************)
(* The handlers implement ScoreLedger: SubmitBegin signs, SubmitScore      *)
(* credits, SubmitStore publishes and SubmitClose announces; every other   *)
(* step leaves the ledger alone.                                           *)
(***************************************************************************)

\* What a step needs to know: points are added once, by a handler that has
\* not stored its answer yet, and only for a call that has its name.
LedgerInv ==
    /\ EveryoneInv /\ NamedInv
    /\ \A c \in scores : submit[c].pc \in PastScore \cup {"failed"}

Authors   == [c \in Calls |-> submit[c].username]
Announced == {q \in Questions : \E c \in Calls : c.q = q /\ submit[c].pc = "everyone"}

\* A scored call is past HINCRBY, or has failed after it.
LEMMA NextPastScore ==
    ASSUME LedgerInv, [RoundNext]_vars, NEW c \in scores'
    PROVE  submit'[c].pc \in PastScore \cup {"failed"}
<1> USE DEF PastScore
<1>0. submit \in [Calls -> Submission] /\ scores \subseteq Calls
  BY DEF LedgerInv, EveryoneInv, TypeInv, TypeOK
<1>1. CASE UNCHANGED <<submit, scores>>
  BY <1>1 DEF LedgerInv
<1>2. ASSUME NEW h \in HostTasks, HostCall(h) \/ HostStep(h) PROVE UNCHANGED <<submit, scores>>
  BY <1>2 DEF HostCall, HostStep, CallStartGame, CallSetQuestionNumber,
     CallGetQuestionResults, HostBegin, HostReadGame, HostSaveGame, SetQuestionTime, HostEmit
<1>3. ASSUME NEW d \in Calls, SubmitBegin(d) \/ SubmitStep(d), d # c
      PROVE  submit'[c] = submit[c] /\ c \in scores
  BY <1>0, <1>3 DEF SubmitBegin, SubmitStep, SubmitReadGame, SubmitCheck, SubmitReadTime,
     SubmitScore, SubmitReadAnswers, SubmitStore, SubmitCount, SubmitReread, SubmitClose
<1>4. ASSUME c \in Calls, SubmitScore(c) PROVE submit'[c].pc \in {"failed", "read"}
  BY <1>0, <1>4 DEF SubmitScore, Submission
<1>5. ASSUME c \in Calls, SubmitBegin(c) \/ SubmitReadGame(c) \/ SubmitCheck(c) \/ SubmitReadTime(c)
      PROVE  FALSE
  BY <1>5 DEF SubmitBegin, SubmitReadGame, SubmitCheck, SubmitReadTime, At, LedgerInv
<1>6. ASSUME c \in Calls, SubmitReadAnswers(c) \/ SubmitStore(c) \/ SubmitCount(c)
      PROVE  submit'[c].pc \in PastScore
  BY <1>0, <1>6 DEF SubmitReadAnswers, SubmitStore, SubmitCount, Submission
<1>7. ASSUME c \in Calls, SubmitReread(c) \/ SubmitClose(c) PROVE submit'[c].pc \in PastScore
  BY <1>0, <1>7 DEF SubmitReread, SubmitClose, Submission
<1>8. QED
  BY <1>1, <1>2, <1>3, <1>4, <1>5, <1>6, <1>7 DEF RoundNext, vars, SubmitStep, LedgerInv

\* The invariant of the refinement holds at the start.
LEMMA InitLedgerInv == Init => LedgerInv
BY InitEveryoneInv, InitNamedInv DEF Init, RoundInit, LedgerInv

\* It is kept by every step.
LEMMA NextLedgerInv == LedgerInv /\ [RoundNext]_vars => LedgerInv'
<1>1. EveryoneInv /\ NamedInv /\ [RoundNext]_vars => EveryoneInv' /\ NamedInv'
  BY NextEveryoneInv, NextNamedInv
<1>2. LedgerInv /\ [RoundNext]_vars => \A c \in scores' : submit'[c].pc \in (PastScore \cup {"failed"})
  BY NextPastScore
<1>3. QED
  BY <1>1, <1>2 DEF LedgerInv, PastScore

\* Initial states are initial states of the ledger.
LEMMA LedgerStarts == Init => Ledger!LedgerInit
<1> SUFFICES ASSUME Init PROVE Ledger!LedgerInit
  OBVIOUS
<1>1. \A c \in Calls : submit[c].pc = "new"
  BY DEF Init, RoundInit, NewSubmission
<1>2. QED
  BY <1>1 DEF Init, RoundInit, Ledger!LedgerInit, Stored

\* What the ledger sees of the state.
Seen == <<players, scores, Stored, answers, Authors, Announced>>

\* A step that changes nothing the ledger looks at is a stuttering step of it.
LEMMA UnseenIsStutter ==
    ASSUME UNCHANGED Seen
    PROVE  UNCHANGED Ledger!ledgerVars
BY DEF Seen, Ledger!ledgerVars, Authors, Announced

\* A step of a call that neither stores nor announces, and keeps its name.
LEMMA QuietLedgerStep ==
    ASSUME TypeOK, NEW c \in Calls, UNCHANGED <<players, scores, answers>>,
           submit' \in [Calls -> Submission],
           \A d \in Calls : d # c => submit'[d] = submit[d],
           submit'[c].username = submit[c].username,
           c \in Stored <=> c \in Stored',
           submit'[c].pc = "everyone" <=> submit[c].pc = "everyone"
    PROVE  UNCHANGED Ledger!ledgerVars
<1>1. Stored' = Stored /\ Announced' = Announced
  BY DEF Stored, Announced
<1>2. Authors' = Authors
  BY DEF Authors
<1>3. QED
  BY <1>1, <1>2, UnseenIsStutter DEF Seen

\* Every step of submit_answer is a step of the ledger or stutters.
LEMMA SubmitIsLedgerStep ==
    ASSUME LedgerInv, TypeOK', NEW c \in Calls, SubmitBegin(c) \/ SubmitStep(c)
    PROVE  [Ledger!LedgerNext]_Ledger!ledgerVars
<1> USE DEF At
<1>0. /\ submit \in [Calls -> Submission] /\ submit' \in [Calls -> Submission]
      /\ answers \in [Questions -> SUBSET Calls] /\ TypeOK /\ c.q \in Questions
  BY DEF LedgerInv, EveryoneInv, TypeInv, TypeOK, Calls
<1>1. CASE SubmitBegin(c)
  <2>1. c \notin scores
    BY <1>1 DEF SubmitBegin, LedgerInv, PastScore
  <2>2. c.sid \in Sids \ {Host} /\ session[c.sid].username = PlayerOf[c.sid]
    BY <1>1 DEF SubmitBegin, LedgerInv, NamedInv, FixedPlayers, Calls
  <2>3. PICK right \in BOOLEAN :
           submit' = [submit EXCEPT ![c].pc = "game",
                                    ![c].username = session[c.sid].username,
                                    ![c].ping = session[c.sid].ping,
                                    ![c].right = right]
    BY <1>1 DEF SubmitBegin
  <2>4. /\ submit[c].pc = "new" /\ submit'[c].pc = "game"
        /\ submit'[c].username = PlayerOf[c.sid]
        /\ \A d \in Calls : d # c => submit'[d] = submit[d]
    BY <1>0, <1>1, <2>2, <2>3 DEF SubmitBegin, Submission
  <2>5. Stored' = Stored /\ Announced' = Announced
    BY <2>4 DEF Stored, Announced
  <2>6. Authors' = [Authors EXCEPT ![c] = PlayerOf[c.sid]]
    BY <2>4 DEF Authors
  <2>7. PlayerOf[c.sid] \in {p.username : p \in players}
    <3>1. [username |-> PlayerOf[c.sid], sid |-> c.sid] \in players
      BY <2>2 DEF LedgerInv, NamedInv, FixedPlayers
    <3>2. QED
      BY <3>1
  <2>8. Ledger!Sign(c)
    BY <1>1, <2>1, <2>5, <2>6, <2>7 DEF Ledger!Sign, Authors, Announced, SubmitBegin
  <2>9. QED
    BY <2>8 DEF Ledger!LedgerNext
<1>2. CASE SubmitReadGame(c)
  BY <1>0, <1>2, QuietLedgerStep DEF SubmitReadGame, Submission, Stored
<1>3. CASE SubmitCheck(c)
  BY <1>0, <1>3, QuietLedgerStep DEF SubmitCheck, Submission, Stored
<1>4. CASE SubmitReadTime(c)
  BY <1>0, <1>4, QuietLedgerStep DEF SubmitReadTime, Submission, Stored
<1>5. CASE SubmitScore(c)
  <2>1. c \notin scores
    BY <1>5 DEF SubmitScore, LedgerInv, PastScore
  <2>2. /\ submit[c].pc = "score" /\ submit'[c].pc \in {"failed", "read"}
        /\ submit'[c].username = submit[c].username
        /\ \A d \in Calls : d # c => submit'[d] = submit[d]
    BY <1>0, <1>5 DEF SubmitScore, Submission
  <2>3. Stored' = Stored /\ Announced' = Announced
    BY <2>2 DEF Stored, Announced
  <2>4. Authors' = Authors
    BY <2>2 DEF Authors
  <2>5. Ledger!Credit(c)
    BY <1>5, <2>1, <2>3, <2>4 DEF Ledger!Credit, Authors, Announced, SubmitScore
  <2>6. QED
    BY <2>5 DEF Ledger!LedgerNext
<1>6. CASE SubmitReadAnswers(c)
  BY <1>0, <1>6, QuietLedgerStep DEF SubmitReadAnswers, Submission, Stored
<1>7. CASE SubmitStore(c)
  <2>1. c \in scores \ Stored
    BY <1>7 DEF SubmitStore, LedgerInv, NamedInv, ScoredInv, PastScore, Stored
  <2>2. /\ submit[c].pc = "store" /\ submit'[c].pc = "count"
        /\ submit'[c].username = submit[c].username
        /\ \A d \in Calls : d # c => submit'[d] = submit[d]
    BY <1>0, <1>7 DEF SubmitStore, Submission
  <2>3. Stored' = Stored \cup {c} /\ Announced' = Announced
    BY <2>2 DEF Stored, Announced
  <2>4. Authors' = Authors
    BY <2>2 DEF Authors
  <2>5. submit[c].seen \in SUBSET {d \in Stored : d.q = c.q}
    BY DEF LedgerInv, EveryoneInv, StoredOnly
  <2>6. answers' = [answers EXCEPT ![c.q] = submit[c].seen \cup {c}]
    BY <1>7 DEF SubmitStore, Appended
  <2>7. Ledger!Publish(c)
    BY <1>7, <2>1, <2>3, <2>4, <2>5, <2>6
       DEF Ledger!Publish, Authors, Announced, SubmitStore
  <2>8. QED
    BY <2>7 DEF Ledger!LedgerNext
<1>8. CASE SubmitCount(c)
  BY <1>0, <1>8, QuietLedgerStep DEF SubmitCount, Submission, Stored
<1>9. CASE SubmitReread(c)
  BY <1>0, <1>9, QuietLedgerStep DEF SubmitReread, Submission, Stored
<1>10. CASE SubmitClose(c)
  <2>1. /\ submit[c].pc = "close" /\ submit'[c].pc = "everyone"
        /\ submit'[c].username = submit[c].username
        /\ \A d \in Calls : d # c => submit'[d] = submit[d]
    BY <1>0, <1>10 DEF SubmitClose, Submission
  <2>2. Stored' = Stored /\ Announced' = Announced \cup {c.q}
    BY <1>0, <2>1 DEF Stored, Announced
  <2>3. Authors' = Authors
    BY <2>1 DEF Authors
  <2>4. \/ \A name \in {p.username : p \in players} :
              \E e \in Stored : e.q = c.q /\ Authors[e] = name
        \/ \E d, e \in Stored : d # e /\ d.q = c.q /\ e.q = c.q /\ Authors[d] = Authors[e]
    <3>1. SoundFor(c)
      BY <2>1 DEF LedgerInv, EveryoneInv, EveryoneAnsweredIsSound, SoundFor
    <3>2. \A d \in Stored : Authors[d] = submit[d].username
      BY DEF Stored, Authors
    <3>3. QED
      BY <3>1, <3>2 DEF SoundFor, AnsweredTwice
  <2>5. Ledger!Announce(c.q)
    BY <1>10, <2>2, <2>3, <2>4 DEF Ledger!Announce, Authors, Announced, SubmitClose
  <2>6. QED
    BY <1>0, <2>5 DEF Ledger!LedgerNext
<1>11. QED
  BY <1>1, <1>2, <1>3, <1>4, <1>5, <1>6, <1>7, <1>8, <1>9, <1>10 DEF SubmitStep

\* So is every step of the round.
LEMMA NextIsLedgerStep ==
    LedgerInv /\ [RoundNext]_vars => [Ledger!LedgerNext]_Ledger!ledgerVars
<1> SUFFICES ASSUME LedgerInv, [RoundNext]_vars
             PROVE  [Ledger!LedgerNext]_Ledger!ledgerVars
  OBVIOUS
<1>1. ASSUME UNCHANGED <<players, scores, answers, submit>> PROVE UNCHANGED Ledger!ledgerVars
  BY <1>1, UnseenIsStutter DEF Seen, Stored, Authors, Announced
<1>2. CASE UNCHANGED vars
  BY <1>1, <1>2 DEF vars
<1>3. ASSUME NEW h \in HostTasks, HostCall(h) \/ HostStep(h) PROVE UNCHANGED Ledger!ledgerVars
  BY <1>1, <1>3 DEF HostCall, HostStep, CallStartGame, CallSetQuestionNumber,
     CallGetQuestionResults, HostBegin, HostReadGame, HostSaveGame, SetQuestionTime, HostEmit
<1>4. TypeOK'
  BY NextTypeInv DEF LedgerInv, EveryoneInv, TypeInv
<1>5. QED
  BY <1>2, <1>3, <1>4, SubmitIsLedgerStep DEF RoundNext

\* The handlers keep the ledger's promise: answers are credited before they are
\* published, a question is announced only when every player has published an
\* answer to it or somebody two, and nothing else ever happens to lists and scores.
THEOREM HandlersKeepTheLedger == Spec => KeepsLedger
BY InitLedgerInv, NextLedgerInv, LedgerStarts, NextIsLedgerStep, PTL
   DEF Spec, KeepsLedger, Ledger!LedgerSpec
=============================================================================
