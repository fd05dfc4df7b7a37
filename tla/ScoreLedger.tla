----------------------------- MODULE ScoreLedger -----------------------------
(***************************************************************************)
(* What collecting answers promises, whatever the handlers' interleaving.  *)
(*                                                                         *)
(* Every answer is first credited, then published.  Publishing puts the    *)
(* answer on the question's list together with some of the answers         *)
(* published before - the list may lose entries, which is the weakness of  *)
(* the code's read-append-write - and never with one that was not          *)
(* credited.  "Everyone answered" is announced for a question only when    *)
(* each player has published an answer to it, or somebody has published    *)
(* two, which the code counts as answers of two players.                   *)
(***************************************************************************)
CONSTANTS
    Entries,     \* the possible answers
    Topics,      \* the questions
    Topic(_)     \* the question an answer is for

VARIABLES
    names,       \* the players; they do not change while answers are collected
    credited,    \* the answers whose points are on the scoreboard
    published,   \* the answers that were put on a list at some time
    list,        \* the answer list of each question
    author,      \* whose answer an entry is
    announced    \* the questions closed by "everyone answered"

ledgerVars == <<names, credited, published, list, author, announced>>

LedgerInit ==
    /\ credited = {}
    /\ published = {}
    /\ list = [t \in Topics |-> {}]
    /\ announced = {}

Credit(e) ==
    /\ e \notin credited
    /\ credited' = credited \cup {e}
    /\ UNCHANGED <<names, published, list, author, announced>>

Publish(e) ==
    /\ e \in credited \ published
    /\ published' = published \cup {e}
    /\ \E kept \in SUBSET {d \in published : Topic(d) = Topic(e)} :
          list' = [list EXCEPT ![Topic(e)] = kept \cup {e}]
    /\ UNCHANGED <<names, credited, author, announced>>

Announce(t) ==
    /\ \/ \A name \in names : \E e \in published : Topic(e) = t /\ author[e] = name
       \/ \E d, e \in published : d # e /\ Topic(d) = t /\ Topic(e) = t /\ author[d] = author[e]
    /\ announced' = announced \cup {t}
    /\ UNCHANGED <<names, credited, published, list, author>>

\* An answer gets its author when its handler begins, before it is credited.
Sign(e) ==
    /\ e \notin credited
    /\ \E name \in names : author' = [author EXCEPT ![e] = name]
    /\ UNCHANGED <<names, credited, published, list, announced>>

LedgerNext ==
    \/ \E e \in Entries : Sign(e) \/ Credit(e) \/ Publish(e)
    \/ \E t \in Topics : Announce(t)

LedgerSpec == LedgerInit /\ [][LedgerNext]_ledgerVars

==============================================================================
