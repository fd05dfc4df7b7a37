------------------------------- MODULE Practice -------------------------------
(***************************************************************************)
(* The practice page of the legacy client, on which a reader goes through  *)
(* the questions of a public quiz alone.  The page holds one copy of the   *)
(* quiz; the component that shows a question binds to that copy, keeps its *)
(* own clock and choice, and is made anew by the button that goes ahead    *)
(* and not by the one that goes back.                                      *)
(***************************************************************************)
EXTENDS Integers, Sequences, Functions

CONSTANT None

VARIABLE practice   \* the page: the quiz it loaded and shows, or None

Kinds  == {"ABCD", "CHECK", "RANGE", "VOTING", "TEXT", "ORDER", "SLIDE"}
Choice == {"ABCD", "VOTING"}

Asking    == [type : Kinds, answers : Seq(Nat)]
Component == [for : Nat, original : Seq(Nat), over : BOOLEAN, chosen : Nat \cup {None},
              marked : SUBSET Nat, results : BOOLEAN, corrected : BOOLEAN]

ASSUME NoneIsNoComponent == None \notin Component

\* quiz: the questions as shown, asked: as loaded, at: the one selected or 0
\* for the title, shown: the question component, back: history, whether the
\* reader ever went back.
PracticeOpens(asked) ==
    practice' = [quiz |-> asked, asked |-> asked, at |-> 0, shown |-> None, back |-> FALSE]

Shuffles(list) == {[i \in DOMAIN list |-> list[p[i]]] : p \in Bijection(DOMAIN list, DOMAIN list)}

Fresh(k, original) ==
    [for |-> k, original |-> original, over |-> FALSE, chosen |-> None, marked |-> {},
     results |-> FALSE, corrected |-> FALSE]

\* The right order is kept after the shuffle in place.
Bug_Mounted(k, list) ==
    IF practice.quiz[k].type = "ORDER"
      THEN {<<s, Fresh(k, s)>> : s \in Shuffles(list)}
      ELSE {<<list, Fresh(k, <<>>)>>}

\* A new component, with the list it shows: an ORDER list is shuffled in place.
Mounted(k, list) ==
    IF practice.quiz[k].type = "ORDER"
      THEN {<<s, Fresh(k, list)>> : s \in Shuffles(list)}
      ELSE {<<list, Fresh(k, <<>>)>>}

\* The component is not made anew for the next question.
Bug_Ahead ==
    /\ practice.at < Len(practice.quiz)
    /\ LET k == practice.at + 1 IN
       \E m \in Mounted(k, practice.quiz[k].answers) :
          practice' = [practice EXCEPT !.at = k, !.quiz[k].answers = m[1],
                                       !.shown = IF @ = None THEN m[2] ELSE @]

Ahead ==
    /\ practice.at < Len(practice.quiz)
    /\ LET k == practice.at + 1 IN
       \E m \in Mounted(k, practice.quiz[k].answers) :
          practice' = [practice EXCEPT !.at = k, !.quiz[k].answers = m[1], !.shown = m[2]]

Back ==
    /\ practice.at > 0
    /\ practice' = [practice EXCEPT !.at = @ - 1, !.back = TRUE,
                                    !.shown = IF practice.at = 1 THEN None ELSE @]

Shown    == practice.shown
Asked    == practice.quiz[practice.at]
Type(ty) == Shown # None /\ Asked.type \in ty

Show(c) == practice' = [practice EXCEPT !.shown = c]

TimeOver == Shown # None /\ ~Shown.over /\ Show([Shown EXCEPT !.over = TRUE])

\* A button of ABCD or VOTING, or the submit button of RANGE or TEXT.
Answer ==
    /\ Type({"ABCD", "VOTING", "RANGE", "TEXT"})
    /\ ~Shown.over /\ (Shown.chosen = None \/ Type({"TEXT"}))
    /\ \E a \in IF Type(Choice) THEN DOMAIN Asked.answers ELSE {0} :
          Show([Shown EXCEPT !.chosen = a, !.over = TRUE])

Check ==
    /\ Type({"CHECK"})
    /\ \/ /\ ~Shown.over /\ Shown.chosen = None
          /\ \E a \in DOMAIN Asked.answers :
                Show([Shown EXCEPT !.marked = IF a \in @ THEN @ \ {a} ELSE @ \cup {a}])
       \/ Show([Shown EXCEPT !.over = TRUE])

Results == Type({"ABCD", "CHECK"}) /\ Shown.over /\ Show([Shown EXCEPT !.results = TRUE])

Swap ==
    /\ Type({"ORDER"}) /\ ~Shown.corrected
    /\ \E i, j \in DOMAIN Asked.answers :
          /\ j = i + 1
          /\ practice' = [practice EXCEPT !.quiz[practice.at].answers =
                             [@ EXCEPT ![i] = Asked.answers[j], ![j] = Asked.answers[i]]]

Correct ==
    /\ Type({"ORDER"}) /\ ~Shown.over
    /\ practice' = [practice EXCEPT !.quiz[practice.at].answers = Shown.original,
                                    !.shown.corrected = TRUE, !.shown.over = TRUE]

PracticeStep ==
    practice # None /\ (Ahead \/ Back \/ TimeOver \/ Answer \/ Check \/ Results \/ Swap \/ Correct)

-----------------------------------------------------------------------------

\* After the submit button of an ORDER question the reader sees the order the
\* quiz has; a reader who went back may see the order of a shuffle, or the
\* answers of another question.
CorrectionIsRight ==
    (practice # None /\ ~practice.back /\ Type({"ORDER"}) /\ Shown.corrected) =>
        Asked.answers = practice.asked[practice.at].answers

\* The clock, the choice and the results on the screen are those of the
\* question on the screen, as long as the reader goes ahead.
ChoiceBelongs ==
    (practice # None /\ ~practice.back /\ Shown # None) => Shown.for = practice.at

\* Who goes through a quiz in its order is shown right solutions, and their own.
PracticeIsRight == CorrectionIsRight /\ ChoiceBelongs
=============================================================================
