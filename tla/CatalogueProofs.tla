--------------------------- MODULE CatalogueProofs ---------------------------
(* Theorems about Catalogue and its practice page. *)
EXTENDS Catalogue, SequenceTheorems, FiniteSetTheorems, TLAPS

(***************************************************************************)
(* The practice page                                                       *)
(***************************************************************************)

Opened == [quiz : Seq(Asking), asked : Seq(Asking), at : Nat, shown : Component \cup {None},
           back : BOOLEAN]

\* Ahead of the reader the quiz is as it was loaded.  The component on the
\* screen keeps the right order of its own question, and a list it corrected
\* is in that order.
InOrderSoFar ==
    /\ \A k \in DOMAIN practice.asked :
          k > practice.at => practice.quiz[k].answers = practice.asked[k].answers
    /\ practice.shown # None =>
          /\ practice.shown.for = practice.at
          /\ practice.quiz[practice.at].type = "ORDER" =>
                practice.shown.original = practice.asked[practice.at].answers
          /\ practice.quiz[practice.at].type = "ORDER" /\ practice.shown.corrected =>
                practice.quiz[practice.at].answers = practice.asked[practice.at].answers

PracticeInv ==
    practice # None =>
        /\ practice \in Opened
        /\ Len(practice.quiz) = Len(practice.asked)
        /\ practice.at <= Len(practice.quiz)
        /\ practice.shown # None <=> practice.at > 0
        /\ ~practice.back => InOrderSoFar

\* A component that has just been mounted.
LEMMA FreshComponent ==
    ASSUME NEW k \in Nat, NEW original \in Seq(Nat)
    PROVE  Fresh(k, original) \in Component /\ Fresh(k, original) # None
<1>1. ASSUME NEW b \in BOOLEAN, NEW marked \in SUBSET Nat, NEW chosen \in Nat \cup {None}
      PROVE  [for |-> k, original |-> original, over |-> b, chosen |-> chosen, marked |-> marked,
              results |-> b, corrected |-> b] \in Component
  BY DEF Component
<1>2. Fresh(k, original) \in Component
  BY <1>1, FALSE \in BOOLEAN, {} \in SUBSET Nat, Zenon DEF Fresh
<1>3. QED
  BY <1>2, NoneIsNoComponent

\* Shuffling a list of answers gives a list of answers.
LEMMA ShufflesAreLists ==
    ASSUME NEW list \in Seq(Nat), NEW s \in Shuffles(list)
    PROVE  s \in Seq(Nat)
<1>1. PICK p \in Bijection(DOMAIN list, DOMAIN list) : s = [i \in DOMAIN list |-> list[p[i]]]
  BY DEF Shuffles
<1>2. p \in [DOMAIN list -> DOMAIN list]
  BY <1>1 DEF Bijection, Injection
<1>3. DOMAIN list = 1 .. Len(list) /\ Len(list) \in Nat /\ \A i \in DOMAIN list : list[i] \in Nat
  OBVIOUS
<1>4. s \in [1 .. Len(list) -> Nat]
  BY <1>1, <1>2, <1>3
<1>5. QED
  BY <1>3, <1>4, SeqDef

\* What a new component shows, and what it keeps.
LEMMA MountedShape ==
    ASSUME NEW k \in Nat, NEW list \in Seq(Nat), NEW m \in Mounted(k, list)
    PROVE  /\ m[1] \in Seq(Nat) /\ m[2] \in Component /\ m[2] # None
           /\ m[2].for = k /\ ~m[2].corrected
           /\ practice.quiz[k].type = "ORDER" => m[2].original = list
<1>1. CASE practice.quiz[k].type = "ORDER"
  <2>1. PICK s \in Shuffles(list) : m = <<s, Fresh(k, list)>>
    BY <1>1 DEF Mounted
  <2>2. QED
    BY <1>1, <2>1, ShufflesAreLists, FreshComponent DEF Fresh
<1>2. CASE practice.quiz[k].type # "ORDER"
  <2>1. m = <<list, Fresh(k, <<>>)>> /\ <<>> \in Seq(Nat)
    BY <1>2 DEF Mounted
  <2>2. QED
    BY <1>2, <2>1, FreshComponent DEF Fresh
<1>3. QED
  BY <1>1, <1>2

\* The answers of one question are replaced.
Replaced(quiz, k, list) == [quiz EXCEPT ![k].answers = list]

\* Putting a list into a question leaves the other questions alone.
LEMMA AnswersReplaced ==
    ASSUME NEW quiz \in Seq(Asking), NEW k \in 1 .. Len(quiz), NEW list \in Seq(Nat)
    PROVE  /\ Replaced(quiz, k, list) \in Seq(Asking)
           /\ Len(Replaced(quiz, k, list)) = Len(quiz)
           /\ Replaced(quiz, k, list)[k].answers = list
           /\ Replaced(quiz, k, list)[k].type = quiz[k].type
           /\ \A j \in 1 .. Len(quiz) : j # k => Replaced(quiz, k, list)[j] = quiz[j]
<1>1. quiz[k] \in Asking
  OBVIOUS
<1>2. [quiz[k] EXCEPT !.answers = list] \in Asking
      /\ [quiz[k] EXCEPT !.answers = list].answers = list
      /\ [quiz[k] EXCEPT !.answers = list].type = quiz[k].type
  BY <1>1 DEF Asking
<1>3. QED
  BY <1>2 DEF Replaced

\* The clock, the choice and the results of a component.
Touched(c, over, results, chosen, marked) ==
    [c EXCEPT !.over = over, !.results = results, !.chosen = chosen, !.marked = marked]

\* The gestures of the page, as touches.
LEMMA Touches ==
    ASSUME NEW c \in Component, NEW over \in BOOLEAN, NEW chosen, NEW marked
    PROVE  /\ [c EXCEPT !.over = over] = Touched(c, over, c.results, c.chosen, c.marked)
           /\ [c EXCEPT !.results = over] = Touched(c, c.over, over, c.chosen, c.marked)
           /\ [c EXCEPT !.chosen = chosen, !.over = over] =
                  Touched(c, over, c.results, chosen, c.marked)
           /\ [c EXCEPT !.marked = marked] = Touched(c, c.over, c.results, c.chosen, marked)
BY DEF Component, Touched

\* Two answers change places.
Swapped(list, i, j) == [list EXCEPT ![i] = list[j], ![j] = list[i]]

\* Swapping two answers gives a list of answers.
LEMMA SwappedIsAList ==
    ASSUME NEW list \in Seq(Nat), NEW i \in DOMAIN list, NEW j \in DOMAIN list
    PROVE  Swapped(list, i, j) \in Seq(Nat)
<1>1. Len(list) \in Nat /\ list \in [1 .. Len(list) -> Nat]
  OBVIOUS
<1>2. Swapped(list, i, j) \in [1 .. Len(list) -> Nat]
  BY <1>1 DEF Swapped
<1>3. QED
  BY <1>1, <1>2, SeqDef

\* The list of a component is put right, which ends its time.
PutRight(c, corrected, over) == [c EXCEPT !.corrected = corrected, !.over = over]

\* What correcting a component changes, and what it leaves.
LEMMA PutRightShape ==
    ASSUME NEW c \in Component, NEW corrected \in BOOLEAN, NEW over \in BOOLEAN
    PROVE  /\ PutRight(c, corrected, over) \in Component
           /\ PutRight(c, corrected, over).for = c.for
           /\ PutRight(c, corrected, over).original = c.original
BY DEF Component, PutRight

\* Every gesture on the practice page keeps the invariant.
LEMMA NextPracticeInv == PracticeInv /\ PracticeStep => PracticeInv'
<1> SUFFICES ASSUME PracticeInv, PracticeStep PROVE PracticeInv'
  OBVIOUS
<1> USE DEF PracticeInv
<1>0. /\ practice # None /\ practice \in Opened
      /\ practice.quiz \in Seq(Asking) /\ practice.asked \in Seq(Asking) /\ practice.at \in Nat
      /\ practice.back \in BOOLEAN /\ practice.shown \in Component \cup {None}
  BY DEF PracticeStep, Opened
<1>1. CASE Ahead
  <2> DEFINE k == practice.at + 1
  <2>1. PICK m \in Mounted(k, practice.quiz[k].answers) :
           practice' = [practice EXCEPT !.at = k, !.quiz[k].answers = m[1], !.shown = m[2]]
    BY <1>1 DEF Ahead
  <2>2. k \in 1 .. Len(practice.quiz) /\ k \in Nat
    BY <1>0, <1>1 DEF Ahead
  <2>3. practice.quiz[k].answers \in Seq(Nat)
    <3>1. practice.quiz[k] \in Asking
      BY <1>0, <2>2
    <3>2. QED
      BY <3>1 DEF Asking
  <2> HIDE DEF k
  <2>4. /\ m[1] \in Seq(Nat) /\ m[2] \in Component /\ m[2] # None
        /\ m[2].for = k /\ ~m[2].corrected
        /\ practice.quiz[k].type = "ORDER" => m[2].original = practice.quiz[k].answers
    BY <2>1, <2>2, <2>3, MountedShape
  <2>5. PICK new : /\ new = Replaced(practice.quiz, k, m[1])
                   /\ practice' = [quiz |-> new, asked |-> practice.asked, at |-> k,
                                   shown |-> m[2], back |-> practice.back]
    BY <1>0, <2>1 DEF Opened, Replaced
  <2>6. /\ new \in Seq(Asking) /\ Len(new) = Len(practice.quiz)
        /\ new[k].answers = m[1] /\ new[k].type = practice.quiz[k].type
        /\ \A j \in 1 .. Len(practice.quiz) : j # k => new[j] = practice.quiz[j]
    BY <1>0, <2>2, <2>4, <2>5, AnswersReplaced
  <2>7. practice' \in Opened
    BY <1>0, <2>2, <2>4, <2>5, <2>6 DEF Opened
  <2>8. ASSUME ~practice.back PROVE InOrderSoFar'
    <3>1. \A j \in DOMAIN practice.asked : j >= k =>
             practice.quiz[j].answers = practice.asked[j].answers
      BY <1>0, <2>2, <2>8 DEF InOrderSoFar, k
    <3>2. \A j \in DOMAIN practice.asked : j > k =>
             new[j].answers = practice.asked[j].answers
      BY <1>0, <2>2, <2>6, <3>1
    <3>3. practice.quiz[k].answers = practice.asked[k].answers
      BY <1>0, <2>2, <3>1
    <3>4. QED
      BY <1>0, <2>2, <2>4, <2>5, <2>6, <3>2, <3>3 DEF InOrderSoFar
  <2>9. QED
    BY <1>0, <2>2, <2>4, <2>5, <2>6, <2>7, <2>8
<1>2. CASE Back
  <2>1. practice.at > 0 /\ practice.at - 1 \in Nat
    BY <1>0, <1>2 DEF Back
  <2>2. PICK shown : /\ shown = IF practice.at = 1 THEN None ELSE practice.shown
                     /\ practice' = [quiz |-> practice.quiz, asked |-> practice.asked,
                                     at |-> practice.at - 1, shown |-> shown, back |-> TRUE]
    BY <1>0, <1>2 DEF Back, Opened
  <2>3. practice' \in Opened
    BY <1>0, <2>1, <2>2 DEF Opened
  <2>4. QED
    BY <1>0, <2>1, <2>2, <2>3
\* A step of the component that corrects nothing.
<1>3. ASSUME NEW c \in Component, Show(c), practice.shown # None,
             c.for = practice.shown.for, c.original = practice.shown.original,
             c.corrected = practice.shown.corrected
      PROVE  PracticeInv'
  <2>1. practice' = [quiz |-> practice.quiz, asked |-> practice.asked, at |-> practice.at,
                     shown |-> c, back |-> practice.back]
    BY <1>0, <1>3 DEF Show, Opened
  <2>2. practice' \in Opened /\ c # None
    BY <1>0, <2>1, NoneIsNoComponent DEF Opened
  <2>3. ~practice.back => InOrderSoFar'
    BY <1>0, <1>3, <2>1 DEF InOrderSoFar
  <2>4. QED
    BY <1>0, <1>3, <2>1, <2>2, <2>3
<1>4. ASSUME practice.shown # None,
             NEW over \in BOOLEAN, NEW results \in BOOLEAN, NEW chosen \in Nat \cup {None},
             NEW marked \in SUBSET Nat,
             Show(Touched(practice.shown, over, results, chosen, marked))
      PROVE  PracticeInv'
  <2>1. PICK b \in Component : b = practice.shown
    BY <1>0, <1>4
  <2>2. PICK d : d = Touched(b, over, results, chosen, marked)
    OBVIOUS
  <2>3. /\ d \in Component /\ d.for = b.for
        /\ d.original = b.original /\ d.corrected = b.corrected
    BY <2>2 DEF Component, Touched
  <2>4. Show(d)
    BY <1>4, <2>1, <2>2
  <2>5. QED
    BY <1>3, <1>4, <2>1, <2>3, <2>4
<1> DEFINE c == practice.shown
<1>5. ASSUME c # None
      PROVE  /\ c \in Component /\ c.over \in BOOLEAN /\ c.results \in BOOLEAN
             /\ c.chosen \in Nat \cup {None} /\ c.marked \in SUBSET Nat
             /\ practice.at \in 1 .. Len(practice.quiz)
             /\ practice.quiz[practice.at].answers \in Seq(Nat)
             /\ DOMAIN practice.quiz[practice.at].answers \subseteq Nat
  <2>1. c \in Component
    BY <1>0, <1>5
  <2>2. practice.at \in 1 .. Len(practice.quiz)
    BY <1>0, <1>5
  <2>3. practice.quiz[practice.at] \in Asking
    BY <1>0, <2>2
  <2>4. practice.quiz[practice.at].answers \in Seq(Nat)
    BY <2>3 DEF Asking
  <2>5. DOMAIN practice.quiz[practice.at].answers \subseteq Nat
    BY <2>4
  <2>6. QED
    BY <2>1, <2>2, <2>4, <2>5 DEF Component
<1>6. CASE TimeOver
  <2>1. c # None /\ Show([c EXCEPT !.over = TRUE])
    BY <1>6 DEF TimeOver, Shown
  <2>2. c \in Component /\ Show(Touched(c, TRUE, c.results, c.chosen, c.marked))
    BY <1>5, <2>1, Touches, TRUE \in BOOLEAN, Zenon
  <2>3. QED
    BY <1>4, <1>5, <2>1, <2>2, TRUE \in BOOLEAN, Zenon
<1>7. CASE Results
  <2>1. c # None /\ Show([c EXCEPT !.results = TRUE])
    BY <1>7 DEF Results, Shown, Type
  <2>2. c \in Component /\ Show(Touched(c, c.over, TRUE, c.chosen, c.marked))
    BY <1>5, <2>1, Touches, TRUE \in BOOLEAN, Zenon
  <2>3. QED
    BY <1>4, <1>5, <2>1, <2>2, TRUE \in BOOLEAN, Zenon
<1>8. CASE Answer
  <2>1. c # None
    BY <1>8 DEF Answer, Shown, Type
  <2>2. PICK a \in Nat : Show([c EXCEPT !.chosen = a, !.over = TRUE])
    BY <1>5, <1>8, <2>1 DEF Answer, Shown, Asked
  <2>3. c \in Component /\ Show(Touched(c, TRUE, c.results, a, c.marked))
    BY <1>5, <2>1, <2>2, Touches, TRUE \in BOOLEAN, Zenon
  <2>4. a \in Nat \cup {None}
    OBVIOUS
  <2>5. QED
    BY <1>4, <1>5, <2>1, <2>3, <2>4, TRUE \in BOOLEAN, Zenon
<1>9. CASE Check
  <2>1. c # None
    BY <1>9 DEF Check, Shown, Type
  <2>2. CASE Show([c EXCEPT !.over = TRUE])
    <3>1. c \in Component /\ Show(Touched(c, TRUE, c.results, c.chosen, c.marked))
      BY <1>5, <2>1, <2>2, Touches, TRUE \in BOOLEAN, Zenon
    <3>2. QED
      BY <1>4, <1>5, <2>1, <3>1, TRUE \in BOOLEAN, Zenon
  <2>3. CASE ~Show([c EXCEPT !.over = TRUE])
    <3>1. PICK a \in Nat : Show([c EXCEPT !.marked = IF a \in @ THEN @ \ {a} ELSE @ \cup {a}])
      BY <1>5, <1>9, <2>1, <2>3 DEF Check, Shown, Asked
    <3>2. PICK marked \in SUBSET Nat : marked = IF a \in c.marked THEN c.marked \ {a}
                                                ELSE c.marked \cup {a}
      BY <1>5, <2>1
    <3>3. Show([c EXCEPT !.marked = marked])
      BY <3>1, <3>2
    <3>4. c \in Component /\ Show(Touched(c, c.over, c.results, c.chosen, marked))
      BY <1>5, <2>1, <3>3, Touches, TRUE \in BOOLEAN, Zenon
    <3>5. QED
      BY <1>4, <1>5, <2>1, <3>4, Zenon
  <2>4. QED
    BY <2>2, <2>3
\* Two answers change places, which only an ORDER question offers.
<1>10. CASE Swap
  <2> DEFINE k == practice.at
  <2>1. c # None /\ ~c.corrected
    BY <1>10 DEF Swap, Shown, Type
  <2>2. PICK i \in DOMAIN practice.quiz[k].answers, j \in DOMAIN practice.quiz[k].answers :
           practice' = [practice EXCEPT !.quiz[k].answers =
                           [@ EXCEPT ![i] = practice.quiz[k].answers[j],
                                     ![j] = practice.quiz[k].answers[i]]]
    BY <1>10 DEF Swap, Asked
  <2> HIDE DEF k
  <2>3. PICK list : list = Swapped(practice.quiz[k].answers, i, j)
    OBVIOUS
  <2>4. /\ k \in 1 .. Len(practice.quiz) /\ practice.quiz[k].answers \in Seq(Nat)
        /\ list \in Seq(Nat)
    BY <1>5, <2>1, <2>3, SwappedIsAList DEF k
  <2>5. PICK new : /\ new = Replaced(practice.quiz, k, list)
                   /\ practice' = [quiz |-> new, asked |-> practice.asked, at |-> practice.at,
                                   shown |-> c, back |-> practice.back]
    BY <1>0, <2>2, <2>3 DEF Opened, Replaced, Swapped
  <2>6. /\ new \in Seq(Asking) /\ Len(new) = Len(practice.quiz)
        /\ new[k].type = practice.quiz[k].type
        /\ \A l \in 1 .. Len(practice.quiz) : l # k => new[l] = practice.quiz[l]
    <3>1. /\ practice.quiz \in Seq(Asking) /\ k \in 1 .. Len(practice.quiz) /\ list \in Seq(Nat)
          /\ new = Replaced(practice.quiz, k, list)
      BY <1>0, <2>4, <2>5
    <3>2. QED
      BY ONLY <3>1, AnswersReplaced
  <2>7. practice' \in Opened
    BY <1>0, <2>5, <2>6 DEF Opened
  <2>8. ASSUME ~practice.back PROVE InOrderSoFar'
    <3>1. InOrderSoFar /\ practice.at = k /\ practice.shown = c /\ k \in Nat
      BY <1>0, <2>8 DEF k
    <3>2. \A l \in DOMAIN practice.asked : l > k => new[l].answers = practice.asked[l].answers
      <4>1. ASSUME NEW l \in DOMAIN practice.asked, l > k
            PROVE  new[l].answers = practice.asked[l].answers
        <5>1. l \in 1 .. Len(practice.quiz) /\ l # k
          BY <1>0, <3>1, <4>1
        <5>2. new[l] = practice.quiz[l]
          BY <2>6, <5>1
        <5>3. practice.quiz[l].answers = practice.asked[l].answers
          BY <3>1, <4>1 DEF InOrderSoFar
        <5>4. QED
          BY <5>2, <5>3
      <4>2. QED
        BY <4>1
    <3>3. /\ c.for = k
          /\ practice.quiz[k].type = "ORDER" => c.original = practice.asked[k].answers
      BY <2>1, <3>1 DEF InOrderSoFar
    <3>4. practice'.at = k /\ practice'.shown = c /\ practice'.quiz = new
          /\ practice'.asked = practice.asked
      BY <2>5, <3>1
    <3>5. /\ \A l \in DOMAIN practice'.asked :
                l > practice'.at => practice'.quiz[l].answers = practice'.asked[l].answers
          /\ practice'.shown.for = practice'.at
      BY <3>2, <3>3, <3>4
    <3>6. /\ practice'.quiz[practice'.at].type = "ORDER" =>
                practice'.shown.original = practice'.asked[practice'.at].answers
          /\ ~practice'.shown.corrected
      BY <2>1, <2>6, <3>3, <3>4
    <3>7. QED
      BY <3>5, <3>6 DEF InOrderSoFar
  <2>9. QED
    BY <1>0, <2>1, <2>5, <2>6, <2>7, <2>8
\* The list becomes the one the component kept.
<1>11. CASE Correct
  <2> DEFINE k == practice.at
  <2>1. c # None /\ practice.quiz[k].type = "ORDER"
    BY <1>11 DEF Correct, Shown, Asked, Type
  <2>2. c \in Component /\ c.original \in Seq(Nat)
    BY <1>5, <2>1 DEF Component
  <2> HIDE DEF k
  <2>3. PICK d : d = PutRight(c, TRUE, TRUE)
    OBVIOUS
  <2>4. d \in Component /\ d.for = c.for /\ d.original = c.original
    BY <2>2, <2>3, PutRightShape, TRUE \in BOOLEAN, Zenon
  <2>5. PICK new : /\ new = Replaced(practice.quiz, k, c.original)
                   /\ practice' = [quiz |-> new, asked |-> practice.asked, at |-> practice.at,
                                   shown |-> d, back |-> practice.back]
    BY <1>0, <1>11, <2>3 DEF Correct, Shown, Opened, Replaced, PutRight, k
  <2>6. /\ new \in Seq(Asking) /\ Len(new) = Len(practice.quiz)
        /\ new[k].type = practice.quiz[k].type /\ new[k].answers = c.original
        /\ \A l \in 1 .. Len(practice.quiz) : l # k => new[l] = practice.quiz[l]
    <3>1. k \in 1 .. Len(practice.quiz)
      BY <1>5, <2>1 DEF k
    <3>2. QED
      BY <1>0, <2>2, <2>5, <3>1, AnswersReplaced
  <2>7. practice' \in Opened
    BY <1>0, <2>4, <2>5, <2>6 DEF Opened
  <2>8. ASSUME ~practice.back PROVE InOrderSoFar'
    <3>1. InOrderSoFar /\ practice.at = k /\ practice.shown = c
      BY <1>0, <2>8 DEF k
    <3>2. /\ c.for = k /\ c.original = practice.asked[k].answers /\ k \in Nat
          /\ k \in 1 .. Len(practice.quiz)
      BY <1>0, <1>5, <2>1, <3>1 DEF InOrderSoFar
    <3>3. \A l \in DOMAIN practice.asked : l > k => new[l].answers = practice.asked[l].answers
      BY <1>0, <2>6, <3>1, <3>2 DEF InOrderSoFar
    <3>4. practice'.at = k /\ practice'.shown = d /\ practice'.quiz = new
          /\ practice'.asked = practice.asked
      BY <2>5, <3>1
    <3>5. /\ \A l \in DOMAIN practice'.asked :
                l > practice'.at => practice'.quiz[l].answers = practice'.asked[l].answers
          /\ practice'.shown.for = practice'.at
      BY <2>4, <3>2, <3>3, <3>4
    <3>6. /\ practice'.shown.original = practice'.asked[practice'.at].answers
          /\ practice'.quiz[practice'.at].answers = practice'.asked[practice'.at].answers
      BY <2>4, <2>6, <3>2, <3>4
    <3>7. QED
      BY <3>5, <3>6 DEF InOrderSoFar
  <2>9. practice.at > 0 /\ d # None
    BY <1>0, <2>1, <2>4, NoneIsNoComponent
  <2>10. QED
    BY <1>0, <2>5, <2>6, <2>7, <2>8, <2>9
<1>12. QED
  BY <1>1, <1>2, <1>6, <1>7, <1>8, <1>9, <1>10, <1>11 DEF PracticeStep

\* So does loading the page.
LEMMA OpenedAfresh ==
    ASSUME NEW asked \in Seq(Asking), PracticeOpens(asked)
    PROVE  PracticeInv'
<1>1. practice' = [quiz |-> asked, asked |-> asked, at |-> 0, shown |-> None, back |-> FALSE]
  BY DEF PracticeOpens
<1>2. practice' \in Opened
  <2>1. [quiz |-> asked, asked |-> asked, at |-> 0, shown |-> None, back |-> FALSE] \in Opened
    BY DEF Opened
  <2>2. QED
    BY <1>1, <2>1
<1>3. Len(asked) \in Nat
  OBVIOUS
<1>4. InOrderSoFar'
  BY <1>1 DEF InOrderSoFar
<1>5. QED
  BY <1>1, <1>2, <1>3, <1>4 DEF PracticeInv

\* The quiz a page practises is one the scene has.
CataloguePractice == scene \in Scenes /\ PracticeInv

\* The quiz that is practised is a list of questions.
LEMMA ScenesAsk == scene \in Scenes => scene.asked \in Seq(Asking)
BY CatalogueAssumption

\* Only an answer to the practice page opens it anew.
LEMMA ArrivesPractice ==
    ASSUME NEW t \in Tabs, Arrives(t)
    PROVE  PracticeOpens(scene.asked) \/ UNCHANGED practice
<1>1. PICK i \in DOMAIN work[t] :
         LET r == work[t][i] IN
         \/ Ignored(t, i, r) \/ Listed(t, i, r) \/ LegacyListed(t, i, r) \/ Removed(t, i, r)
         \/ Reloaded(t, i, r) \/ Started(t, i, r) \/ LegacyStarted(t, i, r) \/ Viewed(t, i, r)
         \/ RatingTaken(t, i, r)
  BY DEF Arrives
<1>2. QED
  BY <1>1 DEF Ignored, Listed, LegacyListed, Removed, Reloaded, Started, LegacyStarted, Viewed,
              RatingTaken

\* No other tab and no request disturbs the practice page.
LEMMA NextKeepsPractice == CataloguePractice /\ [Next]_vars => CataloguePractice'
<1> SUFFICES ASSUME CataloguePractice, [Next]_vars PROVE CataloguePractice'
  OBVIOUS
<1>1. ASSUME UNCHANGED <<scene, practice>> PROVE CataloguePractice'
  BY <1>1, SMTT(60) DEF CataloguePractice, PracticeInv, InOrderSoFar
<1>2. ASSUME NEW t \in Tabs,
             \/ Handle(t) \/ Fails(t) \/ HostStarts(t) \/ OpenPage(t) \/ LeaveHost(t) \/ CloseDialog(t)
             \/ LegacyClose(t) \/ ConfirmDelete(t) \/ StartForm(t) \/ LegacyStart(t)
             \/ \E dialog \in Dialogs : ViewPopup(t, dialog)
             \/ \E likes \in BOOLEAN : RatingComponent(t, likes)
             \/ \E x \in Items : LegacyDelete(t, x) \/ SaveEdit(t, x)
             \/ \E x \in Items, dialog \in Dialogs :
                   DashboardItemCard(t, x, dialog) \/ LegacyCard(t, x, dialog)
      PROVE  UNCHANGED <<scene, practice>>
  BY <1>2, ZenonT(60) DEF Handle, Fails, HostStarts, OpenPage, Open, LeaveHost, CloseDialog, LegacyClose, ConfirmDelete,
              StartForm, LegacyStart, ViewPopup, RatingComponent, LegacyDelete, SaveEdit,
              DashboardItemCard, LegacyCard, Rest
<1>3. ASSUME NEW t \in Tabs, Arrives(t) PROVE CataloguePractice'
  <2>1. scene' = scene
    BY <1>3 DEF Arrives
  <2>2. QED
    BY <1>1, <1>3, <2>1, ArrivesPractice, ScenesAsk, OpenedAfresh DEF CataloguePractice
<1>4. ASSUME NEW u \in Users, LobbyExpires(u) \/ SessionExpires(u) \/ \E p \in Pins : StartGame(u, p)
      PROVE  UNCHANGED <<scene, practice>>
  BY <1>4 DEF LobbyExpires, SessionExpires, StartGame
<1>5. CASE Practise
  BY <1>5, NextPracticeInv DEF Practise, CataloguePractice
<1>6. CASE UNCHANGED vars
  BY <1>1, <1>6 DEF vars
<1>7. QED
  BY <1>1, <1>2, <1>3, <1>4, <1>5, <1>6 DEF Next

\* The invariant implies the property.
LEMMA PracticeInvIsRight == PracticeInv => PracticeIsRight
BY DEF PracticeInv, InOrderSoFar, PracticeIsRight, CorrectionIsRight, ChoiceBelongs, Type, Shown,
       Asked

\* Who goes through a practice quiz in its order sees, after the submit button
\* of an ORDER question, the order the quiz was loaded with, and never the
\* clock or the choice of another question (the practice route of the legacy
\* client and its question component).
THEOREM PracticeIsAlwaysRight == CatalogueSpec => []PracticeIsRight
<1>1. Init => CataloguePractice
  BY DEF Init, CataloguePractice, PracticeInv
<1>2. CataloguePractice => PracticeIsRight
  BY PracticeInvIsRight DEF CataloguePractice
<1>3. QED
  BY <1>1, <1>2, NextKeepsPractice, PTL DEF CatalogueSpec

\* What is left of a sequence, and where it was.
LEMMA RemovedAt ==
    ASSUME NEW S, NEW s \in Seq(S), NEW i \in DOMAIN s
    PROVE  /\ RemoveAt(s, i) \in Seq(S) /\ Len(RemoveAt(s, i)) = Len(s) - 1
           /\ \A k \in DOMAIN RemoveAt(s, i) : RemoveAt(s, i)[k] = s[IF k < i THEN k ELSE k + 1]
<1> DEFINE a == SubSeq(s, 1, i - 1)
           b == SubSeq(s, i + 1, Len(s))
<1>1. i \in 1 .. Len(s) /\ Len(s) \in Nat /\ DOMAIN s = 1 .. Len(s)
  OBVIOUS
<1>2. a \in Seq(S) /\ Len(a) = i - 1 /\ \A k \in 1 .. i - 1 : a[k] = s[k]
  BY <1>1
<1>3. b \in Seq(S) /\ Len(b) = Len(s) - i /\ \A k \in 1 .. Len(s) - i : b[k] = s[i + k]
  BY <1>1
<1> HIDE DEF a, b
<1>4. a \o b \in Seq(S) /\ Len(a \o b) = Len(a) + Len(b)
  BY <1>2, <1>3, ConcatProperties
<1>5. \A k \in 1 .. Len(a) + Len(b) :
         (a \o b)[k] = IF k <= Len(a) THEN a[k] ELSE b[k - Len(a)]
  BY <1>2, <1>3, ConcatProperties
<1>6. ASSUME NEW k \in 1 .. Len(s) - 1, k < i PROVE (a \o b)[k] = s[k]
  <2>1. k \in 1 .. Len(a) + Len(b) /\ k <= Len(a) /\ k \in 1 .. i - 1
    BY <1>1, <1>2, <1>3, <1>6
  <2>2. QED
    BY <1>2, <1>5, <2>1
<1>7. ASSUME NEW k \in 1 .. Len(s) - 1, ~(k < i) PROVE (a \o b)[k] = s[k + 1]
  <2>1. k \in 1 .. Len(a) + Len(b) /\ ~(k <= Len(a)) /\ k - Len(a) \in 1 .. Len(s) - i
        /\ i + (k - Len(a)) = k + 1
    BY <1>1, <1>2, <1>3, <1>7
  <2>2. QED
    BY <1>3, <1>5, <2>1
<1>8. Len(a \o b) = Len(s) - 1 /\ DOMAIN (a \o b) = 1 .. Len(s) - 1
  <2>1. PICK c \in Seq(S) : c = a \o b
    BY <1>4
  <2>2. Len(c) = Len(s) - 1
    <3>1. Len(c) = Len(a) + Len(b)
      BY <1>4, <2>1
    <3>2. Len(a) = i - 1 /\ Len(b) = Len(s) - i
      BY <1>2, <1>3
    <3>3. QED
      BY <1>1, <3>1, <3>2
  <2>3. DOMAIN c = 1 .. Len(s) - 1
    BY <2>2
  <2>4. QED
    BY <2>1, <2>2, <2>3
<1>9. \A k \in 1 .. Len(s) - 1 : (a \o b)[k] = s[IF k < i THEN k ELSE k + 1]
  BY <1>6, <1>7
<1>10. RemoveAt(s, i) = a \o b
  BY DEF RemoveAt, a, b
<1>11. QED
  BY <1>4, <1>8, <1>9, <1>10

(***************************************************************************)
(* What happens to the requests of one tab.                                *)
(***************************************************************************)

\* Of the requests of t those in gone go, s comes at n, and the others keep
\* their order: m says where they were.
Moved(t, gone, n, s, m) ==
    /\ work' \in [Tabs -> Seq(Requests)]
    /\ \A u \in Tabs \ {t} : work'[u] = work[u]
    /\ n \in DOMAIN work'[t] => work'[t][n] = s
    /\ \A k \in DOMAIN work'[t] \ {n} :
          m[k] \in DOMAIN work[t] \ gone /\ work'[t][k] = work[t][m[k]]
    /\ \A k, l \in DOMAIN work'[t] \ {n} : m[k] = m[l] => k = l
    /\ \A j \in DOMAIN work[t] \ gone : \E k \in DOMAIN work'[t] \ {n} : m[k] = j

Traffic(t, gone, n, s) == \E m : Moved(t, gone, n, s, m)

Typed == work \in [Tabs -> Seq(Requests)]

\* A request goes on.
LEMMA GoesOn ==
    ASSUME Typed, NEW t \in Tabs, NEW i \in DOMAIN work[t], NEW s \in Requests,
           work' = [work EXCEPT ![t][i] = s]
    PROVE  /\ Traffic(t, {i}, i, s) /\ i \in DOMAIN work'[t] /\ work'[t][i] = s
           /\ DOMAIN work'[t] = DOMAIN work[t]
           /\ \A j \in DOMAIN work[t] \ {i} : work'[t][j] = work[t][j]
<1>1. PICK w \in Seq(Requests) : w = work[t]
  BY DEF Typed
<1>2. PICK v : v = [w EXCEPT ![i] = s]
  OBVIOUS
<1>3. /\ v \in Seq(Requests) /\ DOMAIN v = DOMAIN w /\ v[i] = s
      /\ \A j \in DOMAIN w \ {i} : v[j] = w[j]
  BY <1>1, <1>2
<1>4. work' \in [Tabs -> Seq(Requests)] /\ work'[t] = v /\ \A u \in Tabs \ {t} : work'[u] = work[u]
  BY <1>1, <1>2, <1>3 DEF Typed
<1>5. Moved(t, {i}, i, s, [k \in DOMAIN w |-> k])
  BY <1>1, <1>3, <1>4 DEF Moved
<1>6. QED
  BY <1>1, <1>3, <1>4, <1>5 DEF Traffic

\* A request is sent.
LEMMA IsSent ==
    ASSUME Typed, NEW t \in Tabs, NEW s \in Requests, work' = [work EXCEPT ![t] = Append(@, s)]
    PROVE  /\ Traffic(t, {}, Len(work[t]) + 1, s)
           /\ Len(work[t]) + 1 \in DOMAIN work'[t] /\ work'[t][Len(work[t]) + 1] = s
<1>1. PICK w \in Seq(Requests) : w = work[t]
  BY DEF Typed
<1>2. PICK v : v = Append(w, s)
  OBVIOUS
<1>3. PICK n \in Nat : n = Len(w) + 1
  BY <1>1
<1>4. /\ v \in Seq(Requests) /\ DOMAIN v = 1 .. n /\ v[n] = s /\ DOMAIN w = 1 .. n - 1
      /\ \A j \in 1 .. n - 1 : v[j] = w[j]
  BY <1>1, <1>2, <1>3
<1>5. work' \in [Tabs -> Seq(Requests)] /\ work'[t] = v /\ \A u \in Tabs \ {t} : work'[u] = work[u]
  BY <1>1, <1>2, <1>4 DEF Typed
<1>6. Moved(t, {}, n, s, [k \in 1 .. n |-> k])
  BY <1>1, <1>3, <1>4, <1>5 DEF Moved
<1>7. n \in DOMAIN v
  BY <1>3, <1>4
<1>8. QED
  BY <1>1, <1>3, <1>4, <1>5, <1>6, <1>7 DEF Traffic

\* An answer is taken.
LEMMA IsTaken ==
    ASSUME Typed, NEW t \in Tabs, NEW i \in DOMAIN work[t],
           work' = [work EXCEPT ![t] = RemoveAt(@, i)]
    PROVE  Traffic(t, {i}, 0, None) /\ 0 \notin DOMAIN work'[t]
<1>1. PICK w \in Seq(Requests) : w = work[t]
  BY DEF Typed
<1>2. PICK v : v = RemoveAt(w, i)
  OBVIOUS
<1>3. /\ v \in Seq(Requests) /\ Len(v) = Len(w) - 1 /\ Len(w) \in Nat /\ i \in 1 .. Len(w)
      /\ \A k \in DOMAIN v : v[k] = w[IF k < i THEN k ELSE k + 1]
  BY <1>1, <1>2, RemovedAt
<1>4. work' \in [Tabs -> Seq(Requests)] /\ work'[t] = v /\ \A u \in Tabs \ {t} : work'[u] = work[u]
  BY <1>1, <1>2, <1>3 DEF Typed
<1>5. PICK m : m = [k \in DOMAIN v |-> IF k < i THEN k ELSE k + 1]
  OBVIOUS
<1>6. DOMAIN w = 1 .. Len(w) /\ DOMAIN v = 1 .. Len(w) - 1
  BY <1>1, <1>3
<1>7. \A k \in DOMAIN v : m[k] \in DOMAIN w \ {i} /\ v[k] = w[m[k]]
  BY <1>3, <1>5, <1>6
<1>8. \A k, l \in DOMAIN v : m[k] = m[l] => k = l
  BY <1>3, <1>5, <1>6
<1>9. \A j \in DOMAIN w \ {i} : \E k \in DOMAIN v : m[k] = j
  <2>1. ASSUME NEW j \in 1 .. Len(w), j # i PROVE \E k \in DOMAIN v : m[k] = j
    <3>1. CASE j < i
      BY <1>3, <1>5, <1>6, <2>1, <3>1
    <3>2. CASE j > i
      <4>1. j - 1 \in DOMAIN v /\ m[j - 1] = j
        BY <1>3, <1>5, <1>6, <2>1, <3>2
      <4>2. QED
        BY <4>1
    <3>3. QED
      BY <1>3, <2>1, <3>1, <3>2
  <2>2. QED
    BY <1>6, <2>1
<1>10. 0 \notin DOMAIN v
  BY <1>3, <1>6
<1>11. Moved(t, {i}, 0, None, m)
  BY <1>1, <1>4, <1>7, <1>8, <1>9, <1>10 DEF Moved
<1>12. QED
  BY <1>4, <1>10, <1>11 DEF Traffic

\* An answer is taken, and the page asks for the list.
LEMMA IsTakenAndSent ==
    ASSUME Typed, NEW t \in Tabs, NEW i \in DOMAIN work[t], NEW s \in Requests,
           work' = [work EXCEPT ![t] = Append(RemoveAt(@, i), s)]
    PROVE  /\ Traffic(t, {i}, Len(work[t]), s)
           /\ Len(work[t]) \in DOMAIN work'[t] /\ work'[t][Len(work[t])] = s
<1>1. PICK w \in Seq(Requests) : w = work[t]
  BY DEF Typed
<1>2. PICK x : x = RemoveAt(w, i)
  OBVIOUS
<1>3. /\ x \in Seq(Requests) /\ Len(x) = Len(w) - 1 /\ Len(w) \in Nat /\ i \in 1 .. Len(w)
      /\ \A k \in DOMAIN x : x[k] = w[IF k < i THEN k ELSE k + 1]
  BY <1>1, <1>2, RemovedAt, SMTT(60)
<1>4. PICK n \in Nat : n = Len(w)
  BY <1>3
<1>5. PICK v : v = Append(x, s)
  OBVIOUS
<1>6. DOMAIN w = 1 .. n /\ DOMAIN x = 1 .. n - 1 /\ i \in 1 .. n
  BY <1>1, <1>3, <1>4
<1>7. /\ v \in Seq(Requests) /\ DOMAIN v = 1 .. n /\ v[n] = s
      /\ \A k \in 1 .. n - 1 : v[k] = w[IF k < i THEN k ELSE k + 1]
  <2>1. v \in Seq(Requests) /\ Len(v) = n /\ v[n] = s /\ \A k \in 1 .. n - 1 : v[k] = x[k]
    BY <1>3, <1>4, <1>5
  <2>2. QED
    BY <1>3, <1>6, <2>1, SMTT(60)
<1>8. work' \in [Tabs -> Seq(Requests)] /\ work'[t] = v /\ \A u \in Tabs \ {t} : work'[u] = work[u]
  BY <1>1, <1>2, <1>5, <1>7 DEF Typed
<1>9. PICK m : m = [k \in 1 .. n |-> IF k < i THEN k ELSE k + 1]
  OBVIOUS
<1>10. \A k \in 1 .. n - 1 : m[k] \in 1 .. n /\ m[k] # i /\ v[k] = w[m[k]]
  BY <1>6, <1>7, <1>9
<1>11. \A k, l \in 1 .. n - 1 : m[k] = m[l] => k = l
  BY <1>6, <1>9
<1>12. \A j \in 1 .. n : j # i => \E k \in 1 .. n - 1 : m[k] = j
  <2>1. ASSUME NEW j \in 1 .. n, j # i PROVE \E k \in 1 .. n - 1 : m[k] = j
    <3>1. CASE j < i
      <4>1. j \in 1 .. n - 1 /\ m[j] = j
        BY <1>6, <1>9, <2>1, <3>1
      <4>2. QED
        BY <4>1
    <3>2. CASE j > i
      <4>1. j - 1 \in 1 .. n - 1 /\ m[j - 1] = j
        BY <1>6, <1>9, <2>1, <3>2
      <4>2. QED
        BY <4>1
    <3>3. QED
      BY <1>6, <2>1, <3>1, <3>2
  <2>2. QED
    BY <2>1
<1>13. (1 .. n) \ {n} = 1 .. n - 1 /\ n \in 1 .. n
  BY <1>6
<1>14. Moved(t, {i}, n, s, m)
  <2>1. DOMAIN work'[t] \ {n} = 1 .. n - 1 /\ DOMAIN work[t] = 1 .. n
    BY <1>1, <1>6, <1>7, <1>8, <1>13
  <2>2. \A k \in 1 .. n - 1 : m[k] \in DOMAIN work[t] \ {i} /\ work'[t][k] = work[t][m[k]]
    BY <1>1, <1>8, <1>10, <2>1
  <2>3. QED
    BY <1>7, <1>8, <1>11, <1>12, <2>1, <2>2 DEF Moved
<1>15. QED
  BY <1>1, <1>4, <1>7, <1>8, <1>13, <1>14 DEF Traffic

\* A request stays the one it is while it is handled.
Same(r, s) ==
    /\ s.kind = r.kind /\ s.item = r.item /\ s.visit = r.visit /\ s.id = r.id /\ s.likes = r.likes

\* A request is answered, its handler gets on with it, finds a pin, reads one
\* of the two lists.
Ended(r, a)        == [r EXCEPT !.stage = "done", !.answer = a]
Staged(r, st, row) == [r EXCEPT !.stage = st, !.row = row]
Pinned(r, p)       == [r EXCEPT !.stage = "pinned", !.pin = p]
Read(r, left, list, st, a) == [r EXCEPT !.left = left, !.list = list, !.stage = st, !.answer = a]

\* What a request is whose handler has given its answer.
LEMMA IsEnded ==
    ASSUME NEW r \in Requests, NEW a \in Answers,
           a = "ok" => (r.kind = "view" => r.row \in Rows) /\ (r.kind = "start" => r.pin \in Pins)
    PROVE  LET s == Ended(r, a) IN
           /\ s \in Requests /\ Same(r, s) /\ s.stage = "done" /\ s.answer = a
           /\ s.row = r.row /\ s.pin = r.pin /\ s.list = r.list
<1>1. PICK s : s = Ended(r, a)
  OBVIOUS
<1>2. /\ s.kind = r.kind /\ s.item = r.item /\ s.visit = r.visit /\ s.id = r.id /\ s.likes = r.likes
      /\ s.stage = "done" /\ s.answer = a /\ s.left = r.left /\ s.row = r.row /\ s.pin = r.pin
      /\ s.list = r.list
  BY <1>1 DEF Requests, Ended
<1>3. s \in [kind : {"list", "delete", "start", "view", "rate", "save"}, item : Items \cup {None},
            stage : {"sent", "unlinked", "asking", "pinned", "stored", "done"} \cup Writing,
            answer : Answers \cup {None}, row : Rows \cup {None},
            visit : Nat, likes : BOOLEAN, pin : Pins \cup {None}, id : Nat,
            left : SUBSET {"quizzes", "quiztivities"}, list : [Items -> Rows \cup {None}]]
  BY <1>1 DEF Requests, Ended
<1>4. s \in Requests
  BY <1>2, <1>3 DEF Requests, Writing
<1>5. QED
  BY <1>1, <1>2, <1>4 DEF Same

\* What a request is whose handler goes on to another stage.
LEMMA IsStaged ==
    ASSUME NEW r \in Requests, r.stage # "done", NEW st, NEW row \in Rows \cup {None},
           \/ st = "unlinked" /\ r.kind = "delete"
           \/ st = "counted" /\ r.kind \in {"start", "view", "save"} /\ row \in Rows
           \/ st \in Writing \ {"counted"} /\ r.kind = "rate" /\ row \in Rows
           \/ st = "asking" /\ r.kind = "start"
           \/ st = "stored" /\ r.kind = "start" /\ r.pin \in Pins
    PROVE  LET s == Staged(r, st, row) IN
           /\ s \in Requests /\ Same(r, s) /\ s.stage = st /\ s.answer = None
           /\ s.row = row /\ s.pin = r.pin /\ s.list = r.list
BY ZenonT(60) DEF Requests, Same, Writing, Staged

\* What the start of a game is that has found its pin.
LEMMA IsPinned ==
    ASSUME NEW r \in Requests, r.stage = "asking", NEW p \in Pins
    PROVE  LET s == Pinned(r, p) IN
           /\ s \in Requests /\ Same(r, s) /\ s.stage = "pinned" /\ s.answer = None
           /\ s.row = r.row /\ s.pin = p /\ s.list = r.list
BY DEF Requests, Same, Writing, Pinned

\* What a request is that holds the row it will write.
LEMMA IsRead ==
    ASSUME NEW r \in Requests, r.stage = "sent", r.kind = "list",
           NEW left \in SUBSET {"quizzes", "quiztivities"}, NEW list \in [Items -> Rows \cup {None}],
           NEW st, NEW a, (st = "done" /\ a = "ok") \/ (st = "sent" /\ a = None)
    PROVE  LET s == Read(r, left, list, st, a) IN
           /\ s \in Requests /\ Same(r, s) /\ s.stage \in {"sent", "done"}
           /\ s.row = r.row /\ s.pin = r.pin /\ s.list = list
<1>1. PICK s : s = Read(r, left, list, st, a)
  OBVIOUS
<1>2. /\ s.kind = r.kind /\ s.item = r.item /\ s.visit = r.visit /\ s.id = r.id /\ s.likes = r.likes
      /\ s.stage = st /\ s.answer = a /\ s.left = left /\ s.row = r.row /\ s.pin = r.pin /\ s.list = list
  BY <1>1 DEF Requests, Read
<1>3. s \in [kind : {"list", "delete", "start", "view", "rate", "save"}, item : Items \cup {None},
            stage : {"sent", "unlinked", "asking", "pinned", "stored", "done"} \cup Writing,
            answer : Answers \cup {None}, row : Rows \cup {None},
            visit : Nat, likes : BOOLEAN, pin : Pins \cup {None}, id : Nat,
            left : SUBSET {"quizzes", "quiztivities"}, list : [Items -> Rows \cup {None}]]
  BY <1>1 DEF Requests, Read, Answers
<1>4. s \in Requests
  BY <1>2, <1>3 DEF Requests, Writing
<1>5. QED
  BY <1>1, <1>2, <1>4 DEF Same

\* A field that is not written stays.
LEMMA SameRow ==
    ASSUME NEW r \in Requests, NEW stage
    PROVE  /\ [r EXCEPT !.stage = stage] = Staged(r, stage, r.row)
           /\ r.row \in Rows \cup {None} /\ r.pin \in Pins \cup {None}
           /\ r.stage \in Writing => r.row \in Rows
           /\ r.kind # "list" => r.item \in Items
           /\ r.stage # "done" => r.answer = None
           /\ r.stage \in {"pinned", "stored"} => r.pin \in Pins /\ r.kind = "start"
           /\ r.list \in [Items -> Rows \cup {None}] /\ r.left \subseteq {"quizzes", "quiztivities"}
           /\ r.kind # "list" => r.item \in Items
           /\ r.likes \in BOOLEAN /\ r.id \in Nat /\ r.visit \in Nat
BY DEF Requests, Writing, Staged

(***************************************************************************)
(* What a handler does                                                     *)
(***************************************************************************)

\* What the database and Redis hold.
Stores ==
    /\ db \in [Items -> Rows \cup {None}] /\ found \subseteq Items
    /\ ratings \in [Users -> [Items -> Seq(BOOLEAN)]]
    /\ latest \in [Users -> [Items -> Pins \cup {None}]] /\ lobby \in [Users -> Pins \cup {None}]
    /\ games \in [Pins -> Games \cup {None}]
    /\ done \in [Items -> [views : Nat, plays : Nat, text : Nat]]
    /\ risks \subseteq {"overlap", "race", "stray", "twice"}

\* Nothing that was deleted comes back, and a game stays until it is replaced.
Gone ==
    /\ \A x \in Items : db[x] = None => db'[x] = None
    /\ \A p \in Pins : games[p] # None => games'[p] # None

\* There is a game once the handler of its start has made it.
Playable(r) == r.stage = "stored" \/ (r.kind = "start" /\ r.answer = "ok") => games[r.pin] # None

\* The handler of a request of t goes on: r becomes s.
HandledAs(t, i, r, s) ==
    /\ s \in Requests /\ Same(r, s) /\ Advance(t, i, s)
    /\ Stores' /\ Gone
    /\ Playable(r) => (s.stage = "stored" \/ (s.kind = "start" /\ s.answer = "ok") => games'[s.pin] # None)
    /\ s.kind = "delete" /\ s.answer = "ok" => db'[s.item] = None
    /\ s.kind = "list" => \A x \in Items : s.list[x] \in {r.list[x], db[x]}

\* A handler that finishes puts an answered request in the place of its own.
LEMMA EndShape ==
    ASSUME NEW t \in Tabs, NEW i \in DOMAIN work[t], NEW r \in Requests, r = work[t][i], r.kind # "list",
           NEW a \in Answers, Finish(t, i, a), Stores', Gone,
           a = "ok" => /\ r.kind = "view" => r.row \in Rows
                       /\ r.kind = "start" => r.pin \in Pins /\ r.stage = "stored"
                       /\ r.kind = "delete" => db'[r.item] = None
    PROVE  \E s : HandledAs(t, i, r, s)
<1>1. PICK s : s = Ended(r, a)
  OBVIOUS
<1>2. s \in Requests /\ Same(r, s) /\ s.answer = a /\ s.stage = "done" /\ s.pin = r.pin
  BY <1>1, IsEnded
<1>3. Advance(t, i, s)
  BY <1>1 DEF Finish, Ended
<1>4. Playable(r) => (s.stage = "stored" \/ (s.kind = "start" /\ s.answer = "ok") => games'[s.pin] # None)
  BY <1>2 DEF Playable, Same, Gone
<1>5. QED
  BY <1>2, <1>3, <1>4 DEF HandledAs, Same

\* A handler that goes on puts its next stage in the place of its request.
LEMMA StageShape ==
    ASSUME NEW t \in Tabs, NEW i \in DOMAIN work[t], NEW r \in Requests, r = work[t][i], r.stage # "done",
           NEW st, NEW row \in Rows \cup {None}, Advance(t, i, Staged(r, st, row)), Stores', Gone,
           \/ st = "unlinked" /\ r.kind = "delete"
           \/ st = "counted" /\ r.kind \in {"start", "view", "save"} /\ row \in Rows
           \/ st \in Writing \ {"counted"} /\ r.kind = "rate" /\ row \in Rows
           \/ st = "asking" /\ r.kind = "start"
           \/ st = "stored" /\ r.kind = "start" /\ r.pin \in Pins /\ games'[r.pin] # None
    PROVE  \E s : HandledAs(t, i, r, s)
<1>1. PICK s : s = Staged(r, st, row)
  OBVIOUS
<1>2. s \in Requests /\ Same(r, s) /\ s.answer = None /\ s.stage = st /\ s.pin = r.pin
  BY <1>1, IsStaged
<1>3. s.kind # "list" /\ s.answer # "ok" /\ Advance(t, i, s)
  BY <1>1, <1>2, NoneIsNothing DEF Same, Answers
<1>4. s.stage = "stored" \/ (s.kind = "start" /\ s.answer = "ok") => games'[s.pin] # None
  BY <1>2, <1>3 DEF Writing
<1>5. QED
  BY <1>2, <1>3, <1>4 DEF HandledAs

\* The row of a quiz is written, or goes.
LEMMA WriteShape ==
    ASSUME Stores, NEW x \in Items, NEW row \in Rows, Update(x, row) \/ db' = [db EXCEPT ![x] = None],
           UNCHANGED games
    PROVE  db' \in [Items -> Rows \cup {None}] /\ Gone
BY DEF Stores, Update, Gone

\* List advances one request of the tab, and touches no row.
LEMMA ListShape ==
    ASSUME Stores, Typed, NEW t \in Tabs, NEW i \in DOMAIN work[t], NEW r \in Requests, r = work[t][i],
           r.stage = "sent", r.kind = "list", List(t, i, r)
    PROVE  \E s : HandledAs(t, i, r, s)
<1>1. Stores' /\ Gone
  BY DEF List, Stores, server, Gone
<1>2. CASE User(t) \notin signed
  <2>1. PICK s : s = Ended(r, "401")
    OBVIOUS
  <2>0. "401" \in Answers
    BY DEF Answers
  <2>2. s \in Requests /\ Same(r, s) /\ s.list = r.list /\ s.stage = "done"
    BY <2>0, <2>1, IsEnded, ZenonT(60)
  <2>3. Advance(t, i, s)
    BY <1>2, <2>1 DEF List, Finish, Ended
  <2>4. QED
    BY <1>1, <2>2, <2>3 DEF HandledAs, Same
<1>3. CASE User(t) \in signed
  <2>0. PICK k \in r.left :
           LET left == r.left \ {k}
               list == [x \in Items |-> IF IsQuiz(x) = (k = "quizzes") THEN db[x] ELSE r.list[x]]
           IN  Advance(t, i, Read(r, left, list, IF left = {} THEN "done" ELSE "sent",
                                  IF left = {} THEN "ok" ELSE None))
    BY <1>3, Zenon DEF List, Read
  <2>1. PICK left, list, s, st, a :
           /\ left = r.left \ {k}
           /\ list = [x \in Items |-> IF IsQuiz(x) = (k = "quizzes") THEN db[x] ELSE r.list[x]]
           /\ st = (IF left = {} THEN "done" ELSE "sent")
           /\ a = (IF left = {} THEN "ok" ELSE None)
           /\ s = Read(r, left, list, st, a)
           /\ Advance(t, i, s)
    BY <2>0, Zenon
  <2>2. left \in SUBSET {"quizzes", "quiztivities"} /\ list \in [Items -> Rows \cup {None}]
    <3>1. r.list \in [Items -> Rows \cup {None}] /\ r.left \subseteq {"quizzes", "quiztivities"}
      BY SameRow
    <3>2. QED
      BY <2>1, <3>1 DEF Stores
  <2>3. s \in Requests /\ Same(r, s) /\ s.list = list /\ s.stage \in {"sent", "done"}
    BY <2>1, <2>2, IsRead
  <2>4. \A x \in Items : list[x] \in {r.list[x], db[x]}
    BY <2>1
  <2>5. s.kind = "list" /\ \A x \in Items : s.list[x] \in {r.list[x], db[x]}
    BY <2>3, <2>4 DEF Same
  <2>6. QED
    BY <1>1, <2>1, <2>3, <2>5, ZenonT(60) DEF HandledAs
<1>4. QED
  BY <1>2, <1>3

\* The deletions leave a row, or remove it and say so in the answer.
LEMMA DeleteShape ==
    ASSUME Stores, NEW t \in Tabs, NEW i \in DOMAIN work[t], NEW r \in Requests, r = work[t][i],
           r.stage # "done", r.kind = "delete",
           DeleteQuiz(t, i, r) \/ DeleteQuiztivity(t, i, r), UNCHANGED <<done, risks>>
    PROVE  \E s : HandledAs(t, i, r, s)
<1>0. r.item \in Items
  BY SameRow
<1>1. ASSUME UNCHANGED server, NEW a \in Answers \ {"ok"}, Finish(t, i, a)
      PROVE  \E s : HandledAs(t, i, r, s)
  <2>1. Stores' /\ Gone
    BY <1>1 DEF server, Stores, Gone
  <2>2. QED
    BY <1>1, <2>1, EndShape
<1>2. ASSUME db' = [db EXCEPT ![r.item] = None], UNCHANGED <<ratings, found, games, lobby, latest>>,
             Finish(t, i, "ok")
      PROVE  \E s : HandledAs(t, i, r, s)
  <2>1. Stores' /\ Gone /\ db'[r.item] = None
    BY <1>0, <1>2 DEF Stores, Gone
  <2>2. QED
    BY <1>2, <2>1, EndShape, "ok" \in Answers DEF Answers
<1>3. ASSUME found' = found \ {r.item}, Advance(t, i, [r EXCEPT !.stage = "unlinked"]),
             UNCHANGED <<db, ratings, games, lobby, latest>>
      PROVE  \E s : HandledAs(t, i, r, s)
  <2>1. Advance(t, i, Staged(r, "unlinked", r.row)) /\ r.row \in Rows \cup {None}
    BY <1>3, SameRow
  <2>2. Stores' /\ Gone
    BY <1>3 DEF Stores, Gone
  <2>3. QED
    BY <2>1, <2>2, StageShape
<1>4. CASE DeleteQuiztivity(t, i, r)
  BY <1>1, <1>2, <1>4 DEF DeleteQuiztivity, Answers
<1>5. CASE DeleteQuiz(t, i, r)
  BY <1>1, <1>2, <1>3, <1>5 DEF DeleteQuiz, Answers
<1>6. QED
  BY <1>4, <1>5

\* A row with one more of something is a row.
LEMMA RowShape ==
    ASSUME NEW row \in Rows, NEW b \in BOOLEAN
    PROVE  /\ [row EXCEPT !.plays = @ + 1] \in Rows /\ [row EXCEPT !.views = @ + 1] \in Rows
           /\ [row EXCEPT !.text = @ + 1] \in Rows
           /\ Withdraw(row, b) \in Rows /\ Cast(row, b) \in Rows
BY DEF Rows, Withdraw, Cast

\* What is counted stays a count, what is risked a risk.
LEMMA TallyShape ==
    ASSUME Stores, NEW x \in Items, NEW what \in {"views", "plays", "text"}, Tally(x, what)
    PROVE  done' \in [Items -> [views : Nat, plays : Nat, text : Nat]]
BY DEF Stores, Tally

\* Hold adds at most one risk.
LEMMA HoldShape ==
    ASSUME Stores, NEW x, Hold(x)
    PROVE  risks' \subseteq {"overlap", "race", "stray", "twice"}
BY DEF Stores, Hold

\* View reads a row, writes it back where there still is one, and answers.
LEMMA ViewShape ==
    ASSUME Stores, NEW t \in Tabs, NEW i \in DOMAIN work[t], NEW r \in Requests, r = work[t][i],
           r.stage # "done", (r.kind = "view" /\ View(t, i, r)) \/ (r.kind = "save" /\ Save(t, i, r))
    PROVE  \E s : HandledAs(t, i, r, s)
<1>0. r.item \in Items /\ (r.stage \in Writing => r.row \in Rows)
  BY SameRow
<1>1. ASSUME UNCHANGED <<server, done, risks>>, Finish(t, i, "404")
      PROVE  \E s : HandledAs(t, i, r, s)
  <2>1. Stores' /\ Gone
    BY <1>1 DEF server, Stores, Gone
  <2>2. QED
    BY <1>1, <2>1, EndShape, "404" \in Answers DEF Answers
<1>2. ASSUME UNCHANGED <<server, done>>, Hold(r.item), NEW row \in Rows,
             Advance(t, i, [r EXCEPT !.stage = "counted", !.row = row])
      PROVE  \E s : HandledAs(t, i, r, s)
  <2>1. Stores' /\ Gone
    BY <1>2, HoldShape DEF server, Stores, Gone
  <2>2. Advance(t, i, Staged(r, "counted", row))
    BY <1>2 DEF Staged
  <2>3. QED
    BY <1>2, <2>1, <2>2, StageShape
<1>3. ASSUME r.stage = "counted", Update(r.item, r.row), Finish(t, i, "ok"),
             UNCHANGED <<ratings, found, games, lobby, latest, risks>>,
             Tally(r.item, "views") \/ Tally(r.item, "text")
      PROVE  \E s : HandledAs(t, i, r, s)
  <2>1. r.row \in Rows
    BY <1>0, <1>3 DEF Writing
  <2>2. Stores' /\ Gone
    BY <1>0, <1>3, <2>1, WriteShape, TallyShape, SMTT(60) DEF Stores
  <2>3. QED
    BY <1>3, <2>1, <2>2, EndShape, "ok" \in Answers DEF Answers
<1>4. ASSUME db[r.item] # None
      PROVE  [Row(r.item) EXCEPT !.views = @ + 1] \in Rows /\ [Row(r.item) EXCEPT !.text = @ + 1] \in Rows
  BY <1>0, <1>4, RowShape, ZenonT(60) DEF Row, Stores
<1>5. CASE View(t, i, r)
  BY <1>1, <1>2, <1>3, <1>4, <1>5 DEF View
<1>6. CASE Save(t, i, r)
  BY <1>1, <1>2, <1>3, <1>4, <1>6, ZenonT(60) DEF Save
<1>7. QED
  BY <1>5, <1>6

\* StartQuiz counts the play and makes its game before it names it to anybody.
LEMMA StartShape ==
    ASSUME Stores, NEW t \in Tabs, NEW i \in DOMAIN work[t], NEW r \in Requests, r = work[t][i],
           r.stage # "done", r.kind = "start", StartQuiz(t, i, r), User(t) \in Users
    PROVE  \E s : HandledAs(t, i, r, s)
<1>0. /\ r.item \in Items /\ (r.stage \in Writing => r.row \in Rows) /\ r.row \in Rows \cup {None}
      /\ (r.stage \in {"pinned", "stored"} => r.pin \in Pins) /\ r.id \in Nat
  BY SameRow
<1>1. ASSUME UNCHANGED <<server, done, risks>>, NEW a \in Answers \ {"ok"}, Finish(t, i, a)
      PROVE  \E s : HandledAs(t, i, r, s)
  <2>1. Stores' /\ Gone
    BY <1>1 DEF server, Stores, Gone
  <2>2. QED
    BY <1>1, <2>1, EndShape
<1>2. ASSUME db[r.item] # None, Hold(r.item), UNCHANGED <<server, done>>,
             Advance(t, i, [r EXCEPT !.stage = "counted", !.row = [Row(r.item) EXCEPT !.plays = @ + 1]])
      PROVE  \E s : HandledAs(t, i, r, s)
  <2>1. Stores' /\ Gone
    BY <1>2, HoldShape DEF server, Stores, Gone
  <2>2. PICK row : row = [Row(r.item) EXCEPT !.plays = @ + 1]
    OBVIOUS
  <2>3. Advance(t, i, Staged(r, "counted", row))
    BY <1>2, <2>2 DEF Staged
  <2>4. row \in Rows
    BY <1>0, <1>2, <2>2, RowShape DEF Row, Stores
  <2>5. QED
    BY <2>1, <2>3, <2>4, StageShape
<1>3. ASSUME r.stage = "counted", Update(r.item, r.row), Tally(r.item, "plays"),
             Advance(t, i, [r EXCEPT !.stage = "asking"]),
             UNCHANGED <<ratings, found, games, lobby, latest, risks>>
      PROVE  \E s : HandledAs(t, i, r, s)
  <2>1. r.row \in Rows
    BY <1>0, <1>3 DEF Writing
  <2>2. Stores' /\ Gone
    BY <1>0, <1>3, <2>1, WriteShape, TallyShape DEF Stores
  <2>3. Advance(t, i, Staged(r, "asking", r.row))
    BY <1>3, SameRow
  <2>4. QED
    BY <2>1, <2>2, <2>3, StageShape
<1>4. ASSUME r.stage = "asking", NEW p \in Pins, Advance(t, i, [r EXCEPT !.stage = "pinned", !.pin = p]),
             risks' \in {risks, risks \cup {"race"}}, UNCHANGED <<server, done>>
      PROVE  \E s : HandledAs(t, i, r, s)
  <2>1. Stores' /\ Gone
    BY <1>4 DEF server, Stores, Gone
  <2>2. PICK s : s = Pinned(r, p)
    OBVIOUS
  <2>3. s \in Requests /\ Same(r, s) /\ s.answer = None /\ s.stage = "pinned"
    BY <1>4, <2>2, IsPinned
  <2>4. s.kind = "start" /\ s.answer # "ok" /\ Advance(t, i, s)
    BY <1>4, <2>2, <2>3, NoneIsNothing DEF Same, Pinned, Answers
  <2>5. QED
    BY <2>1, <2>3, <2>4 DEF HandledAs
<1>5. ASSUME r.stage = "pinned", SetGame(t, r), Advance(t, i, [r EXCEPT !.stage = "stored"]),
             UNCHANGED <<db, ratings, found, lobby, latest, done, risks>>
      PROVE  \E s : HandledAs(t, i, r, s)
  <2>1. [id |-> r.id, user |-> User(t), item |-> r.item, started |-> FALSE] \in Games
    BY <1>0 DEF Games
  <2>2. games' \in [Pins -> Games \cup {None}]
    BY <1>5, <2>1 DEF SetGame, Stores
  <2>3. /\ \A p \in Pins : games[p] # None => games'[p] # None
        /\ games'[r.pin] # None
    BY <1>0, <1>5, <2>1, NoneIsNothing DEF SetGame, Stores
  <2>4. Stores' /\ Gone
    BY <1>5, <2>2, <2>3 DEF Stores, Gone
  <2>5. Advance(t, i, Staged(r, "stored", r.row))
    BY <1>5, SameRow
  <2>6. QED
    BY <1>0, <1>5, <2>3, <2>4, <2>5, StageShape
<1>6. ASSUME r.stage = "stored", SetLobby(t, r), Finish(t, i, "ok"),
             UNCHANGED <<db, ratings, found, games, done, risks>>
      PROVE  \E s : HandledAs(t, i, r, s)
  <2>1. lobby' \in [Users -> Pins \cup {None}] /\ latest' \in [Users -> [Items -> Pins \cup {None}]]
    BY <1>0, <1>6 DEF SetLobby, Stores
  <2>2. Stores' /\ Gone
    BY <1>6, <2>1 DEF Stores, Gone
  <2>3. QED
    BY <1>0, <1>6, <2>2, EndShape, "ok" \in Answers DEF Answers
<1>7. CASE Finish(t, i, IF User(t) \notin signed THEN "401" ELSE "404") /\ UNCHANGED <<server, done, risks>>
  <2>1. \E a \in Answers \ {"ok"} : Finish(t, i, a)
    BY <1>7 DEF Answers
  <2>2. QED
    BY <1>1, <1>7, <2>1
<1>8. QED
  BY <1>2, <1>3, <1>4, <1>5, <1>6, <1>7, ZenonT(60) DEF StartQuiz, MayStart, FreePins, Keep

\* One rating less, if there is one.
LEMMA WithoutShape ==
    ASSUME NEW list \in Seq(BOOLEAN), NEW likes \in BOOLEAN
    PROVE  Without(list, likes) \in Seq(BOOLEAN)
<1>1. CASE \E i \in DOMAIN list : list[i] = likes
  <2>1. PICK i : i = CHOOSE j \in DOMAIN list : list[j] = likes
    OBVIOUS
  <2>2. i \in DOMAIN list
    BY <1>1, <2>1
  <2>3. Without(list, likes) = RemoveAt(list, i)
    BY <1>1, <2>1 DEF Without
  <2>4. QED
    BY <2>2, <2>3, RemovedAt
<1>2. CASE ~\E i \in DOMAIN list : list[i] = likes
  BY <1>2, SMTT(60) DEF Without
<1>3. QED
  BY <1>1, <1>2

\* Rate keeps to the rows of its user, and writes no row that is gone.
LEMMA RateShape ==
    ASSUME Stores, NEW t \in Tabs, NEW i \in DOMAIN work[t], NEW r \in Requests, r = work[t][i],
           r.stage # "done", r.kind = "rate", Rate(t, i, r), UNCHANGED done, User(t) \in Users
    PROVE  \E s : HandledAs(t, i, r, s)
<1>0. r.item \in Items /\ (r.stage \in Writing => r.row \in Rows) /\ r.likes \in BOOLEAN
  BY SameRow
<1>1. ASSUME UNCHANGED <<server, risks>>, NEW a \in Answers \ {"ok"}, Finish(t, i, a)
      PROVE  \E s : HandledAs(t, i, r, s)
  <2>1. Stores' /\ Gone
    BY <1>1 DEF server, Stores, Gone
  <2>2. QED
    BY <1>1, <2>1, EndShape
<1>2. ASSUME UNCHANGED server, NEW row \in Rows, NEW st \in Writing \ {"counted"},
             risks' \subseteq {"overlap", "race", "stray", "twice"},
             Advance(t, i, [r EXCEPT !.stage = st, !.row = row])
      PROVE  \E s : HandledAs(t, i, r, s)
  <2>1. Stores' /\ Gone
    BY <1>2 DEF server, Stores, Gone
  <2>2. Advance(t, i, Staged(r, st, row))
    BY <1>2 DEF Staged
  <2>3. QED
    BY <1>2, <2>1, <2>2, StageShape
<1>3. ASSUME r.stage = "sent", UNCHANGED server, db[r.item] # None, Hold(r.item),
             Advance(t, i, [r EXCEPT !.stage = "rated", !.row = Row(r.item)])
      PROVE  \E s : HandledAs(t, i, r, s)
  <2>1. Row(r.item) \in Rows
    BY <1>0, <1>3 DEF Row, Stores
  <2>2. QED
    BY <1>2, <1>3, <2>1, HoldShape DEF Writing
<1>4. ASSUME r.stage = "rated", NEW st \in {"new", "old"}, UNCHANGED <<server, risks>>,
             Advance(t, i, [r EXCEPT !.stage = st])
      PROVE  \E s : HandledAs(t, i, r, s)
  <2>1. r.row \in Rows
    BY <1>0, <1>4 DEF Writing
  <2>2. Stores' /\ Gone
    BY <1>4 DEF server, Stores, Gone
  <2>3. Advance(t, i, Staged(r, st, r.row))
    BY <1>4, SameRow
  <2>4. QED
    BY <1>4, <2>1, <2>2, <2>3, StageShape DEF Writing
<1>5. ASSUME NEW list \in Seq(BOOLEAN), ratings' = [ratings EXCEPT ![User(t)][r.item] = list],
             UNCHANGED <<db, found, games, lobby, latest, risks>>
      PROVE  Stores' /\ Gone
  <2>1. ratings' \in [Users -> [Items -> Seq(BOOLEAN)]]
    BY <1>0, <1>5 DEF Stores
  <2>2. QED
    BY <1>5, <2>1 DEF Stores, Gone
<1>6. ASSUME r.stage = "old",
             ratings' = [ratings EXCEPT ![User(t)][r.item] = Without(@, ~r.likes)],
             Advance(t, i, [r EXCEPT !.stage = "new", !.row = Withdraw(@, r.likes)]),
             UNCHANGED <<db, found, games, lobby, latest, risks>>
      PROVE  \E s : HandledAs(t, i, r, s)
  <2>1. PICK list : list = Without(ratings[User(t)][r.item], ~r.likes)
    OBVIOUS
  <2>2. list \in Seq(BOOLEAN)
    <3>1. PICK old \in Seq(BOOLEAN) : old = ratings[User(t)][r.item]
      BY <1>0 DEF Stores
    <3>2. PICK b \in BOOLEAN : b = ~r.likes
      BY <1>0
    <3>3. QED
      BY <2>1, <3>1, <3>2, WithoutShape
  <2>3. ratings' = [ratings EXCEPT ![User(t)][r.item] = list]
    BY <1>0, <1>6, <2>1 DEF Stores
  <2>4. PICK row : row = Withdraw(r.row, r.likes)
    OBVIOUS
  <2>5. row \in Rows
    BY <1>0, <1>6, <2>4, RowShape DEF Writing
  <2>6. Advance(t, i, Staged(r, "new", row))
    BY <1>6, <2>4 DEF Staged
  <2>7. QED
    BY <1>5, <1>6, <2>2, <2>3, <2>5, <2>6, StageShape DEF Writing
<1>7. ASSUME r.stage = "new",
             ratings' = [ratings EXCEPT ![User(t)][r.item] = Append(ratings[User(t)][r.item], r.likes)],
             Advance(t, i, [r EXCEPT !.stage = "kept", !.row = Cast(@, r.likes)]),
             UNCHANGED <<db, found, games, lobby, latest, risks>>
      PROVE  \E s : HandledAs(t, i, r, s)
  <2>1. PICK list : list = Append(ratings[User(t)][r.item], r.likes)
    OBVIOUS
  <2>2. list \in Seq(BOOLEAN)
    BY <1>0, <2>1 DEF Stores
  <2>3. PICK row : row = Cast(r.row, r.likes)
    OBVIOUS
  <2>4. row \in Rows
    BY <1>0, <1>7, <2>3, RowShape DEF Writing
  <2>5. Advance(t, i, Staged(r, "kept", row))
    BY <1>7, <2>3 DEF Staged
  <2>6. QED
    BY <1>5, <1>7, <2>1, <2>2, <2>4, <2>5, StageShape, ZenonT(60) DEF Writing
<1>8. ASSUME Finish(t, i, "failed"), UNCHANGED <<server, risks>>
      PROVE  \E s : HandledAs(t, i, r, s)
  BY <1>1, <1>8, "failed" \in Answers \ {"ok"} DEF Answers
<1>9. ASSUME r.stage = "kept", Update(r.item, r.row), Finish(t, i, "ok"),
             UNCHANGED <<ratings, found, games, lobby, latest, risks>>
      PROVE  \E s : HandledAs(t, i, r, s)
  <2>1. r.row \in Rows
    BY <1>0, <1>9 DEF Writing
  <2>2. Stores' /\ Gone
    BY <1>0, <1>9, <2>1, WriteShape DEF Stores
  <2>3. QED
    BY <1>9, <2>2, EndShape, "ok" \in Answers DEF Answers
<1>10. /\ Rated(t, r) \in {"failed", "new", "409", "old"}
       /\ {"401", "404", "409", "failed"} \subseteq Answers \ {"ok"}
  BY DEF Rated, Answers
<1>11. CASE r.stage = "sent"
  BY <1>1, <1>3, <1>10, <1>11 DEF Rate
<1>12. CASE r.stage = "rated"
  BY <1>1, <1>4, <1>10, <1>12 DEF Rate
<1>13. CASE r.stage = "old"
  BY <1>6, <1>13, SMTT(60) DEF Rate
<1>14. CASE r.stage = "new"
  BY <1>7, <1>8, <1>14 DEF Rate, server
<1>15. CASE r.stage = "kept"
  BY <1>9, <1>15 DEF Rate
<1>16. QED
  BY <1>11, <1>12, <1>13, <1>14, <1>15, ZenonT(60) DEF Rate

\* The handler of r takes its next step.
Handles(t, i, r) ==
    \/ r.kind = "list" /\ List(t, i, r)
    \/ r.kind = "delete" /\ (DeleteQuiz(t, i, r) \/ DeleteQuiztivity(t, i, r)) /\ UNCHANGED <<done, risks>>
    \/ r.kind = "start" /\ StartQuiz(t, i, r)
    \/ r.kind = "view" /\ View(t, i, r)
    \/ r.kind = "save" /\ Save(t, i, r)
    \/ r.kind = "rate" /\ Rate(t, i, r) /\ UNCHANGED done

\* Whatever the server does for a request of t.
LEMMA HandleShape ==
    ASSUME Stores, NEW t \in Tabs, User(t) \in Users, Typed, Handle(t)
    PROVE  \E i \in DOMAIN work[t] : \E s :
              work[t][i].stage # "done" /\ HandledAs(t, i, work[t][i], s) /\ Handles(t, i, work[t][i])
<1>1. PICK i, r : i \in DOMAIN work[t] /\ r = work[t][i] /\ r.stage # "done" /\ Handles(t, i, r)
  BY Zenon DEF Handle, Handles
<1>2. r \in Requests
  BY <1>1 DEF Typed
<1>3. r.kind = "list" => r.stage = "sent"
  BY <1>1, <1>2 DEF Requests, Writing
<1>4. \E s : HandledAs(t, i, r, s)
  <2>1. CASE r.kind = "list" /\ List(t, i, r)
    BY <1>1, <1>2, <1>3, <2>1, ListShape
  <2>2. CASE r.kind = "delete" /\ (DeleteQuiz(t, i, r) \/ DeleteQuiztivity(t, i, r)) /\ UNCHANGED <<done, risks>>
    BY <1>1, <1>2, <2>2, DeleteShape
  <2>3. CASE r.kind = "start" /\ StartQuiz(t, i, r)
    BY <1>1, <1>2, <2>3, StartShape
  <2>4. CASE (r.kind = "view" /\ View(t, i, r)) \/ (r.kind = "save" /\ Save(t, i, r))
    BY <1>1, <1>2, <2>4, ViewShape
  <2>5. CASE r.kind = "rate" /\ Rate(t, i, r) /\ UNCHANGED done
    BY <1>1, <1>2, <2>5, RateShape
  <2>6. QED
    BY <1>1, <2>1, <2>2, <2>3, <2>4, <2>5 DEF Handles
<1>5. QED
  BY <1>1, <1>4

\* The request is one of the page p that is open in its tab.
Current(p, r) == r.visit = p.visit

\* An answer the page waits for: there is one at a time, but the legacy
\* dashboard may send several deletions.
Fetching(t, p, r) == Current(p, r) /\ (r.kind \in {"list", "view"} \/ (r.kind = "delete" /\ Web(t)))

\* Which requests a page may have in flight.
Sent(t, p, r) ==
    /\ r.visit <= p.visit
    /\ r.kind \in {"list", "delete"} => Web(t) \/ Legacy(t)
    /\ r.kind = "view" => scene.ui[t] \in {"view", "practice"}
    /\ Current(p, r) =>
          /\ r.kind = "list" => p.stage = "loading" \/ p.removing
          /\ r.kind = "delete" /\ Web(t) => p.removing
          /\ r.kind = "view" => p.stage = "loading" /\ p.item \in Items
          /\ r.kind = "rate" => p.stage = "view"
          /\ p.hosts # None => r.kind = "save"

\* What is open in which tab.
OpenIn(t, p) ==
    /\ p.removing => Web(t)
    /\ p.stage = "list" => Web(t) \/ Legacy(t)
    /\ p.stage = "view" => ~Web(t) /\ ~Legacy(t)

\* The types that the handlers of the quizzes and the pages rely on.
TypesHold ==
    /\ db \in [Items -> Rows \cup {None}] /\ found \subseteq Items /\ signed \subseteq Users
    /\ ratings \in [Users -> [Items -> Seq(BOOLEAN)]]
    /\ latest \in [Users -> [Items -> Pins \cup {None}]] /\ lobby \in [Users -> Pins \cup {None}]
    /\ games \in [Pins -> Games \cup {None}]
    /\ page \in [Tabs -> PageStates] /\ work \in [Tabs -> Seq(Requests)]
    /\ done \in [Items -> [views : Nat, plays : Nat, text : Nat]]
    /\ risks \subseteq {"overlap", "race", "stray", "twice"} /\ count \in [Bounds -> Nat]

BaseInv ==
    /\ scene \in Scenes /\ TypesHold
    /\ \A t \in Tabs :
          /\ OpenIn(t, page[t]) /\ (page[t].hosts # None => games[page[t].hosts.pin] # None)
          /\ \A i \in DOMAIN work[t] : Sent(t, page[t], work[t][i]) /\ Playable(work[t][i])
          /\ \A i, j \in DOMAIN work[t] :
                Fetching(t, page[t], work[t][i]) /\ Fetching(t, page[t], work[t][j]) => i = j

\* A deletion that was told is in the database, and a list on its way to the
\* page p that knows of it does not show what was deleted.
Forgets(p, r) ==
    /\ r.kind = "delete" /\ r.answer = "ok" => db[r.item] = None
    /\ r.kind = "list" /\ Current(p, r) => \A x \in p.deleted : r.list[x] = None

Listing(t) == \E i \in DOMAIN work[t] : work[t][i].kind = "list" /\ Current(page[t], work[t][i])

DeletedInv ==
    /\ BaseInv /\ DeletedStaysGone
    /\ \A t \in Tabs :
          /\ \A i \in DOMAIN work[t] : Forgets(page[t], work[t][i])
          /\ page[t].stage = "list" /\ ~Listing(t) => \A x \in page[t].deleted : page[t].items[x] = None

\* A request that is not touched while its page p becomes q.
Stays(t, p, q, r) ==
    /\ Sent(t, q, r) /\ (Fetching(t, q, r) => Fetching(t, p, r))
    /\ r.kind = "list" /\ Current(q, r) => Current(p, r) /\ q.deleted = p.deleted

\* A request that is sent by q, or goes on.
Comes(t, q, s) ==
    /\ Sent(t, q, s)
    /\ s.stage = "stored" \/ (s.kind = "start" /\ s.answer = "ok") => games'[s.pin] # None
    /\ s.kind = "delete" /\ s.answer = "ok" => db'[s.item] = None
    /\ s.kind = "list" /\ Current(q, s) => \A x \in q.deleted : s.list[x] = None

\* What is not of one tab stays what it was, or at least of its type.
Elsewhere ==
    /\ UNCHANGED scene /\ signed' \subseteq Users /\ count' \in [Bounds -> Nat] /\ Stores'

\* The page p of t becomes q, and its requests change.
PageStep(t, gone, n, s, p, q) ==
    /\ Traffic(t, gone, n, s) /\ p = page[t] /\ q \in PageStates /\ page' = [page EXCEPT ![t] = q]
    /\ OpenIn(t, q) /\ Elsewhere /\ Gone
    /\ \A j \in DOMAIN work[t] \ gone : Stays(t, p, q, work[t][j])
    /\ n \in DOMAIN work'[t] =>
          /\ Comes(t, q, s)
          /\ Fetching(t, q, s) => \A j \in DOMAIN work[t] \ gone : ~Fetching(t, q, work[t][j])
    /\ \A x \in q.deleted : db'[x] = None
    /\ q.hosts # None => games'[q.hosts.pin] # None
    /\ q.stage = "list" /\ ~Listing(t)' => \A x \in q.deleted : q.items[x] = None

\* A step that is a PageStep of one tab keeps what pages and requests are.
LEMMA BaseFrame ==
    ASSUME BaseInv, NEW t \in Tabs, NEW gone, NEW n, NEW s, NEW p, NEW q, PageStep(t, gone, n, s, p, q)
    PROVE  BaseInv'
<1>0. PICK m : Moved(t, gone, n, s, m)
  BY DEF Traffic, PageStep
<1>1. /\ p = page[t] /\ q \in PageStates /\ page' = [page EXCEPT ![t] = q] /\ OpenIn(t, q) /\ Elsewhere
      /\ \A j \in DOMAIN work[t] \ gone :
              /\ Sent(t, q, work[t][j])
              /\ Fetching(t, q, work[t][j]) => Fetching(t, p, work[t][j])
      /\ n \in DOMAIN work'[t] =>
              /\ Sent(t, q, s)
              /\ s.stage = "stored" \/ (s.kind = "start" /\ s.answer = "ok") => games'[s.pin] # None
              /\ Fetching(t, q, s) => \A j \in DOMAIN work[t] \ gone : ~Fetching(t, q, work[t][j])
      /\ Gone /\ (q.hosts # None => games'[q.hosts.pin] # None)
  BY DEF PageStep, Stays, Comes
<1>2. page' \in [Tabs -> PageStates] /\ page'[t] = q /\ \A u \in Tabs \ {t} : page'[u] = page[u]
  BY <1>1 DEF BaseInv, TypesHold
<1>3. TypesHold' /\ (scene \in Scenes)'
  BY <1>0, <1>1, <1>2 DEF Moved, TypesHold, Elsewhere, Stores, BaseInv
<1>4. scene' = scene
  BY <1>1 DEF Elsewhere
<1>a. ASSUME NEW r \in Requests, Playable(r)
      PROVE  r.stage = "stored" \/ (r.kind = "start" /\ r.answer = "ok") => games'[r.pin] # None
  BY <1>1, <1>a DEF Playable, Gone, Requests, Writing
<1>5. ASSUME NEW u \in Tabs
      PROVE  /\ OpenIn(u, page[u])' /\ (page'[u].hosts # None => games'[page'[u].hosts.pin] # None)
             /\ \A i \in DOMAIN work'[u] : (Sent(u, page[u], work[u][i]) /\ Playable(work[u][i]))'
             /\ \A i, j \in DOMAIN work'[u] :
                   (Fetching(u, page[u], work[u][i]) /\ Fetching(u, page[u], work[u][j]))' => i = j
  <2>1. CASE u # t
    <3>1. page'[u] = page[u] /\ work'[u] = work[u]
      BY <1>0, <1>1, <1>2, <2>1 DEF Moved
    <3>2. OpenIn(u, page[u])' /\ (page'[u].hosts # None => games'[page'[u].hosts.pin] # None)
      <4>1. page[u].hosts # None => page[u].hosts.pin \in Pins /\ games[page[u].hosts.pin] # None
        BY DEF BaseInv, TypesHold, PageStates, Hosts
      <4>2. page[u].hosts # None => games'[page[u].hosts.pin] # None
        BY <1>1, <4>1 DEF Gone
      <4>3. QED
        BY <1>4, <3>1, <4>2 DEF BaseInv, OpenIn, Web, Legacy
    <3>3. ASSUME NEW i \in DOMAIN work'[u] PROVE (Sent(u, page[u], work[u][i]) /\ Playable(work[u][i]))'
      <4>1. work[u][i] \in Requests /\ Sent(u, page[u], work[u][i]) /\ Playable(work[u][i])
        BY <3>1, <3>3 DEF BaseInv, TypesHold
      <4>2. Playable(work[u][i])'
        BY <1>a, <3>1, <4>1 DEF Playable
      <4>3. QED
        BY <1>4, <3>1, <4>1, <4>2 DEF Sent, Current, Web, Legacy
    <3>4. ASSUME NEW i \in DOMAIN work'[u], NEW j \in DOMAIN work'[u],
                 (Fetching(u, page[u], work[u][i]) /\ Fetching(u, page[u], work[u][j]))'
          PROVE  i = j
      <4>1. Fetching(u, page[u], work[u][i]) /\ Fetching(u, page[u], work[u][j])
        BY <1>4, <3>1, <3>4 DEF Fetching, Current, Web
      <4>2. QED
        BY <3>1, <3>4, <4>1 DEF BaseInv
    <3>5. QED
      BY <3>2, <3>3, <3>4
  <2>2. CASE u = t
    <3>1. OpenIn(u, page[u])' /\ (page'[u].hosts # None => games'[page'[u].hosts.pin] # None)
      BY <1>1, <1>2, <1>4, <2>2 DEF OpenIn, Web, Legacy
    <3>2. ASSUME NEW i \in DOMAIN work'[t] PROVE (Sent(u, page[u], work[u][i]) /\ Playable(work[u][i]))'
      <4>1. PICK r : r = work'[t][i] /\ Sent(t, q, r)
        BY <1>0, <1>1, <3>2 DEF Moved
      <4>2. r.stage = "stored" \/ (r.kind = "start" /\ r.answer = "ok") => games'[r.pin] # None
        <5>1. CASE i = n
          BY <1>0, <1>1, <3>2, <4>1, <5>1 DEF Moved
        <5>2. CASE i # n
          <6>1. PICK j \in DOMAIN work[t] : r = work[t][j]
            BY <1>0, <3>2, <4>1, <5>2 DEF Moved
          <6>2. r \in Requests /\ Playable(r)
            BY <6>1 DEF BaseInv, TypesHold
          <6>3. QED
            BY <1>a, <6>2
        <5>3. QED
          BY <5>1, <5>2
      <4>3. QED
        BY <1>2, <1>4, <2>2, <4>1, <4>2 DEF Sent, Current, Web, Legacy, Playable
    <3>3. ASSUME NEW i \in DOMAIN work'[t], NEW j \in DOMAIN work'[t],
                 (Fetching(u, page[u], work[u][i]) /\ Fetching(u, page[u], work[u][j]))'
          PROVE  i = j
      <4>1. Fetching(t, q, work'[t][i]) /\ Fetching(t, q, work'[t][j])
        BY <1>2, <1>4, <2>2, <3>3 DEF Fetching, Current, Web, Legacy
      <4>2. CASE i = n \/ j = n
        BY <1>0, <1>1, <4>1, <4>2 DEF Moved
      <4>3. CASE i # n /\ j # n
        BY <1>0, <1>1, <4>1, <4>3 DEF Moved, BaseInv
      <4>4. QED
        BY <4>2, <4>3
    <3>4. QED
      BY <2>2, <3>1, <3>2, <3>3
  <2>3. QED
    BY <2>1, <2>2
<1>6. QED
  BY <1>3, <1>5 DEF BaseInv

\* A step that is a PageStep of one tab keeps the whole invariant.
LEMMA DeletedFrame ==
    ASSUME DeletedInv, NEW t \in Tabs, NEW gone, NEW n, NEW s, NEW p, NEW q, PageStep(t, gone, n, s, p, q)
    PROVE  DeletedInv'
<1>0. PICK m : Moved(t, gone, n, s, m)
  BY DEF Traffic, PageStep
<1>1. BaseInv'
  BY BaseFrame DEF DeletedInv
<1>2. page' \in [Tabs -> PageStates] /\ page'[t] = q /\ \A u \in Tabs \ {t} : page'[u] = page[u]
  BY DEF PageStep, DeletedInv, BaseInv, TypesHold
<1>3. \A u \in Tabs : page[u].deleted \subseteq Items
  BY DEF DeletedInv, BaseInv, TypesHold, PageStates
<1>4. DeletedStaysGone'
  <2>1. ASSUME NEW u \in Tabs, NEW x \in page'[u].deleted PROVE db'[x] = None
    BY <1>2, <1>3, <2>1 DEF PageStep, Gone, DeletedInv, DeletedStaysGone
  <2>2. QED
    BY <2>1 DEF DeletedStaysGone
<1>5. ASSUME NEW r \in Requests, r.kind = "delete" /\ r.answer = "ok" => db[r.item] = None
      PROVE  r.kind = "delete" /\ r.answer = "ok" => db'[r.item] = None
  BY <1>5, SameRow DEF PageStep, Gone
<1>6. work \in [Tabs -> Seq(Requests)]
  BY DEF DeletedInv, BaseInv, TypesHold
<1>7. ASSUME NEW u \in Tabs, u # t
      PROVE  /\ \A i \in DOMAIN work'[u] : Forgets(page[u], work[u][i])'
             /\ (page[u].stage = "list" /\ ~Listing(u) => \A x \in page[u].deleted : page[u].items[x] = None)'
  <2>1. page'[u] = page[u] /\ work'[u] = work[u]
    BY <1>0, <1>2, <1>7 DEF Moved
  <2>2. ASSUME NEW i \in DOMAIN work'[u] PROVE Forgets(page[u], work[u][i])'
    <3>1. work[u][i] \in Requests /\ Forgets(page[u], work[u][i])
      BY <1>6, <2>1, <2>2 DEF DeletedInv
    <3>2. QED
      BY <1>5, <2>1, <3>1 DEF Forgets, Current
  <2>3. Listing(u)' <=> Listing(u)
    BY <2>1 DEF Listing, Current
  <2>4. QED
    BY <2>1, <2>2, <2>3 DEF DeletedInv
<1>8. \A i \in DOMAIN work'[t] : Forgets(page[t], work[t][i])'
  <2>1. ASSUME NEW i \in DOMAIN work'[t] PROVE Forgets(page[t], work[t][i])'
    <3>1. CASE i = n
      BY <1>0, <1>2, <2>1, <3>1 DEF Moved, PageStep, Comes, Forgets, Current
    <3>2. CASE i # n
      <4>1. PICK j \in DOMAIN work[t] \ gone : work'[t][i] = work[t][j]
        BY <1>0, <2>1, <3>2 DEF Moved
      <4>2. PICK r \in Requests : r = work[t][j]
        BY <1>6, <4>1
      <4>3. Forgets(p, r) /\ Stays(t, p, q, r)
        BY <4>1, <4>2 DEF PageStep, DeletedInv
      <4>4. r.kind = "delete" /\ r.answer = "ok" => db'[r.item] = None
        BY <1>5, <4>3 DEF Forgets
      <4>5. QED
        BY <1>2, <4>1, <4>2, <4>3, <4>4 DEF Forgets, Stays, Current
    <3>3. QED
      BY <3>1, <3>2
  <2>2. QED
    BY <2>1
<1>9. (page[t].stage = "list" /\ ~Listing(t) => \A x \in page[t].deleted : page[t].items[x] = None)'
  BY <1>2 DEF PageStep
<1>10. QED
  BY <1>1, <1>4, <1>7, <1>8, <1>9 DEF DeletedInv

(***************************************************************************)
(* How pages change                                                        *)
(***************************************************************************)

\* The page p of t stays, with other dialogs, or what the reader rated.
SamePage(p, q) ==
    /\ q \in PageStates /\ q.visit = p.visit /\ q.stage = p.stage /\ q.items = p.items
    /\ q.deleted = p.deleted /\ q.hosts = p.hosts /\ (p.removing => q.removing)
    /\ p.stage = "loading" => q.item = p.item

\* The page p is left for another one.
NewPage(p, q) ==
    /\ q \in PageStates /\ q.visit = p.visit + 1 /\ ~q.removing /\ q.stage \notin {"list", "view"}

\* What a page has in flight stays its own while it shows other dialogs.
LEMMA SamePageStays ==
    ASSUME NEW t \in Tabs, NEW p, NEW q, NEW r, SamePage(p, q), Sent(t, p, r)
    PROVE  Stays(t, p, q, r) /\ (Fetching(t, q, r) <=> Fetching(t, p, r))
BY DEF SamePage, Sent, Stays, Fetching, Current

\* What a page has in flight is nobody's when the next page opens in its tab.
LEMMA NewPageStays ==
    ASSUME NEW t \in Tabs, NEW p \in PageStates, NEW q, NEW r \in Requests, NewPage(p, q), Sent(t, p, r)
    PROVE  Stays(t, p, q, r) /\ ~Current(q, r) /\ ~Fetching(t, q, r)
<1>1. p.visit \in Nat /\ r.visit \in Nat
  BY DEF PageStates, Requests
<1>2. PICK a \in Nat, b \in Nat : a = p.visit /\ b = r.visit
  BY <1>1
<1>3. b <= a /\ b # a + 1 /\ b <= a + 1
  BY <1>2 DEF Sent
<1>4. ~Current(q, r) /\ r.visit <= q.visit
  BY <1>2, <1>3 DEF Current, NewPage
<1>5. QED
  BY <1>4 DEF Sent, Stays, Fetching

\* A step without requests is traffic in which nothing goes and nothing comes.
LEMMA NoTraffic ==
    ASSUME Typed, NEW t \in Tabs, work' = work
    PROVE  Traffic(t, {}, 0, None) /\ 0 \notin DOMAIN work'[t]
<1>1. PICK w \in Seq(Requests) : w = work[t]
  BY DEF Typed
<1>2. DOMAIN w = 1 .. Len(w) /\ 0 \notin DOMAIN w
  OBVIOUS
<1>3. Moved(t, {}, 0, None, [k \in DOMAIN w |-> k])
  BY <1>1, <1>2 DEF Moved, Typed
<1>4. QED
  BY <1>1, <1>2, <1>3 DEF Traffic

\* What the types say of a tab.
LEMMA TypesSay ==
    ASSUME BaseInv, NEW t \in Tabs
    PROVE  /\ Typed /\ Stores /\ User(t) \in Users /\ page[t] \in PageStates
           /\ page = [page EXCEPT ![t] = page[t]]
           /\ \A i \in DOMAIN work[t] : work[t][i] \in Requests /\ Sent(t, page[t], work[t][i])
                                          /\ Playable(work[t][i])
           /\ OpenIn(t, page[t]) /\ signed \subseteq Users /\ count \in [Bounds -> Nat]
           /\ page[t].deleted \subseteq Items
           /\ page[t].hosts # None => page[t].hosts.pin \in Pins /\ games[page[t].hosts.pin] # None
<1>1. scene.user \in [Tabs -> Users]
  BY CatalogueAssumption DEF BaseInv
<1>2. QED
  BY <1>1, SMTT(60) DEF BaseInv, TypesHold, Typed, Stores, User, PageStates, Hosts

\* A request goes on, and its page stays.
LEMMA RequestStep ==
    ASSUME DeletedInv, NEW t \in Tabs, NEW i \in DOMAIN work[t], NEW r \in Requests, r = work[t][i],
           NEW s, HandledAs(t, i, r, s), UNCHANGED <<scene, signed, page>>, count' \in [Bounds -> Nat]
    PROVE  DeletedInv' /\ PageStep(t, {i}, i, s, page[t], page[t])
<1>0. BaseInv /\ Typed /\ page[t] \in PageStates /\ page = [page EXCEPT ![t] = page[t]] /\ OpenIn(t, page[t])
      /\ signed \subseteq Users /\ Sent(t, page[t], r) /\ Playable(r) /\ (page[t].hosts # None => page[t].hosts.pin \in Pins /\ games[page[t].hosts.pin] # None)
      /\ \A j \in DOMAIN work[t] : work[t][j] \in Requests /\ Sent(t, page[t], work[t][j])
  BY TypesSay DEF DeletedInv
<1>1. PICK p : p = page[t]
  OBVIOUS
<1>2. s \in Requests /\ Same(r, s) /\ Elsewhere /\ Gone /\ work' = [work EXCEPT ![t][i] = s]
  BY <1>0 DEF HandledAs, Elsewhere, Gone, Advance
<1>3. /\ Traffic(t, {i}, i, s) /\ i \in DOMAIN work'[t] /\ work'[t][i] = s
      /\ DOMAIN work'[t] = DOMAIN work[t]
      /\ \A j \in DOMAIN work[t] \ {i} : work'[t][j] = work[t][j]
  BY <1>0, <1>2, GoesOn, ZenonT(60)
<1>4. Sent(t, p, s) /\ (Fetching(t, p, s) <=> Fetching(t, p, r))
  BY <1>0, <1>1, <1>2 DEF Same, Sent, Fetching, Current
<1>5. Fetching(t, p, s) => \A j \in DOMAIN work[t] \ {i} : ~Fetching(t, p, work[t][j])
  BY <1>1, <1>4 DEF DeletedInv, BaseInv
<1>6. \A x \in p.deleted : x \in Items /\ db[x] = None /\ db'[x] = None
  BY <1>0, <1>1, <1>2 DEF DeletedInv, DeletedStaysGone, Gone, PageStates
<1>7. Comes(t, p, s)
  <2>1. Forgets(p, r)
    BY <1>1 DEF DeletedInv
  <2>2. s.kind = "delete" /\ s.answer = "ok" => db'[s.item] = None
    BY DEF HandledAs
  <2>3. ASSUME s.kind = "list", Current(p, s), NEW x \in p.deleted PROVE s.list[x] = None
    <3>1. r.kind = "list" /\ Current(p, r)
      BY <1>2, <2>3 DEF Same, Current
    <3>2. r.list[x] = None /\ db[x] = None /\ x \in Items
      BY <1>6, <2>1, <2>3, <3>1 DEF Forgets
    <3>3. QED
      BY <2>3, <3>2 DEF HandledAs
  <2>4. s.stage = "stored" \/ (s.kind = "start" /\ s.answer = "ok") => games'[s.pin] # None
    BY <1>0 DEF HandledAs
  <2>5. QED
    BY <1>4, <2>2, <2>3, <2>4 DEF Comes
<1>8. \A j \in DOMAIN work[t] \ {i} : Stays(t, p, p, work[t][j])
  BY <1>0, <1>1 DEF Stays
<1>9. p.stage = "list" /\ ~Listing(t)' => \A x \in p.deleted : p.items[x] = None
  <2>1. Listing(t) => Listing(t)'
    <3>1. ASSUME NEW j \in DOMAIN work[t], work[t][j].kind = "list", Current(p, work[t][j]) PROVE Listing(t)'
      <4>1. work'[t][j].kind = "list" /\ Current(p, work'[t][j])
        BY <1>2, <1>3, <3>1 DEF Same, Current
      <4>2. QED
        BY <1>1, <1>3, <3>1, <4>1 DEF Listing, Current
    <3>2. QED
      BY <1>1, <3>1 DEF Listing
  <2>2. QED
    BY <1>1, <2>1 DEF DeletedInv
<1>10. PageStep(t, {i}, i, s, p, p)
  <2>1. p.hosts # None => games'[p.hosts.pin] # None
    BY <1>0, <1>1, <1>2 DEF Gone
  <2>2. QED
    BY <2>1, <1>0, <1>1, <1>2, <1>3, <1>5, <1>6, <1>7, <1>8, <1>9 DEF PageStep
<1>11. QED
  BY <1>1, <1>10, DeletedFrame

\* Handle keeps the invariant.
LEMMA HandleStep ==
    ASSUME DeletedInv, NEW t \in Tabs, Handle(t)
    PROVE  DeletedInv'
<1>1. Stores /\ User(t) \in Users /\ Typed
  BY TypesSay DEF DeletedInv
<1>2. PICK i \in DOMAIN work[t] : \E s : HandledAs(t, i, work[t][i], s)
  BY <1>1, HandleShape
<1>3. PICK s : HandledAs(t, i, work[t][i], s)
  BY <1>2
<1>4. work[t][i] \in Requests /\ count \in [Bounds -> Nat]
  BY TypesSay DEF DeletedInv
<1>5. UNCHANGED <<scene, signed, page>> /\ count' = count
  BY DEF Handle
<1>6. QED
  BY <1>3, <1>4, <1>5, RequestStep

\* Bump counts.
LEMMA BumpShape ==
    ASSUME count \in [Bounds -> Nat], NEW b \in Bounds, Bump(b)
    PROVE  count' \in [Bounds -> Nat]
BY DEF Bump

\* Fails answers one request of the tab with a failure.
LEMMA FailsShape ==
    ASSUME DeletedInv, NEW t \in Tabs, Fails(t)
    PROVE  \E i \in DOMAIN work[t] : /\ HandledAs(t, i, work[t][i], Ended(work[t][i], "failed"))
                                     /\ work[t][i].stage \in {"sent", "done"}
<1>1. Stores /\ Typed
  BY TypesSay DEF DeletedInv
<1>2. PICK i \in DOMAIN work[t] :
          /\ work[t][i].stage \in {"sent", "done"} /\ Finish(t, i, "failed")
          /\ risks' = IF work[t][i].kind = "start" /\ work[t][i].answer = "ok"
                      THEN risks \cup {"stray"} ELSE risks
  BY DEF Fails
<1>3. PICK r \in Requests : r = work[t][i]
  BY <1>1 DEF Typed
<1>4. Stores' /\ Gone /\ db' = db
  BY <1>1, <1>2 DEF Fails, server, Stores, Gone
<1>5. PICK s : s = Ended(r, "failed")
  OBVIOUS
<1>6. s \in Requests /\ Same(r, s) /\ s.answer = "failed" /\ s.stage = "done" /\ s.list = r.list
  BY <1>5, IsEnded DEF Answers
<1>7. Advance(t, i, s)
  BY <1>2, <1>3, <1>5 DEF Finish, Ended
<1>8. HandledAs(t, i, r, s)
  BY <1>4, <1>6, <1>7 DEF HandledAs, Gone
<1>9. QED
  BY <1>2, <1>3, <1>5, <1>8

\* Fails keeps the invariant.
LEMMA FailsStep ==
    ASSUME DeletedInv, NEW t \in Tabs, Fails(t)
    PROVE  DeletedInv'
<1>1. PICK i \in DOMAIN work[t] : HandledAs(t, i, work[t][i], Ended(work[t][i], "failed"))
  BY FailsShape
<1>2. work[t][i] \in Requests /\ count \in [Bounds -> Nat]
  BY TypesSay DEF DeletedInv
<1>3. UNCHANGED <<scene, signed, page>> /\ count' \in [Bounds -> Nat]
  BY <1>2, BumpShape DEF Fails, Bounds
<1>4. QED
  BY <1>1, <1>2, <1>3, RequestStep

\* A step beside the pages and their requests.
LEMMA QuietStep ==
    ASSUME DeletedInv, UNCHANGED <<scene, page, work, db>>, Stores', Gone, signed' \subseteq Users,
           count' \in [Bounds -> Nat]
    PROVE  DeletedInv'
<1>1. TypesHold'
  BY DEF DeletedInv, BaseInv, TypesHold, Stores
<1>2. ASSUME NEW t \in Tabs
      PROVE  /\ page[t].hosts # None => games'[page[t].hosts.pin] # None
             /\ \A i \in DOMAIN work[t] : Playable(work[t][i])'
  <2>1. page[t].hosts # None => games'[page[t].hosts.pin] # None
    BY TypesSay DEF Gone, DeletedInv
  <2>2. ASSUME NEW i \in DOMAIN work[t], NEW r, r = work[t][i] PROVE Playable(r)'
    <3>1. r \in Requests /\ Playable(r)
      BY <2>2, TypesSay DEF DeletedInv
    <3>2. r.stage = "stored" \/ (r.kind = "start" /\ r.answer = "ok") => r.pin \in Pins
      BY <3>1 DEF Requests, Writing
    <3>3. QED
      BY <3>1, <3>2 DEF Playable, Gone
  <2>3. QED
    BY <2>1, <2>2
<1>3. BaseInv'
  <2>1. ASSUME NEW t \in Tabs
        PROVE  /\ OpenIn(t, page[t])'
               /\ \A i \in DOMAIN work[t] : Sent(t, page[t], work[t][i])'
               /\ \A i, j \in DOMAIN work[t] :
                     (Fetching(t, page[t], work[t][i]) /\ Fetching(t, page[t], work[t][j]))' => i = j
    BY DEF DeletedInv, BaseInv, OpenIn, Sent, Fetching, Current, Web, Legacy
  <2>2. QED
    BY <1>1, <1>2, <2>1 DEF DeletedInv, BaseInv
<1>4. QED
  BY <1>3 DEF DeletedInv, DeletedStaysGone, Forgets, Listing, Current

\* A step of a page that sends nothing.
LEMMA DialogStep ==
    ASSUME DeletedInv, NEW t \in Tabs, NEW q, SamePage(page[t], q), OpenIn(t, q),
           page' = [page EXCEPT ![t] = q], work' = work, Elsewhere, UNCHANGED <<db, games>>
    PROVE  DeletedInv'
<1>1. PICK p : p = page[t]
  OBVIOUS
<1>2. /\ BaseInv /\ Typed /\ OpenIn(t, p) /\ p \in PageStates
      /\ \A i \in DOMAIN work[t] : work[t][i] \in Requests /\ Sent(t, p, work[t][i])
      /\ \A x \in p.deleted : db[x] = None
      /\ p.hosts # None => games[p.hosts.pin] # None
  BY <1>1, TypesSay DEF DeletedInv, DeletedStaysGone
<1>3. Traffic(t, {}, 0, None) /\ 0 \notin DOMAIN work'[t]
  BY <1>2, NoTraffic
<1>4. \A j \in DOMAIN work[t] : Stays(t, p, q, work[t][j])
  BY <1>1, <1>2, SamePageStays
<1>5. q.stage = "list" /\ ~Listing(t)' => \A x \in q.deleted : q.items[x] = None
  <2>1. page'[t] = q
    BY DEF DeletedInv, BaseInv, TypesHold
  <2>2. Listing(t) => Listing(t)'
    BY <1>1, <2>1 DEF Listing, Current, SamePage
  <2>3. QED
    BY <1>1, <2>2 DEF SamePage, DeletedInv
<1>6. PageStep(t, {}, 0, None, p, q)
  BY <1>1, <1>2, <1>3, <1>4, <1>5 DEF PageStep, SamePage, Gone
<1>7. QED
  BY <1>1, <1>6, DeletedFrame

\* A page that stays sends a request.
LEMMA SendStep ==
    ASSUME DeletedInv, NEW t \in Tabs, NEW q, SamePage(page[t], q), OpenIn(t, q),
           page' = [page EXCEPT ![t] = q], NEW s \in Requests, s.stage = "sent", s.kind \notin {"list", "view"},
           Sent(t, q, s), Fetching(t, q, s) => \A j \in DOMAIN work[t] : ~Fetching(t, page[t], work[t][j]),
           work' = [work EXCEPT ![t] = Append(@, s)], Elsewhere, UNCHANGED <<db, games>>
    PROVE  DeletedInv' /\ PageStep(t, {}, Len(work[t]) + 1, s, page[t], q)
<1>1. PICK p : p = page[t]
  OBVIOUS
<1>2. /\ BaseInv /\ Typed /\ OpenIn(t, p) /\ p \in PageStates
      /\ \A i \in DOMAIN work[t] : work[t][i] \in Requests /\ Sent(t, p, work[t][i])
      /\ \A x \in p.deleted : db[x] = None
      /\ p.hosts # None => games[p.hosts.pin] # None
  BY <1>1, TypesSay DEF DeletedInv, DeletedStaysGone
<1>3. PICK n : n = Len(work[t]) + 1
  OBVIOUS
<1>4. Traffic(t, {}, n, s) /\ n \in DOMAIN work'[t] /\ work'[t][n] = s
  BY <1>2, <1>3, IsSent
<1>5. \A j \in DOMAIN work[t] : Stays(t, p, q, work[t][j]) /\ (Fetching(t, q, work[t][j]) <=> Fetching(t, p, work[t][j]))
  BY <1>1, <1>2, SamePageStays
<1>6. s.answer # "ok"
  BY NoneIsNothing DEF Requests, Answers
<1>7. Comes(t, q, s)
  BY <1>6 DEF Comes
<1>8. q.stage = "list" /\ ~Listing(t)' => \A x \in q.deleted : q.items[x] = None
  <2>1. page'[t] = q
    BY DEF DeletedInv, BaseInv, TypesHold
  <2>2. Listing(t) => Listing(t)'
    <3>1. ASSUME NEW i \in DOMAIN work[t], work[t][i].kind = "list", Current(p, work[t][i])
          PROVE  \E k \in DOMAIN work'[t] : work'[t][k] = work[t][i]
      <4>1. PICK m : Moved(t, {}, n, s, m)
        BY <1>4 DEF Traffic
      <4>2. PICK k \in DOMAIN work'[t] \ {n} : m[k] = i
        BY <4>1 DEF Moved
      <4>3. work'[t][k] = work[t][i]
        BY <4>1, <4>2, ZenonT(60) DEF Moved
      <4>4. QED
        BY <4>3
    <3>2. QED
      BY <1>1, <2>1, <3>1 DEF Listing, Current, SamePage
  <2>3. QED
    BY <1>1, <2>2 DEF SamePage, DeletedInv
<1>9. PageStep(t, {}, n, s, p, q)
  BY <1>1, <1>2, <1>4, <1>5, <1>7, <1>8 DEF PageStep, SamePage, Gone
<1>10. QED
  BY <1>1, <1>3, <1>9, DeletedFrame

\* A new page asks for what it shows.
LEMMA OpenStep ==
    ASSUME DeletedInv, NEW t \in Tabs, NEW q, NewPage(page[t], q), q.stage = "loading", q.hosts = None,
           \A x \in q.deleted : db[x] = None,
           page' = [page EXCEPT ![t] = q], NEW s \in Requests, s.stage = "sent", s.kind \in {"list", "view"},
           Sent(t, q, s), s.list = [x \in Items |-> None], NEW gone, NEW n, Traffic(t, gone, n, s),
           Elsewhere, UNCHANGED <<db, games>>
    PROVE  DeletedInv' /\ PageStep(t, gone, n, s, page[t], q)
<1>1. PICK p : p = page[t]
  OBVIOUS
<1>2. /\ BaseInv /\ p \in PageStates
      /\ \A i \in DOMAIN work[t] : work[t][i] \in Requests /\ Sent(t, p, work[t][i])
  BY <1>1, TypesSay DEF DeletedInv
<1>3. \A j \in DOMAIN work[t] : Stays(t, p, q, work[t][j]) /\ ~Fetching(t, q, work[t][j])
  BY <1>1, <1>2, NewPageStays
<1>4. q.deleted \subseteq Items /\ s.answer # "ok"
  BY NoneIsNothing DEF Requests, Answers, PageStates, NewPage
<1>5. Comes(t, q, s)
  BY <1>4 DEF Comes
<1>6. PageStep(t, gone, n, s, p, q)
  BY <1>1, <1>3, <1>4, <1>5 DEF PageStep, NewPage, OpenIn, Gone
<1>7. QED
  BY <1>1, <1>6, DeletedFrame

\* The requests that pages send.
AskedFor(s, kind, x, visit) ==
    /\ s \in Requests /\ s.kind = kind /\ s.item = x /\ s.visit = visit /\ s.stage = "sent"
    /\ s.list = [y \in Items |-> None]

\* What a page sends is a request it has just made.
LEMMA RequestShape ==
    ASSUME NEW t \in Tabs, NEW kind \in {"list", "delete", "start", "view", "rate", "save"},
           NEW x \in Items \cup {None}, kind # "list" => x \in Items, page[t].visit \in Nat
    PROVE  /\ AskedFor(Request(t, kind, x), kind, x, page[t].visit)
           /\ AskedFor([Request(t, kind, x) EXCEPT !.visit = @ + 1], kind, x, page[t].visit + 1)
           /\ \A id \in Nat : /\ AskedFor([Request(t, kind, x) EXCEPT !.id = id], kind, x, page[t].visit)
                              /\ [Request(t, kind, x) EXCEPT !.id = id].id = id
           /\ \A likes \in BOOLEAN : AskedFor([Request(t, kind, x) EXCEPT !.likes = likes], kind, x, page[t].visit)
<1>1. PICK list, left, visit, no, r :
         /\ list = [y \in Items |-> None] /\ left = {"quizzes", "quiztivities"} /\ visit = page[t].visit
         /\ no = FALSE /\ r = Request(t, kind, x)
  OBVIOUS
<1>2. r = [kind |-> kind, item |-> x, stage |-> "sent", answer |-> None, row |-> None, visit |-> visit,
           likes |-> no, pin |-> None, id |-> 0, left |-> left, list |-> list]
  BY <1>1 DEF Request
<1>3. list \in [Items -> Rows \cup {None}] /\ left \in SUBSET {"quizzes", "quiztivities"} /\ no \in BOOLEAN
      /\ visit \in Nat
  BY <1>1
<1>4. r \in [kind : {"list", "delete", "start", "view", "rate", "save"}, item : Items \cup {None},
            stage : {"sent", "unlinked", "asking", "pinned", "stored", "done"} \cup Writing,
            answer : Answers \cup {None}, row : Rows \cup {None},
            visit : Nat, likes : BOOLEAN, pin : Pins \cup {None}, id : Nat,
            left : SUBSET {"quizzes", "quiztivities"}, list : [Items -> Rows \cup {None}]]
  BY <1>2, <1>3
<1>5. /\ r.kind = kind /\ r.item = x /\ r.visit = visit /\ r.stage = "sent" /\ r.list = list
      /\ r.answer = None
  BY <1>2
<1>6. r \in Requests
  BY <1>4, <1>5, NoneIsNothing DEF Requests, Writing, Answers
<1>7. ASSUME NEW s, s = [r EXCEPT !.visit = @ + 1] PROVE AskedFor(s, kind, x, visit + 1)
  BY <1>1, <1>3, <1>5, <1>6, <1>7 DEF AskedFor, Requests, Writing
<1>8. ASSUME NEW id \in Nat, NEW s, s = [r EXCEPT !.id = id] PROVE AskedFor(s, kind, x, visit) /\ s.id = id
  BY <1>1, <1>5, <1>6, <1>8 DEF AskedFor, Requests, Writing
<1>9. ASSUME NEW likes \in BOOLEAN, NEW s, s = [r EXCEPT !.likes = likes] PROVE AskedFor(s, kind, x, visit)
  BY <1>1, <1>5, <1>6, <1>9 DEF AskedFor, Requests, Writing
<1>10. AskedFor(r, kind, x, visit)
  BY <1>1, <1>5, <1>6 DEF AskedFor
<1>11. QED
  BY <1>1, <1>7, <1>8, <1>9, <1>10

\* What a step of a page leaves.
LEMMA RestShape ==
    ASSUME BaseInv, NEW t \in Tabs, Rest, count' \in [Bounds -> Nat],
           risks' \subseteq {"overlap", "race", "stray", "twice"}
    PROVE  Elsewhere /\ UNCHANGED <<db, games>>
BY TypesSay DEF Rest, server, Elsewhere, Stores

\* The dialogs keep the invariant: they send nothing, and a deletion under way keeps its own.
LEMMA DialogsStep ==
    ASSUME DeletedInv, NEW t \in Tabs,
           \/ CloseDialog(t) \/ LegacyClose(t)
           \/ \E dialog \in Dialogs : ViewPopup(t, dialog)
           \/ \E x \in Items, dialog \in Dialogs : DashboardItemCard(t, x, dialog) \/ LegacyCard(t, x, dialog)
    PROVE  DeletedInv'
<1>1. PICK p : p = page[t]
  OBVIOUS
<1>2. p \in PageStates /\ OpenIn(t, p) /\ BaseInv /\ count \in [Bounds -> Nat] /\ Stores
  BY <1>1, TypesSay, SMTT(60) DEF DeletedInv
<1>3. Rest /\ UNCHANGED <<work, risks, count>>
  BY DEF CloseDialog, LegacyClose, ViewPopup, DashboardItemCard, LegacyCard
<1>4. Elsewhere /\ UNCHANGED <<db, games>>
  BY <1>2, <1>3, RestShape DEF Stores
<1>5. ASSUME NEW q, SamePage(p, q), OpenIn(t, q), page' = [page EXCEPT ![t] = q]
      PROVE  DeletedInv'
  BY <1>1, <1>3, <1>4, <1>5, DialogStep
<1>6. CASE CloseDialog(t)
  <2>1. PICK q : q = [p EXCEPT !.dialog = "none", !.pending = 0, !.error = FALSE]
    OBVIOUS
  <2>2. SamePage(p, q) /\ OpenIn(t, q)
    BY <1>1, <1>2, <1>6, <2>1 DEF SamePage, PageStates, OpenIn, CloseDialog
  <2>3. QED
    BY <1>1, <1>5, <1>6, <2>1, <2>2 DEF CloseDialog, Put
<1>7. CASE LegacyClose(t)
  <2>1. PICK q : q = [p EXCEPT !.dialog = "none"]
    OBVIOUS
  <2>2. SamePage(p, q) /\ OpenIn(t, q)
    BY <1>1, <1>2, <1>7, <2>1 DEF SamePage, PageStates, OpenIn, LegacyClose
  <2>3. QED
    BY <1>1, <1>5, <1>7, <2>1, <2>2 DEF LegacyClose, Put
<1>8. ASSUME NEW dialog \in Dialogs, ViewPopup(t, dialog) PROVE DeletedInv'
  <2>1. PICK q : q = [p EXCEPT !.dialog = dialog]
    OBVIOUS
  <2>2. SamePage(p, q) /\ OpenIn(t, q)
    BY <1>1, <1>2, <1>8, <2>1 DEF SamePage, PageStates, OpenIn, ViewPopup, Dialogs
  <2>3. QED
    BY <1>1, <1>5, <1>8, <2>1, <2>2 DEF ViewPopup, Put
<1>9. ASSUME NEW x \in Items, NEW dialog \in Dialogs, DashboardItemCard(t, x, dialog) \/ LegacyCard(t, x, dialog)
      PROVE  DeletedInv'
  <2>1. PICK q : q = [p EXCEPT !.dialog = dialog, !.item = x]
    OBVIOUS
  <2>2. p.stage = "list" /\ p.dialog = "none" /\ page' = [page EXCEPT ![t] = q]
    BY <1>1, <1>9, <2>1 DEF DashboardItemCard, LegacyCard, Put
  <2>3. SamePage(p, q) /\ OpenIn(t, q)
    BY <1>2, <1>9, <2>1, <2>2 DEF SamePage, PageStates, OpenIn, Dialogs
  <2>4. QED
    BY <1>5, <2>2, <2>3
<1>10. QED
  BY <1>6, <1>7, <1>8, <1>9

\* A page that stays presses a button which sends s.
LEMMA PressStep ==
    ASSUME DeletedInv, NEW t \in Tabs, NEW q, SamePage(page[t], q), OpenIn(t, q),
           page' = [page EXCEPT ![t] = q], NEW kind \in {"delete", "start", "rate", "save"}, NEW x \in Items,
           NEW s, AskedFor(s, kind, x, page[t].visit), Send(t, s), Rest, count' \in [Bounds -> Nat],
           risks' \subseteq {"overlap", "race", "stray", "twice"},
           kind = "delete" => /\ Web(t) \/ Legacy(t)
                              /\ Web(t) => q.removing /\ ~page[t].removing,
           kind = "delete" => page[t].stage = "list",
           kind = "rate" => page[t].stage = "view",
           kind # "save" => page[t].hosts = None
    PROVE  DeletedInv'
<1>1. PICK p : p = page[t]
  OBVIOUS
<1>2. /\ p \in PageStates /\ OpenIn(t, p) /\ BaseInv
      /\ \A j \in DOMAIN work[t] : Sent(t, p, work[t][j])
  BY <1>1, TypesSay DEF DeletedInv
<1>3. Elsewhere /\ UNCHANGED <<db, games>> /\ p.visit \in Nat
  BY <1>2, RestShape DEF PageStates
<1>4. /\ s \in Requests /\ s.stage = "sent" /\ s.kind = kind /\ s.visit = p.visit
      /\ work' = [work EXCEPT ![t] = Append(@, s)]
  BY <1>1 DEF AskedFor, Send
<1>5. Sent(t, q, s)
  BY <1>1, <1>3, <1>4 DEF Sent, Current, SamePage
<1>6. ASSUME Fetching(t, q, s), NEW j \in DOMAIN work[t], Fetching(t, p, work[t][j]) PROVE FALSE
  <2>1. kind = "delete" /\ Web(t)
    BY <1>4, <1>6 DEF Fetching
  <2>2. p.stage = "list" /\ ~p.removing
    BY <1>1, <2>1
  <2>3. QED
    BY <1>2, <1>6, <2>1, <2>2 DEF Fetching, Sent
<1>7. QED
  BY <1>1, <1>3, <1>4, <1>5, <1>6, SendStep

\* The risks a step may take stay what they are.
LEMMA RiskShape ==
    ASSUME Stores, NEW b, Stray(b)
    PROVE  risks' \subseteq {"overlap", "race", "stray", "twice"}
BY DEF Stores, Stray

\* ConfirmDelete keeps the invariant: nothing else is being fetched by a page that lists.
LEMMA ConfirmDeleteStep ==
    ASSUME DeletedInv, NEW t \in Tabs, ConfirmDelete(t)
    PROVE  DeletedInv'
<1>1. PICK p : p = page[t]
  OBVIOUS
<1>2. p \in PageStates /\ OpenIn(t, p) /\ Stores /\ count \in [Bounds -> Nat]
  BY <1>1, TypesSay DEF DeletedInv
<1>3. /\ Web(t) /\ p.dialog = "delete" /\ ~p.removing /\ Bump("deletes")
      /\ page' = [page EXCEPT ![t] = [p EXCEPT !.removing = TRUE]]
      /\ Send(t, Request(t, "delete", p.item)) /\ Rest /\ UNCHANGED risks
  BY <1>1 DEF ConfirmDelete, Put
<1>4. p.stage = "list" /\ p.item \in Items /\ p.hosts = None /\ p.visit \in Nat
  BY <1>2, <1>3 DEF PageStates
<1>5. PICK q : q = [p EXCEPT !.removing = TRUE]
  OBVIOUS
<1>6. SamePage(p, q) /\ OpenIn(t, q) /\ q.removing
  BY <1>2, <1>3, <1>4, <1>5, ZenonT(60) DEF SamePage, PageStates, OpenIn
<1>7. AskedFor(Request(t, "delete", p.item), "delete", p.item, p.visit)
  BY <1>1, <1>4, RequestShape
<1>8. risks' \subseteq {"overlap", "race", "stray", "twice"} /\ count' \in [Bounds -> Nat]
  BY <1>2, <1>3, BumpShape DEF Stores, Bounds
<1>9. QED
  BY <1>1, <1>3, <1>4, <1>5, <1>6, <1>7, <1>8, PressStep

\* A page that does not change is the same page.
LEMMA SamePageHere ==
    ASSUME NEW p \in PageStates
    PROVE  SamePage(p, p)
BY DEF SamePage

\* LegacyDelete keeps the invariant.
LEMMA LegacyDeleteStep ==
    ASSUME DeletedInv, NEW t \in Tabs, NEW x \in Items, LegacyDelete(t, x)
    PROVE  DeletedInv'
<1>1. PICK p : p = page[t]
  OBVIOUS
<1>2. p \in PageStates /\ OpenIn(t, p) /\ Stores /\ count \in [Bounds -> Nat] /\ page' = [page EXCEPT ![t] = p]
  BY <1>1, TypesSay DEF DeletedInv, LegacyDelete
<1>3. /\ Legacy(t) /\ p.stage = "list" /\ Bump("deletes") /\ Send(t, Request(t, "delete", x))
      /\ Rest /\ UNCHANGED risks
  BY <1>1 DEF LegacyDelete
<1>4. p.hosts = None /\ p.visit \in Nat /\ ~Web(t)
  BY <1>2, <1>3 DEF PageStates, Legacy, Web
<1>5. AskedFor(Request(t, "delete", x), "delete", x, p.visit)
  BY <1>1, <1>4, RequestShape
<1>6. risks' \subseteq {"overlap", "race", "stray", "twice"} /\ count' \in [Bounds -> Nat]
  BY <1>2, <1>3, BumpShape DEF Stores, Bounds
<1>7. QED
  BY <1>1, <1>2, <1>3, <1>4, <1>5, <1>6, SamePageHere, PressStep

\* The button of either start dialog.
LEMMA StartStep ==
    ASSUME DeletedInv, NEW t \in Tabs, StartForm(t) \/ LegacyStart(t)
    PROVE  DeletedInv'
<1>1. PICK p : p = page[t]
  OBVIOUS
<1>2. p \in PageStates /\ OpenIn(t, p) /\ Stores /\ count \in [Bounds -> Nat] /\ page = [page EXCEPT ![t] = p]
  BY <1>1, TypesSay DEF DeletedInv
<1>3. p.dialog = "start" /\ Bump("starts") /\ Rest /\ Send(t, StartRequest(t)) /\ \E b : Stray(b)
  BY <1>1 DEF StartForm, LegacyStart
<1>4. p.item \in Items /\ p.hosts = None /\ p.visit \in Nat /\ count["starts"] + 1 \in Nat
  BY <1>2, <1>3 DEF PageStates, Bounds
<1>5. AskedFor(StartRequest(t), "start", p.item, p.visit)
  <2>1. PICK id \in Nat : id = count["starts"] + 1
    BY <1>4
  <2>2. AskedFor([Request(t, "start", p.item) EXCEPT !.id = id], "start", p.item, p.visit)
    BY <1>1, <1>4, RequestShape
  <2>3. StartRequest(t) = [Request(t, "start", p.item) EXCEPT !.id = id]
    BY <1>1, <2>1 DEF StartRequest
  <2>4. QED
    BY <2>2, <2>3
<1>6. risks' \subseteq {"overlap", "race", "stray", "twice"} /\ count' \in [Bounds -> Nat]
  BY <1>2, <1>3, RiskShape, BumpShape DEF Bounds
<1>7. PICK q : /\ SamePage(p, q) /\ OpenIn(t, q) /\ page' = [page EXCEPT ![t] = q]
  <2>1. CASE LegacyStart(t)
    BY <1>2, <2>1, SamePageHere DEF LegacyStart
  <2>2. CASE StartForm(t)
    <3>1. PICK q : q = [p EXCEPT !.pending = count["starts"] + 1, !.error = FALSE]
      OBVIOUS
    <3>2. page' = [page EXCEPT ![t] = q]
      BY <1>1, <2>2, <3>1 DEF StartForm, Put
    <3>3. SamePage(p, q) /\ OpenIn(t, q)
      BY <1>2, <1>4, <3>1, ZenonT(60) DEF SamePage, PageStates, OpenIn
    <3>4. QED
      BY <3>2, <3>3
  <2>3. QED
    BY <2>1, <2>2
<1>8. QED
  BY <1>1, <1>3, <1>4, <1>5, <1>6, <1>7, PressStep

\* RatingComponent keeps the invariant.
LEMMA RatingStep ==
    ASSUME DeletedInv, NEW t \in Tabs, NEW likes \in BOOLEAN, RatingComponent(t, likes)
    PROVE  DeletedInv'
<1>1. PICK p : p = page[t]
  OBVIOUS
<1>2. p \in PageStates /\ OpenIn(t, p) /\ Stores /\ count \in [Bounds -> Nat] /\ page' = [page EXCEPT ![t] = p]
  BY <1>1, TypesSay DEF DeletedInv, RatingComponent
<1>3. /\ p.stage = "view" /\ Bump("rates") /\ Rest
      /\ Send(t, [Request(t, "rate", p.item) EXCEPT !.likes = likes])
      /\ risks' \in {risks, risks \cup {"twice"}}
  BY <1>1 DEF RatingComponent
<1>4. p.item \in Items /\ p.hosts = None /\ p.visit \in Nat
  BY <1>2, <1>3 DEF PageStates
<1>5. AskedFor([Request(t, "rate", p.item) EXCEPT !.likes = likes], "rate", p.item, p.visit)
  BY <1>1, <1>4, RequestShape, ZenonT(60)
<1>6. risks' \subseteq {"overlap", "race", "stray", "twice"} /\ count' \in [Bounds -> Nat]
  BY <1>2, <1>3, BumpShape DEF Stores, Bounds
<1>7. QED
  BY <1>1, <1>2, <1>3, <1>4, <1>5, <1>6, SamePageHere, PressStep

\* SaveEdit keeps the invariant.
LEMMA SaveEditStep ==
    ASSUME DeletedInv, NEW t \in Tabs, NEW x \in Items, SaveEdit(t, x)
    PROVE  DeletedInv'
<1>1. PICK p : p = page[t]
  OBVIOUS
<1>2. p \in PageStates /\ OpenIn(t, p) /\ Stores /\ count \in [Bounds -> Nat] /\ page' = [page EXCEPT ![t] = p]
  BY <1>1, TypesSay DEF DeletedInv, SaveEdit
<1>3. Bump("saves") /\ Send(t, Request(t, "save", x)) /\ Rest /\ UNCHANGED risks
  BY <1>1 DEF SaveEdit
<1>4. p.visit \in Nat
  BY <1>2 DEF PageStates
<1>5. AskedFor(Request(t, "save", x), "save", x, p.visit)
  BY <1>1, <1>4, RequestShape
<1>6. risks' \subseteq {"overlap", "race", "stray", "twice"} /\ count' \in [Bounds -> Nat]
  BY <1>2, <1>3, BumpShape DEF Stores, Bounds
<1>7. QED
  BY <1>1, <1>2, <1>3, <1>4, <1>5, <1>6, SamePageHere, PressStep

\* A new page, on which nothing is shown yet: for a quiz, for the same list,
\* to host a game or to log in.
Opening(stage, visit, item, deleted) ==
    [ClosedPage EXCEPT !.stage = stage, !.visit = visit, !.item = item, !.deleted = deleted]
Reopening(stage, visit, deleted) ==
    [ClosedPage EXCEPT !.stage = stage, !.visit = visit, !.deleted = deleted]
Leaving(stage, hosts, visit, deleted) ==
    [ClosedPage EXCEPT !.stage = stage, !.hosts = hosts, !.visit = visit, !.deleted = deleted]

\* A page that has just been opened or left is a page.
LEMMA ClosedShape ==
    /\ ClosedPage \in PageStates /\ ClosedPage.stage = "closed" /\ ClosedPage.dialog = "none"
    /\ ~ClosedPage.removing /\ ClosedPage.hosts = None
<1>1. PICK items, no, c : items = [x \in Items |-> None] /\ no = FALSE /\ c = ClosedPage
  OBVIOUS
<1>2. c = [stage |-> "closed", visit |-> 0, items |-> items, dialog |-> "none", item |-> None,
           pending |-> 0, removing |-> no, error |-> no, hosts |-> None, seen |-> None, deleted |-> {}]
  BY <1>1 DEF ClosedPage
<1>3. items \in [Items -> Rows \cup {None}] /\ no \in BOOLEAN /\ ~no
  BY <1>1
<1>4. /\ c.stage = "closed" /\ c.dialog = "none" /\ ~c.removing /\ c.hosts = None
  BY <1>2, <1>3
<1>5. c \in PageStates
  BY <1>2, <1>3, <1>4 DEF PageStates
<1>6. QED
  BY <1>1, <1>4, <1>5

\* The page that opens keeps only what it knows of deletions.
LEMMA OpeningShape ==
    ASSUME NEW visit \in Nat, NEW item \in Items \cup {None}, NEW deleted \in SUBSET Items,
           NEW q, q = Opening("loading", visit, item, deleted)
    PROVE  /\ q \in PageStates /\ q.stage = "loading" /\ q.visit = visit /\ q.hosts = None /\ q.item = item
           /\ q.deleted = deleted /\ ~q.removing
<1>1. PICK c : c = ClosedPage
  OBVIOUS
<1>2. q = [c EXCEPT !.stage = "loading", !.visit = visit, !.item = item, !.deleted = deleted]
  BY <1>1 DEF Opening
<1>3. QED
  BY <1>1, <1>2, ClosedShape, ZenonT(60) DEF PageStates

\* The page that is loaded again keeps only what it knows of deletions.
LEMMA ReopeningShape ==
    ASSUME NEW visit \in Nat, NEW deleted \in SUBSET Items, NEW q, q = Reopening("loading", visit, deleted)
    PROVE  /\ q \in PageStates /\ q.stage = "loading" /\ q.visit = visit /\ q.hosts = None
           /\ q.deleted = deleted /\ ~q.removing
<1>1. PICK c : c = ClosedPage
  OBVIOUS
<1>2. q = [c EXCEPT !.stage = "loading", !.visit = visit, !.deleted = deleted]
  BY <1>1 DEF Reopening
<1>3. QED
  BY <1>1, <1>2, ClosedShape, ZenonT(60) DEF PageStates

\* The page that a game or a login leaves keeps only what it knows of deletions.
LEMMA LeavingShape ==
    ASSUME NEW stage \in {"login", "admin", "closed"}, NEW hosts \in Hosts \cup {None},
           hosts # None => stage = "admin", NEW visit \in Nat, NEW deleted \in SUBSET Items, NEW q, q = Leaving(stage, hosts, visit, deleted)
    PROVE  /\ q \in PageStates /\ q.stage = stage /\ q.visit = visit /\ q.hosts = hosts
           /\ q.deleted = deleted /\ ~q.removing
<1>1. PICK c : c = ClosedPage
  OBVIOUS
<1>2. q = [c EXCEPT !.stage = stage, !.hosts = hosts, !.visit = visit, !.deleted = deleted]
  BY <1>1 DEF Leaving
<1>3. QED
  BY <1>1, <1>2, ClosedShape, ZenonT(60) DEF PageStates

\* OpenPage keeps the invariant: no list of an earlier page is taken for its own.
LEMMA OpenPageStep ==
    ASSUME DeletedInv, NEW t \in Tabs, OpenPage(t)
    PROVE  DeletedInv'
<1>1. PICK p : p = page[t]
  OBVIOUS
<1>2. p \in PageStates /\ OpenIn(t, p) /\ Stores /\ count \in [Bounds -> Nat] /\ BaseInv /\ Typed
      /\ p.deleted \subseteq Items /\ p.visit \in Nat /\ scene.quizzes \subseteq Items
  BY <1>1, TypesSay, CatalogueAssumption DEF DeletedInv, PageStates, BaseInv
<1>3. PICK x \in Items \cup {None} :
         /\ Open(t, x)
         /\ ~(Web(t) \/ Legacy(t)) => x \in Items /\ scene.ui[t] \in {"view", "practice"}
  BY <1>2 DEF OpenPage
<1>4. PICK kind, q, s :
         /\ kind = (IF Web(t) \/ Legacy(t) THEN "list" ELSE "view")
         /\ q = [ClosedPage EXCEPT !.stage = "loading", !.visit = p.visit + 1, !.item = x, !.deleted = p.deleted]
         /\ s = [Request(t, kind, x) EXCEPT !.visit = @ + 1]
  OBVIOUS
<1>5. page' = [page EXCEPT ![t] = q] /\ work' = [work EXCEPT ![t] = Append(@, s)] /\ Rest /\ UNCHANGED risks
      /\ Bump("visits")
  BY <1>1, <1>3, <1>4 DEF Open, Put, Send
<1>6. AskedFor(s, kind, x, p.visit + 1)
  <2>1. kind \in {"list", "view"} /\ (kind # "list" => x \in Items)
    BY <1>3, <1>4
  <2>2. QED
    BY <1>1, <1>2, <1>4, <2>1, RequestShape
<1>7. q = Opening("loading", p.visit + 1, x, p.deleted)
  BY <1>4 DEF Opening
<1>8. NewPage(p, q) /\ q.stage = "loading" /\ q.hosts = None /\ q.item = x /\ q.deleted = p.deleted
      /\ q.visit = p.visit + 1
  <2>1. PICK v \in Nat, d \in SUBSET Items : v = p.visit + 1 /\ d = p.deleted
    BY <1>2
  <2>2. q = Opening("loading", v, x, d)
    BY <1>7, <2>1
  <2>3. /\ q \in PageStates /\ q.stage = "loading" /\ q.visit = v /\ q.hosts = None /\ q.item = x
        /\ q.deleted = d /\ ~q.removing
    BY <2>2, OpeningShape
  <2>4. QED
    BY <2>1, <2>3 DEF NewPage
<1>9. Sent(t, q, s)
  BY <1>2, <1>3, <1>4, <1>6, <1>8 DEF Sent, AskedFor
<1>10. Traffic(t, {}, Len(work[t]) + 1, s)
  BY <1>2, <1>5, <1>6, IsSent DEF AskedFor
<1>11. risks' \subseteq {"overlap", "race", "stray", "twice"} /\ count' \in [Bounds -> Nat]
  BY <1>2, <1>5, BumpShape DEF Stores, Bounds
<1>12. Elsewhere /\ UNCHANGED <<db, games>>
  BY <1>2, <1>5, <1>11, RestShape
<1>13. \A y \in q.deleted : db[y] = None
  BY <1>1, <1>8 DEF DeletedInv, DeletedStaysGone
<1>14. s \in Requests /\ s.stage = "sent" /\ s.kind \in {"list", "view"} /\ s.list = [y \in Items |-> None]
  BY <1>4, <1>6 DEF AskedFor
<1>15. QED
  BY <1>1, <1>5, <1>8, <1>9, <1>10, <1>12, <1>13, <1>14, OpenStep

\* The answer to r, which is the i-th request of t, reaches its page p.
Answering(t, i, r, p) ==
    /\ DeletedInv /\ p = page[t] /\ r = work[t][i] /\ r.stage = "done"
    /\ UNCHANGED <<scene, server, signed, done, count>>

\* What is known of an answer, and of the page that may take it.
LEMMA AnsweringSays ==
    ASSUME NEW t \in Tabs, NEW i \in DOMAIN work[t], NEW r, NEW p, Answering(t, i, r, p)
    PROVE  /\ BaseInv /\ Typed /\ Stores /\ p \in PageStates /\ r \in Requests /\ OpenIn(t, p)
           /\ Sent(t, p, r) /\ Playable(r) /\ Forgets(p, r) /\ p.visit \in Nat /\ p.deleted \subseteq Items
           /\ \A j \in DOMAIN work[t] : work[t][j] \in Requests /\ Sent(t, p, work[t][j])
           /\ Fetching(t, p, r) => \A j \in DOMAIN work[t] \ {i} : ~Fetching(t, p, work[t][j])
           /\ \A x \in p.deleted : db[x] = None
           /\ p.hosts # None => games[p.hosts.pin] # None
           /\ p.hosts \in Hosts \cup {None}
           /\ page = [page EXCEPT ![t] = p] /\ UNCHANGED <<db, games>>
           /\ (risks' \subseteq {"overlap", "race", "stray", "twice"} => Elsewhere)
<1>1. DeletedInv /\ p = page[t] /\ r = work[t][i]
  BY DEF Answering
<1>2. BaseInv /\ Typed /\ Stores /\ page[t] \in PageStates /\ count \in [Bounds -> Nat] /\ signed \subseteq Users
  BY <1>1, TypesSay DEF DeletedInv
<1>3. risks' \subseteq {"overlap", "race", "stray", "twice"} => Elsewhere
  BY <1>2 DEF Answering, server, Elsewhere, Stores
<1>4. p.visit \in Nat /\ p.hosts \in Hosts \cup {None}
  BY <1>1, <1>2 DEF PageStates
<1>5. /\ r \in Requests /\ OpenIn(t, p)
      /\ Sent(t, p, r) /\ Playable(r) /\ p.deleted \subseteq Items
      /\ \A j \in DOMAIN work[t] : work[t][j] \in Requests /\ Sent(t, p, work[t][j])
      /\ p.hosts # None => games[p.hosts.pin] # None
      /\ page = [page EXCEPT ![t] = p]
  BY <1>1, <1>2, TypesSay
<1>6. Forgets(p, r) /\ \A x \in p.deleted : db[x] = None
  BY <1>1 DEF DeletedInv, DeletedStaysGone
<1>7. Fetching(t, p, r) => \A j \in DOMAIN work[t] \ {i} : ~Fetching(t, p, work[t][j])
  BY <1>1, <1>2 DEF BaseInv
<1>8. UNCHANGED <<db, games>>
  BY DEF Answering, server
<1>9. QED
  BY <1>1, <1>2, <1>3, <1>4, <1>5, <1>6, <1>7, <1>8

\* What the page waited for came: the other requests stay.
LEMMA SettledStays ==
    ASSUME NEW t, NEW p, NEW q, NEW r, q.visit = p.visit, q.hosts = p.hosts, q.stage = p.stage \/ p.stage # "view",
           Sent(t, p, r), ~Fetching(t, p, r)
    PROVE  Stays(t, p, q, r) /\ ~Fetching(t, q, r)
BY DEF Sent, Stays, Fetching, Current

\* An answer is taken, and the page becomes q.
LEMMA TakenStep ==
    ASSUME NEW t \in Tabs, NEW i \in DOMAIN work[t], NEW r, NEW p, Answering(t, i, r, p), Taken(t, i), UNCHANGED risks,
           NEW q \in PageStates, OpenIn(t, q), page' = [page EXCEPT ![t] = q], q.deleted = p.deleted,
           \A j \in DOMAIN work[t] \ {i} : Stays(t, p, q, work[t][j]),
           q.hosts # None => games[q.hosts.pin] # None,
           q.stage = "list" =>
              \/ \A x \in q.deleted : q.items[x] = None
              \/ /\ p.stage = "list" /\ q.items = p.items /\ q.visit = p.visit
                 /\ ~(r.kind = "list" /\ Current(p, r))
    PROVE  DeletedInv' /\ PageStep(t, {i}, 0, None, p, q)
<1>1. /\ BaseInv /\ Typed /\ \A x \in p.deleted : db[x] = None
      /\ UNCHANGED <<db, games>> /\ Elsewhere /\ DeletedInv /\ p = page[t] /\ r = work[t][i]
  <2>1. risks' \subseteq {"overlap", "race", "stray", "twice"}
    BY AnsweringSays DEF Stores
  <2>2. QED
    BY <2>1, AnsweringSays DEF Answering
<1>2. Traffic(t, {i}, 0, None) /\ 0 \notin DOMAIN work'[t]
  BY <1>1, IsTaken DEF Taken
<1>3. q.stage = "list" /\ ~Listing(t)' => \A x \in q.deleted : q.items[x] = None
  <2>1. CASE \A x \in q.deleted : q.items[x] = None
    BY <2>1
  <2>2. ASSUME p.stage = "list", q.items = p.items, q.visit = p.visit, ~(r.kind = "list" /\ Current(p, r))
        PROVE  ~Listing(t)' => \A x \in q.deleted : q.items[x] = None
    <3>1. page'[t] = q
      BY <1>1 DEF BaseInv, TypesHold
    <3>2. Listing(t) => Listing(t)'
      <4>1. ASSUME NEW j \in DOMAIN work[t], work[t][j].kind = "list", Current(p, work[t][j])
            PROVE  \E k \in DOMAIN work'[t] : work'[t][k] = work[t][j]
        <5>1. PICK m : Moved(t, {i}, 0, None, m)
          BY <1>2 DEF Traffic
        <5>2. j # i
          BY <1>1, <2>2, <4>1
        <5>3. PICK k \in DOMAIN work'[t] \ {0} : m[k] = j
          BY <5>1, <5>2 DEF Moved
        <5>4. work'[t][k] = work[t][j]
          BY <5>1, <5>3 DEF Moved
        <5>5. QED
          BY <5>4
      <4>2. QED
        BY <1>1, <2>2, <3>1, <4>1 DEF Listing, Current
    <3>3. QED
      BY <1>1, <2>2, <3>2 DEF DeletedInv
  <2>3. QED
    BY <2>1, <2>2
<1>4. PageStep(t, {i}, 0, None, p, q)
  BY <1>1, <1>2, <1>3 DEF PageStep, Gone
<1>5. QED
  BY <1>1, <1>4, DeletedFrame

\* An answer that nobody takes is dropped, and the invariant stays.
LEMMA IgnoredStep ==
    ASSUME NEW t \in Tabs, NEW i \in DOMAIN work[t], NEW r, NEW p, Answering(t, i, r, p), Ignored(t, i, r),
           ~(r.kind = "list" /\ Current(p, r))
    PROVE  DeletedInv'
<1>1. /\ \A j \in DOMAIN work[t] \ {i} : Stays(t, p, p, work[t][j])
      /\ p \in PageStates /\ OpenIn(t, p) /\ page' = [page EXCEPT ![t] = p] /\ (p.hosts # None => games[p.hosts.pin] # None)
      /\ Taken(t, i) /\ UNCHANGED risks
  BY AnsweringSays, SamePageStays, SamePageHere DEF Ignored
<1>2. p.stage = "list" =>
              \/ \A x \in p.deleted : p.items[x] = None
              \/ /\ p.stage = "list" /\ p.items = p.items /\ p.visit = p.visit
                 /\ ~(r.kind = "list" /\ Current(p, r))
  OBVIOUS
<1>3. QED
  BY <1>1, <1>2, TakenStep

\* The lists are shown, or an error.
LEMMA ListedStep ==
    ASSUME NEW t \in Tabs, NEW i \in DOMAIN work[t], NEW r, NEW p, Answering(t, i, r, p), Current(p, r),
           r.kind = "list",
           (Web(t) /\ Listed(t, i, r)) \/ (Legacy(t) /\ LegacyListed(t, i, r))
    PROVE  DeletedInv'
<1>1. /\ p \in PageStates /\ r \in Requests /\ OpenIn(t, p) /\ Sent(t, p, r) /\ Forgets(p, r) /\ Fetching(t, p, r)
      /\ \A j \in DOMAIN work[t] \ {i} : Sent(t, p, work[t][j]) /\ ~Fetching(t, p, work[t][j])
      /\ p = page[t]
  BY AnsweringSays DEF Fetching, Answering
<1>2. (p.stage = "loading" \/ p.removing) /\ p.hosts = None
  BY <1>1 DEF Sent
<1>3. p.stage \in {"loading", "list"} /\ (p.dialog # "none" => p.removing) /\ (p.removing => Web(t))
  BY <1>1, <1>2 DEF PageStates, OpenIn
<1>4. r.list \in [Items -> Rows \cup {None}] /\ \A x \in p.deleted : r.list[x] = None
  BY <1>1, SameRow DEF Forgets
<1>5. PICK q \in PageStates :
         /\ page' = [page EXCEPT ![t] = q] /\ q.visit = p.visit /\ q.hosts = p.hosts /\ q.deleted = p.deleted /\ ~q.removing
         /\ q.stage \in {"error", "stuck"} \/ (q.stage = "list" /\ q.items = r.list)
  <2>1. ASSUME Web(t), Listed(t, i, r)
        PROVE  \E q \in PageStates :
                  /\ page' = [page EXCEPT ![t] = q] /\ q.visit = p.visit /\ q.hosts = p.hosts /\ q.deleted = p.deleted
                  /\ ~q.removing /\ (q.stage \in {"error", "stuck"} \/ (q.stage = "list" /\ q.items = r.list))
    <3>1. PICK d, dialog, no :
             /\ dialog = (IF p.removing THEN "none" ELSE p.dialog) /\ no = FALSE
             /\ d = [p EXCEPT !.removing = no, !.dialog = dialog]
      OBVIOUS
    <3>2. dialog = "none" /\ no \in BOOLEAN /\ ~no
      BY <1>3, <3>1
    <3>3. d \in PageStates /\ d.visit = p.visit /\ d.hosts = None /\ d.deleted = p.deleted /\ ~d.removing
          /\ d.dialog = "none"
      <4>1. p \in PageStates
        BY <1>1
      <4>2. QED
        BY <4>1, <1>2, <3>1, <3>2, ZenonT(60) DEF PageStates
    <3>4. PICK q : q = IF r.answer = "ok" THEN [d EXCEPT !.stage = "list", !.items = r.list]
                       ELSE [d EXCEPT !.stage = "error"]
      OBVIOUS
    <3>5. page' = [page EXCEPT ![t] = q]
      BY <1>1, <2>1, <3>1, <3>4 DEF Listed, Put
    <3>6. CASE r.answer = "ok"
      <4>1. q = [d EXCEPT !.stage = "list", !.items = r.list]
        BY <3>4, <3>6
      <4>2. /\ q \in PageStates /\ q.visit = p.visit /\ q.hosts = p.hosts /\ q.deleted = p.deleted /\ ~q.removing
            /\ q.items = r.list /\ q.stage = "list"
        BY <1>2, <1>4, <3>3, <4>1 DEF PageStates
      <4>3. QED
        BY <3>5, <4>2
    <3>7. CASE r.answer # "ok"
      <4>1. q = [d EXCEPT !.stage = "error"]
        BY <3>4, <3>7
      <4>2. /\ q \in PageStates /\ q.visit = p.visit /\ q.hosts = p.hosts /\ q.deleted = p.deleted /\ ~q.removing
            /\ q.stage \in {"error", "stuck"}
        BY <1>2, <3>3, <4>1 DEF PageStates
      <4>3. QED
        BY <3>5, <4>2
    <3>8. QED
      BY <3>6, <3>7
  <2>2. ASSUME Legacy(t), LegacyListed(t, i, r)
        PROVE  \E q \in PageStates :
                  /\ page' = [page EXCEPT ![t] = q] /\ q.visit = p.visit /\ q.hosts = p.hosts /\ q.deleted = p.deleted
                  /\ ~q.removing /\ (q.stage \in {"error", "stuck"} \/ (q.stage = "list" /\ q.items = r.list))
    <3>1. ~p.removing /\ p.dialog = "none"
      BY <1>3, <2>2 DEF Legacy, Web
    <3>2. PICK q : q = IF r.answer = "ok" THEN [p EXCEPT !.stage = "list", !.items = r.list]
                       ELSE [p EXCEPT !.stage = "stuck"]
      OBVIOUS
    <3>3. page' = [page EXCEPT ![t] = q]
      BY <1>1, <2>2, <3>2 DEF LegacyListed, Put
    <3>4. CASE r.answer = "ok"
      <4>1. q = [p EXCEPT !.stage = "list", !.items = r.list]
        BY <3>2, <3>4
      <4>2. /\ q \in PageStates /\ q.visit = p.visit /\ q.hosts = p.hosts /\ q.deleted = p.deleted /\ ~q.removing
            /\ q.items = r.list /\ q.stage = "list"
        <5>1. p \in PageStates
          BY <1>1
        <5>2. QED
          BY <5>1, <1>2, <1>4, <3>1, <4>1, ZenonT(60) DEF PageStates
      <4>3. QED
        BY <3>3, <4>2
    <3>5. CASE r.answer # "ok"
      <4>1. q = [p EXCEPT !.stage = "stuck"]
        BY <3>2, <3>5
      <4>2. /\ q \in PageStates /\ q.visit = p.visit /\ q.hosts = p.hosts /\ q.deleted = p.deleted /\ ~q.removing
            /\ q.stage \in {"error", "stuck"}
        BY <1>1, <1>2, <3>1, <4>1 DEF PageStates
      <4>3. QED
        BY <3>3, <4>2
    <3>6. QED
      BY <3>4, <3>5
  <2>3. QED
    BY <2>1, <2>2
<1>6. q.stage # "view"
  BY <1>5
<1>7. Taken(t, i) /\ UNCHANGED risks /\ (Web(t) \/ Legacy(t))
  BY DEF Listed, LegacyListed
<1>8. OpenIn(t, q)
  BY <1>5, <1>6, <1>7 DEF OpenIn
<1>9. \A j \in DOMAIN work[t] \ {i} : Stays(t, p, q, work[t][j])
  BY <1>1, <1>3, <1>5, SettledStays
<1>10. q.stage = "list" => \A x \in q.deleted : q.items[x] = None
  BY <1>4, <1>5
<1>11. q.hosts # None => games[q.hosts.pin] # None
  BY <1>2, <1>5
<1>12. q \in PageStates /\ page' = [page EXCEPT ![t] = q] /\ q.deleted = p.deleted
  BY <1>5
<1>13. QED
  <2>1. PageStep(t, {i}, 0, None, p, q)
    BY <1>7, <1>8, <1>9, <1>10, <1>11, <1>12, TakenStep
  <2>2. QED
    BY <2>1, DeletedFrame DEF Answering

\* A deletion of the web client settles, and the list is fetched again.
LEMMA RemovedStep ==
    ASSUME NEW t \in Tabs, NEW i \in DOMAIN work[t], NEW r, NEW p, Answering(t, i, r, p), Current(p, r),
           r.kind = "delete", Web(t), Removed(t, i, r)
    PROVE  DeletedInv'
<1>1. /\ p \in PageStates /\ r \in Requests /\ OpenIn(t, p) /\ Sent(t, p, r) /\ Forgets(p, r)
      /\ \A j \in DOMAIN work[t] \ {i} : Sent(t, p, work[t][j]) /\ ~Fetching(t, p, work[t][j])
      /\ p = page[t] /\ p.deleted \subseteq Items /\ p.visit \in Nat /\ \A x \in p.deleted : db[x] = None
      /\ BaseInv /\ Stores /\ Typed /\ DeletedInv /\ UNCHANGED <<db, games>>
  BY AnsweringSays DEF Fetching, Answering
<1>2. p.removing /\ p.hosts = None /\ p.stage = "list" /\ r.item \in Items
  BY <1>1, SameRow DEF Sent, PageStates
<1>3. CASE r.answer = "ok"
  <2>1. PICK q, s : q = [p EXCEPT !.deleted = @ \cup {r.item}] /\ s = Request(t, "list", None)
    OBVIOUS
  <2>2. /\ page' = [page EXCEPT ![t] = q] /\ work' = [work EXCEPT ![t] = Append(RemoveAt(@, i), s)]
        /\ UNCHANGED risks
    BY <1>1, <1>3, <2>1 DEF Removed, Put
  <2>3. /\ q \in PageStates /\ q.visit = p.visit /\ q.hosts = None /\ q.stage = "list" /\ q.removing
        /\ q.deleted = p.deleted \cup {r.item}
    <3>1. p \in PageStates /\ p.deleted \cup {r.item} \in SUBSET Items
      BY <1>1, <1>2
    <3>2. QED
      BY <1>2, <2>1, <3>1 DEF PageStates
  <2>4. AskedFor(s, "list", None, p.visit)
    BY <1>1, <2>1, RequestShape
  <2>5. /\ s \in Requests /\ s.kind = "list" /\ s.visit = q.visit /\ s.stage = "sent"
        /\ s.list = [x \in Items |-> None]
    BY <2>3, <2>4 DEF AskedFor
  <2>6. Typed /\ s \in Requests /\ work' = [work EXCEPT ![t] = Append(RemoveAt(@, i), s)]
    BY <1>1, <2>2, <2>5
  <2>7. PICK n : Traffic(t, {i}, n, s) /\ n \in DOMAIN work'[t] /\ work'[t][n] = s
    BY <2>6, IsTakenAndSent
  <2>8. \A j \in DOMAIN work[t] \ {i} : Stays(t, p, q, work[t][j]) /\ ~Fetching(t, q, work[t][j])
    <3>1. ASSUME NEW w, Sent(t, p, w), ~Fetching(t, p, w) PROVE Stays(t, p, q, w) /\ ~Fetching(t, q, w)
      BY <1>2, <2>3, <3>1, SettledStays
    <3>2. QED
      BY <1>1, <3>1
  <2>9. \A x \in q.deleted : x \in Items /\ db'[x] = None
    BY <1>1, <1>2, <1>3, <2>3 DEF Forgets
  <2>10. Comes(t, q, s)
    BY <1>1, <2>3, <2>5, <2>9 DEF Comes, Sent, OpenIn
  <2>11. Listing(t)'
    <3>1. page'[t] = q
      BY <1>1, <2>2 DEF BaseInv, TypesHold
    <3>2. QED
      BY <2>5, <2>7, <3>1 DEF Listing, Current
  <2>12. Elsewhere
    BY <1>1, <2>2, AnsweringSays DEF Stores
  <2>13. PageStep(t, {i}, n, s, p, q)
    BY <1>1, <2>2, <2>3, <2>7, <2>8, <2>9, <2>10, <2>11, <2>12 DEF PageStep, OpenIn, Gone
  <2>14. QED
    BY <1>1, <2>13, DeletedFrame
<1>4. CASE r.answer # "ok"
  <2>1. PICK q : q = [p EXCEPT !.removing = FALSE, !.dialog = "none"]
    OBVIOUS
  <2>2. page' = [page EXCEPT ![t] = q] /\ Taken(t, i) /\ UNCHANGED risks
    BY <1>1, <1>4, <2>1 DEF Removed, Put, Settled
  <2>3. /\ q \in PageStates /\ q.visit = p.visit /\ q.hosts = None /\ q.stage = "list" /\ ~q.removing
        /\ q.deleted = p.deleted /\ q.items = p.items
    <3>1. p \in PageStates
      BY <1>1
    <3>2. QED
      BY <1>2, <2>1, <3>1, ZenonT(60) DEF PageStates
  <2>4. \A j \in DOMAIN work[t] \ {i} : Stays(t, p, q, work[t][j])
    <3>1. ASSUME NEW w, Sent(t, p, w), ~Fetching(t, p, w) PROVE Stays(t, p, q, w)
      BY <1>2, <2>3, <3>1, SettledStays
    <3>2. QED
      BY <1>1, <3>1
  <2>5. OpenIn(t, q)
    BY <2>3 DEF OpenIn
  <2>6. p.stage = "list" /\ q.items = p.items /\ q.visit = p.visit /\ ~(r.kind = "list" /\ Current(p, r))
    BY <1>2, <2>3
  <2>7. QED
    BY <2>2, <2>3, <2>4, <2>5, <2>6, TakenStep
<1>5. QED
  BY <1>3, <1>4

\* The legacy dashboard is loaded again.
LEMMA ReloadedStep ==
    ASSUME NEW t \in Tabs, NEW i \in DOMAIN work[t], NEW r, NEW p, Answering(t, i, r, p), Current(p, r),
           r.kind = "delete", Legacy(t), Reloaded(t, i, r)
    PROVE  DeletedInv'
<1>1. /\ p \in PageStates /\ r \in Requests /\ OpenIn(t, p) /\ Sent(t, p, r) /\ Forgets(p, r)
      /\ p = page[t] /\ p.deleted \subseteq Items /\ p.visit \in Nat /\ \A x \in p.deleted : db[x] = None
      /\ BaseInv /\ Stores /\ Typed /\ DeletedInv /\ UNCHANGED <<db, games>>
  BY AnsweringSays DEF Answering
<1>2. r.item \in Items
  BY <1>1, SameRow
<1>3. PICK deleted, q, s :
         /\ deleted = (IF r.answer = "ok" THEN p.deleted \cup {r.item} ELSE p.deleted)
         /\ q = Reopening("loading", p.visit + 1, deleted)
         /\ s = [Request(t, "list", None) EXCEPT !.visit = @ + 1]
  OBVIOUS
<1>4. /\ page' = [page EXCEPT ![t] = q] /\ work' = [work EXCEPT ![t] = Append(RemoveAt(@, i), s)]
      /\ \E b : Stray(b)
  BY <1>1, <1>3 DEF Reloaded, Put, Reopening
<1>5. deleted \in SUBSET Items /\ \A x \in deleted : db[x] = None
  BY <1>1, <1>2, <1>3 DEF Forgets
<1>6. /\ q \in PageStates /\ q.stage = "loading" /\ q.visit = p.visit + 1 /\ q.hosts = None
      /\ q.deleted = deleted /\ ~q.removing
  <2>1. p.visit + 1 \in Nat
    BY <1>1
  <2>2. QED
    BY <1>3, <1>5, <2>1, ReopeningShape
<1>7. AskedFor(s, "list", None, p.visit + 1)
  BY <1>1, <1>3, RequestShape
<1>8. /\ s \in Requests /\ s.kind = "list" /\ s.visit = q.visit /\ s.stage = "sent"
      /\ s.list = [x \in Items |-> None]
  BY <1>6, <1>7 DEF AskedFor
<1>9. PICK n : n = Len(work[t])
  OBVIOUS
<1>10. Traffic(t, {i}, n, s)
  BY <1>1, <1>4, <1>8, <1>9, IsTakenAndSent
<1>11. Elsewhere
  BY <1>1, <1>4, AnsweringSays, RiskShape
<1>12. Sent(t, q, s)
  BY <1>1, <1>6, <1>8 DEF Sent
<1>13. NewPage(page[t], q)
  BY <1>1, <1>6 DEF NewPage
<1>14. \A x \in q.deleted : db[x] = None
  BY <1>5, <1>6
<1>15. QED
  BY <1>1, <1>4, <1>6, <1>8, <1>10, <1>11, <1>12, <1>13, <1>14, OpenStep

\* A page is left for another, which sends nothing.
LEMMA LeavingStep ==
    ASSUME NEW t \in Tabs, NEW i \in DOMAIN work[t], NEW r, NEW p, Answering(t, i, r, p), Taken(t, i), UNCHANGED risks,
           NEW stage \in {"login", "admin"}, NEW hosts \in Hosts \cup {None}, hosts # None => stage = "admin",
           hosts # None => games[hosts.pin] # None,
           page' = [page EXCEPT ![t] = Leaving(stage, hosts, p.visit + 1, p.deleted)]
    PROVE  DeletedInv'
<1>1. /\ p \in PageStates /\ p.deleted \in SUBSET Items /\ p.visit + 1 \in Nat
      /\ \A j \in DOMAIN work[t] : work[t][j] \in Requests /\ Sent(t, p, work[t][j])
  BY AnsweringSays
<1>2. PICK q : q = Leaving(stage, hosts, p.visit + 1, p.deleted)
  OBVIOUS
<1>3. /\ q \in PageStates /\ q.stage = stage /\ q.visit = p.visit + 1 /\ q.hosts = hosts
      /\ q.deleted = p.deleted /\ ~q.removing
  BY <1>1, <1>2, LeavingShape
<1>4. NewPage(p, q) /\ OpenIn(t, q) /\ q.stage # "list"
  BY <1>3 DEF NewPage, OpenIn
<1>5. \A j \in DOMAIN work[t] \ {i} : Stays(t, p, q, work[t][j])
  BY <1>1, <1>4, NewPageStays
<1>6. page' = [page EXCEPT ![t] = q] /\ (q.hosts # None => games[q.hosts.pin] # None)
  BY <1>2, <1>3
<1>7. PageStep(t, {i}, 0, None, p, q)
  BY <1>3, <1>4, <1>5, <1>6, TakenStep
<1>8. QED
  BY <1>7, DeletedFrame DEF Answering

\* The game was started, or was not.
LEMMA StartedStep ==
    ASSUME NEW t \in Tabs, NEW i \in DOMAIN work[t], NEW r, NEW p, Answering(t, i, r, p), r.kind = "start",
           (Web(t) /\ Started(t, i, r)) \/ (~Web(t) /\ LegacyStarted(t, i, r))
    PROVE  DeletedInv'
<1>1. /\ p \in PageStates /\ r \in Requests /\ OpenIn(t, p) /\ Sent(t, p, r) /\ Playable(r) /\ p = page[t]
      /\ \A j \in DOMAIN work[t] \ {i} : Sent(t, p, work[t][j])
      /\ page = [page EXCEPT ![t] = p] /\ (p.hosts # None => games[p.hosts.pin] # None)
  BY AnsweringSays DEF Answering
<1>2. Taken(t, i) /\ UNCHANGED risks
  BY DEF Started, LegacyStarted
<1>3. CASE r.answer = "ok" /\ page' = [page EXCEPT ![t] = Leave(t, "admin", [pin |-> r.pin, id |-> r.id])]
  <2>1. PICK hosts : hosts = [pin |-> r.pin, id |-> r.id]
    OBVIOUS
  <2>2. r.pin \in Pins /\ r.id \in Nat /\ games[r.pin] # None
    BY <1>1, <1>3 DEF Requests, Playable
  <2>3. hosts \in Hosts \cup {None} /\ games[hosts.pin] # None
    BY <2>1, <2>2 DEF Hosts
  <2>4. page' = [page EXCEPT ![t] = Leaving("admin", hosts, p.visit + 1, p.deleted)]
    BY <1>1, <1>3, <2>1 DEF Leave, Leaving
  <2>5. QED
    BY <1>2, <2>3, <2>4, LeavingStep
<1>4. CASE page' = [page EXCEPT ![t] = Leave(t, "login", None)]
  <2>1. PICK hosts \in Hosts \cup {None} : hosts = None
    OBVIOUS
  <2>2. page' = [page EXCEPT ![t] = Leaving("login", hosts, p.visit + 1, p.deleted)]
    BY <1>1, <1>4, <2>1 DEF Leave, Leaving
  <2>3. QED
    BY <1>2, <2>1, <2>2, LeavingStep
<1>5. ASSUME NEW q, SamePage(p, q), q.removing = p.removing, page' = [page EXCEPT ![t] = q]
      PROVE  DeletedInv'
  <2>1. q \in PageStates /\ OpenIn(t, q) /\ q.deleted = p.deleted /\ (q.hosts # None => games[q.hosts.pin] # None)
    BY <1>1, <1>5 DEF SamePage, OpenIn
  <2>2. \A j \in DOMAIN work[t] \ {i} : Stays(t, p, q, work[t][j])
    BY <1>1, <1>5, SamePageStays
  <2>3. q.stage = "list" => p.stage = "list" /\ q.items = p.items /\ q.visit = p.visit /\ ~(r.kind = "list" /\ Current(p, r))
    BY <1>5 DEF SamePage
  <2>4. PageStep(t, {i}, 0, None, p, q)
    BY <1>2, <1>5, <2>1, <2>2, <2>3, TakenStep
  <2>5. QED
    BY <2>4, DeletedFrame DEF Answering
<1>6. CASE page' = [page EXCEPT ![t] = [page[t] EXCEPT !.pending = 0, !.error = TRUE]]
  <2>1. PICK q, yes : yes = TRUE /\ q = [p EXCEPT !.pending = 0, !.error = yes]
    OBVIOUS
  <2>2. SamePage(p, q) /\ q.removing = p.removing
    BY <1>1, <2>1, ZenonT(60) DEF SamePage, PageStates
  <2>3. QED
    BY <1>1, <1>5, <1>6, <2>1, <2>2
<1>7. CASE page' = page
  BY <1>1, <1>5, <1>7, SamePageHere
<1>8. QED
  BY <1>3, <1>4, <1>6, <1>7 DEF Started, LegacyStarted, Put

\* The quiz is shown, practised, or not found.
LEMMA ViewedStep ==
    ASSUME NEW t \in Tabs, NEW i \in DOMAIN work[t], NEW r, NEW p, Answering(t, i, r, p), Current(p, r),
           r.kind = "view", Viewed(t, i, r)
    PROVE  DeletedInv'
<1>1. /\ p \in PageStates /\ r \in Requests /\ OpenIn(t, p) /\ Sent(t, p, r) /\ p = page[t]
      /\ \A j \in DOMAIN work[t] \ {i} : Sent(t, p, work[t][j]) /\ ~Fetching(t, p, work[t][j])
  BY AnsweringSays DEF Answering, Fetching
<1>2. /\ p.stage = "loading" /\ p.item \in Items /\ p.hosts = None /\ scene.ui[t] \in {"view", "practice"}
      /\ p.dialog = "none" /\ ~p.removing
  BY <1>1 DEF Sent, PageStates
<1>3. PICK stage, seen, q :
         /\ stage = (CASE r.answer # "ok" -> "error" [] r.answer = "ok" -> scene.ui[t])
         /\ seen = (IF r.answer = "ok" THEN r.row ELSE None)
         /\ q = [p EXCEPT !.stage = stage, !.seen = seen]
  OBVIOUS
<1>4. page' = [page EXCEPT ![t] = q] /\ Taken(t, i) /\ UNCHANGED risks
  BY <1>1, <1>3 DEF Viewed, Put
<1>5. /\ stage \in {"error", "view", "practice"} /\ (stage = "view" => scene.ui[t] = "view")
      /\ seen \in Rows \cup {None} /\ (stage = "view" => seen \in Rows)
  <2>1. r.answer = "ok" => r.row \in Rows
    BY <1>1 DEF Requests
  <2>2. CASE r.answer = "ok"
    BY <1>2, <1>3, <2>1, <2>2
  <2>3. CASE r.answer # "ok"
    BY <1>3, <2>3
  <2>4. QED
    BY <2>2, <2>3
<1>6. /\ q \in PageStates /\ q.stage = stage /\ q.visit = p.visit /\ q.hosts = None /\ q.deleted = p.deleted
      /\ ~q.removing
  <2>1. p \in PageStates
    BY <1>1
  <2>2. QED
    BY <1>2, <1>3, <1>5, <2>1, ZenonT(60) DEF PageStates
<1>7. OpenIn(t, q)
  BY <1>2, <1>5, <1>6 DEF OpenIn, Web, Legacy
<1>8. \A j \in DOMAIN work[t] \ {i} : Stays(t, p, q, work[t][j])
  <2>1. ASSUME NEW w, Sent(t, p, w), ~Fetching(t, p, w) PROVE Stays(t, p, q, w)
    BY <1>2, <1>6, <2>1, SettledStays
  <2>2. QED
    BY <1>1, <2>1
<1>9. q.stage # "list"
  BY <1>5, <1>6
<1>10. PageStep(t, {i}, 0, None, p, q)
  BY <1>4, <1>6, <1>7, <1>8, <1>9, TakenStep
<1>11. QED
  BY <1>10, DeletedFrame DEF Answering

\* The rating was taken, or was not.
LEMMA RatingTakenStep ==
    ASSUME NEW t \in Tabs, NEW i \in DOMAIN work[t], NEW r, NEW p, Answering(t, i, r, p), Current(p, r),
           r.kind = "rate", RatingTaken(t, i, r)
    PROVE  DeletedInv'
<1>1. /\ p \in PageStates /\ r \in Requests /\ OpenIn(t, p) /\ Sent(t, p, r) /\ p = page[t]
      /\ \A j \in DOMAIN work[t] \ {i} : Sent(t, p, work[t][j])
      /\ page = [page EXCEPT ![t] = p]
  BY AnsweringSays DEF Answering
<1>2. p.stage = "view" /\ p.hosts = None /\ p.seen \in Rows /\ r.likes \in BOOLEAN
  BY <1>1, SameRow DEF Sent, PageStates
<1>3. PICK seen \in Rows : seen = Cast(p.seen, r.likes)
  BY <1>2, RowShape
<1>4. PICK q : q = IF r.answer = "ok" THEN [p EXCEPT !.seen = seen] ELSE p
  OBVIOUS
<1>5. page' = [page EXCEPT ![t] = q] /\ Taken(t, i) /\ UNCHANGED risks
  <2>1. [page[t] EXCEPT !.seen = Cast(@, r.likes)] = [p EXCEPT !.seen = seen]
    BY <1>1, <1>3
  <2>2. QED
    BY <1>1, <1>4, <2>1 DEF RatingTaken, Put
<1>6. SamePage(p, q) /\ q.removing = p.removing
  <2>1. p \in PageStates
    BY <1>1
  <2>2. [p EXCEPT !.seen = seen] \in PageStates
    BY <1>2, <1>3, <2>1 DEF PageStates
  <2>3. CASE r.answer = "ok"
    BY <1>4, <2>1, <2>2, <2>3 DEF SamePage, PageStates
  <2>4. CASE r.answer # "ok"
    BY <1>4, <2>1, <2>4, SamePageHere
  <2>5. QED
    BY <2>3, <2>4
<1>7. q \in PageStates /\ OpenIn(t, q) /\ q.deleted = p.deleted /\ q.hosts = None /\ q.stage # "list"
  BY <1>1, <1>2, <1>6 DEF SamePage, OpenIn
<1>8. \A j \in DOMAIN work[t] \ {i} : Stays(t, p, q, work[t][j])
  BY <1>1, <1>6, SamePageStays
<1>9. PageStep(t, {i}, 0, None, p, q)
  BY <1>5, <1>7, <1>8, TakenStep
<1>10. QED
  BY <1>9, DeletedFrame DEF Answering

\* Arrives keeps the invariant, whichever answer it is.
LEMMA ArrivesStep ==
    ASSUME DeletedInv, NEW t \in Tabs, Arrives(t)
    PROVE  DeletedInv'
<1>1. PICK i, r, p :
         /\ i \in DOMAIN work[t] /\ r = work[t][i] /\ p = page[t] /\ r.stage = "done"
         /\ \/ /\ r.visit # p.visit /\ ~(Web(t) /\ r.kind = "start") /\ Ignored(t, i, r)
            \/ /\ r.visit = p.visit \/ (Web(t) /\ r.kind = "start")
               /\ \/ r.kind = "list" /\ Web(t) /\ Listed(t, i, r)
                  \/ r.kind = "list" /\ Legacy(t) /\ LegacyListed(t, i, r)
                  \/ r.kind = "delete" /\ Web(t) /\ Removed(t, i, r)
                  \/ r.kind = "delete" /\ Legacy(t) /\ Reloaded(t, i, r)
                  \/ r.kind = "start" /\ Web(t) /\ Started(t, i, r)
                  \/ r.kind = "start" /\ ~Web(t) /\ LegacyStarted(t, i, r)
                  \/ r.kind = "view" /\ Viewed(t, i, r)
                  \/ r.kind = "rate" /\ RatingTaken(t, i, r)
                  \/ r.kind = "save" /\ Ignored(t, i, r)
  BY Zenon DEF Arrives
<1>2. Answering(t, i, r, p)
  BY <1>1 DEF Answering, Arrives
<1>3. CASE r.visit # p.visit /\ Ignored(t, i, r)
  BY <1>1, <1>2, <1>3, IgnoredStep DEF Current
<1>4. CASE r.kind = "save" /\ Ignored(t, i, r)
  BY <1>1, <1>2, <1>4, IgnoredStep
<1>5. CASE r.visit = p.visit /\ r.kind = "list" /\ ((Web(t) /\ Listed(t, i, r)) \/ (Legacy(t) /\ LegacyListed(t, i, r)))
  BY <1>1, <1>2, <1>5, ListedStep DEF Current
<1>6. CASE r.visit = p.visit /\ r.kind = "delete" /\ Web(t) /\ Removed(t, i, r)
  BY <1>1, <1>2, <1>6, RemovedStep DEF Current
<1>7. CASE r.visit = p.visit /\ r.kind = "delete" /\ Legacy(t) /\ Reloaded(t, i, r)
  BY <1>1, <1>2, <1>7, ReloadedStep DEF Current
<1>8. CASE r.kind = "start" /\ ((Web(t) /\ Started(t, i, r)) \/ (~Web(t) /\ LegacyStarted(t, i, r)))
  BY <1>1, <1>2, <1>8, StartedStep
<1>9. CASE r.visit = p.visit /\ r.kind = "view" /\ Viewed(t, i, r)
  BY <1>1, <1>2, <1>9, ViewedStep DEF Current
<1>10. CASE r.visit = p.visit /\ r.kind = "rate" /\ RatingTaken(t, i, r)
  BY <1>1, <1>2, <1>10, RatingTakenStep DEF Current
<1>11. QED
  BY <1>1, <1>3, <1>4, <1>5, <1>6, <1>7, <1>8, <1>9, <1>10

\* The remote, the session and the practice page leave the stored quizzes alone.
LEMMA HostStartsStep ==
    ASSUME DeletedInv, NEW t \in Tabs, HostStarts(t)
    PROVE  DeletedInv'
<1>1. PICK p : p = page[t].hosts.pin
  OBVIOUS
<1>2. p \in Pins /\ games[p] # None /\ Stores /\ signed \subseteq Users /\ count \in [Bounds -> Nat]
  BY <1>1, TypesSay DEF HostStarts, DeletedInv
<1>3. PICK g \in Games : g = games[p]
  BY <1>2 DEF Stores
<1>4. [g EXCEPT !.started = TRUE] \in Games
  BY DEF Games
<1>5. games' = [games EXCEPT ![p] = [g EXCEPT !.started = TRUE]]
  BY <1>1, <1>2, <1>3 DEF HostStarts, Stores
<1>6. PICK h \in Games : games' = [games EXCEPT ![p] = h]
  BY <1>4, <1>5
<1>7. games' \in [Pins -> Games \cup {None}] /\ \A o \in Pins : games[o] # None => games'[o] # None
  BY <1>2, <1>6, NoneIsNothing DEF Stores
<1>8. lobby' \in [Users -> Pins \cup {None}]
  BY <1>2 DEF HostStarts, Stores
<1>9. UNCHANGED <<scene, db, ratings, found, latest, signed, page, work, done, risks, count>>
  BY DEF HostStarts
<1>10. Stores' /\ Gone
  BY <1>2, <1>7, <1>8, <1>9 DEF Stores, Gone
<1>11. QED
  BY <1>2, <1>9, <1>10, QuietStep

\* So does its other command.
LEMMA StartGameStep ==
    ASSUME DeletedInv, NEW u \in Users, NEW p \in Pins, StartGame(u, p)
    PROVE  DeletedInv'
<1>1. Stores /\ signed \subseteq Users /\ count \in [Bounds -> Nat]
  BY DEF DeletedInv, BaseInv, TypesHold, Stores
<1>2. UNCHANGED <<scene, db, ratings, found, games, latest, signed, page, work, done, risks, count>>
  BY DEF StartGame
<1>3. lobby' \in [Users -> Pins \cup {None}]
  BY <1>1 DEF StartGame, Stores
<1>4. Stores' /\ Gone
  BY <1>1, <1>2, <1>3 DEF Stores, Gone
<1>5. QED
  BY <1>1, <1>2, <1>4, QuietStep

\* The page of a game is left, and nothing is sent.
LEMMA LeaveHostShape ==
    ASSUME DeletedInv, NEW t \in Tabs, LeaveHost(t)
    PROVE  \E q : PageStep(t, {}, 0, None, page[t], q) /\ q.hosts = None /\ 0 \notin DOMAIN work'[t]
<1>1. PICK p : p = page[t]
  OBVIOUS
<1>2. /\ BaseInv /\ Typed /\ Stores /\ p \in PageStates /\ p.deleted \in SUBSET Items
      /\ \A j \in DOMAIN work[t] : work[t][j] \in Requests /\ Sent(t, p, work[t][j])
      /\ \A x \in p.deleted : db[x] = None
  BY <1>1, TypesSay DEF DeletedInv, DeletedStaysGone
<1>3. PICK q : q = Leaving("closed", None, p.visit + 1, p.deleted)
  OBVIOUS
<1>4. p.visit + 1 \in Nat
  BY <1>2 DEF PageStates
<1>5. /\ q \in PageStates /\ q.stage = "closed" /\ q.visit = p.visit + 1 /\ q.hosts = None
      /\ q.deleted = p.deleted /\ ~q.removing
  BY <1>2, <1>3, <1>4, LeavingShape
<1>6. NewPage(p, q) /\ OpenIn(t, q) /\ q.stage # "list"
  BY <1>5 DEF NewPage, OpenIn
<1>7. \A j \in DOMAIN work[t] : Stays(t, p, q, work[t][j])
  BY <1>2, <1>6, NewPageStays
<1>8. page' = [page EXCEPT ![t] = q]
  BY <1>1, <1>3 DEF LeaveHost, Put, Leave, Leaving
<1>9. Elsewhere /\ UNCHANGED <<db, games>> /\ work' = work
  <2>1. Rest /\ UNCHANGED <<work, count>> /\ \E b : Stray(b)
    BY DEF LeaveHost
  <2>2. count' \in [Bounds -> Nat]
    BY <2>1, TypesSay DEF DeletedInv
  <2>3. QED
    BY <1>2, <2>1, <2>2, RiskShape, RestShape
<1>10. Traffic(t, {}, 0, None) /\ 0 \notin DOMAIN work'[t]
  BY <1>2, <1>9, NoTraffic
<1>11. PageStep(t, {}, 0, None, p, q)
  BY <1>1, <1>2, <1>5, <1>6, <1>7, <1>8, <1>9, <1>10 DEF PageStep, Gone
<1>12. QED
  BY <1>1, <1>5, <1>10, <1>11

\* LeaveHost keeps the invariant.
LEMMA LeaveHostStep ==
    ASSUME DeletedInv, NEW t \in Tabs, LeaveHost(t)
    PROVE  DeletedInv'
BY LeaveHostShape, DeletedFrame

\* What expires, of sessions and of waiting games, keeps the invariant.
LEMMA ExpiresStep ==
    ASSUME DeletedInv, NEW u \in Users, LobbyExpires(u) \/ SessionExpires(u)
    PROVE  DeletedInv'
<1>1. Stores /\ signed \subseteq Users /\ count \in [Bounds -> Nat]
  BY DEF DeletedInv, BaseInv, TypesHold, Stores
<1>2. CASE LobbyExpires(u)
  <2>1. lobby' \in [Users -> Pins \cup {None}]
    BY <1>1, <1>2 DEF LobbyExpires, Stores
  <2>2. Stores' /\ Gone
    BY <1>1, <1>2, <2>1 DEF LobbyExpires, Stores, Gone
  <2>3. count' \in [Bounds -> Nat]
    BY <1>1, <1>2, BumpShape DEF LobbyExpires, Bounds
  <2>4. QED
    BY <1>1, <1>2, <2>2, <2>3, QuietStep DEF LobbyExpires
<1>3. CASE SessionExpires(u)
  <2>1. Stores' /\ Gone
    BY <1>1, <1>3 DEF SessionExpires, server, Stores, Gone
  <2>2. count' \in [Bounds -> Nat]
    BY <1>1, <1>3, BumpShape DEF SessionExpires, Bounds
  <2>3. QED
    BY <1>1, <1>3, <2>1, <2>2, QuietStep DEF SessionExpires, server
<1>4. QED
  BY <1>2, <1>3

\* Every step keeps the invariant.
LEMMA NextDeleted == DeletedInv /\ [Next]_vars => DeletedInv'
<1> SUFFICES ASSUME DeletedInv, [Next]_vars PROVE DeletedInv'
  OBVIOUS
<1>1. ASSUME UNCHANGED <<scene, server, signed, page, work, done, risks, count>> PROVE DeletedInv'
  <2>1. Stores /\ signed \subseteq Users /\ count \in [Bounds -> Nat]
    BY DEF DeletedInv, BaseInv, TypesHold, Stores
  <2>2. Stores' /\ Gone
    BY <1>1, <2>1 DEF server, Stores, Gone
  <2>3. QED
    BY <1>1, <2>1, <2>2, QuietStep DEF server
<1>2. ASSUME NEW t \in Tabs, Handle(t) \/ Arrives(t) \/ Fails(t) \/ HostStarts(t) \/ LeaveHost(t)
      PROVE  DeletedInv'
  BY <1>2, HandleStep, ArrivesStep, FailsStep, HostStartsStep, LeaveHostStep
<1>3. ASSUME NEW t \in Tabs,
             OpenPage(t) \/ CloseDialog(t) \/ LegacyClose(t) \/ ConfirmDelete(t) \/ StartForm(t) \/ LegacyStart(t)
      PROVE  DeletedInv'
  BY <1>3, OpenPageStep, DialogsStep, ConfirmDeleteStep, StartStep
<1>4. ASSUME NEW t \in Tabs, \E dialog \in Dialogs : ViewPopup(t, dialog) PROVE DeletedInv'
  BY <1>4, DialogsStep
<1>5. ASSUME NEW t \in Tabs, NEW likes \in BOOLEAN, RatingComponent(t, likes) PROVE DeletedInv'
  BY <1>5, RatingStep
<1>6. ASSUME NEW t \in Tabs, NEW x \in Items, LegacyDelete(t, x) \/ SaveEdit(t, x) PROVE DeletedInv'
  BY <1>6, LegacyDeleteStep, SaveEditStep
<1>7. ASSUME NEW t \in Tabs,
             \E x \in Items, dialog \in Dialogs : DashboardItemCard(t, x, dialog) \/ LegacyCard(t, x, dialog)
      PROVE  DeletedInv'
  BY <1>7, DialogsStep
<1>8. ASSUME NEW u \in Users, LobbyExpires(u) \/ SessionExpires(u) \/ \E p \in Pins : StartGame(u, p)
      PROVE  DeletedInv'
  BY <1>8, ExpiresStep, StartGameStep
<1>9. CASE Practise
  BY <1>1, <1>9 DEF Practise
<1>10. CASE UNCHANGED vars
  BY <1>1, <1>10 DEF vars
<1>11. CASE Next
  BY <1>2, <1>3, <1>4, <1>5, <1>6, <1>7, <1>8, <1>9, <1>11 DEF Next
<1>12. QED
  BY <1>10, <1>11

\* At first no page is open, and nothing was asked.
LEMMA InitDeleted == Init => DeletedInv
<1> SUFFICES ASSUME Init PROVE DeletedInv
  OBVIOUS
<1>1. scene \in Scenes /\ scene.quizzes \subseteq Items /\ scene.public \subseteq Items
  BY CatalogueAssumption DEF Init
<1>2. ClosedPage \in PageStates /\ ClosedPage.hosts = None /\ ~ClosedPage.removing /\ ClosedPage.stage = "closed"
  BY ClosedShape
<1>3. ClosedPage.deleted = {}
  BY DEF ClosedPage
<1>4. NewRow \in Rows
  BY DEF NewRow, Rows
<1>5. db \in [Items -> Rows \cup {None}] /\ found \subseteq Items /\ signed \subseteq Users
  BY <1>1, <1>4 DEF Init
<1>6. ratings \in [Users -> [Items -> Seq(BOOLEAN)]]
  BY DEF Init
<1>7. /\ latest \in [Users -> [Items -> Pins \cup {None}]] /\ lobby \in [Users -> Pins \cup {None}]
      /\ games \in [Pins -> Games \cup {None}]
  BY DEF Init
<1>8. page \in [Tabs -> PageStates] /\ \A t \in Tabs : page[t] = ClosedPage
  BY <1>2 DEF Init
<1>9. work \in [Tabs -> Seq(Requests)] /\ \A t \in Tabs : DOMAIN work[t] = {}
  BY DEF Init
<1>10. done \in [Items -> [views : Nat, plays : Nat, text : Nat]] /\ risks = {} /\ count \in [Bounds -> Nat]
  BY DEF Init
<1>11. TypesHold
  BY <1>5, <1>6, <1>7, <1>8, <1>9, <1>10 DEF TypesHold
<1>12. QED
  BY <1>1, <1>2, <1>3, <1>8, <1>9, <1>11 DEF DeletedInv, BaseInv, DeletedStaysGone, OpenIn, Listing

\* The invariant implies the property: a list that is still fetched is a
\* request of its tab.
LEMMA DeletedInvIsGone == DeletedInv => DeletedIsGone
BY DEF DeletedInv, DeletedIsGone, DeletedIsNotListed, Listing

\* The handlers of start_game that are between their two commands.
StartingTyped == starting \subseteq Pins \X Users

\* Who is still to be named no more is not forgotten while it is named.
KeepsStarting ==
    \A u \in Users : lobby'[u] # None /\ <<lobby'[u], u>> \in starting => <<lobby'[u], u>> \in starting'

\* What each action does to them: a game that is saved as started joins them,
\* and the one that is named no more leaves.
LEMMA StartingChanges ==
    ASSUME DeletedInv, [Next]_vars
    PROVE  \/ starting' = starting
           \/ \E t \in Tabs : HostStarts(t)
           \/ \E u \in Users, p \in Pins : StartGame(u, p)
<1>1. ASSUME NEW t \in Tabs,
             \/ Handle(t) \/ Arrives(t) \/ Fails(t) \/ OpenPage(t) \/ LeaveHost(t) \/ CloseDialog(t)
             \/ LegacyClose(t) \/ ConfirmDelete(t) \/ StartForm(t) \/ LegacyStart(t)
             \/ \E dialog \in Dialogs : ViewPopup(t, dialog)
             \/ \E likes \in BOOLEAN : RatingComponent(t, likes)
             \/ \E x \in Items : LegacyDelete(t, x) \/ SaveEdit(t, x)
             \/ \E x \in Items, dialog \in Dialogs :
                   DashboardItemCard(t, x, dialog) \/ LegacyCard(t, x, dialog)
      PROVE  starting' = starting
  BY <1>1, ZenonT(60) DEF Handle, Arrives, Fails, OpenPage, Open, LeaveHost, CloseDialog, LegacyClose, ConfirmDelete,
              StartForm, LegacyStart, ViewPopup, RatingComponent, LegacyDelete, SaveEdit,
              DashboardItemCard, LegacyCard, Rest
<1>2. ASSUME NEW u \in Users, LobbyExpires(u) \/ SessionExpires(u) PROVE starting' = starting
  BY <1>2 DEF LobbyExpires, SessionExpires
<1>3. CASE Practise \/ UNCHANGED vars
  BY <1>3 DEF Practise, vars
<1>4. CASE Next
  BY <1>1, <1>2, <1>3, <1>4, ZenonT(60) DEF Next
<1>5. QED
  BY <1>3, <1>4

\* Each of them is a game of the user it was made by.
LEMMA NextStarting == DeletedInv /\ StartingTyped /\ [Next]_vars => StartingTyped'
<1> SUFFICES ASSUME DeletedInv, StartingTyped, [Next]_vars PROVE StartingTyped'
  OBVIOUS
<1>1. ASSUME NEW t \in Tabs, HostStarts(t) PROVE StartingTyped'
  <2>1. PICK p : p = page[t].hosts.pin
    OBVIOUS
  <2>2. p \in Pins /\ games[p] # None /\ Stores
    BY <1>1, <2>1, TypesSay DEF HostStarts, DeletedInv
  <2>3. games[p].user \in Users
    BY <2>2 DEF Stores, Games
  <2>4. starting' = starting \cup {<<p, games[p].user>>}
    BY <1>1, <2>1 DEF HostStarts
  <2>5. QED
    BY <2>2, <2>3, <2>4 DEF StartingTyped
<1>2. ASSUME NEW u \in Users, NEW p \in Pins, StartGame(u, p) PROVE StartingTyped'
  BY <1>2 DEF StartGame, StartingTyped
<1>3. QED
  BY <1>1, <1>2, StartingChanges DEF StartingTyped

\* None of them is dropped before its second command.
LEMMA NextKeepsStarting ==
    ASSUME DeletedInv, [Next]_vars
    PROVE  KeepsStarting
<1>1. ASSUME NEW t \in Tabs, HostStarts(t) PROVE KeepsStarting
  BY <1>1 DEF HostStarts, KeepsStarting
<1>2. ASSUME NEW u \in Users, NEW p \in Pins, StartGame(u, p) PROVE KeepsStarting
  <2>1. lobby \in [Users -> Pins \cup {None}]
    BY DEF DeletedInv, BaseInv, TypesHold
  <2>2. lobby'[u] = None /\ starting' = starting \ {<<p, u>>}
    BY <1>2, <2>1 DEF StartGame
  <2>3. QED
    BY <2>2 DEF KeepsStarting
<1>3. QED
  BY <1>1, <1>2, StartingChanges DEF KeepsStarting

\* At first no game is being started.
LEMMA InitStarting == Init => StartingTyped
BY DEF Init, StartingTyped

\* The types, and what the fields of a request and of a page say of each other.
THEOREM CatalogueTypeCorrect == CatalogueSpec => []CatalogueTypeOK
<1>1. DeletedInv /\ StartingTyped => CatalogueTypeOK
  BY DEF DeletedInv, BaseInv, TypesHold, StartingTyped, CatalogueTypeOK
<1>2. QED
  BY <1>1, InitDeleted, NextDeleted, InitStarting, NextStarting, PTL DEF CatalogueSpec

\* In every behaviour of the catalogue, whatever tabs, quizzes, scenes and
\* bounds there are, what a page was told is deleted stays out of the database,
\* and no list that this page shows brings it back.
THEOREM DeletedIsAlwaysGone == CatalogueSpec => []DeletedIsGone
BY InitDeleted, NextDeleted, DeletedInvIsGone, PTL DEF CatalogueSpec

(***************************************************************************)
(* Games and rows                                                          *)
(* The games that the stored quizzes are started as - their pins, their    *)
(* hosts and their remotes -, and what the handlers that hold a row and    *)
(* write it later leave of each other's work.                              *)
(***************************************************************************)

\* How many starts were pressed: each request has the number of its own.
Starts == count["starts"]

\* A start request that got its game, which is that of the pin p.
Hosting(r, pin) == r.kind = "start" /\ r.answer = "ok" /\ r.pin = pin

\* What a start request r of t, whose page is p, has to do with its game.
GameOf(t, p, r) ==
    r.kind = "start" =>
       /\ r.id \in 1 .. Starts
       /\ "race" \notin risks =>
             /\ r.stage = "pinned" => games[r.pin] = None
             /\ r.stage = "stored" => /\ games[r.pin].id = r.id /\ games[r.pin].user = User(t)
                                      /\ games[r.pin].item = r.item /\ ~games[r.pin].started
             /\ r.answer = "ok" => games[r.pin].id = r.id
       /\ "stray" \notin risks => (Web(t) \/ Current(p, r)) /\ p.hosts = None

\* Two requests: starts differ in their numbers and, while they look for one,
\* in their pins, and nobody starts two games in one tab, unless that is bad.
Distinct(bad, t, r, u, s) ==
    r.kind = "start" /\ s.kind = "start" =>
       /\ r.id # s.id
       /\ "race" \notin bad /\ r.stage = "pinned" /\ s.stage = "pinned" => r.pin # s.pin
       /\ "stray" \notin bad => t # u

\* The game that the page p was sent to.
Hosted(p) ==
    p.hosts # None => p.hosts.id <= Starts /\ ("race" \notin risks => games[p.hosts.pin].id = p.hosts.id)

\* It is not that of a request under way.
Other(p, r) == p.hosts # None /\ r.kind = "start" => r.id # p.hosts.id

\* The game Redis names for u is hosted, or the answer that says so is on its way.
Offered(u) ==
    \E t \in Tabs :
       /\ User(t) = u
       /\ \/ page[t].hosts # None /\ page[t].hosts.pin = lobby[u]
          \/ \E i \in DOMAIN work[t] : Hosting(work[t][i], lobby[u])

\* The invariant that every step keeps: what is known of each game is known of one
\* request or of one page.
GamesInv ==
    /\ DeletedInv /\ NamesOwnGame
    /\ \A t \in Tabs : Hosted(page[t]) /\ \A i \in DOMAIN work[t] : GameOf(t, page[t], work[t][i])
    /\ \A t, u \in Tabs : \A i \in DOMAIN work[u] : Other(page[t], work[u][i])
    /\ \A t, u \in Tabs : \A i \in DOMAIN work[t], j \in DOMAIN work[u] :
          t # u \/ i # j => Distinct(risks, t, work[t][i], u, work[u][j])
    /\ "stray" \notin risks => \A u \in Users : lobby[u] # None => Offered(u)

\* A step of t, whose page p becomes q, and its requests.
Step(t, gone, n, s, p, q) == Traffic(t, gone, n, s) /\ p = page[t] /\ page' = [page EXCEPT ![t] = q]

\* What every step keeps, and what is proved of every step already.
Follows ==
    /\ GamesInv /\ DeletedInv' /\ KeepsStarting
    /\ scene' = scene /\ risks \subseteq risks' /\ Starts <= Starts'

\* A request and a page whose games are left alone.
Kept(r) ==
    "race" \notin risks' /\ r.kind = "start" /\ (r.stage \in {"pinned", "stored"} \/ r.answer = "ok") =>
        games'[r.pin] = games[r.pin]
KeptFor(p) == "race" \notin risks' /\ p.hosts # None => games'[p.hosts.pin].id = games[p.hosts.pin].id

\* Types, for a step of one tab.
LEMMA FollowsSays ==
    ASSUME Follows, NEW t \in Tabs, NEW p, NEW q, p = page[t], page' = [page EXCEPT ![t] = q]
    PROVE  /\ Typed /\ Starts \in Nat /\ Starts' \in Nat /\ page'[t] = q /\ \A u \in Tabs \ {t} : page'[u] = page[u]
           /\ p \in PageStates /\ q \in PageStates
           /\ \A u \in Tabs : page[u] \in PageStates /\ \A j \in DOMAIN work[u] : work[u][j] \in Requests
           /\ \A u \in Tabs : Web(u)' = Web(u) /\ User(u)' = User(u)
<1>1. page \in [Tabs -> PageStates] /\ Typed /\ count \in [Bounds -> Nat]
  BY DEF Follows, GamesInv, DeletedInv, BaseInv, TypesHold, Typed
<1>2. page' \in [Tabs -> PageStates] /\ count' \in [Bounds -> Nat]
  BY DEF Follows, DeletedInv, BaseInv, TypesHold
<1>3. Starts \in Nat /\ Starts' \in Nat
  BY <1>1, <1>2 DEF Starts, Bounds
<1>4. page'[t] = q /\ \A u \in Tabs \ {t} : page'[u] = page[u]
  BY <1>1
<1>5. \A u \in Tabs : Web(u)' = Web(u) /\ User(u)' = User(u)
  BY DEF Follows, Web, User
<1>6. QED
  BY <1>1, <1>2, <1>3, <1>4, <1>5 DEF Typed

\* A step of one tab keeps the invariant if it leaves other games alone, and
\* what it sends or gets on with and where it takes the page agree with them.
LEMMA GamesFrame ==
    ASSUME Follows, NEW t \in Tabs, NEW gone, NEW n, NEW s, NEW p, NEW q, Step(t, gone, n, s, p, q),
           NamesOwnGame',
           \A u \in Tabs : KeptFor(page[u]) /\ \A j \in DOMAIN work[u] : (u # t \/ j \notin gone) => Kept(work[u][j]),
           n \in DOMAIN work'[t] =>
              /\ GameOf(t, q, s)' /\ Other(q, s)
              /\ \A u \in Tabs : u # t => Other(page[u], s)
              /\ \A u \in Tabs : \A j \in DOMAIN work[u] :
                    u # t \/ j \notin gone => Distinct(risks', t, s, u, work[u][j]),
           Hosted(q)',
           \A j \in DOMAIN work[t] \ gone : work[t][j].kind = "start" /\ "stray" \notin risks' =>
              (Web(t) \/ Current(q, work[t][j])) /\ q.hosts = None,
           \A u \in Tabs : \A j \in DOMAIN work[u] : u # t \/ j \notin gone => Other(q, work[u][j]),
           "stray" \notin risks' => \A u \in Users : lobby'[u] # None => Offered(u)'
    PROVE  GamesInv'
<1>0. PICK m : Moved(t, gone, n, s, m)
  BY DEF Traffic, Step
<1> DEFINE Left(u, j) == j \in DOMAIN work[u] /\ (u # t \/ j \notin gone)
<1>1. p = page[t] /\ page' = [page EXCEPT ![t] = q]
  BY DEF Step
<1>2. /\ Starts \in Nat /\ Starts' \in Nat /\ page'[t] = q /\ \A u \in Tabs \ {t} : page'[u] = page[u]
      /\ \A u \in Tabs : page[u] \in PageStates /\ \A j \in DOMAIN work[u] : work[u][j] \in Requests
      /\ \A u \in Tabs : Web(u)' = Web(u) /\ User(u)' = User(u)
  BY <1>1, FollowsSays
<1>3. risks \subseteq risks' /\ Starts <= Starts' /\ DeletedInv'
  BY DEF Follows
<1>4. ASSUME NEW u \in Tabs, NEW k \in DOMAIN work'[u], u # t \/ k # n
      PROVE  \E j \in DOMAIN work[u] : Left(u, j) /\ work'[u][k] = work[u][j] /\ j = (IF u = t THEN m[k] ELSE k)
  BY <1>0, <1>4 DEF Moved
<1>5. ASSUME NEW u \in Tabs, NEW j \in DOMAIN work[u], Left(u, j), NEW r \in Requests, r = work[u][j],
             NEW g, g = page'[u]
      PROVE  GameOf(u, g, r)'
  <2>1. GameOf(u, page[u], r) /\ Kept(r)
    BY <1>5 DEF Follows, GamesInv
  <2>2. r.kind = "start" => r.id \in 1 .. Starts'
    <3>1. PICK a \in Nat, b \in Nat, i \in Nat : a = Starts /\ b = Starts' /\ i = r.id
      BY <1>2 DEF Requests
    <3>2. QED
      BY <1>3, <2>1, <3>1 DEF GameOf
  <2>3. r.kind = "start" /\ "stray" \notin risks' => (Web(u) \/ Current(g, r)) /\ g.hosts = None
    <3>1. CASE u = t
      BY <1>2, <1>5, <3>1
    <3>2. CASE u # t
      BY <1>2, <1>3, <1>5, <2>1, <3>2 DEF GameOf
    <3>3. QED
      BY <3>1, <3>2
  <2>4. QED
    BY <1>2, <1>3, <2>1, <2>2, <2>3 DEF GameOf, Kept
<1>6. ASSUME NEW u \in Tabs
      PROVE  /\ Hosted(page[u])'
             /\ \A k \in DOMAIN work'[u] : GameOf(u, page[u], work[u][k])'
  <2>1. Hosted(page[u])'
    <3>1. CASE u = t
      BY <1>2, <3>1 DEF Hosted
    <3>2. CASE u # t
      <4>1. page'[u] = page[u] /\ Hosted(page[u]) /\ KeptFor(page[u])
        BY <1>2, <3>2 DEF Follows, GamesInv
      <4>2. PICK h : h = page[u].hosts
        OBVIOUS
      <4>3. h # None => h.id \in Nat
        BY <1>2, <4>2 DEF PageStates, Hosts
      <4>4. QED
        BY <1>2, <1>3, <4>1, <4>2, <4>3 DEF Hosted, KeptFor
    <3>3. QED
      BY <3>1, <3>2
  <2>2. ASSUME NEW k \in DOMAIN work'[u] PROVE GameOf(u, page[u], work[u][k])'
    <3>1. CASE u = t /\ k = n
      BY <1>0, <1>2, <2>2, <3>1 DEF Moved, GameOf
    <3>2. CASE u # t \/ k # n
      <4>1. PICK j \in DOMAIN work[u] : Left(u, j) /\ work'[u][k] = work[u][j]
        BY <1>4, <2>2, <3>2
      <4>2. PICK r \in Requests : r = work[u][j]
        BY <1>2, <4>1
      <4>3. PICK g : g = page'[u]
        OBVIOUS
      <4>4. GameOf(u, g, r)'
        BY <1>5, <4>1, <4>2, <4>3
      <4>5. QED
        BY <4>1, <4>2, <4>3, <4>4 DEF GameOf
    <3>3. QED
      BY <3>1, <3>2
  <2>3. QED
    BY <2>1, <2>2
<1>7. ASSUME NEW v \in Tabs, NEW u \in Tabs, NEW k \in DOMAIN work'[u] PROVE Other(page[v], work[u][k])'
  <2>1. CASE u = t /\ k = n
    BY <1>0, <1>2, <1>7, <2>1 DEF Moved, Other
  <2>2. CASE u # t \/ k # n
    <3>1. PICK j \in DOMAIN work[u] : Left(u, j) /\ work'[u][k] = work[u][j]
      BY <1>4, <1>7, <2>2
    <3>2. CASE v = t
      BY <1>2, <3>1, <3>2 DEF Other
    <3>3. CASE v # t
      <4>1. Other(page[v], work[u][j])
        BY <3>1 DEF Follows, GamesInv
      <4>2. QED
        BY <1>2, <3>1, <3>3, <4>1 DEF Other
    <3>4. QED
      BY <3>2, <3>3
  <2>3. QED
    BY <2>1, <2>2
<1>8. ASSUME NEW u \in Tabs, NEW v \in Tabs, NEW i \in DOMAIN work'[u], NEW j \in DOMAIN work'[v], u # v \/ i # j
      PROVE  Distinct(risks, u, work[u][i], v, work[v][j])'
  <2>1. CASE u = t /\ i = n
    <3>1. PICK b \in DOMAIN work[v] : Left(v, b) /\ work'[v][j] = work[v][b]
      BY <1>4, <1>8, <2>1
    <3>2. work'[u][i] = s /\ Distinct(risks', t, s, v, work[v][b])
      BY <1>0, <1>8, <2>1, <3>1 DEF Moved
    <3>3. QED
      BY <2>1, <3>1, <3>2 DEF Distinct
  <2>2. CASE v = t /\ j = n
    <3>1. PICK a \in DOMAIN work[u] : Left(u, a) /\ work'[u][i] = work[u][a]
      BY <1>4, <1>8, <2>2
    <3>2. work'[v][j] = s /\ Distinct(risks', t, s, u, work[u][a])
      BY <1>0, <1>8, <2>2, <3>1 DEF Moved
    <3>3. QED
      BY <2>2, <3>1, <3>2 DEF Distinct
  <2>3. CASE (u # t \/ i # n) /\ (v # t \/ j # n)
    <3>1. PICK a \in DOMAIN work[u] : work'[u][i] = work[u][a] /\ a = (IF u = t THEN m[i] ELSE i)
      BY <1>4, <1>8, <2>3
    <3>2. PICK b \in DOMAIN work[v] : work'[v][j] = work[v][b] /\ b = (IF v = t THEN m[j] ELSE j)
      BY <1>4, <1>8, <2>3
    <3>3. u # v \/ a # b
      BY <1>0, <1>8, <2>3, <3>1, <3>2 DEF Moved
    <3>4. Distinct(risks, u, work[u][a], v, work[v][b])
      BY <3>3 DEF Follows, GamesInv
    <3>5. QED
      BY <1>3, <3>1, <3>2, <3>4 DEF Distinct
  <2>4. QED
    BY <2>1, <2>2, <2>3
<1>9. QED
  BY <1>3, <1>6, <1>7, <1>8 DEF GamesInv

\* What a step leaves alone that has nothing to do with games.
Alone == UNCHANGED <<games, lobby, latest>> /\ count'["starts"] = count["starts"]

\* A request that gets on without a game.
Goes(r, s) == Same(r, s) /\ s.stage \notin {"pinned", "stored"} /\ s.answer # "ok"

\* A step of t that makes no game and names none; what it does to a page that
\* hosts or to one that waits for a game is a stray start's doing.
Quiet(t, gone, n, s, p, q) ==
    /\ Step(t, gone, n, s, p, q) /\ Alone
    /\ n \in DOMAIN work'[t] => s.kind # "start" \/ \E j \in gone : j \in DOMAIN work[t] /\ Goes(work[t][j], s)
    /\ q.hosts = p.hosts \/ (q.hosts = None /\ "stray" \in risks')
    /\ \/ q.visit = p.visit \/ Web(t) \/ "stray" \in risks'
       \/ /\ \A j \in DOMAIN work[t] \ gone : work[t][j].kind # "start"
          /\ n \in DOMAIN work'[t] => s.kind # "start"
    /\ \A j \in DOMAIN work[t] : j \in gone /\ work[t][j].kind = "start" /\ work[t][j].answer = "ok" =>
          "stray" \in risks'

\* Such a step keeps the invariant.
LEMMA QuietGames ==
    ASSUME Follows, NEW t \in Tabs, NEW gone, NEW n, NEW s, NEW p, NEW q, Quiet(t, gone, n, s, p, q)
    PROVE  GamesInv'
<1>0. PICK m : Moved(t, gone, n, s, m)
  BY DEF Traffic, Step, Quiet
<1>1. /\ Step(t, gone, n, s, p, q) /\ p = page[t] /\ page' = [page EXCEPT ![t] = q]
      /\ games' = games /\ lobby' = lobby /\ latest' = latest /\ Starts' = Starts
      /\ q.hosts = p.hosts \/ (q.hosts = None /\ "stray" \in risks')
  BY DEF Quiet, Step, Alone, Starts
<1>2. /\ Starts \in Nat /\ Starts' \in Nat /\ page'[t] = q /\ \A u \in Tabs \ {t} : page'[u] = page[u]
      /\ \A u \in Tabs : page[u] \in PageStates /\ \A j \in DOMAIN work[u] : work[u][j] \in Requests
      /\ \A u \in Tabs : Web(u)' = Web(u) /\ User(u)' = User(u)
  BY <1>1, FollowsSays
<1>3. risks \subseteq risks' /\ Starts <= Starts' /\ DeletedInv' /\ GamesInv /\ KeepsStarting
  BY DEF Follows
<1>4. NamesOwnGame'
  BY <1>1, <1>3 DEF NamesOwnGame, KeepsStarting, GamesInv
<1>5. \A u \in Tabs : KeptFor(page[u]) /\ \A j \in DOMAIN work[u] : (u # t \/ j \notin gone) => Kept(work[u][j])
  BY <1>1 DEF KeptFor, Kept
<1>6. \A u \in Tabs : Hosted(page[u]) /\ \A j \in DOMAIN work[u] : GameOf(u, page[u], work[u][j])
  BY <1>3 DEF GamesInv
<1>7. \A u, v \in Tabs : \A j \in DOMAIN work[v] : Other(page[u], work[v][j])
  BY <1>3 DEF GamesInv
<1>8. Hosted(q)'
  BY <1>1, <1>2, <1>3, <1>6 DEF Hosted
<1>9. \A u \in Tabs : \A j \in DOMAIN work[u] : Other(q, work[u][j])
  BY <1>1, <1>7 DEF Other
<1>10. ASSUME NEW r, r.kind = "start", GameOf(t, p, r), "stray" \notin risks',
              q.visit = p.visit \/ Web(t)
       PROVE  (Web(t) \/ Current(q, r)) /\ q.hosts = None
  BY <1>1, <1>3, <1>10 DEF GameOf, Current
<1>11. ASSUME NEW j \in DOMAIN work[t] \ gone, work[t][j].kind = "start", "stray" \notin risks'
       PROVE  (Web(t) \/ Current(q, work[t][j])) /\ q.hosts = None
  BY <1>1, <1>6, <1>10, <1>11 DEF Quiet
<1>12. ASSUME n \in DOMAIN work'[t]
       PROVE  /\ GameOf(t, q, s)' /\ Other(q, s)
              /\ \A u \in Tabs : u # t => Other(page[u], s)
              /\ \A u \in Tabs : \A j \in DOMAIN work[u] :
                    u # t \/ j \notin gone => Distinct(risks', t, s, u, work[u][j])
  <2>1. CASE s.kind # "start"
    BY <2>1 DEF GameOf, Other, Distinct
  <2>2. CASE s.kind = "start"
    <3>1. PICK a \in gone : a \in DOMAIN work[t] /\ Goes(work[t][a], s)
      BY <1>12, <2>2 DEF Quiet
    <3>2. PICK r : r = work[t][a] /\ Same(r, s) /\ s.stage \notin {"pinned", "stored"} /\ s.answer # "ok"
      BY <3>1 DEF Goes
    <3>3. GameOf(t, p, r) /\ Other(q, r) /\ \A u \in Tabs : Other(page[u], r)
      BY <1>1, <1>6, <1>7, <1>9, <3>1, <3>2
    <3>4. GameOf(t, q, s)'
      <4>1. "stray" \notin risks' => (Web(t) \/ Current(q, r)) /\ q.hosts = None
        BY <1>10, <1>12, <2>2, <3>2, <3>3 DEF Quiet, Same
      <4>2. QED
        BY <1>1, <1>2, <2>2, <3>2, <3>3, <4>1 DEF GameOf, Same, Current
    <3>5. ASSUME NEW u \in Tabs, NEW j \in DOMAIN work[u], u # t \/ j \notin gone
          PROVE  Distinct(risks', t, s, u, work[u][j])
      <4>1. Distinct(risks, t, r, u, work[u][j])
        BY <1>3, <3>1, <3>2, <3>5 DEF GamesInv
      <4>2. QED
        BY <1>3, <3>2, <4>1 DEF Distinct, Same
    <3>6. Other(q, s) /\ \A u \in Tabs : Other(page[u], s)
      BY <3>2, <3>3 DEF Other, Same
    <3>7. QED
      BY <3>4, <3>5, <3>6
  <2>3. QED
    BY <2>1, <2>2
<1>13. ASSUME "stray" \notin risks', NEW u \in Users, lobby'[u] # None PROVE Offered(u)'
  <2>1. PICK v \in Tabs :
           /\ User(v) = u
           /\ \/ page[v].hosts # None /\ page[v].hosts.pin = lobby[u]
              \/ \E i \in DOMAIN work[v] : Hosting(work[v][i], lobby[u])
    BY <1>1, <1>3, <1>13 DEF GamesInv, Offered
  <2>2. CASE page[v].hosts # None /\ page[v].hosts.pin = lobby[u]
    <3>1. page'[v].hosts = page[v].hosts
      BY <1>1, <1>2, <1>13
    <3>2. QED
      BY <1>1, <1>2, <2>1, <2>2, <3>1 DEF Offered
  <2>3. ASSUME NEW i \in DOMAIN work[v], Hosting(work[v][i], lobby[u]) PROVE Offered(u)'
    <3>1. CASE v # t
      BY <1>0, <1>1, <1>2, <2>1, <2>3, <3>1 DEF Moved, Offered
    <3>2. CASE v = t
      <4>1. i \notin gone
        BY <1>13, <2>3, <3>2 DEF Quiet, Hosting
      <4>2. PICK k \in DOMAIN work'[t] : work'[t][k] = work[t][i]
        BY <1>0, <2>3, <3>2, <4>1 DEF Moved
      <4>3. Hosting(work'[v][k], lobby'[u])
        BY <1>1, <2>3, <3>2, <4>2
      <4>4. QED
        BY <1>2, <2>1, <3>2, <4>2, <4>3 DEF Offered, Hosting
    <3>3. QED
      BY <3>1, <3>2
  <2>4. QED
    BY <2>1, <2>2, <2>3
<1>14. QED
  BY <1>1, <1>4, <1>5, <1>8, <1>9, <1>11, <1>12, <1>13, GamesFrame

(***************************************************************************)
(* The handlers                                                            *)
(***************************************************************************)

\* A request goes on in its place.
LEMMA OneAdvances ==
    ASSUME Typed, NEW t \in Tabs, NEW i \in DOMAIN work[t], NEW s, Advance(t, i, s), NEW x, Advance(t, i, x)
    PROVE  s = x
BY DEF Typed, Advance

\* The handler of a start gets on with its game.
LEMMA StartFrame ==
    ASSUME Follows, NEW t \in Tabs, NEW i \in DOMAIN work[t], NEW r, r = work[t][i], r.kind = "start",
           NEW s, Same(r, s), NEW p, Step(t, {i}, i, s, p, p), NamesOwnGame', Starts' = Starts,
           \A u \in Tabs : KeptFor(page[u]) /\ \A j \in DOMAIN work[u] : (u # t \/ j # i) => Kept(work[u][j]),
           "race" \notin risks' =>
              /\ s.stage = "pinned" =>
                    /\ games'[s.pin] = None
                    /\ \A u \in Tabs : \A j \in DOMAIN work[u] :
                         (u # t \/ j # i) /\ work[u][j].stage = "pinned" => work[u][j].pin # s.pin
              /\ s.stage = "stored" => /\ games'[s.pin].id = s.id /\ games'[s.pin].user = User(t)
                                       /\ games'[s.pin].item = s.item /\ ~games'[s.pin].started
              /\ s.answer = "ok" => games'[s.pin].id = s.id,
           "stray" \notin risks' => \A u \in Users : lobby'[u] # None => Offered(u)'
    PROVE  GamesInv'
<1>1. p = page[t] /\ page' = [page EXCEPT ![t] = p]
  BY DEF Step
<1>2. \A u \in Tabs : Web(u)' = Web(u) /\ User(u)' = User(u)
  BY DEF Follows, Web, User
<1>3. risks \subseteq risks' /\ GamesInv
  BY DEF Follows
<1>4. /\ \A u \in Tabs : Hosted(page[u]) /\ \A j \in DOMAIN work[u] : GameOf(u, page[u], work[u][j])
      /\ \A u, v \in Tabs : \A j \in DOMAIN work[v] : Other(page[u], work[v][j])
  BY <1>3 DEF GamesInv
<1>5. Hosted(p)'
  <2>1. Hosted(p) /\ KeptFor(p)
    BY <1>1, <1>4
  <2>2. QED
    BY <1>3, <2>1 DEF Hosted, KeptFor
<1>6. GameOf(t, p, r)
  BY <1>1, <1>4
<1>7. GameOf(t, p, s)'
  BY <1>2, <1>3, <1>6 DEF GameOf, Same, Current
<1>8. Other(p, s) /\ \A u \in Tabs : Other(page[u], s)
  BY <1>1, <1>4 DEF Other, Same
<1>9. ASSUME NEW u \in Tabs, NEW j \in DOMAIN work[u], u # t \/ j # i
      PROVE  Distinct(risks', t, s, u, work[u][j])
  <2>1. Distinct(risks, t, r, u, work[u][j])
    BY <1>3, <1>9 DEF GamesInv
  <2>2. QED
    BY <1>3, <1>9, <2>1 DEF Distinct, Same
<1>10. ASSUME NEW j \in DOMAIN work[t] \ {i}, work[t][j].kind = "start", "stray" \notin risks'
       PROVE  (Web(t) \/ Current(p, work[t][j])) /\ p.hosts = None
  BY <1>1, <1>3, <1>4, <1>10 DEF GameOf
<1>11. \A u \in Tabs : \A j \in DOMAIN work[u] : Other(p, work[u][j])
  BY <1>1, <1>4
<1>12. QED
  BY <1>5, <1>7, <1>8, <1>9, <1>10, <1>11, GamesFrame

\* What is known of a handler's step, for the games.
LEMMA HandledSays ==
    ASSUME Follows, NEW t \in Tabs, NEW i \in DOMAIN work[t], NEW r, r = work[t][i], r.stage # "done",
           NEW s, HandledAs(t, i, r, s), page' = page, NEW p, p = page[t]
    PROVE  /\ Typed /\ r \in Requests /\ s \in Requests /\ Same(r, s) /\ r.answer = None /\ r.answer # "ok"
           /\ Step(t, {i}, i, s, p, p) /\ Advance(t, i, s) /\ Stores /\ User(t) \in Users
           /\ Playable(r) /\ i \in DOMAIN work'[t] /\ work'[t][i] = s
<1>1. /\ Typed /\ r \in Requests /\ page = [page EXCEPT ![t] = page[t]] /\ Stores /\ User(t) \in Users
      /\ Playable(r)
  BY TypesSay DEF Follows, GamesInv, DeletedInv
<1>2. s \in Requests /\ Same(r, s) /\ Advance(t, i, s)
  BY DEF HandledAs
<1>3. Traffic(t, {i}, i, s) /\ i \in DOMAIN work'[t] /\ work'[t][i] = s
  <2>1. work' = [work EXCEPT ![t][i] = s]
    BY <1>2 DEF Advance
  <2>2. Typed /\ s \in Requests
    BY <1>1, <1>2
  <2>3. /\ Traffic(t, {i}, i, s) /\ i \in DOMAIN work'[t] /\ work'[t][i] = s
        /\ DOMAIN work'[t] = DOMAIN work[t]
        /\ \A j \in DOMAIN work[t] \ {i} : work'[t][j] = work[t][j]
    BY <2>1, <2>2, GoesOn, ZenonT(60)
  <2>4. QED
    BY <2>3
<1>4. r.answer = None
  BY <1>1 DEF Requests
<1>5. "ok" # None
  BY NoneIsNothing DEF Answers
<1>6. QED
  BY <1>1, <1>2, <1>3, <1>4, <1>5 DEF Step

\* Names and games that are not touched agree as they did.
LEMMA NamesStay ==
    ASSUME NamesOwnGame, KeepsStarting, games' = games, latest' = latest, "race" \in risks => "race" \in risks',
           \A u \in Users : lobby'[u] # None => lobby'[u] = lobby[u]
    PROVE  NamesOwnGame'
<1>1. ASSUME "race" \notin risks', NEW u \in Users, lobby'[u] # None
      PROVE  /\ games'[lobby'[u]] # None /\ games'[lobby'[u]].user = u
             /\ (games'[lobby'[u]].started => <<lobby'[u], u>> \in starting')
  <2>1. PICK pin : pin = lobby'[u] /\ pin = lobby[u] /\ pin # None
    BY <1>1
  <2>2. games[pin] # None /\ games[pin].user = u /\ (games[pin].started => <<pin, u>> \in starting)
    BY <1>1, <2>1 DEF NamesOwnGame
  <2>3. <<pin, u>> \in starting => <<pin, u>> \in starting'
    BY <1>1, <2>1 DEF KeepsStarting
  <2>4. QED
    BY <2>1, <2>2, <2>3
<1>2. ASSUME "race" \notin risks', NEW u \in Users, NEW x \in Items, latest'[u][x] # None
      PROVE  games'[latest'[u][x]] # None /\ games'[latest'[u][x]].user = u /\ games'[latest'[u][x]].item = x
  BY <1>2 DEF NamesOwnGame
<1>3. ASSUME "race" \notin risks', NEW u \in Users
      PROVE  /\ lobby'[u] # None =>
                   games'[lobby'[u]] # None /\ games'[lobby'[u]].user = u
                   /\ (games'[lobby'[u]].started => <<lobby'[u], u>> \in starting')
             /\ \A x \in Items : latest'[u][x] # None =>
                   games'[latest'[u][x]] # None /\ games'[latest'[u][x]].user = u /\ games'[latest'[u][x]].item = x
  BY <1>1, <1>2, <1>3, Zenon
<1>4. QED
  BY <1>3, Zenon DEF NamesOwnGame

\* What is offered stays offered while other requests come and go.
LEMMA OfferedStays ==
    ASSUME Follows, NEW t \in Tabs, NEW gone, NEW n, NEW s, NEW p, NEW q, Step(t, gone, n, s, p, q),
           \A j \in DOMAIN work[t] : j \in gone => work[t][j].answer # "ok", q.hosts = p.hosts,
           NEW u \in Users, lobby[u] # None, lobby'[u] = lobby[u], Offered(u)
    PROVE  Offered(u)'
<1>0. PICK m : Moved(t, gone, n, s, m)
  BY DEF Traffic, Step
<1>1. \A v \in Tabs : page'[v].hosts = page[v].hosts /\ User(v)' = User(v)
  <2>1. page \in [Tabs -> PageStates]
    BY DEF Follows, GamesInv, DeletedInv, BaseInv, TypesHold
  <2>2. QED
    BY <2>1 DEF Step, Follows, User
<1>2. PICK v \in Tabs :
         /\ User(v) = u
         /\ \/ page[v].hosts # None /\ page[v].hosts.pin = lobby[u]
            \/ \E j \in DOMAIN work[v] : Hosting(work[v][j], lobby[u])
  BY DEF Offered
<1>3. CASE page[v].hosts # None /\ page[v].hosts.pin = lobby[u]
  BY <1>1, <1>2, <1>3 DEF Offered
<1>4. ASSUME NEW j \in DOMAIN work[v], Hosting(work[v][j], lobby[u]) PROVE Offered(u)'
  <2>1. v # t \/ j \notin gone
    BY <1>4 DEF Hosting
  <2>2. PICK k \in DOMAIN work'[v] : work'[v][k] = work[v][j]
    BY <1>0, <1>4, <2>1 DEF Moved
  <2>3. Hosting(work'[v][k], lobby'[u])
    BY <1>4, <2>2
  <2>4. QED
    BY <1>1, <1>2, <2>2, <2>3 DEF Offered, Hosting
<1>5. QED
  BY <1>2, <1>3, <1>4

\* start_quiz, until it looks for a pin.
LEMMA StartCounts ==
    ASSUME Follows, NEW t \in Tabs, NEW i \in DOMAIN work[t], NEW r, r = work[t][i], r.stage # "done",
           NEW s, HandledAs(t, i, r, s), UNCHANGED <<page, count>>, UNCHANGED <<games, lobby, latest>>,
           r.kind # "start" \/ (s.stage \notin {"pinned", "stored"} /\ s.answer # "ok")
    PROVE  GamesInv'
<1>1. PICK p : p = page[t]
  OBVIOUS
<1>2. Same(r, s) /\ r.answer # "ok" /\ Step(t, {i}, i, s, p, p)
  BY <1>1, HandledSays
<1>3. Quiet(t, {i}, i, s, p, p)
  BY <1>2 DEF Quiet, Alone, Goes, Same
<1>4. QED
  BY <1>3, QuietGames

\* It finds a pin that nobody else has found, unless that is a race.
LEMMA StartPins ==
    ASSUME Follows, NEW t \in Tabs, NEW i \in DOMAIN work[t], NEW r, r = work[t][i], r.stage = "asking", r.kind = "start",
           NEW s, HandledAs(t, i, r, s), UNCHANGED <<page, count, games, lobby, latest>>,
           NEW pin \in FreePins, Advance(t, i, [r EXCEPT !.stage = "pinned", !.pin = pin]),
           risks' = IF InFlight(LAMBDA u, x : x.stage = "pinned" /\ x.pin = pin) THEN risks \cup {"race"} ELSE risks
    PROVE  GamesInv'
<1>1. PICK p : p = page[t]
  OBVIOUS
<1>2. /\ Typed /\ r \in Requests /\ Same(r, s) /\ r.answer # "ok" /\ Step(t, {i}, i, s, p, p)
      /\ Advance(t, i, s)
  BY <1>1, HandledSays
<1>3. PICK x : x = [r EXCEPT !.stage = "pinned", !.pin = pin] /\ Advance(t, i, x)
  OBVIOUS
<1>4. s = x
  BY <1>2, <1>3, OneAdvances
<1>5. s.stage = "pinned" /\ s.pin = pin /\ s.answer = r.answer
  BY <1>2, <1>3, <1>4 DEF Requests
<1>6. games[pin] = None
  BY DEF FreePins
<1>7. "race" \notin risks' =>
         \A u \in Tabs : \A j \in DOMAIN work[u] : ~(work[u][j].stage = "pinned" /\ work[u][j].pin = pin)
  BY DEF InFlight
<1>8. NamesOwnGame /\ ("stray" \notin risks => \A u \in Users : lobby[u] # None => Offered(u)) /\ risks \subseteq risks'
  BY DEF Follows, GamesInv
<1>9. NamesOwnGame'
  <2>1. /\ NamesOwnGame /\ games' = games /\ lobby' = lobby /\ latest' = latest /\ KeepsStarting
        /\ ("race" \in risks => "race" \in risks')
    BY <1>8 DEF Follows
  <2>2. QED
    BY <2>1, NamesStay
<1>10. \A u \in Tabs : KeptFor(page[u]) /\ \A j \in DOMAIN work[u] : (u # t \/ j # i) => Kept(work[u][j])
  BY DEF KeptFor, Kept
<1>11. ASSUME "stray" \notin risks', NEW u \in Users, lobby'[u] # None PROVE Offered(u)'
  BY <1>8, <1>11, <1>2, <1>5, OfferedStays, ZenonT(60)
<1>12. /\ "race" \notin risks' =>
              /\ s.stage = "pinned" =>
                    /\ games'[s.pin] = None
                    /\ \A u \in Tabs : \A j \in DOMAIN work[u] :
                         (u # t \/ j # i) /\ work[u][j].stage = "pinned" => work[u][j].pin # s.pin
              /\ s.stage # "stored" /\ s.answer # "ok"
       /\ Starts' = Starts
  BY <1>2, <1>5, <1>6, <1>7 DEF Starts
<1>13. QED
  BY <1>2, <1>9, <1>10, <1>11, <1>12, StartFrame

\* It takes the pin: nothing else is there, under way or named.
LEMMA StartStores ==
    ASSUME Follows, NEW t \in Tabs, NEW i \in DOMAIN work[t], NEW r, r = work[t][i], r.stage = "pinned", r.kind = "start",
           NEW s, HandledAs(t, i, r, s), UNCHANGED <<page, count, lobby, latest, risks>>,
           SetGame(t, r), Advance(t, i, [r EXCEPT !.stage = "stored"])
    PROVE  GamesInv'
<1>1. PICK p : p = page[t]
  OBVIOUS
<1>2. /\ Typed /\ r \in Requests /\ Same(r, s) /\ r.answer # "ok" /\ Step(t, {i}, i, s, p, p)
      /\ Advance(t, i, s) /\ Stores /\ User(t) \in Users
  BY <1>1, HandledSays
<1>3. PICK x : x = [r EXCEPT !.stage = "stored"] /\ Advance(t, i, x)
  OBVIOUS
<1>4. s = x
  BY <1>2, <1>3, OneAdvances
<1>5. s.stage = "stored" /\ s.pin = r.pin /\ s.answer = r.answer
  BY <1>2, <1>3, <1>4 DEF Requests
<1>6. r.pin \in Pins /\ r.item \in Items /\ r.id \in Nat
  BY <1>2 DEF Requests
<1>7. PICK pin, g : pin = r.pin /\ g = [id |-> r.id, user |-> User(t), item |-> r.item, started |-> FALSE]
  OBVIOUS
<1>8. games \in [Pins -> Games \cup {None}] /\ pin \in Pins
  BY <1>2, <1>6, <1>7 DEF Stores
<1>9. games' = [games EXCEPT ![pin] = g]
  BY <1>7 DEF SetGame
<1>10. games'[pin] = g /\ \A o \in Pins : o # pin => games'[o] = games[o]
  BY <1>8, <1>9
<1>11. g.id = r.id /\ g.user = User(t) /\ g.item = r.item /\ ~g.started
  BY <1>7
<1>12. "race" \notin risks => games[pin] = None
  BY <1>2, <1>7 DEF Follows, GamesInv, GameOf
<1>13. ASSUME "race" \notin risks, NEW o \in Pins, games[o] # None PROVE games'[o] = games[o]
  BY <1>10, <1>12, <1>13
<1>14. \A u \in Tabs : /\ page[u].hosts # None => page[u].hosts.pin \in Pins /\ games[page[u].hosts.pin] # None
                       /\ \A j \in DOMAIN work[u] : work[u][j] \in Requests /\ Playable(work[u][j])
                       /\ \A j \in DOMAIN work[u] : GameOf(u, page[u], work[u][j])
  BY TypesSay DEF Follows, GamesInv, DeletedInv
<1>15. \A u \in Tabs : KeptFor(page[u])
  BY <1>13, <1>14 DEF KeptFor
<1>16. ASSUME NEW u \in Tabs, NEW j \in DOMAIN work[u], u # t \/ j # i PROVE Kept(work[u][j])
  <2>1. PICK q \in Requests : q = work[u][j]
    BY <1>14, <1>16
  <2>2. Playable(q) /\ Distinct(risks, t, r, u, q)
    BY <1>14, <1>16, <2>1 DEF Follows, GamesInv
  <2>3. ASSUME "race" \notin risks, q.kind = "start", q.stage \in {"pinned", "stored"} \/ q.answer = "ok"
        PROVE  games'[q.pin] = games[q.pin]
    <3>1. q.pin \in Pins
      BY <2>3 DEF Requests
    <3>2. CASE q.stage = "pinned"
      BY <1>2, <1>7, <1>10, <2>2, <2>3, <3>1, <3>2 DEF Distinct
    <3>3. CASE q.stage # "pinned"
      BY <1>13, <2>2, <2>3, <3>1, <3>3 DEF Playable
    <3>4. QED
      BY <3>2, <3>3
  <2>4. QED
    BY <2>1, <2>3 DEF Kept
<1>17. NamesOwnGame'
  <2>1. NamesOwnGame /\ lobby \in [Users -> Pins \cup {None}] /\ latest \in [Users -> [Items -> Pins \cup {None}]]
    BY <1>2 DEF Follows, GamesInv, Stores
  <2>2. \A o \in Pins : "race" \notin risks /\ games[o] # None => games'[o] = games[o]
    BY <1>13
  <2>3. lobby' = lobby /\ latest' = latest /\ risks' = risks /\ KeepsStarting
    BY DEF Follows
  <2>4. QED
    BY <2>1, <2>2, <2>3 DEF NamesOwnGame, KeepsStarting
<1>18. ASSUME "stray" \notin risks', NEW u \in Users, lobby'[u] # None PROVE Offered(u)'
  <2>1. "stray" \notin risks /\ lobby[u] # None /\ lobby'[u] = lobby[u]
    BY <1>18
  <2>2. Offered(u)
    BY <2>1 DEF Follows, GamesInv
  <2>3. QED
    BY <1>2, <2>1, <2>2, OfferedStays
<1>19. /\ s.stage = "stored" => /\ games'[s.pin].id = s.id /\ games'[s.pin].user = User(t)
                                 /\ games'[s.pin].item = s.item /\ ~games'[s.pin].started
       /\ s.stage # "pinned" /\ s.answer # "ok" /\ Starts' = Starts
  BY <1>2, <1>5, <1>7, <1>10, <1>11 DEF Same, Starts
<1>20. QED
  BY <1>2, <1>15, <1>16, <1>17, <1>18, <1>19, StartFrame

\* It names the game, to the remote and to the next start.
LEMMA StartNames ==
    ASSUME Follows, NEW t \in Tabs, NEW i \in DOMAIN work[t], NEW r, r = work[t][i], r.stage = "stored", r.kind = "start",
           NEW s, HandledAs(t, i, r, s), UNCHANGED <<page, count, games, risks>>,
           SetLobby(t, r), Finish(t, i, "ok")
    PROVE  GamesInv'
<1>1. PICK p : p = page[t]
  OBVIOUS
<1>2. /\ Typed /\ r \in Requests /\ Same(r, s) /\ r.answer # "ok" /\ Step(t, {i}, i, s, p, p)
      /\ Advance(t, i, s) /\ Stores /\ User(t) \in Users /\ Playable(r)
      /\ i \in DOMAIN work'[t] /\ work'[t][i] = s
  BY <1>1, HandledSays, ZenonT(60)
<1>3. PICK past : past = Ended(r, "ok") /\ Advance(t, i, past)
  BY DEF Ended, Finish
<1>4. s = past
  BY <1>2, <1>3, OneAdvances
<1>5. s.stage = "done" /\ s.pin = r.pin /\ s.answer = "ok"
  BY <1>2, <1>3, <1>4 DEF Requests, Ended
<1>6. r.pin \in Pins /\ r.item \in Items /\ r.id \in Nat /\ games[r.pin] # None /\ r.pin # None
  BY <1>2, NoneIsNothing DEF Requests, Playable
<1>7. "race" \notin risks =>
         games[r.pin].id = r.id /\ games[r.pin].user = User(t) /\ games[r.pin].item = r.item /\ ~games[r.pin].started
  BY DEF Follows, GamesInv, GameOf
<1>8. PICK v, a, pin : v = User(t) /\ a = r.item /\ pin = r.pin
  OBVIOUS
<1>9. /\ lobby'[v] = pin /\ \A u \in Users : u # v => lobby'[u] = lobby[u]
      /\ latest'[v][a] = pin
      /\ \A u \in Users, b \in Items : u # v \/ b # a => latest'[u][b] = latest[u][b]
  <2>1. lobby' = [lobby EXCEPT ![v] = pin] /\ latest' = [latest EXCEPT ![v][a] = pin]
    BY <1>8 DEF SetLobby
  <2>2. v \in Users /\ a \in Items
    BY <1>2, <1>6, <1>8
  <2>3. QED
    BY <1>2, <2>1, <2>2 DEF Stores
<1>10. NamesOwnGame'
  <2>1. NamesOwnGame /\ games' = games /\ risks' = risks /\ KeepsStarting
    BY DEF Follows, GamesInv
  <2>2. "race" \notin risks => games[pin].user = v /\ games[pin].item = a /\ ~games[pin].started /\ games[pin] # None
    BY <1>6, <1>7, <1>8
  <2>3. ASSUME "race" \notin risks', NEW u \in Users, lobby'[u] # None
        PROVE  /\ games'[lobby'[u]] # None /\ games'[lobby'[u]].user = u
               /\ (games'[lobby'[u]].started => <<lobby'[u], u>> \in starting')
    <3>1. CASE u = v
      BY <1>9, <2>1, <2>2, <2>3, <3>1
    <3>2. CASE u # v
      <4>1. PICK k : k = lobby'[u] /\ k = lobby[u] /\ k # None
        BY <1>9, <2>3, <3>2
      <4>2. games[k] # None /\ games[k].user = u /\ (games[k].started => <<k, u>> \in starting)
        BY <2>1, <2>3, <4>1 DEF NamesOwnGame
      <4>3. <<k, u>> \in starting => <<k, u>> \in starting'
        BY <2>1, <2>3, <4>1 DEF KeepsStarting
      <4>4. QED
        BY <2>1, <4>1, <4>2, <4>3
    <3>3. QED
      BY <3>1, <3>2
  <2>4. ASSUME "race" \notin risks', NEW u \in Users, NEW x \in Items, latest'[u][x] # None
        PROVE  games'[latest'[u][x]] # None /\ games'[latest'[u][x]].user = u /\ games'[latest'[u][x]].item = x
    <3>1. CASE u = v /\ x = a
      BY <1>9, <2>1, <2>2, <2>4, <3>1
    <3>2. CASE u # v \/ x # a
      <4>1. PICK k : k = latest'[u][x] /\ k = latest[u][x] /\ k # None
        BY <1>9, <2>4, <3>2
      <4>a. "race" \notin risks
        BY <2>1, <2>4
      <4>b. latest[u][x] # None =>
               games[latest[u][x]] # None /\ games[latest[u][x]].user = u /\ games[latest[u][x]].item = x
        BY <2>1, <4>a, Zenon DEF NamesOwnGame
      <4>2. games[k] # None /\ games[k].user = u /\ games[k].item = x
        BY <4>1, <4>b
      <4>3. QED
        BY <2>1, <4>1, <4>2
    <3>3. QED
      BY <3>1, <3>2
  <2>5. ASSUME "race" \notin risks', NEW u \in Users
        PROVE  /\ lobby'[u] # None =>
                     games'[lobby'[u]] # None /\ games'[lobby'[u]].user = u
                     /\ (games'[lobby'[u]].started => <<lobby'[u], u>> \in starting')
               /\ \A x \in Items : latest'[u][x] # None =>
                     games'[latest'[u][x]] # None /\ games'[latest'[u][x]].user = u /\ games'[latest'[u][x]].item = x
    BY <2>3, <2>4, <2>5, Zenon
  <2>6. QED
    BY <2>5, Zenon DEF NamesOwnGame
<1>11. \A u \in Tabs : KeptFor(page[u]) /\ \A j \in DOMAIN work[u] : (u # t \/ j # i) => Kept(work[u][j])
  BY DEF KeptFor, Kept
<1>12. ASSUME "stray" \notin risks', NEW u \in Users, lobby'[u] # None PROVE Offered(u)'
  <2>1. CASE u = v
    <3>1. Hosting(s, lobby'[u])
      BY <1>2, <1>5, <1>8, <1>9, <2>1 DEF Hosting, Same
    <3>2. User(t)' = u
      BY <1>8, <2>1 DEF Follows, User
    <3>3. QED
      BY <1>2, <3>1, <3>2 DEF Offered, Hosting
  <2>2. CASE u # v
    <3>1. "stray" \notin risks /\ lobby[u] # None /\ lobby'[u] = lobby[u]
      BY <1>9, <1>12, <2>2
    <3>2. Offered(u)
      BY <3>1 DEF Follows, GamesInv
    <3>3. QED
      BY <1>2, <3>1, <3>2, OfferedStays
  <2>3. QED
    BY <2>1, <2>2
<1>13. /\ "race" \notin risks' => games'[s.pin].id = s.id
       /\ s.stage \notin {"pinned", "stored"} /\ Starts' = Starts
  BY <1>2, <1>5, <1>7 DEF Same, Starts
<1>14. QED
  BY <1>2, <1>10, <1>11, <1>12, <1>13, StartFrame

\* start_quiz keeps the invariant.
LEMMA StartGames ==
    ASSUME Follows, NEW t \in Tabs, NEW i \in DOMAIN work[t], NEW r, r = work[t][i], r.stage # "done", r.kind = "start",
           NEW s, HandledAs(t, i, r, s), UNCHANGED <<page, count>>, StartQuiz(t, i, r)
    PROVE  GamesInv'
<1>1. PICK p : p = page[t]
  OBVIOUS
<1>2. Typed /\ r \in Requests /\ r.answer # "ok" /\ Advance(t, i, s)
  BY <1>1, HandledSays
<1>3. ASSUME NEW a \in {"401", "404"}, Finish(t, i, a), UNCHANGED <<server, done, risks>> PROVE GamesInv'
  <2>1. PICK x : x = Ended(r, a) /\ Advance(t, i, x)
    BY <1>3 DEF Ended, Finish
  <2>2. s = x
    BY <1>2, <2>1, OneAdvances
  <2>3. s.stage = "done" /\ s.answer # "ok"
    BY <1>2, <2>1, <2>2 DEF Ended, Requests
  <2>4. QED
    BY <1>3, <2>3, StartCounts DEF server
<1>4. ASSUME Advance(t, i, [r EXCEPT !.stage = "counted", !.row = [Row(r.item) EXCEPT !.plays = @ + 1]]),
             UNCHANGED <<server, done>>
      PROVE  GamesInv'
  <2>1. PICK row, x : row = [Row(r.item) EXCEPT !.plays = @ + 1] /\ x = Staged(r, "counted", row) /\ Advance(t, i, x)
    BY <1>4 DEF Staged
  <2>2. s = x
    BY <1>2, <2>1, OneAdvances
  <2>3. s.stage = "counted" /\ s.answer # "ok"
    BY <1>2, <2>1, <2>2 DEF Staged, Requests
  <2>4. QED
    BY <1>4, <2>3, StartCounts DEF server
<1>5. ASSUME Advance(t, i, [r EXCEPT !.stage = "asking"]), UNCHANGED <<ratings, found, games, lobby, latest, risks>>
      PROVE  GamesInv'
  <2>1. PICK x : x = [r EXCEPT !.stage = "asking"] /\ Advance(t, i, x)
    BY <1>5
  <2>2. s = x
    BY <1>2, <2>1, OneAdvances
  <2>3. s.stage = "asking" /\ s.answer # "ok"
    BY <1>2, <2>1, <2>2 DEF Requests
  <2>4. QED
    BY <1>5, <2>3, StartCounts
<1>6. ASSUME r.stage = "asking", NEW pin \in FreePins, Advance(t, i, [r EXCEPT !.stage = "pinned", !.pin = pin]),
             risks' = IF InFlight(LAMBDA u, x : x.stage = "pinned" /\ x.pin = pin)
                      THEN risks \cup {"race"} ELSE risks,
             UNCHANGED <<server, done>>
      PROVE  GamesInv'
  BY <1>6, StartPins DEF server
<1>7. ASSUME r.stage = "pinned", SetGame(t, r), Advance(t, i, [r EXCEPT !.stage = "stored"]),
             UNCHANGED <<lobby, latest, risks>>
      PROVE  GamesInv'
  BY <1>7, StartStores
<1>8. ASSUME r.stage = "stored", SetLobby(t, r), Finish(t, i, "ok"), UNCHANGED <<games, risks>>
      PROVE  GamesInv'
  BY <1>8, StartNames
<1>9. CASE Finish(t, i, IF User(t) \notin signed THEN "401" ELSE "404") /\ UNCHANGED <<server, done, risks>>
  BY <1>3, <1>9
<1>10. CASE Keep(t, i, r) /\ UNCHANGED <<db, ratings, found, done, risks>>
  BY <1>7, <1>8, <1>10 DEF Keep
<1>11. QED
  BY <1>4, <1>5, <1>6, <1>9, <1>10, ZenonT(60) DEF StartQuiz

\* Whatever the server does for a request of t.
LEMMA HandleGames ==
    ASSUME Follows, NEW t \in Tabs, Handle(t)
    PROVE  GamesInv'
<1>1. Stores /\ User(t) \in Users /\ Typed /\ UNCHANGED <<page, count>>
  BY TypesSay DEF Follows, GamesInv, DeletedInv, Handle
<1>2. PICK i \in DOMAIN work[t] : \E s :
         work[t][i].stage # "done" /\ HandledAs(t, i, work[t][i], s) /\ Handles(t, i, work[t][i])
  BY <1>1, HandleShape
<1>3. PICK r, s : r = work[t][i] /\ r.stage # "done" /\ HandledAs(t, i, r, s) /\ Handles(t, i, r)
  BY <1>2
<1>4. CASE r.kind = "start" /\ StartQuiz(t, i, r)
  BY <1>1, <1>3, <1>4, StartGames
<1>5. CASE r.kind # "start"
  <2>1. List(t, i, r) => UNCHANGED <<games, lobby, latest>>
    BY DEF List, server
  <2>2. DeleteQuiz(t, i, r) \/ DeleteQuiztivity(t, i, r) => UNCHANGED <<games, lobby, latest>>
    BY DEF DeleteQuiz, DeleteQuiztivity, server
  <2>3. View(t, i, r) \/ Save(t, i, r) => UNCHANGED <<games, lobby, latest>>
    BY DEF View, Save, server
  <2>4. Rate(t, i, r) => UNCHANGED <<games, lobby, latest>>
    BY DEF Rate, server
  <2>5. UNCHANGED <<games, lobby, latest>>
    BY <1>3, <1>5, <2>1, <2>2, <2>3, <2>4 DEF Handles
  <2>6. QED
    BY <1>1, <1>3, <1>5, <2>5, StartCounts
<1>6. QED
  BY <1>3, <1>4, <1>5 DEF Handles

\* A request or an answer is lost: if it named a game, the game is a stray one.
LEMMA FailsGames ==
    ASSUME Follows, NEW t \in Tabs, Fails(t)
    PROVE  GamesInv'
<1>1. PICK i, r, s : /\ i \in DOMAIN work[t] /\ r = work[t][i] /\ s = Ended(r, "failed") /\ Finish(t, i, "failed")
                     /\ risks' = IF r.kind = "start" /\ r.answer = "ok" THEN risks \cup {"stray"} ELSE risks
  BY DEF Fails
<1>2. PICK p : p = page[t]
  OBVIOUS
<1>3. r \in Requests /\ page = [page EXCEPT ![t] = page[t]] /\ Typed /\ count \in [Bounds -> Nat]
  BY <1>1, TypesSay DEF Follows, GamesInv, DeletedInv
<1>4. s \in Requests /\ Same(r, s) /\ s.stage = "done" /\ s.answer = "failed"
  <2>1. "failed" \in Answers /\ "failed" # "ok"
    BY DEF Answers
  <2>2. QED
    BY <1>1, <1>3, <2>1, IsEnded, ZenonT(60)
<1>5. work' = [work EXCEPT ![t][i] = s] /\ page' = page
  BY <1>1 DEF Finish, Advance, Ended, Fails
<1>6. /\ Traffic(t, {i}, i, s) /\ i \in DOMAIN work'[t] /\ work'[t][i] = s
      /\ DOMAIN work'[t] = DOMAIN work[t]
      /\ \A j \in DOMAIN work[t] \ {i} : work'[t][j] = work[t][j]
  <2>1. Typed /\ i \in DOMAIN work[t] /\ s \in Requests
    BY <1>1, <1>3, <1>4
  <2>2. work' = [work EXCEPT ![t][i] = s]
    BY <1>5
  <2>3. QED
    BY <2>1, <2>2, GoesOn, ZenonT(60)
<1>7. Step(t, {i}, i, s, p, p)
  BY <1>2, <1>3, <1>5, <1>6 DEF Step
<1>8. Alone
  <2>1. count'["starts"] = count["starts"]
    BY <1>3 DEF Fails, Bump, Bounds
  <2>2. QED
    BY <2>1 DEF Fails, server, Alone
<1>9. Quiet(t, {i}, i, s, p, p)
  BY <1>1, <1>4, <1>7, <1>8 DEF Quiet, Goes, Same
<1>10. QED
  BY <1>9, QuietGames

(***************************************************************************)
(* The pages                                                               *)
(***************************************************************************)

\* Nothing but starts is counted as one.
LEMMA CountsOther ==
    ASSUME count \in [Bounds -> Nat], NEW b \in Bounds, b # "starts", Bump(b)
    PROVE  count'["starts"] = count["starts"]
BY DEF Bump, Bounds

\* A page shows something else, and sends nothing.
LEMMA ShowsGames ==
    ASSUME Follows, NEW t \in Tabs, work' = work, Alone, NEW p, p = page[t], NEW q, page' = [page EXCEPT ![t] = q],
           q.hosts = p.hosts, q.visit = p.visit
    PROVE  GamesInv'
<1>1. Typed
  BY TypesSay DEF Follows, GamesInv, DeletedInv
<1>2. Traffic(t, {}, 0, None) /\ 0 \notin DOMAIN work'[t]
  BY <1>1, NoTraffic
<1>3. Step(t, {}, 0, None, p, q)
  BY <1>2 DEF Step
<1>4. Quiet(t, {}, 0, None, p, q)
  BY <1>2, <1>3 DEF Quiet
<1>5. QED
  BY <1>4, QuietGames

\* It sends something else than a start.
LEMMA AsksGames ==
    ASSUME Follows, NEW t \in Tabs, Alone, NEW p, p = page[t], NEW q, page' = [page EXCEPT ![t] = q],
           NEW s \in Requests, s.kind # "start", Send(t, s), q.hosts = p.hosts,
           \/ q.visit = p.visit \/ Web(t) \/ "stray" \in risks'
           \/ \A j \in DOMAIN work[t] : work[t][j].kind # "start"
    PROVE  GamesInv'
<1>1. Typed /\ work' = [work EXCEPT ![t] = Append(@, s)]
  BY TypesSay DEF Follows, GamesInv, DeletedInv, Send
<1>2. Traffic(t, {}, Len(work[t]) + 1, s)
  BY <1>1, IsSent
<1>3. Step(t, {}, Len(work[t]) + 1, s, p, q)
  BY <1>2 DEF Step
<1>4. Quiet(t, {}, Len(work[t]) + 1, s, p, q)
  BY <1>2, <1>3 DEF Quiet
<1>5. QED
  BY <1>4, QuietGames

\* The dialogs of all pages.
LEMMA DialogsGames ==
    ASSUME Follows, NEW t \in Tabs,
           \/ CloseDialog(t) \/ LegacyClose(t)
           \/ \E dialog \in Dialogs : ViewPopup(t, dialog)
           \/ \E x \in Items, dialog \in Dialogs : DashboardItemCard(t, x, dialog) \/ LegacyCard(t, x, dialog)
    PROVE  GamesInv'
<1>1. PICK p \in PageStates : p = page[t]
  BY TypesSay DEF Follows, GamesInv, DeletedInv
<1>2. Rest /\ UNCHANGED <<work, risks, count>>
  BY DEF CloseDialog, LegacyClose, ViewPopup, DashboardItemCard, LegacyCard
<1>3. Alone
  BY <1>2 DEF Rest, server, Alone
<1>4. ASSUME NEW q, page' = [page EXCEPT ![t] = q], q.hosts = p.hosts, q.visit = p.visit PROVE GamesInv'
  BY <1>1, <1>2, <1>3, <1>4, ShowsGames
<1>5. CASE CloseDialog(t)
  <2>1. PICK q : q = [p EXCEPT !.dialog = "none", !.pending = 0, !.error = FALSE]
    OBVIOUS
  <2>2. page' = [page EXCEPT ![t] = q] /\ q.hosts = p.hosts /\ q.visit = p.visit
    BY <1>1, <1>5, <2>1 DEF CloseDialog, Put, PageStates
  <2>3. QED
    BY <1>4, <2>2
<1>6. CASE LegacyClose(t)
  <2>1. PICK q : q = [p EXCEPT !.dialog = "none"]
    OBVIOUS
  <2>2. page' = [page EXCEPT ![t] = q] /\ q.hosts = p.hosts /\ q.visit = p.visit
    BY <1>1, <1>6, <2>1 DEF LegacyClose, Put, PageStates
  <2>3. QED
    BY <1>4, <2>2
<1>7. ASSUME NEW dialog \in Dialogs, ViewPopup(t, dialog) PROVE GamesInv'
  <2>1. PICK q : q = [p EXCEPT !.dialog = dialog]
    OBVIOUS
  <2>2. page' = [page EXCEPT ![t] = q] /\ q.hosts = p.hosts /\ q.visit = p.visit
    BY <1>1, <1>7, <2>1 DEF ViewPopup, Put, PageStates
  <2>3. QED
    BY <1>4, <2>2
<1>8. ASSUME NEW x \in Items, NEW dialog \in Dialogs, DashboardItemCard(t, x, dialog) \/ LegacyCard(t, x, dialog)
      PROVE  GamesInv'
  <2>1. PICK q : q = [p EXCEPT !.dialog = dialog, !.item = x]
    OBVIOUS
  <2>2. page' = [page EXCEPT ![t] = q] /\ q.hosts = p.hosts /\ q.visit = p.visit
    BY <1>1, <1>8, <2>1 DEF DashboardItemCard, LegacyCard, Put, PageStates
  <2>3. QED
    BY <1>4, <2>2
<1>9. QED
  BY <1>5, <1>6, <1>7, <1>8

\* The buttons that delete, rate and save.
LEMMA PressGames ==
    ASSUME Follows, NEW t \in Tabs,
           \/ ConfirmDelete(t) \/ \E x \in Items : LegacyDelete(t, x) \/ SaveEdit(t, x)
           \/ \E likes \in BOOLEAN : RatingComponent(t, likes)
    PROVE  GamesInv'
<1>1. PICK p \in PageStates : p = page[t]
  BY TypesSay DEF Follows, GamesInv, DeletedInv
<1>2. /\ page = [page EXCEPT ![t] = page[t]] /\ count \in [Bounds -> Nat] /\ p.visit \in Nat
      /\ Web(t) \/ Legacy(t) => TRUE
  BY <1>1, TypesSay DEF Follows, GamesInv, DeletedInv, PageStates
<1>3. ASSUME NEW b \in {"deletes", "rates", "saves"}, Bump(b), Rest PROVE Alone
  BY <1>2, <1>3, CountsOther DEF Rest, server, Alone, Bounds
<1>4. ASSUME NEW kind \in {"delete", "rate", "save"}, NEW x \in Items, NEW s, AskedFor(s, kind, x, p.visit), Send(t, s),
             Alone, NEW q, page' = [page EXCEPT ![t] = q], q.hosts = p.hosts, q.visit = p.visit
      PROVE  GamesInv'
  <2>1. s \in Requests /\ s.kind # "start"
    BY <1>4 DEF AskedFor
  <2>2. QED
    BY <1>1, <1>4, <2>1, AsksGames
<1>5. CASE ConfirmDelete(t)
  <2>1. PICK q : q = [p EXCEPT !.removing = TRUE]
    OBVIOUS
  <2>2. /\ page' = [page EXCEPT ![t] = q] /\ q.hosts = p.hosts /\ q.visit = p.visit
        /\ p.item \in Items /\ Alone /\ Send(t, Request(t, "delete", p.item))
    BY <1>1, <1>3, <1>5, <2>1 DEF ConfirmDelete, Put, PageStates
  <2>3. AskedFor(Request(t, "delete", p.item), "delete", p.item, p.visit)
    BY <1>1, <1>2, <2>2, RequestShape
  <2>4. QED
    BY <1>4, <2>2, <2>3
<1>6. ASSUME NEW x \in Items, LegacyDelete(t, x) PROVE GamesInv'
  <2>1. page' = [page EXCEPT ![t] = p] /\ Alone /\ Send(t, Request(t, "delete", x))
    BY <1>1, <1>2, <1>3, <1>6 DEF LegacyDelete
  <2>2. AskedFor(Request(t, "delete", x), "delete", x, p.visit)
    BY <1>1, <1>2, RequestShape
  <2>3. QED
    BY <1>4, <2>1, <2>2
<1>7. ASSUME NEW x \in Items, SaveEdit(t, x) PROVE GamesInv'
  <2>1. page' = [page EXCEPT ![t] = p] /\ Alone /\ Send(t, Request(t, "save", x))
    BY <1>1, <1>2, <1>3, <1>7 DEF SaveEdit
  <2>2. AskedFor(Request(t, "save", x), "save", x, p.visit)
    BY <1>1, <1>2, RequestShape
  <2>3. QED
    BY <1>4, <2>1, <2>2
<1>8. ASSUME NEW likes \in BOOLEAN, RatingComponent(t, likes) PROVE GamesInv'
  <2>1. page' = [page EXCEPT ![t] = p] /\ Alone /\ Send(t, [Request(t, "rate", p.item) EXCEPT !.likes = likes])
        /\ p.item \in Items
    BY <1>1, <1>2, <1>3, <1>8 DEF RatingComponent, PageStates
  <2>2. AskedFor([Request(t, "rate", p.item) EXCEPT !.likes = likes], "rate", p.item, p.visit)
    BY <1>1, <1>2, <2>1, RequestShape, ZenonT(60)
  <2>3. QED
    BY <1>4, <2>1, <2>2
<1>9. QED
  BY <1>5, <1>6, <1>7, <1>8

\* What the tab t is like when its page p takes part in a step.
LEMMA TabSays ==
    ASSUME Follows, NEW t \in Tabs, NEW p, p = page[t]
    PROVE  /\ Typed /\ Stores /\ p \in PageStates /\ page = [page EXCEPT ![t] = p] /\ p.visit \in Nat
           /\ count \in [Bounds -> Nat] /\ Hosted(p)
           /\ p.deleted \in SUBSET Items
           /\ \A j \in DOMAIN work[t] : work[t][j] \in Requests /\ GameOf(t, p, work[t][j])
<1>1. /\ Typed /\ Stores /\ page[t] \in PageStates /\ page = [page EXCEPT ![t] = page[t]]
      /\ count \in [Bounds -> Nat] /\ page[t].deleted \subseteq Items
      /\ \A j \in DOMAIN work[t] : work[t][j] \in Requests
  BY TypesSay DEF Follows, GamesInv, DeletedInv
<1>2. Hosted(p) /\ \A j \in DOMAIN work[t] : GameOf(t, p, work[t][j])
  BY DEF Follows, GamesInv
<1>3. p.visit \in Nat
  BY <1>1 DEF PageStates
<1>4. QED
  BY <1>1, <1>2, <1>3

\* A page that opens: a game of this tab that is waited for keeps it from that.
LEMMA OpenPageGames ==
    ASSUME Follows, NEW t \in Tabs, OpenPage(t)
    PROVE  GamesInv'
<1>1. PICK p : p = page[t]
  OBVIOUS
<1>2. /\ p \in PageStates /\ p.visit \in Nat /\ count \in [Bounds -> Nat] /\ p.deleted \in SUBSET Items
      /\ \A j \in DOMAIN work[t] : GameOf(t, p, work[t][j])
  BY <1>1, TabSays
<1>3. scene.quizzes \subseteq Items
  BY CatalogueAssumption DEF Follows, GamesInv, DeletedInv, BaseInv
<1>4. PICK x \in Items \cup {None} : Open(t, x) /\ (~(Web(t) \/ Legacy(t)) => x \in Items)
  BY <1>3 DEF OpenPage
<1>5. PICK kind, q, s :
         /\ kind = (IF Web(t) \/ Legacy(t) THEN "list" ELSE "view")
         /\ q = [ClosedPage EXCEPT !.stage = "loading", !.visit = p.visit + 1, !.item = x, !.deleted = p.deleted]
         /\ s = [Request(t, kind, x) EXCEPT !.visit = @ + 1]
  OBVIOUS
<1>6. page' = [page EXCEPT ![t] = q] /\ Send(t, s) /\ Rest /\ Bump("visits") /\ ~Starting(t)
      /\ p.stage \in {"closed", "error", "view"}
  BY <1>1, <1>4, <1>5 DEF Open, Put
<1>7. s \in Requests /\ s.kind # "start"
  <2>1. kind \in {"list", "view"} /\ (kind # "list" => x \in Items)
    BY <1>4, <1>5
  <2>2. AskedFor(s, kind, x, p.visit + 1)
    BY <1>1, <1>2, <1>5, <2>1, RequestShape
  <2>3. QED
    BY <2>1, <2>2 DEF AskedFor
<1>8. q.hosts = p.hosts
  <2>1. PICK v \in Nat, d \in SUBSET Items : v = p.visit + 1 /\ d = p.deleted
    BY <1>2
  <2>2. q = Opening("loading", v, x, d)
    BY <1>5, <2>1 DEF Opening
  <2>3. q.hosts = None
    BY <2>2, OpeningShape
  <2>4. p.hosts = None
    BY <1>2, <1>6 DEF PageStates
  <2>5. QED
    BY <2>3, <2>4
<1>9. Alone
  BY <1>2, <1>6, CountsOther DEF Rest, server, Alone, Bounds
<1>10. \/ Web(t) \/ "stray" \in risks'
       \/ \A j \in DOMAIN work[t] : work[t][j].kind # "start"
  <2>1. CASE "stray" \in risks
    BY <2>1 DEF Follows
  <2>2. ASSUME "stray" \notin risks, ~Web(t), NEW j \in DOMAIN work[t], work[t][j].kind = "start" PROVE FALSE
    <3>1. Current(p, work[t][j])
      BY <1>2, <2>2 DEF GameOf
    <3>2. QED
      BY <1>1, <1>6, <2>2, <3>1 DEF Starting, Current
  <2>3. QED
    BY <2>1, <2>2
<1>11. QED
  BY <1>1, <1>6, <1>7, <1>8, <1>9, <1>10, AsksGames

\* A start that is sent is the only one of its tab, or a stray one.
LEMMA StartsGames ==
    ASSUME Follows, NEW t \in Tabs, NEW p, p = page[t], NEW q, page' = [page EXCEPT ![t] = q],
           q.hosts = None, p.hosts = None, q.visit = p.visit, UNCHANGED <<games, lobby, latest>>, Starts' = Starts + 1,
           NEW s \in Requests, s.kind = "start", s.id = Starts + 1, s.stage = "sent", s.visit = p.visit,
           Send(t, s), Stray(Starting(t))
    PROVE  GamesInv'
<1>1. /\ Typed /\ Starts \in Nat /\ Starts' \in Nat /\ page'[t] = q
      /\ \A u \in Tabs : page[u] \in PageStates /\ \A j \in DOMAIN work[u] : work[u][j] \in Requests
      /\ \A u \in Tabs : Web(u)' = Web(u) /\ User(u)' = User(u)
  BY FollowsSays, ZenonT(60)
<1>2. work' = [work EXCEPT ![t] = Append(@, s)]
  BY DEF Send
<1>3. PICK n : n = Len(work[t]) + 1
  OBVIOUS
<1>4. Step(t, {}, n, s, p, q)
  <2>1. Traffic(t, {}, n, s)
    BY <1>1, <1>2, <1>3, IsSent DEF Send
  <2>2. QED
    BY <2>1 DEF Step
<1>5. \A u \in Tabs : Hosted(page[u]) /\ \A j \in DOMAIN work[u] : GameOf(u, page[u], work[u][j])
  BY DEF Follows, GamesInv
<1>6. risks \subseteq risks' /\ GamesInv /\ KeepsStarting
  BY DEF Follows
<1>7. NamesOwnGame'
  BY <1>6, NamesStay DEF GamesInv
<1>8. \A u \in Tabs : KeptFor(page[u]) /\ \A j \in DOMAIN work[u] : Kept(work[u][j])
  BY DEF KeptFor, Kept
<1>9. s.answer = None /\ s.answer # "ok"
  BY NoneIsNothing DEF Requests, Answers
<1>10. GameOf(t, q, s)'
  <2>1. s.id \in 1 .. Starts'
    BY <1>1
  <2>2. QED
    BY <1>9, <2>1 DEF GameOf, Current
<1>11. ASSUME NEW u \in Tabs PROVE Other(page[u], s)
  <2>1. PICK h : h = page[u].hosts
    OBVIOUS
  <2>2. h # None => h.id \in Nat /\ h.id <= Starts
    BY <1>1, <1>5, <2>1 DEF Hosted, PageStates, Hosts
  <2>3. QED
    BY <1>1, <2>1, <2>2 DEF Other
<1>12. ASSUME NEW u \in Tabs, NEW j \in DOMAIN work[u] PROVE Distinct(risks', t, s, u, work[u][j])
  <2>1. PICK r \in Requests : r = work[u][j]
    BY <1>1
  <2>2. GameOf(u, page[u], r)
    BY <1>5, <2>1
  <2>3. r.kind = "start" => r.id # s.id
    BY <1>1, <2>2 DEF GameOf
  <2>4. r.kind = "start" /\ "stray" \notin risks' => t # u
    <3>1. ASSUME r.kind = "start", "stray" \notin risks', t = u PROVE FALSE
      <4>1. "stray" \notin risks /\ ~Starting(t)
        BY <3>1 DEF Stray
      <4>2. Web(t) \/ Current(p, r)
        BY <2>2, <3>1, <4>1 DEF GameOf
      <4>3. QED
        BY <2>1, <3>1, <4>1, <4>2 DEF Starting, Current
    <3>2. QED
      BY <3>1
  <2>5. QED
    BY <2>1, <2>3, <2>4 DEF Distinct
<1>13. Hosted(q)' /\ \A u \in Tabs : \A j \in DOMAIN work[u] : Other(q, work[u][j])
  BY DEF Hosted, Other
<1>14. Other(q, s)
  BY DEF Other
<1>15. ASSUME NEW j \in DOMAIN work[t], work[t][j].kind = "start", "stray" \notin risks'
       PROVE  (Web(t) \/ Current(q, work[t][j])) /\ q.hosts = None
  BY <1>5, <1>6, <1>15 DEF GameOf, Current
<1>16. ASSUME "stray" \notin risks', NEW u \in Users, lobby'[u] # None PROVE Offered(u)'
  <2>1. lobby[u] # None /\ lobby'[u] = lobby[u] /\ Offered(u) /\ "stray" \notin risks
    BY <1>6, <1>16 DEF GamesInv
  <2>2. QED
    BY <1>4, <2>1, OfferedStays
<1>17. QED
  BY <1>4, <1>7, <1>8, <1>10, <1>11, <1>12, <1>13, <1>14, <1>15, <1>16, GamesFrame

\* The button of the start dialog, in both clients.
LEMMA StartButtonGames ==
    ASSUME Follows, NEW t \in Tabs, StartForm(t) \/ LegacyStart(t)
    PROVE  GamesInv'
<1>1. PICK p : p = page[t]
  OBVIOUS
<1>2. p \in PageStates /\ p.visit \in Nat /\ count \in [Bounds -> Nat] /\ page = [page EXCEPT ![t] = p]
  BY <1>1, TabSays
<1>3. p.dialog = "start" /\ Bump("starts") /\ Rest /\ Send(t, StartRequest(t)) /\ Stray(Starting(t))
  BY <1>1 DEF StartForm, LegacyStart
<1>4. PICK id : id = Starts + 1
  OBVIOUS
<1>5. Starts' = id /\ id \in Nat /\ UNCHANGED <<games, lobby, latest>>
  BY <1>2, <1>3, <1>4 DEF Bump, Bounds, Starts, Rest, server
<1>6. p.item \in Items /\ p.hosts = None
  BY <1>2, <1>3 DEF PageStates
<1>7. PICK s : s = StartRequest(t)
  OBVIOUS
<1>8. s = [Request(t, "start", p.item) EXCEPT !.id = id]
  BY <1>1, <1>4, <1>7 DEF StartRequest, Starts
<1>9. AskedFor(s, "start", p.item, p.visit) /\ s.id = id
  <2>1. AskedFor([Request(t, "start", p.item) EXCEPT !.id = id], "start", p.item, p.visit)
    BY <1>1, <1>2, <1>5, <1>6, RequestShape
  <2>2. [Request(t, "start", p.item) EXCEPT !.id = id].id = id
    BY <1>1, <1>2, <1>5, <1>6, RequestShape
  <2>3. QED
    BY <1>8, <2>1, <2>2
<1>10. PICK q : page' = [page EXCEPT ![t] = q] /\ q.hosts = p.hosts /\ q.visit = p.visit
  <2>1. CASE LegacyStart(t)
    BY <1>2, <2>1 DEF LegacyStart
  <2>2. CASE StartForm(t)
    <3>1. PICK q : q = [p EXCEPT !.pending = count["starts"] + 1, !.error = FALSE]
      OBVIOUS
    <3>2. page' = [page EXCEPT ![t] = q]
      BY <1>1, <2>2, <3>1 DEF StartForm, Put
    <3>3. q.hosts = p.hosts /\ q.visit = p.visit
      BY <1>2, <3>1 DEF PageStates
    <3>4. QED
      BY <3>2, <3>3
  <2>3. QED
    BY <2>1, <2>2
<1>11. s \in Requests /\ s.kind = "start" /\ s.stage = "sent" /\ s.visit = p.visit
  BY <1>9 DEF AskedFor
<1>12. QED
  BY <1>1, <1>3, <1>4, <1>5, <1>6, <1>7, <1>9, <1>10, <1>11, StartsGames

(***************************************************************************)
(* The answers                                                             *)
(***************************************************************************)

\* An answer is taken that sends nobody to a game, and the page p becomes q.
Takes(t, i, p, q) ==
    /\ Alone /\ Taken(t, i) /\ i \in DOMAIN work[t] /\ p = page[t] /\ page' = [page EXCEPT ![t] = q]
    /\ q.hosts = p.hosts \/ (q.hosts = None /\ "stray" \in risks')
    /\ \/ q.visit = p.visit \/ Web(t) \/ "stray" \in risks'
       \/ \A j \in DOMAIN work[t] \ {i} : work[t][j].kind # "start"
    /\ work[t][i].kind = "start" /\ work[t][i].answer = "ok" => "stray" \in risks'

\* Such an answer keeps the invariant.
LEMMA TakesGames ==
    ASSUME Follows, NEW t \in Tabs, NEW i, NEW p, NEW q, Takes(t, i, p, q)
    PROVE  GamesInv'
<1>1. Typed
  BY TabSays
<1>2. Traffic(t, {i}, 0, None) /\ 0 \notin DOMAIN work'[t]
  BY <1>1, IsTaken DEF Taken, Takes
<1>3. Quiet(t, {i}, 0, None, p, q)
  BY <1>2 DEF Quiet, Step, Takes
<1>4. QED
  BY <1>3, QuietGames

\* The answer to a deletion, after which the page asks for its list.
LEMMA TakesAndAsksGames ==
    ASSUME Follows, NEW t \in Tabs, NEW i \in DOMAIN work[t], Alone, work[t][i].kind # "start",
           NEW s \in Requests, s.kind # "start", work' = [work EXCEPT ![t] = Append(RemoveAt(@, i), s)],
           NEW p, p = page[t], NEW q, page' = [page EXCEPT ![t] = q],
           q.hosts = p.hosts \/ (q.hosts = None /\ "stray" \in risks'),
           \/ q.visit = p.visit \/ Web(t) \/ "stray" \in risks'
           \/ \A j \in DOMAIN work[t] \ {i} : work[t][j].kind # "start"
    PROVE  GamesInv'
<1>1. Typed
  BY TabSays
<1>2. Traffic(t, {i}, Len(work[t]), s)
  BY <1>1, IsTakenAndSent
<1>3. Quiet(t, {i}, Len(work[t]), s, p, q)
  BY <1>2 DEF Quiet, Step
<1>4. QED
  BY <1>3, QuietGames

\* A page is sent to the game it asked for, which keeps its number.
LEMMA HostedGames ==
    ASSUME Follows, NEW t \in Tabs, NEW i \in DOMAIN work[t], Alone, Taken(t, i), UNCHANGED risks,
           NEW r, r = work[t][i], r.kind = "start", r.answer = "ok",
           NEW p, p = page[t], NEW q, page' = [page EXCEPT ![t] = q],
           q.hosts = [pin |-> r.pin, id |-> r.id]
    PROVE  GamesInv'
<1>1. /\ Typed /\ Starts \in Nat /\ page'[t] = q /\ \A u \in Tabs \ {t} : page'[u] = page[u]
      /\ r \in Requests /\ \A u \in Tabs : Web(u)' = Web(u) /\ User(u)' = User(u)
  <2>1. Typed /\ Starts \in Nat /\ r \in Requests
    BY TabSays, FollowsSays
  <2>2. page \in [Tabs -> PageStates]
    BY DEF Follows, GamesInv, DeletedInv, BaseInv, TypesHold
  <2>3. page'[t] = q /\ \A u \in Tabs \ {t} : page'[u] = page[u]
    BY <2>2
  <2>4. \A u \in Tabs : Web(u)' = Web(u) /\ User(u)' = User(u)
    BY DEF Follows, Web, User
  <2>5. QED
    BY <2>1, <2>2, <2>3, <2>4
<1>2. Traffic(t, {i}, 0, None) /\ 0 \notin DOMAIN work'[t]
  BY <1>1, IsTaken DEF Taken
<1>3. PICK m : Moved(t, {i}, 0, None, m)
  BY <1>2 DEF Traffic
<1>4. Step(t, {i}, 0, None, p, q) /\ Starts' = Starts
  BY <1>2 DEF Step, Alone, Starts
<1>5. UNCHANGED <<games, lobby, latest>> /\ GamesInv /\ KeepsStarting
  BY DEF Alone, Follows
<1>6. NamesOwnGame'
  BY <1>5, NamesStay DEF GamesInv
<1>7. \A u \in Tabs : KeptFor(page[u]) /\ \A j \in DOMAIN work[u] : Kept(work[u][j])
  BY <1>5 DEF KeptFor, Kept
<1>8. GameOf(t, p, r)
  BY <1>5 DEF GamesInv
<1>9. r.pin \in Pins /\ r.id \in Nat
  BY <1>1 DEF Requests
<1>10. q.hosts \in Hosts /\ q.hosts # None /\ q.hosts.id = r.id /\ q.hosts.pin = r.pin
  BY <1>9, NoneIsNothing DEF Hosts
<1>11. Hosted(q)'
  BY <1>1, <1>4, <1>5, <1>8, <1>9, <1>10 DEF GameOf, Hosted
<1>12. ASSUME NEW u \in Tabs, NEW j \in DOMAIN work[u], u # t \/ j # i PROVE Distinct(risks, t, r, u, work[u][j])
  BY <1>5, <1>12 DEF GamesInv
<1>13. ASSUME NEW j \in DOMAIN work[t] \ {i}, work[t][j].kind = "start", "stray" \notin risks' PROVE FALSE
  BY <1>12, <1>13 DEF Distinct
<1>14. ASSUME NEW u \in Tabs, NEW j \in DOMAIN work[u], u # t \/ j # i PROVE Other(q, work[u][j])
  BY <1>10, <1>12, <1>14 DEF Distinct, Other
<1>15. ASSUME "stray" \notin risks', NEW u \in Users, lobby'[u] # None PROVE Offered(u)'
  <2>1. PICK v \in Tabs :
           /\ User(v) = u
           /\ \/ page[v].hosts # None /\ page[v].hosts.pin = lobby[u]
              \/ \E j \in DOMAIN work[v] : Hosting(work[v][j], lobby[u])
    BY <1>5, <1>15 DEF GamesInv, Offered
  <2>2. CASE page[v].hosts # None /\ page[v].hosts.pin = lobby[u]
    <3>1. v # t
      BY <1>8, <1>15, <2>2 DEF GameOf
    <3>2. QED
      BY <1>1, <1>5, <2>1, <2>2, <3>1 DEF Offered
  <2>3. ASSUME NEW j \in DOMAIN work[v], Hosting(work[v][j], lobby[u]) PROVE Offered(u)'
    <3>1. CASE v = t /\ j = i
      BY <1>1, <1>5, <1>10, <2>1, <2>3, <3>1 DEF Offered, Hosting
    <3>2. CASE v # t \/ j # i
      <4>1. PICK k \in DOMAIN work'[v] : work'[v][k] = work[v][j]
        BY <1>3, <2>3, <3>2 DEF Moved
      <4>2. Hosting(work'[v][k], lobby'[u])
        BY <1>5, <2>3, <4>1
      <4>3. QED
        BY <1>1, <2>1, <4>1, <4>2 DEF Offered, Hosting
    <3>3. QED
      BY <3>1, <3>2
  <2>4. QED
    BY <2>1, <2>2, <2>3
<1>16. QED
  BY <1>2, <1>4, <1>6, <1>7, <1>11, <1>13, <1>14, <1>15, GamesFrame

\* The answer to a start: the game, the login, or an error.
LEMMA StartedGames ==
    ASSUME Follows, NEW t \in Tabs, NEW i \in DOMAIN work[t], Alone, NEW r, r = work[t][i], r.kind = "start",
           (Web(t) /\ Started(t, i, r)) \/ (~Web(t) /\ LegacyStarted(t, i, r))
    PROVE  GamesInv'
<1>1. PICK p : p = page[t]
  OBVIOUS
<1>2. /\ p \in PageStates /\ p.visit + 1 \in Nat /\ p.deleted \in SUBSET Items /\ page = [page EXCEPT ![t] = p]
      /\ r \in Requests /\ GameOf(t, p, r) /\ Taken(t, i) /\ risks' = risks
  BY <1>1, TabSays DEF Started, LegacyStarted
<1>3. CASE r.answer = "ok" /\ page' = [page EXCEPT ![t] = Leave(t, "admin", [pin |-> r.pin, id |-> r.id])]
  <2>1. PICK hosts : hosts = [pin |-> r.pin, id |-> r.id]
    OBVIOUS
  <2>2. r.pin \in Pins /\ r.id \in Nat
    BY <1>2, <1>3 DEF Requests
  <2>3. hosts \in Hosts \cup {None}
    BY <2>1, <2>2 DEF Hosts
  <2>4. PICK q : q = Leaving("admin", hosts, p.visit + 1, p.deleted)
    OBVIOUS
  <2>a. PICK visit, deleted : visit = p.visit + 1 /\ deleted = p.deleted
    OBVIOUS
  <2>b. visit \in Nat /\ deleted \in SUBSET Items /\ q = Leaving("admin", hosts, visit, deleted)
    BY <1>2, <2>4, <2>a
  <2>5. q.hosts = hosts
    BY <2>3, <2>b, LeavingShape
  <2>6. page' = [page EXCEPT ![t] = q]
    BY <1>1, <1>3, <2>1, <2>4 DEF Leave, Leaving
  <2>7. /\ Taken(t, i) /\ UNCHANGED risks /\ r.answer = "ok" /\ page' = [page EXCEPT ![t] = q] /\ p = page[t]
        /\ q.hosts = [pin |-> r.pin, id |-> r.id]
    BY <1>1, <1>2, <1>3, <2>1, <2>5, <2>6
  <2>8. QED
    BY <2>7, HostedGames, ZenonT(60)
<1>4. ASSUME r.answer # "ok", page' = [page EXCEPT ![t] = Leave(t, "login", None)] PROVE GamesInv'
  <2>1. PICK hosts \in Hosts \cup {None} : hosts = None
    OBVIOUS
  <2>2. PICK q : q = Leaving("login", hosts, p.visit + 1, p.deleted)
    OBVIOUS
  <2>3. q.hosts = None
    BY <1>2, <2>1, <2>2, LeavingShape
  <2>4. page' = [page EXCEPT ![t] = q]
    BY <1>1, <1>4, <2>1, <2>2 DEF Leave, Leaving
  <2>5. q.hosts = p.hosts \/ (q.hosts = None /\ "stray" \in risks')
    BY <1>2, <2>3 DEF GameOf
  <2>6. ASSUME "stray" \notin risks', NEW j \in DOMAIN work[t] \ {i} PROVE work[t][j].kind # "start"
    <3>1. Distinct(risks, t, r, t, work[t][j])
      BY <2>6 DEF Follows, GamesInv
    <3>2. QED
      BY <1>2, <2>6, <3>1 DEF Distinct
  <2>7. Takes(t, i, p, q)
    BY <1>1, <1>2, <1>4, <2>4, <2>6, <2>5 DEF Takes
  <2>8. QED
    BY <2>7, TakesGames
<1>5. ASSUME r.answer # "ok", NEW q, q.hosts = p.hosts, q.visit = p.visit, page' = [page EXCEPT ![t] = q]
      PROVE  GamesInv'
  <2>1. Takes(t, i, p, q)
    BY <1>1, <1>2, <1>5 DEF Takes
  <2>2. QED
    BY <2>1, TakesGames
<1>6. CASE r.answer # "ok" /\ page' = [page EXCEPT ![t] = [page[t] EXCEPT !.pending = 0, !.error = TRUE]]
  <2>1. PICK q : q = [p EXCEPT !.pending = 0, !.error = TRUE]
    OBVIOUS
  <2>2. q.hosts = p.hosts /\ q.visit = p.visit
    BY <1>2, <2>1 DEF PageStates
  <2>3. QED
    BY <1>1, <1>5, <1>6, <2>1, <2>2
<1>7. CASE r.answer # "ok" /\ page' = page
  BY <1>2, <1>5, <1>7
<1>8. QED
  BY <1>3, <1>4, <1>6, <1>7 DEF Started, LegacyStarted, Put

\* The answers that change what is shown of the open page.
LEMMA ShownGames ==
    ASSUME Follows, NEW t \in Tabs, NEW i \in DOMAIN work[t], Alone, NEW r, r = work[t][i], r.kind # "start",
           \/ Listed(t, i, r) \/ LegacyListed(t, i, r) \/ Viewed(t, i, r) \/ RatingTaken(t, i, r)
           \/ Removed(t, i, r) /\ r.answer # "ok"
    PROVE  GamesInv'
<1>1. PICK p : p = page[t]
  OBVIOUS
<1>2. p \in PageStates /\ page = [page EXCEPT ![t] = p]
  BY <1>1, TabSays
<1>3. ASSUME Taken(t, i), NEW q, q.hosts = p.hosts, q.visit = p.visit, page' = [page EXCEPT ![t] = q]
      PROVE  GamesInv'
  <2>1. Takes(t, i, p, q)
    BY <1>1, <1>3 DEF Takes
  <2>2. QED
    BY <2>1, TakesGames
<1>4. CASE Listed(t, i, r)
  <2>1. PICK d, q :
           /\ d = [p EXCEPT !.removing = FALSE, !.dialog = IF p.removing THEN "none" ELSE @]
           /\ q = IF r.answer = "ok" THEN [d EXCEPT !.stage = "list", !.items = r.list]
                  ELSE [d EXCEPT !.stage = "error"]
    OBVIOUS
  <2>2. page' = [page EXCEPT ![t] = q] /\ Taken(t, i)
    BY <1>1, <1>4, <2>1 DEF Listed, Put
  <2>3. q.hosts = p.hosts /\ q.visit = p.visit
    BY <1>2, <2>1 DEF PageStates
  <2>4. QED
    BY <1>3, <2>2, <2>3
<1>5. CASE LegacyListed(t, i, r)
  <2>1. PICK q : q = IF r.answer = "ok" THEN [p EXCEPT !.stage = "list", !.items = r.list]
                     ELSE [p EXCEPT !.stage = "stuck"]
    OBVIOUS
  <2>2. page' = [page EXCEPT ![t] = q] /\ Taken(t, i)
    BY <1>1, <1>5, <2>1 DEF LegacyListed, Put
  <2>3. q.hosts = p.hosts /\ q.visit = p.visit
    BY <1>2, <2>1 DEF PageStates
  <2>4. QED
    BY <1>3, <2>2, <2>3
<1>6. CASE Viewed(t, i, r)
  <2>1. PICK stage, seen, q :
           /\ stage = (CASE r.answer # "ok" -> "error" [] r.answer = "ok" -> scene.ui[t])
           /\ seen = (IF r.answer = "ok" THEN r.row ELSE None)
           /\ q = [p EXCEPT !.stage = stage, !.seen = seen]
    OBVIOUS
  <2>2. page' = [page EXCEPT ![t] = q] /\ Taken(t, i)
    BY <1>1, <1>6, <2>1 DEF Viewed, Put
  <2>3. q.hosts = p.hosts /\ q.visit = p.visit
    BY <1>2, <2>1 DEF PageStates
  <2>4. QED
    BY <1>3, <2>2, <2>3
<1>7. CASE RatingTaken(t, i, r)
  <2>1. PICK q : q = IF r.answer = "ok" THEN [p EXCEPT !.seen = Cast(@, r.likes)] ELSE p
    OBVIOUS
  <2>2. page' = [page EXCEPT ![t] = q] /\ Taken(t, i)
    BY <1>1, <1>7, <2>1 DEF RatingTaken, Put
  <2>3. q.hosts = p.hosts /\ q.visit = p.visit
    BY <1>2, <2>1 DEF PageStates
  <2>4. QED
    BY <1>3, <2>2, <2>3
<1>8. CASE Removed(t, i, r) /\ r.answer # "ok"
  <2>1. PICK q : q = [p EXCEPT !.removing = FALSE, !.dialog = "none"]
    OBVIOUS
  <2>2. page' = [page EXCEPT ![t] = q] /\ Taken(t, i)
    BY <1>1, <1>8, <2>1 DEF Removed, Settled, Put
  <2>3. q.hosts = p.hosts /\ q.visit = p.visit
    BY <1>2, <2>1 DEF PageStates
  <2>4. QED
    BY <1>3, <2>2, <2>3
<1>9. QED
  BY <1>4, <1>5, <1>6, <1>7, <1>8

\* After a deletion the list is fetched again: the legacy page is loaded again for it.
LEMMA RemovedGames ==
    ASSUME Follows, NEW t \in Tabs, NEW i \in DOMAIN work[t], Alone, NEW r, r = work[t][i], r.kind = "delete",
           NEW p, p = page[t], Current(p, r),
           (Web(t) /\ Removed(t, i, r)) \/ (Legacy(t) /\ Reloaded(t, i, r))
    PROVE  GamesInv'
<1>1. /\ p \in PageStates /\ p.visit \in Nat /\ page = [page EXCEPT ![t] = p] /\ p.deleted \in SUBSET Items
      /\ r \in Requests /\ \A j \in DOMAIN work[t] : GameOf(t, p, work[t][j])
  BY TabSays
<1>2. CASE Web(t) /\ Removed(t, i, r) /\ r.answer = "ok"
  <2>1. PICK q, s : q = [p EXCEPT !.deleted = @ \cup {r.item}] /\ s = Request(t, "list", None)
    OBVIOUS
  <2>2. page' = [page EXCEPT ![t] = q] /\ work' = [work EXCEPT ![t] = Append(RemoveAt(@, i), s)]
    BY <1>2, <2>1 DEF Removed, Put
  <2>3. q.hosts = p.hosts /\ q.visit = p.visit
    BY <1>1, <2>1 DEF PageStates
  <2>4. AskedFor(Request(t, "list", None), "list", None, p.visit)
    BY <1>1, RequestShape
  <2>5. s \in Requests /\ s.kind # "start"
    BY <2>1, <2>4 DEF AskedFor
  <2>6. QED
    BY <2>2, <2>3, <2>5, TakesAndAsksGames
<1>3. CASE Web(t) /\ Removed(t, i, r) /\ r.answer # "ok"
  BY <1>3, ShownGames
<1>4. CASE Legacy(t) /\ Reloaded(t, i, r)
  <2>1. PICK deleted, q, s :
           /\ deleted = (IF r.answer = "ok" THEN p.deleted \cup {r.item} ELSE p.deleted)
           /\ q = Reopening("loading", p.visit + 1, deleted)
           /\ s = [Request(t, "list", None) EXCEPT !.visit = @ + 1]
    OBVIOUS
  <2>2. /\ page' = [page EXCEPT ![t] = q] /\ work' = [work EXCEPT ![t] = Append(RemoveAt(@, i), s)]
        /\ Stray(Starting(t))
    BY <1>4, <2>1 DEF Reloaded, Put, Reopening
  <2>3. r.item \in Items
    BY <1>1, SameRow
  <2>4. q.hosts = None
    <3>1. deleted \in SUBSET Items /\ p.visit + 1 \in Nat
      BY <1>1, <2>1, <2>3
    <3>2. QED
      BY <2>1, <3>1, ReopeningShape
  <2>5. p.hosts = None
    <3>1. Sent(t, p, r)
      BY TypesSay DEF Follows, GamesInv, DeletedInv
    <3>2. QED
      BY <3>1 DEF Sent
  <2>6. AskedFor(s, "list", None, p.visit + 1)
    BY <1>1, <2>1, RequestShape
  <2>7. s \in Requests /\ s.kind # "start"
    BY <2>6 DEF AskedFor
  <2>8. ASSUME "stray" \notin risks', NEW j \in DOMAIN work[t] \ {i}, work[t][j].kind = "start" PROVE FALSE
    <3>1. "stray" \notin risks /\ ~Starting(t)
      BY <2>2, <2>8 DEF Stray
    <3>2. Current(p, work[t][j]) \/ Web(t)
      BY <1>1, <2>8, <3>1 DEF GameOf
    <3>3. QED
      BY <2>8, <3>1, <3>2 DEF Starting, Current
  <2>9. QED
    BY <2>2, <2>4, <2>5, <2>7, <2>8, TakesAndAsksGames
<1>5. QED
  BY <1>2, <1>3, <1>4

\* Whatever answer reaches a page.
LEMMA ArrivesGames ==
    ASSUME Follows, NEW t \in Tabs, Arrives(t)
    PROVE  GamesInv'
<1>1. PICK i, r, p :
         /\ i \in DOMAIN work[t] /\ r = work[t][i] /\ p = page[t] /\ r.stage = "done"
         /\ \/ /\ r.visit # p.visit /\ ~(Web(t) /\ r.kind = "start") /\ Ignored(t, i, r)
            \/ /\ r.visit = p.visit \/ (Web(t) /\ r.kind = "start")
               /\ \/ r.kind = "list" /\ Web(t) /\ Listed(t, i, r)
                  \/ r.kind = "list" /\ Legacy(t) /\ LegacyListed(t, i, r)
                  \/ r.kind = "delete" /\ Web(t) /\ Removed(t, i, r)
                  \/ r.kind = "delete" /\ Legacy(t) /\ Reloaded(t, i, r)
                  \/ r.kind = "start" /\ Web(t) /\ Started(t, i, r)
                  \/ r.kind = "start" /\ ~Web(t) /\ LegacyStarted(t, i, r)
                  \/ r.kind = "view" /\ Viewed(t, i, r)
                  \/ r.kind = "rate" /\ RatingTaken(t, i, r)
                  \/ r.kind = "save" /\ Ignored(t, i, r)
  BY Zenon DEF Arrives
<1>2. Alone
  BY DEF Arrives, server, Alone
<1>3. /\ page = [page EXCEPT ![t] = p] /\ GameOf(t, p, r)
  BY <1>1, TabSays
<1>4. ASSUME Ignored(t, i, r), r.kind = "start" => r.visit # p.visit /\ ~Web(t) PROVE GamesInv'
  <2>1. Taken(t, i) /\ page' = [page EXCEPT ![t] = p] /\ risks' = risks
    BY <1>3, <1>4 DEF Ignored
  <2>2. r.kind = "start" => "stray" \in risks'
    BY <1>3, <1>4, <2>1 DEF GameOf, Current
  <2>3. Takes(t, i, p, p)
    BY <1>1, <1>2, <2>1, <2>2 DEF Takes
  <2>4. QED
    BY <2>3, TakesGames
<1>5. CASE r.kind = "start" /\ ((Web(t) /\ Started(t, i, r)) \/ (~Web(t) /\ LegacyStarted(t, i, r)))
  BY <1>1, <1>2, <1>5, StartedGames
<1>6. CASE r.visit = p.visit /\ r.kind = "delete" /\ ((Web(t) /\ Removed(t, i, r)) \/ (Legacy(t) /\ Reloaded(t, i, r)))
  BY <1>1, <1>2, <1>6, RemovedGames DEF Current
<1>7. ASSUME r.kind # "start", Listed(t, i, r) \/ LegacyListed(t, i, r) \/ Viewed(t, i, r) \/ RatingTaken(t, i, r)
      PROVE  GamesInv'
  BY <1>1, <1>2, <1>7, ShownGames
<1>8. QED
  BY <1>1, <1>4, <1>5, <1>6, <1>7

\* Games that change while no page and no request does.
LEMMA StillGames ==
    ASSUME Follows, UNCHANGED <<page, work, risks>>, Starts' = Starts, NamesOwnGame',
           \A u \in Tabs : KeptFor(page[u]) /\ \A j \in DOMAIN work[u] : Kept(work[u][j]),
           \A u \in Users : lobby'[u] # None => lobby'[u] = lobby[u]
    PROVE  GamesInv'
<1>1. \A u \in Tabs : Web(u)' = Web(u) /\ User(u)' = User(u)
  BY DEF Follows, Web, User
<1>2. GamesInv /\ DeletedInv'
  BY DEF Follows
<1>3. ASSUME NEW t \in Tabs PROVE Hosted(page[t])'
  <2>1. Hosted(page[t]) /\ KeptFor(page[t])
    BY <1>2 DEF GamesInv
  <2>2. QED
    BY <2>1 DEF Hosted, KeptFor
<1>4. ASSUME NEW t \in Tabs, NEW i \in DOMAIN work[t] PROVE GameOf(t, page[t], work[t][i])'
  <2>1. GameOf(t, page[t], work[t][i]) /\ Kept(work[t][i])
    BY <1>2, <1>4 DEF GamesInv
  <2>2. QED
    BY <1>1, <2>1 DEF GameOf, Kept, Current
<1>5. \A t, u \in Tabs : \A i \in DOMAIN work[u] : Other(page[t], work[u][i])'
  BY <1>2 DEF GamesInv, Other
<1>6. ASSUME NEW t \in Tabs, NEW u \in Tabs, NEW i \in DOMAIN work[t], NEW j \in DOMAIN work[u], t # u \/ i # j
      PROVE  Distinct(risks, t, work[t][i], u, work[u][j])'
  <2>1. Distinct(risks, t, work[t][i], u, work[u][j])
    BY <1>2, <1>6 DEF GamesInv
  <2>2. QED
    BY <2>1 DEF Distinct
<1>7. ASSUME "stray" \notin risks', NEW u \in Users, lobby'[u] # None PROVE Offered(u)'
  <2>1. Offered(u) /\ lobby'[u] = lobby[u]
    BY <1>2, <1>7 DEF GamesInv
  <2>2. QED
    BY <1>1, <2>1 DEF Offered, Hosting
<1>8. QED
  BY <1>2, <1>3, <1>4, <1>5, <1>6, <1>7 DEF GamesInv

\* The host starts the game, which stays the one it is and is offered no more.
LEMMA HostStartsGames ==
    ASSUME Follows, NEW t \in Tabs, HostStarts(t)
    PROVE  GamesInv'
<1>1. PICK pin : pin = page[t].hosts.pin
  OBVIOUS
<1>2. pin \in Pins /\ games[pin] # None /\ Stores /\ page[t].hosts # None /\ Hosted(page[t])
  <2>1. page[t].hosts # None
    BY DEF HostStarts
  <2>2. page[t].hosts.pin \in Pins /\ games[page[t].hosts.pin] # None /\ Stores
    BY <2>1, TypesSay DEF Follows, GamesInv, DeletedInv
  <2>3. QED
    BY <1>1, <2>1, <2>2 DEF Follows, GamesInv
<1>3. PICK g, h : g = games[pin] /\ h = [g EXCEPT !.started = TRUE]
  OBVIOUS
<1>4. g \in Games /\ h.id = g.id /\ h.user = g.user /\ h.item = g.item /\ h \in Games /\ h # None
  BY <1>2, <1>3, NoneIsNothing DEF Stores, Games
<1>5. games'[pin] = h /\ \A o \in Pins : o # pin => games'[o] = games[o]
  <2>1. games' = [games EXCEPT ![pin] = h]
    BY <1>1, <1>2, <1>3 DEF HostStarts, Stores
  <2>2. QED
    BY <1>2, <2>1 DEF Stores
<1>6. lobby' = lobby /\ starting' = starting \cup {<<pin, g.user>>}
  BY <1>1, <1>3 DEF HostStarts
<1>7. UNCHANGED <<page, work, risks, latest, count>>
  BY DEF HostStarts
<1>8. NamesOwnGame'
  <2>1. NamesOwnGame
    BY DEF Follows, GamesInv
  <2>2. ASSUME "race" \notin risks, NEW u \in Users, lobby[u] # None
        PROVE  /\ games'[lobby[u]] # None /\ games'[lobby[u]].user = u
               /\ games'[lobby[u]].started => <<lobby[u], u>> \in starting'
    <3>1. PICK o \in Pins : o = lobby[u]
      BY <1>2, <2>2 DEF Stores
    <3>2. games[o] # None /\ games[o].user = u /\ (games[o].started => <<o, u>> \in starting)
      BY <2>1, <2>2, <3>1 DEF NamesOwnGame
    <3>3. CASE o = pin
      BY <1>3, <1>4, <1>5, <1>6, <3>1, <3>2, <3>3
    <3>4. CASE o # pin
      BY <1>5, <1>6, <3>1, <3>2, <3>4
    <3>5. QED
      BY <3>3, <3>4
  <2>3. ASSUME "race" \notin risks, NEW u \in Users, NEW x \in Items, latest[u][x] # None
        PROVE  games'[latest[u][x]] # None /\ games'[latest[u][x]].user = u /\ games'[latest[u][x]].item = x
    <3>1. PICK o \in Pins : o = latest[u][x]
      BY <1>2, <2>3 DEF Stores
    <3>2. games[o] # None /\ games[o].user = u /\ games[o].item = x
      BY <2>1, <2>3, <3>1 DEF NamesOwnGame
    <3>3. games'[o] # None /\ games'[o].user = u /\ games'[o].item = x
      BY <1>3, <1>4, <1>5, <3>2
    <3>4. QED
      BY <3>1, <3>3
  <2>4. QED
    BY <1>6, <1>7, <2>2, <2>3 DEF NamesOwnGame
<1>9. \A o \in Pins : games'[o].id = games[o].id
  BY <1>3, <1>4, <1>5
<1>10. ASSUME NEW u \in Tabs PROVE KeptFor(page[u])
  <2>1. page[u].hosts # None => page[u].hosts.pin \in Pins
    BY TypesSay DEF Follows, GamesInv, DeletedInv
  <2>2. QED
    BY <1>9, <2>1 DEF KeptFor
<1>11. ASSUME NEW u \in Tabs, NEW j \in DOMAIN work[u] PROVE Kept(work[u][j])
  <2>1. PICK r \in Requests : r = work[u][j]
    BY TypesSay DEF Follows, GamesInv, DeletedInv
  <2>2. GameOf(u, page[u], r) /\ Other(page[t], r)
    BY <2>1 DEF Follows, GamesInv
  <2>3. ASSUME "race" \notin risks, r.kind = "start", r.stage \in {"pinned", "stored"} \/ r.answer = "ok"
        PROVE  games'[r.pin] = games[r.pin]
    <3>1. r.pin \in Pins
      BY <2>1, <2>3 DEF Requests
    <3>2. games[pin].id = page[t].hosts.id
      BY <1>1, <1>2, <2>3 DEF Hosted
    <3>3. r.pin # pin
      <4>1. CASE r.stage = "pinned"
        BY <1>2, <2>2, <2>3, <4>1 DEF GameOf
      <4>2. CASE r.stage # "pinned"
        BY <1>2, <2>2, <2>3, <3>2, <4>2 DEF GameOf, Other
      <4>3. QED
        BY <4>1, <4>2
    <3>4. QED
      BY <1>5, <3>1, <3>3
  <2>4. QED
    BY <1>7, <2>1, <2>3 DEF Kept
<1>12. \A u \in Users : lobby'[u] # None => lobby'[u] = lobby[u]
  BY <1>6
<1>13. Starts' = Starts
  BY <1>7 DEF Starts
<1>14. QED
  BY <1>7, <1>8, <1>10, <1>11, <1>12, <1>13, StillGames

\* It is named no more, and nothing else changes.
LEMMA StartGameGames ==
    ASSUME Follows, NEW u \in Users, NEW p \in Pins, StartGame(u, p)
    PROVE  GamesInv'
<1>1. lobby \in [Users -> Pins \cup {None}] /\ NamesOwnGame /\ KeepsStarting
  BY DEF Follows, GamesInv, DeletedInv, BaseInv, TypesHold
<1>2. UNCHANGED <<page, work, risks, games, latest, count>> /\ Starts' = Starts
  BY DEF StartGame, Starts
<1>3. \A v \in Users : lobby'[v] # None => lobby'[v] = lobby[v]
  BY <1>1 DEF StartGame
<1>4. NamesOwnGame'
  BY <1>1, <1>2, <1>3, NamesStay
<1>5. \A v \in Tabs : KeptFor(page[v]) /\ \A j \in DOMAIN work[v] : Kept(work[v][j])
  BY <1>2 DEF KeptFor, Kept
<1>6. QED
  BY <1>2, <1>3, <1>4, <1>5, StillGames

\* Leaving the page of a waiting game is excused; otherwise what is offered is
\* hosted elsewhere, since this page asks for no other game.
LEMMA LeaveHostGames ==
    ASSUME Follows, NEW t \in Tabs, LeaveHost(t)
    PROVE  GamesInv'
<1>1. PICK p : p = page[t]
  OBVIOUS
<1>2. PICK q : PageStep(t, {}, 0, None, p, q) /\ q.hosts = None /\ 0 \notin DOMAIN work'[t]
  BY <1>1, LeaveHostShape DEF Follows, GamesInv
<1>3. Step(t, {}, 0, None, p, q)
  BY <1>2 DEF PageStep, Step
<1>4. Alone /\ Starts' = Starts
  BY DEF LeaveHost, Rest, server, Alone, Starts
<1>5. "stray" \in risks' \/ lobby[User(t)] # p.hosts.pin
  BY <1>1 DEF LeaveHost, Stray
<1>6. CASE "stray" \in risks'
  <2>1. Quiet(t, {}, 0, None, p, q)
    BY <1>2, <1>3, <1>4, <1>6 DEF Quiet
  <2>2. QED
    BY <2>1, QuietGames
<1>7. CASE "stray" \notin risks'
  <2>1. /\ NamesOwnGame /\ KeepsStarting /\ risks \subseteq risks' /\ p.hosts # None
        /\ UNCHANGED <<games, lobby, latest>> /\ page' = [page EXCEPT ![t] = q] /\ work' = work
    BY <1>1, <1>3, <1>4 DEF Follows, GamesInv, LeaveHost, Alone, Step
  <2>2. page'[t] = q /\ (\A u \in Tabs \ {t} : page'[u] = page[u]) /\ \A u \in Tabs : User(u)' = User(u)
    BY <1>1, <2>1, FollowsSays
  <2>3. \A j \in DOMAIN work[t] : work[t][j].kind # "start"
    BY <1>1, <1>7, <2>1 DEF Follows, GamesInv, GameOf
  <2>4. NamesOwnGame'
    BY <2>1, NamesStay
  <2>5. \A u \in Tabs : KeptFor(page[u]) /\ \A j \in DOMAIN work[u] : Kept(work[u][j])
    BY <2>1 DEF KeptFor, Kept
  <2>6. Hosted(q)' /\ \A u \in Tabs : \A j \in DOMAIN work[u] : Other(q, work[u][j])
    BY <1>2 DEF Hosted, Other
  <2>7. ASSUME NEW u \in Users, lobby[u] # None PROVE Offered(u)'
    <3>1. PICK v \in Tabs :
             /\ User(v) = u
             /\ \/ page[v].hosts # None /\ page[v].hosts.pin = lobby[u]
                \/ \E j \in DOMAIN work[v] : Hosting(work[v][j], lobby[u])
      BY <1>7, <2>1, <2>7 DEF Follows, GamesInv, Offered
    <3>2. v # t
      BY <1>1, <1>5, <1>7, <2>3, <3>1 DEF Hosting
    <3>3. page'[v] = page[v] /\ User(v)' = u
      BY <2>2, <3>1, <3>2
    <3>4. QED
      BY <2>1, <3>1, <3>3 DEF Offered, Hosting
  <2>8. QED
    BY <1>2, <1>3, <2>1, <2>3, <2>4, <2>5, <2>6, <2>7, GamesFrame
<1>8. QED
  BY <1>6, <1>7

\* What expires is offered no more, and nothing else changes.
LEMMA ExpiresGames ==
    ASSUME Follows, NEW u \in Users, LobbyExpires(u) \/ SessionExpires(u)
    PROVE  GamesInv'
<1>1. /\ count \in [Bounds -> Nat] /\ lobby \in [Users -> Pins \cup {None}] /\ NamesOwnGame /\ KeepsStarting
  BY DEF Follows, GamesInv, DeletedInv, BaseInv, TypesHold
<1>2. UNCHANGED <<page, work, risks, games, latest>> /\ Bump("expire")
  BY DEF LobbyExpires, SessionExpires, server
<1>3. Starts' = Starts
  BY <1>1, <1>2, CountsOther DEF Bounds, Starts
<1>4. \A v \in Users : lobby'[v] # None => lobby'[v] = lobby[v]
  BY <1>1 DEF LobbyExpires, SessionExpires, server
<1>5. NamesOwnGame'
  BY <1>1, <1>2, <1>4, NamesStay
<1>6. \A v \in Tabs : KeptFor(page[v]) /\ \A j \in DOMAIN work[v] : Kept(work[v][j])
  BY <1>2 DEF KeptFor, Kept
<1>7. QED
  BY <1>2, <1>3, <1>4, <1>5, <1>6, StillGames

\* A count that goes up takes no start back.
LEMMA CountsUp ==
    ASSUME count \in [Bounds -> Nat], NEW b \in Bounds, Bump(b)
    PROVE  Starts <= Starts'
<1>1. "starts" \in Bounds /\ count["starts"] \in Nat
  BY DEF Bounds
<1>2. count'["starts"] = count["starts"] \/ count'["starts"] = count["starts"] + 1
  BY <1>1 DEF Bump
<1>3. QED
  BY <1>1, <1>2 DEF Starts

\* What excuses a property is not forgotten by a handler.
LEMMA HandleRisks ==
    ASSUME NEW t \in Tabs, Handle(t)
    PROVE  risks \subseteq risks'
<1>1. PICK i, r : Handles(t, i, r)
  BY Zenon DEF Handle, Handles
<1>2. \A x : Hold(x) => risks \subseteq risks'
  BY DEF Hold
<1>3. List(t, i, r) => risks' = risks
  BY DEF List
<1>4. View(t, i, r) \/ Save(t, i, r) => risks \subseteq risks'
  BY <1>2 DEF View, Save
<1>5. StartQuiz(t, i, r) => risks \subseteq risks'
  BY <1>2 DEF StartQuiz
<1>6. Rate(t, i, r) => risks \subseteq risks'
  BY <1>2 DEF Rate
<1>7. QED
  BY <1>1, <1>3, <1>4, <1>5, <1>6 DEF Handles

\* The scene stays, and what is counted or excused is not forgotten.
Onwards == scene' = scene /\ risks \subseteq risks' /\ Starts <= Starts'

\* Every step of the system keeps what all steps keep.
LEMMA NextOnwards ==
    ASSUME DeletedInv, [Next]_vars
    PROVE  Onwards
<1>1. count \in [Bounds -> Nat] /\ Starts \in Nat
  BY DEF DeletedInv, BaseInv, TypesHold, Starts, Bounds
<1>2. ASSUME scene' = scene, risks \subseteq risks', count' = count PROVE Onwards
  BY <1>1, <1>2 DEF Starts, Onwards
<1>3. ASSUME scene' = scene, risks \subseteq risks', NEW b \in Bounds, Bump(b) PROVE Onwards
  BY <1>1, <1>3, CountsUp DEF Onwards
<1>4. \A b : Stray(b) => risks \subseteq risks'
  BY DEF Stray
<1>5. ASSUME NEW t \in Tabs, Handle(t) \/ Arrives(t) \/ Fails(t) \/ HostStarts(t) \/ LeaveHost(t) PROVE Onwards
  <2>1. CASE Handle(t)
    BY <1>2, <2>1, HandleRisks DEF Handle
  <2>2. CASE Arrives(t)
    <3>1. risks \subseteq risks'
      BY <1>4, <2>2 DEF Arrives, Ignored, Listed, LegacyListed, Removed, Reloaded, Started, LegacyStarted, Viewed,
                        RatingTaken
    <3>2. QED
      BY <1>2, <2>2, <3>1 DEF Arrives
  <2>3. CASE Fails(t)
    <3>1. risks \subseteq risks' /\ "fail" \in Bounds
      BY <2>3 DEF Fails, Bounds
    <3>2. QED
      BY <1>3, <2>3, <3>1 DEF Fails
  <2>4. CASE HostStarts(t)
    BY <1>2, <2>4 DEF HostStarts
  <2>5. CASE LeaveHost(t)
    BY <1>2, <1>4, <2>5 DEF LeaveHost, Rest
  <2>6. QED
    BY <1>5, <2>1, <2>2, <2>3, <2>4, <2>5
<1>6. ASSUME NEW t \in Tabs,
             \/ CloseDialog(t) \/ LegacyClose(t) \/ \E dialog \in Dialogs : ViewPopup(t, dialog)
             \/ \E x \in Items, dialog \in Dialogs : DashboardItemCard(t, x, dialog) \/ LegacyCard(t, x, dialog)
      PROVE  Onwards
  BY <1>2, <1>6, ZenonT(60) DEF CloseDialog, LegacyClose, ViewPopup, DashboardItemCard, LegacyCard, Rest
<1>7. ASSUME NEW t \in Tabs, OpenPage(t) PROVE Onwards
  <2>1. Rest /\ UNCHANGED risks /\ Bump("visits") /\ "visits" \in Bounds
    BY <1>7 DEF OpenPage, Open, Bounds
  <2>2. QED
    BY <1>3, <2>1 DEF Rest
<1>8. ASSUME NEW t \in Tabs, StartForm(t) \/ LegacyStart(t) PROVE Onwards
  <2>1. Rest /\ (\E b : Stray(b)) /\ Bump("starts") /\ "starts" \in Bounds
    BY <1>8 DEF StartForm, LegacyStart, Bounds
  <2>2. QED
    BY <1>3, <1>4, <2>1 DEF Rest
<1>9. ASSUME NEW t \in Tabs, ConfirmDelete(t) \/ \E x \in Items : LegacyDelete(t, x) PROVE Onwards
  <2>1. Rest /\ UNCHANGED risks /\ Bump("deletes") /\ "deletes" \in Bounds
    BY <1>9 DEF ConfirmDelete, LegacyDelete, Bounds
  <2>2. QED
    BY <1>3, <2>1 DEF Rest
<1>10. ASSUME NEW t \in Tabs, \E x \in Items : SaveEdit(t, x) PROVE Onwards
  <2>1. Rest /\ UNCHANGED risks /\ Bump("saves") /\ "saves" \in Bounds
    BY <1>10 DEF SaveEdit, Bounds
  <2>2. QED
    BY <1>3, <2>1 DEF Rest
<1>11. ASSUME NEW t \in Tabs, \E likes \in BOOLEAN : RatingComponent(t, likes) PROVE Onwards
  <2>1. Rest /\ risks \subseteq risks' /\ Bump("rates") /\ "rates" \in Bounds
    BY <1>11 DEF RatingComponent, Bounds
  <2>2. QED
    BY <1>3, <2>1 DEF Rest
<1>a. ASSUME NEW u \in Users, NEW p \in Pins, StartGame(u, p) PROVE Onwards
  BY <1>2, <1>a DEF StartGame
<1>12. ASSUME NEW u \in Users, LobbyExpires(u) \/ SessionExpires(u) PROVE Onwards
  <2>1. scene' = scene /\ UNCHANGED risks /\ Bump("expire") /\ "expire" \in Bounds
    BY <1>12 DEF LobbyExpires, SessionExpires, Bounds
  <2>2. QED
    BY <1>3, <2>1
<1>13. ASSUME Practise \/ UNCHANGED vars PROVE Onwards
  <2>1. scene' = scene /\ risks' = risks /\ count' = count
    BY <1>13 DEF Practise, vars
  <2>2. QED
    BY <1>2, <2>1
<1>14. Onwards
  <2>1. CASE Next
    BY <1>5, <1>6, <1>7, <1>8, <1>9, <1>10, <1>11, <1>a, <1>12, <1>13, <2>1, ZenonT(60) DEF Next
  <2>2. QED
    BY <1>13, <2>1
<1>15. QED
  BY <1>14

\* So what a step of one tab has to be shown for follows.
LEMMA NextFollows ==
    ASSUME GamesInv, [Next]_vars
    PROVE  Follows
BY NextDeleted, NextOnwards, NextKeepsStarting DEF Follows, GamesInv, Onwards

\* Every step keeps the invariant.
LEMMA NextGames == GamesInv /\ [Next]_vars => GamesInv'
<1> SUFFICES ASSUME GamesInv, [Next]_vars PROVE GamesInv'
  OBVIOUS
<1>1. Follows
  BY NextFollows
<1>2. ASSUME NEW t \in Tabs, Handle(t) \/ Arrives(t) \/ Fails(t) \/ HostStarts(t) \/ LeaveHost(t) PROVE GamesInv'
  BY <1>1, <1>2, HandleGames, ArrivesGames, FailsGames, HostStartsGames, LeaveHostGames
<1>3. ASSUME NEW t \in Tabs, OpenPage(t) \/ StartForm(t) \/ LegacyStart(t) PROVE GamesInv'
  BY <1>1, <1>3, OpenPageGames, StartButtonGames
<1>4. ASSUME NEW t \in Tabs,
             \/ CloseDialog(t) \/ LegacyClose(t) \/ \E dialog \in Dialogs : ViewPopup(t, dialog)
             \/ \E x \in Items, dialog \in Dialogs : DashboardItemCard(t, x, dialog) \/ LegacyCard(t, x, dialog)
      PROVE  GamesInv'
  BY <1>1, <1>4, DialogsGames
<1>5. ASSUME NEW t \in Tabs,
             \/ ConfirmDelete(t) \/ \E x \in Items : LegacyDelete(t, x) \/ SaveEdit(t, x)
             \/ \E likes \in BOOLEAN : RatingComponent(t, likes)
      PROVE  GamesInv'
  BY <1>1, <1>5, PressGames
<1>6. ASSUME NEW u \in Users, LobbyExpires(u) \/ SessionExpires(u) \/ \E p \in Pins : StartGame(u, p)
      PROVE  GamesInv'
  BY <1>1, <1>6, ExpiresGames, StartGameGames
<1>7. CASE UNCHANGED <<games, lobby, latest, page, work, risks, count>>
  <2>1. Starts' = Starts
    BY <1>7 DEF Starts
  <2>2. NamesOwnGame'
    BY <1>1, <1>7, NamesStay DEF Follows, GamesInv
  <2>3. \A u \in Tabs : KeptFor(page[u]) /\ \A j \in DOMAIN work[u] : Kept(work[u][j])
    BY <1>7 DEF KeptFor, Kept
  <2>4. QED
    BY <1>1, <1>7, <2>1, <2>2, <2>3, StillGames
<1>8. CASE Practise
  BY <1>7, <1>8 DEF Practise, server
<1>9. CASE UNCHANGED vars
  BY <1>7, <1>9 DEF vars, server
<1>10. CASE Next
  BY <1>2, <1>3, <1>4, <1>5, <1>6, <1>8, <1>10 DEF Next
<1>11. QED
  BY <1>9, <1>10

\* At first nobody hosts a game or starts one.
LEMMA InitGames == Init => GamesInv
<1> SUFFICES ASSUME Init PROVE GamesInv
  OBVIOUS
<1>1. DeletedInv
  BY InitDeleted
<1>2. \A t \in Tabs : page[t].hosts = None /\ DOMAIN work[t] = {}
  <2>1. page = [t \in Tabs |-> ClosedPage] /\ work = [t \in Tabs |-> <<>>]
    BY DEF Init
  <2>2. QED
    BY <2>1, ClosedShape
<1>3. \A u \in Users : lobby[u] = None /\ \A x \in Items : latest[u][x] = None
  BY DEF Init
<1>4. QED
  BY <1>1, <1>2, <1>3 DEF GamesInv, NamesOwnGame, Hosted, Other

\* The invariant implies the property: when no start of a user is under way,
\* what is offered to their remote is hosted already.
LEMMA GamesInvKeeps == GamesInv => GamesKeepTheirHosts
<1> SUFFICES ASSUME GamesInv PROVE GamesKeepTheirHosts
  OBVIOUS
<1>1. HostsKeepTheirPins
  BY DEF GamesInv, Hosted, HostsKeepTheirPins
<1>2. RemoteJoinsHosted
  BY DEF GamesInv, Offered, Hosting, RemoteJoinsHosted, InFlight
<1>3. QED
  BY <1>1, <1>2 DEF GamesInv, GamesKeepTheirHosts

\* In every behaviour of the catalogue, whatever tabs, pins, users, scenes and
\* bounds there are, a hosted game keeps its pin, what Redis names as somebody's
\* game is theirs, and the remote is offered one that is hosted, apart from the
\* races and stray starts that the property names.
THEOREM GamesAlwaysKeepTheirHosts == CatalogueSpec => []GamesKeepTheirHosts
BY InitGames, NextGames, GamesInvKeeps, PTL DEF CatalogueSpec

-----------------------------------------------------------------------------
(* The rows. *)

\* A handler that has the row it will write, and one that rates.
Holds(r)  == r.stage \in Writing
Rating(r) == r.kind = "rate" /\ r.stage # "done"

\* What each user's rating of each quiz is, unless both excuses are there.
Clear(bad) == ~({"overlap", "twice"} \subseteq bad)

One(b) == IF b THEN 1 ELSE 0

\* A row against what was done, of which a handler of a request of this kind
\* does one more: it has none of it too many, and all of it.
AtMost(row, d, kind) ==
    /\ row.text <= d.text + One(kind = "save") /\ row.views <= d.views + One(kind = "view")
    /\ row.plays <= d.plays + One(kind = "start")
AllOf(row, d, kind) ==
    /\ row.text = d.text + One(kind = "save") /\ row.views = d.views + One(kind = "view")
    /\ row.plays = d.plays + One(kind = "start")

\* A row against the rating rows of x.
Counted(row, x) == row.likes = RatingsOf(x, TRUE) /\ row.dislikes = RatingsOf(x, FALSE)

\* What the handler of r, a request of t, holds.
RowKept(t, r) ==
    /\ Holds(r) => AtMost(r.row, done[r.item], r.kind)
    /\ Holds(r) /\ "overlap" \notin risks => AllOf(r.row, done[r.item], r.kind) /\ Counted(r.row, r.item)
    /\ Clear(risks) =>
          /\ r.stage = "old" => ratings[User(t)][r.item] = <<~r.likes>>
          /\ r.stage = "new" => ratings[User(t)][r.item] = <<>>

\* Two requests hold rows of two quizzes, and are of two users if both rate.
Apart(bad, t, r, u, s) ==
    /\ "overlap" \notin bad /\ Holds(r) /\ Holds(s) => r.item # s.item
    /\ "twice" \notin bad /\ Rating(r) /\ Rating(s) => User(t) # User(u)

\* Somebody has changed the ratings of x and not its counters.
Pending(x) == \E t \in Tabs : \E i \in DOMAIN work[t] : work[t][i].item = x /\ work[t][i].stage \in {"new", "kept"}

OneEach == Clear(risks) => \A u \in Users, x \in Items : Len(ratings[u][x]) <= 1
AllCounted == "overlap" \notin risks => \A x \in Items : db[x] # None /\ ~Pending(x) => Counted(db[x], x)

RowsInv ==
    /\ DeletedInv /\ NothingIsUndone /\ OneEach /\ AllCounted
    /\ \A t \in Tabs : \A i \in DOMAIN work[t] : RowKept(t, work[t][i])
    /\ \A t, u \in Tabs : \A i \in DOMAIN work[t], j \in DOMAIN work[u] :
          t # u \/ i # j => Apart(risks, t, work[t][i], u, work[u][j])

(***************************************************************************)
(* How many ratings there are                                              *)
(***************************************************************************)

\* The users who rate x like this, with the place of the rating in their list.
Raters(f, x, likes) == UNION {{u} \X {i \in DOMAIN f[u][x] : f[u][x][i] = likes} : u \in Users}

\* There are finitely many ratings of a quiz.
LEMMA FewRaters ==
    ASSUME NEW f \in [Users -> [Items -> Seq(BOOLEAN)]], NEW x \in Items, NEW b
    PROVE  IsFiniteSet(Raters(f, x, b))
<1>1. ASSUME NEW u \in Users PROVE IsFiniteSet({u} \X {i \in DOMAIN f[u][x] : f[u][x][i] = b})
  <2>1. PICK n \in Nat : DOMAIN f[u][x] = 1 .. n
    <3>1. f[u][x] \in Seq(BOOLEAN)
      BY <1>1
    <3>2. Len(f[u][x]) \in Nat /\ DOMAIN f[u][x] = 1 .. Len(f[u][x])
      BY <3>1
    <3>3. QED
      BY <3>2
  <2>2. IsFiniteSet({i \in DOMAIN f[u][x] : f[u][x][i] = b})
    BY <2>1, FS_Interval, FS_Subset
  <2>3. QED
    BY <2>2, FS_Singleton, FS_Product
<1>2. PICK S, T : /\ S = {"teacher"} \X {i \in DOMAIN f["teacher"][x] : f["teacher"][x][i] = b}
                  /\ T = {"reader"} \X {i \in DOMAIN f["reader"][x] : f["reader"][x][i] = b}
  OBVIOUS
<1>3. IsFiniteSet(S) /\ IsFiniteSet(T)
  BY <1>1, <1>2 DEF Users
<1>4. Raters(f, x, b) = S \cup T
  BY <1>2 DEF Raters, Users
<1>5. QED
  BY <1>3, <1>4, FS_Union

\* The user u has not rated x in f, and in g rates it so: one rater more.
RatesFirst(f, g, u, x, a) ==
    /\ f \in [Users -> [Items -> Seq(BOOLEAN)]] /\ g \in [Users -> [Items -> Seq(BOOLEAN)]]
    /\ f[u][x] = <<>> /\ g[u][x] = <<a>> /\ \A v \in Users \ {u} : g[v][x] = f[v][x]
OneMore(f, g, x, a) ==
    /\ Cardinality(Raters(g, x, a)) = Cardinality(Raters(f, x, a)) + 1
    /\ \A b \in BOOLEAN : b # a => Raters(g, x, b) = Raters(f, x, b)
    /\ Cardinality(Raters(f, x, a)) \in Nat

\* Who has not rated x before and rates it now is one more rater of it.
LEMMA OneMoreRater ==
    ASSUME NEW f, NEW g, NEW u \in Users, NEW x \in Items, NEW a \in BOOLEAN, RatesFirst(f, g, u, x, a)
    PROVE  OneMore(f, g, x, a)
<1>0. /\ f \in [Users -> [Items -> Seq(BOOLEAN)]] /\ g \in [Users -> [Items -> Seq(BOOLEAN)]]
      /\ f[u][x] = <<>> /\ g[u][x] = <<a>> /\ \A v \in Users \ {u} : g[v][x] = f[v][x]
  BY DEF RatesFirst
<1>1. ASSUME NEW b \in BOOLEAN, NEW v \in Users, NEW i
      PROVE  /\ <<v, i>> \in Raters(f, x, b) <=> v # u /\ i \in DOMAIN f[v][x] /\ f[v][x][i] = b
             /\ <<v, i>> \in Raters(g, x, b) <=>
                   (v # u /\ i \in DOMAIN f[v][x] /\ f[v][x][i] = b) \/ (v = u /\ i = 1 /\ a = b)
  <2>1. DOMAIN f[u][x] = {} /\ DOMAIN g[u][x] = {1} /\ g[u][x][1] = a
    BY <1>0
  <2>2. /\ <<v, i>> \in Raters(f, x, b) <=> i \in DOMAIN f[v][x] /\ f[v][x][i] = b
        /\ <<v, i>> \in Raters(g, x, b) <=> i \in DOMAIN g[v][x] /\ g[v][x][i] = b
    BY DEF Raters
  <2>3. QED
    BY <1>0, <2>1, <2>2
<1>2. ASSUME NEW b \in BOOLEAN, NEW e, e \in Raters(f, x, b) \/ e \in Raters(g, x, b)
      PROVE  \E v \in Users : \E i : e = <<v, i>>
  BY <1>2 DEF Raters
<1>3. Raters(g, x, a) = Raters(f, x, a) \cup {<<u, 1>>} /\ <<u, 1>> \notin Raters(f, x, a)
  <2>1. ASSUME NEW e, e \in Raters(g, x, a) PROVE e \in Raters(f, x, a) \cup {<<u, 1>>}
    <3>1. PICK v, i : v \in Users /\ e = <<v, i>>
      BY <1>2, <2>1
    <3>2. QED
      BY <1>1, <2>1, <3>1
  <2>2. ASSUME NEW e, e \in Raters(f, x, a) PROVE e \in Raters(g, x, a)
    <3>1. PICK v, i : v \in Users /\ e = <<v, i>>
      BY <1>2, <2>2
    <3>2. QED
      BY <1>1, <2>2, <3>1
  <2>3. <<u, 1>> \in Raters(g, x, a) /\ <<u, 1>> \notin Raters(f, x, a)
    BY <1>1
  <2>4. QED
    BY <2>1, <2>2, <2>3
<1>4. ASSUME NEW b \in BOOLEAN, b # a PROVE Raters(g, x, b) = Raters(f, x, b)
  <2>2. ASSUME NEW e, e \in Raters(g, x, b) PROVE e \in Raters(f, x, b)
    <3>1. PICK v, i : v \in Users /\ e = <<v, i>>
      BY <1>2, <1>4, <2>2
    <3>2. QED
      BY <1>1, <1>4, <2>2, <3>1
  <2>3. ASSUME NEW e, e \in Raters(f, x, b) PROVE e \in Raters(g, x, b)
    <3>1. PICK v, i : v \in Users /\ e = <<v, i>>
      BY <1>2, <1>4, <2>3
    <3>2. QED
      BY <1>1, <1>4, <2>3, <3>1
  <2>4. QED
    BY <2>2, <2>3
<1>5. QED
  BY <1>0, <1>3, <1>4, FewRaters, FS_AddElement, FS_CardinalityType DEF OneMore

(***************************************************************************)
(* A step of one tab                                                       *)
(***************************************************************************)

\* What is known of a step before it is looked at.
Keeps == RowsInv /\ DeletedInv' /\ Onwards

\* The request j of u is another one than those of t that go.
Left(t, gone, u, j) == u \in Tabs /\ j \in DOMAIN work[u] /\ (u # t \/ j \notin gone)

\* What the others hold is still right.
LeftKept(t, gone) ==
    \A u \in Tabs : \A j \in DOMAIN work[u] : \A r : r = work[u][j] /\ Left(t, gone, u, j) => RowKept(u, r)'

\* And s can be beside them.
LeftApart(t, gone, s) ==
    \A u \in Tabs : \A j \in DOMAIN work[u] : Left(t, gone, u, j) => Apart(risks', t, s, u, work[u][j])

\* What the types say.
LEMMA KeepsSays ==
    ASSUME Keeps
    PROVE  /\ Typed /\ Stores /\ Stores' /\ risks \subseteq risks' /\ scene' = scene
           /\ \A t \in Tabs : User(t) \in Users /\ User(t)' = User(t) /\ \A j \in DOMAIN work[t] : work[t][j] \in Requests
           /\ Clear(risks') => Clear(risks)
<1>1. DeletedInv /\ DeletedInv' /\ risks \subseteq risks' /\ scene' = scene
  BY DEF Keeps, RowsInv, Onwards
<1>2. Typed /\ Stores /\ scene.user \in [Tabs -> Users]
  BY <1>1, CatalogueAssumption, SMTT(60) DEF DeletedInv, BaseInv, TypesHold, Typed, Stores
<1>3. Stores'
  BY <1>1, SMTT(60) DEF DeletedInv, BaseInv, TypesHold, Stores
<1>4. \A t \in Tabs : User(t) \in Users /\ User(t)' = User(t) /\ \A j \in DOMAIN work[t] : work[t][j] \in Requests
  BY <1>1, <1>2 DEF User, Typed
<1>5. Clear(risks') => Clear(risks)
  BY <1>1 DEF Clear
<1>6. QED
  BY <1>1, <1>2, <1>3, <1>4, <1>5

\* A step of one tab keeps the invariant if it leaves what the others hold
\* right, and what it sends or gets on with is apart from them.
LEMMA RowsFrame ==
    ASSUME Keeps, NEW t \in Tabs, NEW gone, NEW n, NEW s, Traffic(t, gone, n, s),
           NothingIsUndone', OneEach', AllCounted', LeftKept(t, gone),
           n \in DOMAIN work'[t] => RowKept(t, s)' /\ LeftApart(t, gone, s)
    PROVE  RowsInv'
<1>0. PICK m : Moved(t, gone, n, s, m)
  BY DEF Traffic
<1>1. /\ risks \subseteq risks' /\ DeletedInv' /\ RowsInv
      /\ \A u \in Tabs : User(u)' = User(u)
  BY KeepsSays DEF Keeps
<1>2. ASSUME NEW u \in Tabs, NEW k \in DOMAIN work'[u], u # t \/ k # n
      PROVE  \E j \in DOMAIN work[u] : Left(t, gone, u, j) /\ work'[u][k] = work[u][j] /\ j = (IF u = t THEN m[k] ELSE k)
  BY <1>0, <1>2 DEF Moved, Left
<1>3. ASSUME NEW u \in Tabs, NEW k \in DOMAIN work'[u] PROVE RowKept(u, work[u][k])'
  <2>1. CASE u = t /\ k = n
    <3>1. work'[u][k] = s /\ RowKept(u, s)'
      BY <1>0, <1>3, <2>1 DEF Moved
    <3>2. QED
      BY <3>1 DEF RowKept
  <2>2. CASE u # t \/ k # n
    <3>1. PICK r, j : j \in DOMAIN work[u] /\ r = work[u][j] /\ Left(t, gone, u, j) /\ work'[u][k] = r
      BY <1>2, <1>3, <2>2
    <3>2. RowKept(u, r)'
      BY <3>1 DEF LeftKept
    <3>3. QED
      BY <3>1, <3>2 DEF RowKept
  <2>3. QED
    BY <2>1, <2>2
<1>4. ASSUME NEW u \in Tabs, NEW v \in Tabs, NEW i \in DOMAIN work'[u], NEW j \in DOMAIN work'[v], u # v \/ i # j
      PROVE  Apart(risks, u, work[u][i], v, work[v][j])'
  <2>1. CASE u = t /\ i = n
    <3>1. PICK b \in DOMAIN work[v] : Left(t, gone, v, b) /\ work'[v][j] = work[v][b]
      BY <1>2, <1>4, <2>1
    <3>2. work'[u][i] = s /\ Apart(risks', t, s, v, work[v][b])
      BY <1>0, <1>4, <2>1, <3>1 DEF Moved, LeftApart
    <3>3. QED
      BY <1>1, <2>1, <3>1, <3>2 DEF Apart
  <2>2. CASE v = t /\ j = n
    <3>1. PICK a \in DOMAIN work[u] : Left(t, gone, u, a) /\ work'[u][i] = work[u][a]
      BY <1>2, <1>4, <2>2
    <3>2. work'[v][j] = s /\ Apart(risks', t, s, u, work[u][a])
      BY <1>0, <1>4, <2>2, <3>1 DEF Moved, LeftApart
    <3>3. QED
      BY <1>1, <2>2, <3>1, <3>2 DEF Apart
  <2>3. CASE (u # t \/ i # n) /\ (v # t \/ j # n)
    <3>1. PICK a \in DOMAIN work[u] : work'[u][i] = work[u][a] /\ a = (IF u = t THEN m[i] ELSE i)
      BY <1>2, <1>4, <2>3
    <3>2. PICK b \in DOMAIN work[v] : work'[v][j] = work[v][b] /\ b = (IF v = t THEN m[j] ELSE j)
      BY <1>2, <1>4, <2>3
    <3>3. u # v \/ a # b
      BY <1>0, <1>4, <2>3, <3>1, <3>2 DEF Moved
    <3>4. Apart(risks, u, work[u][a], v, work[v][b])
      BY <1>1, <3>3 DEF RowsInv
    <3>5. QED
      BY <1>1, <3>1, <3>2, <3>4 DEF Apart
  <2>4. QED
    BY <2>1, <2>2, <2>3
<1>5. QED
  BY <1>1, <1>3, <1>4 DEF RowsInv

\* What is rated stays, and with it what is counted.
LEMMA RatingsStay ==
    ASSUME ratings' = ratings
    PROVE  \A x, b : RatingsOf(x, b)' = RatingsOf(x, b)
BY DEF RatingsOf

\* What is rated of a quiz that nobody leaves half counted.
LEMMA PendingStays ==
    ASSUME NEW t \in Tabs, NEW gone, NEW n, NEW s, Traffic(t, gone, n, s), NEW x, Pending(x),
           \A j \in DOMAIN work[t] : j \in gone /\ work[t][j].stage \in {"new", "kept"} => work[t][j].item # x
    PROVE  Pending(x)'
<1>1. PICK m : Moved(t, gone, n, s, m)
  BY DEF Traffic
<1>2. PICK u, j : u \in Tabs /\ j \in DOMAIN work[u] /\ work[u][j].item = x /\ work[u][j].stage \in {"new", "kept"}
  BY DEF Pending
<1>3. \E k \in DOMAIN work'[u] : work'[u][k] = work[u][j]
  BY <1>1, <1>2 DEF Moved
<1>4. QED
  BY <1>2, <1>3 DEF Pending

\* The ratings and what was done stay, and no row is written.
Calm(t, gone, n, s) ==
    /\ Traffic(t, gone, n, s) /\ UNCHANGED <<ratings, done>>
    /\ \A x \in Items : db'[x] \in {db[x], None}
    /\ \A j \in DOMAIN work[t] : j \in gone /\ work[t][j].stage \in {"new", "kept"} => db'[work[t][j].item] = None

\* Such a step only has to be right about the request s.
LEMMA CalmRows ==
    ASSUME Keeps, NEW t \in Tabs, NEW gone, NEW n, NEW s, Calm(t, gone, n, s),
           n \in DOMAIN work'[t] => RowKept(t, s)' /\ LeftApart(t, gone, s)
    PROVE  RowsInv'
<1>1. /\ Traffic(t, gone, n, s) /\ ratings' = ratings /\ done' = done
      /\ \A x \in Items : db'[x] \in {db[x], None}
  BY DEF Calm
<1>2. /\ RowsInv /\ risks \subseteq risks' /\ \A u \in Tabs : User(u)' = User(u)
      /\ Clear(risks') => Clear(risks)
  BY KeepsSays DEF Keeps
<1>3. NothingIsUndone'
  <2>1. NothingIsUndone
    BY <1>2 DEF RowsInv
  <2>2. QED
    BY <1>1, <1>2, <2>1 DEF NothingIsUndone
<1>4. OneEach'
  BY <1>1, <1>2 DEF RowsInv, OneEach
<1>5. AllCounted'
  <2>1. ASSUME "overlap" \notin risks', NEW x \in Items, db'[x] # None, ~Pending(x)'
        PROVE  Counted(db[x], x)'
    <3>1. db'[x] = db[x]
      BY <1>1, <2>1
    <3>2. ~Pending(x)
      BY <1>1, <2>1, PendingStays DEF Calm
    <3>3. Counted(db[x], x)
      BY <1>2, <2>1, <3>1, <3>2 DEF RowsInv, AllCounted
    <3>4. QED
      BY <1>1, <3>1, <3>3, RatingsStay DEF Counted
  <2>2. QED
    BY <2>1 DEF AllCounted
<1>6. LeftKept(t, gone)
  <2>1. ASSUME NEW u \in Tabs, NEW r, RowKept(u, r) PROVE RowKept(u, r)'
    BY <1>1, <1>2, <2>1, RatingsStay DEF RowKept, Counted, Holds
  <2>2. \A u \in Tabs : \A j \in DOMAIN work[u] : RowKept(u, work[u][j])
    BY <1>2 DEF RowsInv
  <2>3. QED
    BY <2>1, <2>2 DEF LeftKept
<1>7. QED
  BY <1>1, <1>3, <1>4, <1>5, <1>6, RowsFrame

\* A request that holds no row, and rates as another did, if at all.
Plain(t, gone, s) ==
    /\ ~Holds(s)
    /\ Rating(s) /\ "twice" \notin risks' => \A u \in Tabs : \A j \in DOMAIN work[u] :
          Left(t, gone, u, j) /\ Rating(work[u][j]) => User(t) # User(u)

\* Nothing has to be right about it.
LEMMA PlainRows ==
    ASSUME Keeps, NEW t \in Tabs, NEW gone, NEW n, NEW s, Calm(t, gone, n, s), n \in DOMAIN work'[t] => Plain(t, gone, s)
    PROVE  RowsInv'
<1>1. Plain(t, gone, s) => RowKept(t, s)' /\ LeftApart(t, gone, s)
  BY DEF Plain, RowKept, Holds, Writing, LeftApart, Apart
<1>2. QED
  BY <1>1, CalmRows

\* A step that changes no row, no rating and no request.
LEMMA StillRows ==
    ASSUME Keeps, UNCHANGED <<db, ratings, done, work, risks>>
    PROVE  RowsInv'
<1>1. RowsInv /\ DeletedInv' /\ \A u \in Tabs : User(u)' = User(u)
  BY KeepsSays DEF Keeps
<1>2. NothingIsUndone' /\ OneEach'
  BY <1>1 DEF RowsInv, NothingIsUndone, OneEach
<1>3. AllCounted'
  BY <1>1, RatingsStay DEF RowsInv, AllCounted, Pending, Counted
<1>4. ASSUME NEW t \in Tabs, NEW i \in DOMAIN work[t] PROVE RowKept(t, work[t][i])'
  <2>1. RowKept(t, work[t][i])
    BY <1>1, <1>4 DEF RowsInv
  <2>2. QED
    BY <1>1, <2>1, RatingsStay DEF RowKept, Counted, Holds
<1>5. ASSUME NEW t \in Tabs, NEW u \in Tabs, NEW i \in DOMAIN work[t], NEW j \in DOMAIN work[u], t # u \/ i # j
      PROVE  Apart(risks, t, work[t][i], u, work[u][j])'
  <2>1. Apart(risks, t, work[t][i], u, work[u][j])
    BY <1>1, <1>5 DEF RowsInv
  <2>2. QED
    BY <1>1, <2>1 DEF Apart
<1>6. QED
  BY <1>1, <1>2, <1>3, <1>4, <1>5 DEF RowsInv

(***************************************************************************)
(* The pages                                                               *)
(***************************************************************************)

\* What no page does.
Hands == UNCHANGED <<db, ratings, done>>

\* A page sends something that does not rate.
LEMMA AsksRows ==
    ASSUME Keeps, NEW t \in Tabs, Hands, NEW s \in Requests, Send(t, s), s.stage = "sent", s.kind # "rate"
    PROVE  RowsInv'
<1>1. Typed /\ work' = [work EXCEPT ![t] = Append(@, s)]
  BY KeepsSays DEF Send
<1>2. Traffic(t, {}, Len(work[t]) + 1, s)
  BY <1>1, IsSent
<1>3. Calm(t, {}, Len(work[t]) + 1, s)
  BY <1>2 DEF Calm, Hands
<1>4. Plain(t, {}, s)
  BY DEF Plain, Holds, Rating, Writing
<1>5. QED
  BY <1>3, <1>4, PlainRows

\* It takes an answer.
LEMMA TakesRows ==
    ASSUME Keeps, NEW t \in Tabs, NEW i \in DOMAIN work[t], Hands, work[t][i].stage = "done", Taken(t, i)
    PROVE  RowsInv'
<1>1. Typed
  BY KeepsSays
<1>2. Traffic(t, {i}, 0, None) /\ 0 \notin DOMAIN work'[t]
  BY <1>1, IsTaken DEF Taken
<1>3. Calm(t, {i}, 0, None)
  BY <1>2 DEF Calm, Hands
<1>4. QED
  BY <1>2, <1>3, PlainRows

\* It takes an answer, and asks for its list.
LEMMA TakesAndAsksRows ==
    ASSUME Keeps, NEW t \in Tabs, NEW i \in DOMAIN work[t], Hands, work[t][i].stage = "done",
           NEW s \in Requests, s.kind = "list", s.stage = "sent",
           work' = [work EXCEPT ![t] = Append(RemoveAt(@, i), s)]
    PROVE  RowsInv'
<1>1. Typed
  BY KeepsSays
<1>2. Traffic(t, {i}, Len(work[t]), s)
  BY <1>1, IsTakenAndSent
<1>3. Calm(t, {i}, Len(work[t]), s)
  BY <1>2 DEF Calm, Hands
<1>4. Plain(t, {i}, s)
  BY DEF Plain, Holds, Rating, Writing
<1>5. QED
  BY <1>3, <1>4, PlainRows

\* Pages that open, and all buttons but those that rate.
LEMMA PressRows ==
    ASSUME Keeps, NEW t \in Tabs,
           \/ OpenPage(t) \/ StartForm(t) \/ LegacyStart(t) \/ ConfirmDelete(t)
           \/ \E x \in Items : LegacyDelete(t, x) \/ SaveEdit(t, x)
    PROVE  RowsInv'
<1>1. PICK p : p = page[t]
  OBVIOUS
<1>2. DeletedInv /\ p \in PageStates /\ p.visit \in Nat /\ count \in [Bounds -> Nat]
  BY <1>1, TypesSay DEF Keeps, RowsInv, DeletedInv, PageStates
<1>3. ASSUME NEW kind \in {"list", "view", "delete", "start", "save"}, NEW x, NEW visit, NEW s,
             AskedFor(s, kind, x, visit), Send(t, s), Rest
      PROVE  RowsInv'
  <2>1. s \in Requests /\ s.stage = "sent" /\ s.kind # "rate"
    BY <1>3 DEF AskedFor
  <2>2. Hands
    BY <1>3 DEF Rest, server, Hands
  <2>3. QED
    BY <1>3, <2>1, <2>2, AsksRows
<1>4. CASE OpenPage(t)
  <2>1. scene.quizzes \subseteq Items
    BY <1>2, CatalogueAssumption DEF DeletedInv, BaseInv
  <2>2. PICK x \in Items \cup {None} : Open(t, x) /\ (~(Web(t) \/ Legacy(t)) => x \in Items)
    BY <1>4, <2>1 DEF OpenPage
  <2>3. PICK kind : kind = (IF Web(t) \/ Legacy(t) THEN "list" ELSE "view")
    OBVIOUS
  <2>4. Send(t, [Request(t, kind, x) EXCEPT !.visit = @ + 1]) /\ Rest
    BY <2>2, <2>3 DEF Open
  <2>5. AskedFor([Request(t, kind, x) EXCEPT !.visit = @ + 1], kind, x, p.visit + 1)
    BY <1>1, <1>2, <2>2, <2>3, RequestShape
  <2>6. QED
    BY <1>3, <2>3, <2>4, <2>5
<1>5. CASE StartForm(t) \/ LegacyStart(t)
  <2>1. p.dialog = "start" /\ Rest /\ Send(t, StartRequest(t))
    BY <1>1, <1>5 DEF StartForm, LegacyStart
  <2>2. p.item \in Items
    BY <1>2, <2>1 DEF PageStates
  <2>3. PICK id \in Nat : id = count["starts"] + 1
    BY <1>2 DEF Bounds
  <2>4. AskedFor([Request(t, "start", p.item) EXCEPT !.id = id], "start", p.item, p.visit)
    BY <1>1, <1>2, <2>2, RequestShape
  <2>5. AskedFor(StartRequest(t), "start", p.item, p.visit)
    BY <1>1, <2>3, <2>4 DEF StartRequest
  <2>6. QED
    BY <1>3, <2>1, <2>5
<1>6. CASE ConfirmDelete(t)
  <2>1. Send(t, Request(t, "delete", p.item)) /\ Rest /\ p.item \in Items
    BY <1>1, <1>2, <1>6 DEF ConfirmDelete, PageStates
  <2>2. AskedFor(Request(t, "delete", p.item), "delete", p.item, p.visit)
    BY <1>1, <1>2, <2>1, RequestShape
  <2>3. QED
    BY <1>3, <2>1, <2>2
<1>7. ASSUME NEW x \in Items, LegacyDelete(t, x) PROVE RowsInv'
  <2>1. AskedFor(Request(t, "delete", x), "delete", x, p.visit)
    BY <1>1, <1>2, RequestShape
  <2>2. QED
    BY <1>3, <1>7, <2>1 DEF LegacyDelete
<1>8. ASSUME NEW x \in Items, SaveEdit(t, x) PROVE RowsInv'
  <2>1. AskedFor(Request(t, "save", x), "save", x, p.visit)
    BY <1>1, <1>2, RequestShape
  <2>2. QED
    BY <1>3, <1>8, <2>1 DEF SaveEdit
<1>9. QED
  BY <1>4, <1>5, <1>6, <1>7, <1>8

\* A user who rates twice at once is excused.
LEMMA RatingRows ==
    ASSUME Keeps, NEW t \in Tabs, NEW likes \in BOOLEAN, RatingComponent(t, likes)
    PROVE  RowsInv'
<1>1. PICK p : p = page[t]
  OBVIOUS
<1>2. p \in PageStates /\ p.visit \in Nat /\ Typed
  BY <1>1, TypesSay DEF Keeps, RowsInv, DeletedInv, PageStates
<1>3. PICK s : s = [Request(t, "rate", p.item) EXCEPT !.likes = likes]
  OBVIOUS
<1>4. Send(t, s) /\ Rest /\ p.item \in Items
  BY <1>1, <1>2, <1>3 DEF RatingComponent, PageStates
<1>5. s \in Requests /\ s.stage = "sent"
  <2>1. AskedFor([Request(t, "rate", p.item) EXCEPT !.likes = likes], "rate", p.item, p.visit)
    BY <1>1, <1>2, <1>4, RequestShape, ZenonT(60)
  <2>2. QED
    BY <1>3, <2>1 DEF AskedFor
<1>6. Calm(t, {}, Len(work[t]) + 1, s)
  <2>1. Traffic(t, {}, Len(work[t]) + 1, s)
    BY <1>2, <1>4, <1>5, IsSent DEF Send
  <2>2. QED
    BY <1>4, <2>1 DEF Calm, Rest, server
<1>7. Plain(t, {}, s)
  <2>1. ASSUME "twice" \notin risks', NEW u \in Tabs, NEW j \in DOMAIN work[u], Rating(work[u][j])
        PROVE  User(t) # User(u)
    <3>1. ~InFlight(LAMBDA v, r : r.kind = "rate" /\ User(v) = User(t) /\ r.stage # "done")
      BY <2>1 DEF RatingComponent
    <3>2. ~(work[u][j].kind = "rate" /\ User(u) = User(t) /\ work[u][j].stage # "done")
      BY <2>1, <3>1 DEF InFlight
    <3>3. QED
      BY <2>1, <3>2 DEF Rating
  <2>2. ~Holds(s)
    BY <1>5 DEF Holds, Writing
  <2>3. QED
    BY <2>1, <2>2 DEF Plain
<1>8. QED
  BY <1>6, <1>7, PlainRows

\* Whatever answer reaches a page.
LEMMA ArrivesRows ==
    ASSUME Keeps, NEW t \in Tabs, Arrives(t)
    PROVE  RowsInv'
<1>1. PICK i, r :
         /\ i \in DOMAIN work[t] /\ r = work[t][i] /\ r.stage = "done"
         /\ \/ Ignored(t, i, r) \/ Listed(t, i, r) \/ LegacyListed(t, i, r) \/ Removed(t, i, r) \/ Reloaded(t, i, r)
            \/ Started(t, i, r) \/ LegacyStarted(t, i, r) \/ Viewed(t, i, r) \/ RatingTaken(t, i, r)
  BY Zenon DEF Arrives
<1>2. Hands
  BY DEF Arrives, server, Hands
<1>3. page[t].visit \in Nat
  BY TypesSay DEF Keeps, RowsInv, DeletedInv, PageStates
<1>4. \/ Taken(t, i)
      \/ work' = [work EXCEPT ![t] = Append(RemoveAt(@, i), Request(t, "list", None))]
      \/ work' = [work EXCEPT ![t] = Append(RemoveAt(@, i), [Request(t, "list", None) EXCEPT !.visit = @ + 1])]
  BY <1>1 DEF Ignored, Listed, LegacyListed, Removed, Reloaded, Started, LegacyStarted, Viewed, RatingTaken
<1>5. CASE Taken(t, i)
  BY <1>1, <1>2, <1>5, TakesRows
<1>6. ASSUME NEW visit, NEW s, AskedFor(s, "list", None, visit), work' = [work EXCEPT ![t] = Append(RemoveAt(@, i), s)]
      PROVE  RowsInv'
  <2>1. s \in Requests /\ s.kind = "list" /\ s.stage = "sent"
    BY <1>6 DEF AskedFor
  <2>2. QED
    BY <1>1, <1>2, <1>6, <2>1, TakesAndAsksRows
<1>7. /\ AskedFor(Request(t, "list", None), "list", None, page[t].visit)
      /\ AskedFor([Request(t, "list", None) EXCEPT !.visit = @ + 1], "list", None, page[t].visit + 1)
  BY <1>3, RequestShape
<1>8. QED
  BY <1>4, <1>5, <1>6, <1>7

\* A request or an answer is lost.
LEMMA FailsRows ==
    ASSUME Keeps, NEW t \in Tabs, Fails(t)
    PROVE  RowsInv'
<1>1. PICK i, r, s : /\ i \in DOMAIN work[t] /\ r = work[t][i] /\ s = Ended(r, "failed") /\ Finish(t, i, "failed")
                     /\ r.stage \in {"sent", "done"}
  BY DEF Fails
<1>2. r \in Requests /\ Typed
  BY <1>1, KeepsSays
<1>3. s \in Requests /\ s.stage = "done"
  <2>1. "failed" \in Answers /\ "failed" # "ok"
    BY DEF Answers
  <2>2. QED
    BY <1>1, <1>2, <2>1, IsEnded, ZenonT(60)
<1>4. Traffic(t, {i}, i, s)
  <2>1. Typed /\ i \in DOMAIN work[t] /\ s \in Requests
    BY <1>1, <1>2, <1>3
  <2>2. work' = [work EXCEPT ![t][i] = s]
    BY <1>1 DEF Finish, Advance, Ended
  <2>3. QED
    BY <2>1, <2>2, GoesOn, ZenonT(60)
<1>5. Calm(t, {i}, i, s)
  BY <1>1, <1>4 DEF Calm, Fails, server
<1>6. Plain(t, {i}, s)
  BY <1>3 DEF Plain, Holds, Rating, Writing
<1>7. QED
  BY <1>5, <1>6, PlainRows

(***************************************************************************)
(* The handlers                                                            *)
(***************************************************************************)

\* The handler of r, the request i of t, goes on: it becomes s.
GoesOnAs(t, i, r, s) ==
    /\ i \in DOMAIN work[t] /\ r = work[t][i] /\ r \in Requests /\ r.stage # "done"
    /\ s \in Requests /\ Same(r, s) /\ Advance(t, i, s)

\* What is known of it, and of the others.
LEMMA GoesOnSays ==
    ASSUME Keeps, NEW t \in Tabs, NEW i, NEW r, NEW s, GoesOnAs(t, i, r, s)
    PROVE  /\ Traffic(t, {i}, i, s) /\ i \in DOMAIN work'[t] /\ work'[t][i] = s
           /\ RowKept(t, r) /\ LeftApart(t, {i}, r) /\ Left(t, {}, t, i)
           /\ \A u \in Tabs : \A j \in DOMAIN work[u] : work[u][j] \in Requests /\ RowKept(u, work[u][j])
           /\ r.kind # "list" => r.item \in Items
<1>1. Typed /\ i \in DOMAIN work[t] /\ s \in Requests /\ work' = [work EXCEPT ![t][i] = s]
  BY KeepsSays DEF GoesOnAs, Advance
<1>2. Traffic(t, {i}, i, s) /\ i \in DOMAIN work'[t] /\ work'[t][i] = s
  BY <1>1, GoesOn, ZenonT(60)
<1>3. RowsInv /\ risks \subseteq risks' /\ \A u \in Tabs : \A j \in DOMAIN work[u] : work[u][j] \in Requests
  BY KeepsSays DEF Keeps
<1>4. \A u \in Tabs : \A j \in DOMAIN work[u] : RowKept(u, work[u][j])
  BY <1>3 DEF RowsInv
<1>5. ASSUME NEW u \in Tabs, NEW j \in DOMAIN work[u], Left(t, {i}, u, j) PROVE Apart(risks', t, r, u, work[u][j])
  <2>1. Apart(risks, t, r, u, work[u][j])
    BY <1>1, <1>3, <1>5 DEF RowsInv, Left, GoesOnAs
  <2>2. QED
    BY <1>3, <2>1 DEF Apart
<1>6. r.kind # "list" => r.item \in Items
  BY SameRow DEF GoesOnAs
<1>7. QED
  BY <1>1, <1>2, <1>3, <1>4, <1>5, <1>6 DEF LeftApart, Left, GoesOnAs

\* A handler that is done, or has no row yet or any more, while the rows stay.
LEMMA QuietRows ==
    ASSUME Keeps, NEW t \in Tabs, NEW i, NEW r, NEW s, GoesOnAs(t, i, r, s), UNCHANGED <<ratings, done>>,
           \A x \in Items : db'[x] \in {db[x], None}, ~Holds(s),
           r.stage \in {"new", "kept"} => db'[r.item] = None
    PROVE  RowsInv'
<1>1. Traffic(t, {i}, i, s) /\ LeftApart(t, {i}, r) /\ r = work[t][i]
  BY GoesOnSays DEF GoesOnAs
<1>2. Calm(t, {i}, i, s)
  BY <1>1 DEF Calm
<1>3. Plain(t, {i}, s)
  BY <1>1 DEF Plain, LeftApart, Apart, Rating, GoesOnAs, Same
<1>4. QED
  BY <1>2, <1>3, PlainRows

\* Another row than base: the one that a handler for this kind of request will write.
Grown(row, base, kind) ==
    /\ row.text = base.text + One(kind = "save") /\ row.views = base.views + One(kind = "view")
    /\ row.plays = base.plays + One(kind = "start")
    /\ row.likes = base.likes /\ row.dislikes = base.dislikes

\* What a row that grows is against what it grew from.
LEMMA GrownIsKept ==
    ASSUME NEW base \in Rows, NEW row \in Rows, NEW kind, NEW d \in [views : Nat, plays : Nat, text : Nat],
           Grown(row, base, kind)
    PROVE  /\ base.text <= d.text /\ base.views <= d.views /\ base.plays <= d.plays => AtMost(row, d, kind)
           /\ base.text = d.text /\ base.views = d.views /\ base.plays = d.plays => AllOf(row, d, kind)
BY DEF Rows, Grown, AtMost, AllOf, One

\* A handler reads the row of its quiz: it has all of it, if it is the only one.
LEMMA TakesRow ==
    ASSUME Keeps, NEW t \in Tabs, NEW i, NEW r, NEW s, GoesOnAs(t, i, r, s), r.stage = "sent", r.kind # "list",
           UNCHANGED <<db, ratings, done>>, Hold(r.item), db[r.item] # None,
           s.stage \in {"counted", "rated"}, Grown(s.row, db[r.item], r.kind)
    PROVE  RowsInv'
<1>1. PICK x \in Items : x = r.item
  BY GoesOnSays
<1>2. /\ Traffic(t, {i}, i, s) /\ LeftApart(t, {i}, r) /\ r = work[t][i] /\ RowsInv
      /\ \A u \in Tabs : \A j \in DOMAIN work[u] : work[u][j] \in Requests
  BY GoesOnSays DEF GoesOnAs, Keeps
<1>3. Same(r, s) /\ s.item = x /\ s.kind = r.kind /\ Holds(s) /\ s.row \in Rows
  BY <1>1, SameRow DEF GoesOnAs, Same, Holds, Writing
<1>4. Calm(t, {i}, i, s)
  BY <1>2 DEF Calm
<1>5. db[x] \in Rows /\ done[x] \in [views : Nat, plays : Nat, text : Nat] /\ done' = done
  BY <1>1, KeepsSays DEF Stores
<1>6. /\ db[x].text <= done[x].text /\ db[x].views <= done[x].views /\ db[x].plays <= done[x].plays
      /\ "overlap" \notin risks => db[x].text = done[x].text /\ db[x].views = done[x].views /\ db[x].plays = done[x].plays
  BY <1>1, <1>2 DEF RowsInv, NothingIsUndone
<1>7. "overlap" \notin risks' => risks' = risks /\ ~Overlaps(x)
  BY <1>1 DEF Hold
<1>8. AtMost(s.row, done[x], s.kind) /\ ("overlap" \notin risks' => AllOf(s.row, done[x], s.kind))
  BY <1>1, <1>3, <1>5, <1>6, <1>7, GrownIsKept
<1>9. "overlap" \notin risks' => Counted(s.row, x)'
  <2>1. Pending(x) => Overlaps(x)
    BY DEF Pending, Overlaps, InFlight, Writing
  <2>2. "overlap" \notin risks' => Counted(db[x], x)
    BY <1>1, <1>2, <1>7, <2>1 DEF RowsInv, AllCounted
  <2>3. QED
    BY <1>1, <2>2, RatingsStay DEF Grown, Counted
<1>10. RowKept(t, s)'
  BY <1>3, <1>5, <1>8, <1>9 DEF RowKept
<1>11. ASSUME NEW u \in Tabs, NEW j \in DOMAIN work[u], Left(t, {i}, u, j) PROVE Apart(risks', t, s, u, work[u][j])
  <2>1. Apart(risks', t, r, u, work[u][j])
    BY <1>2, <1>11 DEF LeftApart
  <2>2. "overlap" \notin risks' /\ Holds(work[u][j]) => work[u][j].item # x
    BY <1>7, <1>11 DEF Overlaps, InFlight, Holds
  <2>3. Rating(s) => Rating(r)
    BY <1>3 DEF Rating, GoesOnAs
  <2>4. QED
    BY <1>3, <2>1, <2>2, <2>3 DEF Apart
<1>12. QED
  BY <1>4, <1>10, <1>11, CalmRows DEF LeftApart

\* What a handler of this kind did to x is counted.
Tallied(x, kind) ==
    /\ \A y \in Items : y # x => done'[y] = done[y]
    /\ done'[x].text = done[x].text + One(kind = "save") /\ done'[x].views = done[x].views + One(kind = "view")
    /\ done'[x].plays = done[x].plays + One(kind = "start")

\* A handler writes the row that it holds: nothing is undone, and what others
\* hold is of other quizzes.
LEMMA WritesRow ==
    ASSUME Keeps, NEW t \in Tabs, NEW i, NEW r, NEW s, GoesOnAs(t, i, r, s), Holds(r), r.kind # "list",
           UNCHANGED <<ratings, risks>>, Update(r.item, r.row), Tallied(r.item, r.kind), ~Holds(s)
    PROVE  RowsInv'
<1>1. PICK x \in Items : x = r.item
  BY GoesOnSays
<1>2. /\ Traffic(t, {i}, i, s) /\ LeftApart(t, {i}, r) /\ r = work[t][i] /\ RowsInv /\ RowKept(t, r)
      /\ \A u \in Tabs : \A j \in DOMAIN work[u] : RowKept(u, work[u][j])
  BY GoesOnSays DEF GoesOnAs, Keeps
<1>3. /\ db \in [Items -> Rows \cup {None}] /\ done \in [Items -> [views : Nat, plays : Nat, text : Nat]]
      /\ done' \in [Items -> [views : Nat, plays : Nat, text : Nat]] /\ r.row \in Rows
      /\ risks' = risks /\ \A u \in Tabs : User(u)' = User(u)
  BY KeepsSays, SameRow DEF Stores, GoesOnAs, Holds
<1>4. /\ \A y \in Items : y # x => db'[y] = db[y] /\ done'[y] = done[y]
      /\ db'[x] = None \/ db'[x] = r.row
  BY <1>1, <1>3 DEF Update, Tallied
<1>5. /\ r.row.text <= done'[x].text /\ r.row.views <= done'[x].views /\ r.row.plays <= done'[x].plays
      /\ "overlap" \notin risks =>
            /\ r.row.text = done'[x].text /\ r.row.views = done'[x].views /\ r.row.plays = done'[x].plays
            /\ Counted(r.row, x)
  BY <1>1, <1>2 DEF RowKept, Tallied, AtMost, AllOf
<1>6. NothingIsUndone'
  <2>1. ASSUME NEW y \in Items, y # x, db'[y] # None
        PROVE  /\ db'[y].text <= done'[y].text /\ db'[y].views <= done'[y].views /\ db'[y].plays <= done'[y].plays
               /\ "overlap" \notin risks' =>
                     db'[y].text = done'[y].text /\ db'[y].views = done'[y].views /\ db'[y].plays = done'[y].plays
    BY <1>2, <1>3, <1>4, <2>1 DEF RowsInv, NothingIsUndone
  <2>2. ASSUME db'[x] # None
        PROVE  /\ db'[x].text <= done'[x].text /\ db'[x].views <= done'[x].views /\ db'[x].plays <= done'[x].plays
               /\ "overlap" \notin risks' =>
                     db'[x].text = done'[x].text /\ db'[x].views = done'[x].views /\ db'[x].plays = done'[x].plays
    BY <1>3, <1>4, <1>5, <2>2
  <2>3. QED
    BY <2>1, <2>2 DEF NothingIsUndone
<1>7. OneEach'
  BY <1>2, <1>3 DEF RowsInv, OneEach
<1>8. AllCounted'
  <2>1. ASSUME "overlap" \notin risks', NEW y \in Items, y # x, db'[y] # None, ~Pending(y)' PROVE Counted(db[y], y)'
    <3>1. db'[y] = db[y] /\ "overlap" \notin risks
      BY <1>3, <1>4, <2>1
    <3>2. ~Pending(y)
      BY <1>1, <1>2, <2>1, PendingStays
    <3>3. Counted(db[y], y)
      BY <1>2, <2>1, <3>1, <3>2 DEF RowsInv, AllCounted
    <3>4. QED
      BY <3>1, <3>3, RatingsStay DEF Counted
  <2>2. ASSUME "overlap" \notin risks', db'[x] # None PROVE Counted(db[x], x)'
    BY <1>3, <1>4, <1>5, <2>2, RatingsStay DEF Counted
  <2>3. QED
    BY <2>1, <2>2 DEF AllCounted
<1>9. LeftKept(t, {i})
  <2>1. ASSUME NEW u \in Tabs, NEW j \in DOMAIN work[u], NEW w, w = work[u][j], Left(t, {i}, u, j) PROVE RowKept(u, w)'
    <3>1. RowKept(u, w) /\ Apart(risks, t, r, u, w) /\ w \in Requests
      BY <1>2, <1>3, <2>1, KeepsSays DEF LeftApart
    <3>2. Holds(w) => w.item \in Items /\ w.row \in Rows
      BY <3>1, SameRow DEF Requests, Holds, Writing
    <3>3. Holds(w) => AtMost(w.row, done'[w.item], w.kind)
      <4>1. CASE w.item = x
        <5>1. \A b : One(b) \in Nat
          BY DEF One
        <5>2. Holds(w) => AtMost(w.row, done[x], w.kind) /\ w.row \in Rows
          BY <3>1, <3>2, <4>1 DEF RowKept
        <5>3. done[x].text <= done'[x].text /\ done[x].views <= done'[x].views /\ done[x].plays <= done'[x].plays
          BY <1>1, <1>3, <5>1 DEF Tallied
        <5>4. QED
          BY <1>3, <4>1, <5>1, <5>2, <5>3 DEF AtMost, Rows
      <4>2. CASE w.item # x
        BY <1>4, <3>1, <3>2, <4>2 DEF RowKept
      <4>3. QED
        BY <4>1, <4>2
    <3>4. Holds(w) /\ "overlap" \notin risks => done'[w.item] = done[w.item]
      BY <1>1, <1>4, <3>1, <3>2 DEF Apart
    <3>5. Holds(w) /\ "overlap" \notin risks => AllOf(w.row, done'[w.item], w.kind) /\ Counted(w.row, w.item)'
      BY <3>1, <3>4, RatingsStay DEF RowKept, Counted
    <3>6. QED
      BY <1>3, <3>1, <3>3, <3>5 DEF RowKept, Holds
  <2>2. QED
    BY <2>1 DEF LeftKept
<1>10. RowKept(t, s)' /\ LeftApart(t, {i}, s)
  <2>1. RowKept(t, s)'
    BY DEF RowKept, Holds, Writing
  <2>2. Rating(s) => Rating(r)
    BY DEF Rating, GoesOnAs, Same
  <2>3. QED
    BY <1>2, <2>1, <2>2 DEF LeftApart, Apart
<1>11. QED
  BY <1>2, <1>6, <1>7, <1>8, <1>9, <1>10, RowsFrame

\* A list of ratings is replaced: what is rated of other quizzes stays.
LEMMA OneListRated ==
    ASSUME Stores, NEW u \in Users, NEW x \in Items, NEW list \in Seq(BOOLEAN),
           ratings' = [ratings EXCEPT ![u][x] = list]
    PROVE  /\ ratings' \in [Users -> [Items -> Seq(BOOLEAN)]] /\ ratings'[u][x] = list
           /\ \A v \in Users, y \in Items : v # u \/ y # x => ratings'[v][y] = ratings[v][y]
           /\ \A y \in Items : y # x => \A b : RatingsOf(y, b)' = RatingsOf(y, b)
<1>1. /\ ratings' \in [Users -> [Items -> Seq(BOOLEAN)]] /\ ratings'[u][x] = list
      /\ \A v \in Users, y \in Items : v # u \/ y # x => ratings'[v][y] = ratings[v][y]
  BY DEF Stores
<1>2. ASSUME NEW y \in Items, y # x, NEW b PROVE RatingsOf(y, b)' = RatingsOf(y, b)
  <2>1. Raters(ratings', y, b) = Raters(ratings, y, b)
    BY <1>1, <1>2 DEF Raters
  <2>2. QED
    BY <2>1 DEF RatingsOf, Raters
<1>3. QED
  BY <1>1, <1>2

\* A handler changes the ratings of its quiz and has yet to write the counters.
LEMMA RatesAnew ==
    ASSUME Keeps, NEW t \in Tabs, NEW i, NEW r, NEW s, GoesOnAs(t, i, r, s), r.kind = "rate",
           r.stage \in {"old", "new"}, s.stage \in {"new", "kept"}, UNCHANGED <<db, done, risks>>,
           NEW list \in Seq(BOOLEAN), ratings' = [ratings EXCEPT ![User(t)][r.item] = list],
           s.row.text = r.row.text, s.row.views = r.row.views, s.row.plays = r.row.plays,
           Clear(risks) => Len(list) <= 1 /\ (s.stage = "new" => list = <<>>),
           "overlap" \notin risks => Counted(s.row, r.item)'
    PROVE  RowsInv'
<1>1. PICK x \in Items, me \in Users : x = r.item /\ me = User(t)
  BY GoesOnSays, KeepsSays
<1>2. /\ Traffic(t, {i}, i, s) /\ i \in DOMAIN work'[t] /\ work'[t][i] = s /\ LeftApart(t, {i}, r)
      /\ r = work[t][i] /\ RowsInv /\ RowKept(t, r)
      /\ \A u \in Tabs : \A j \in DOMAIN work[u] : RowKept(u, work[u][j]) /\ work[u][j] \in Requests
  <2>1. r = work[t][i] /\ RowsInv
    BY DEF GoesOnAs, Keeps
  <2>2. Traffic(t, {i}, i, s) /\ i \in DOMAIN work'[t] /\ work'[t][i] = s
    BY GoesOnSays, ZenonT(60)
  <2>6. LeftApart(t, {i}, r) /\ RowKept(t, r)
    BY GoesOnSays, ZenonT(60)
  <2>3. \A u \in Tabs : \A j \in DOMAIN work[u] : RowKept(u, work[u][j])
    BY <2>1 DEF RowsInv
  <2>4. \A u \in Tabs : \A j \in DOMAIN work[u] : work[u][j] \in Requests
    BY KeepsSays
  <2>5. QED
    BY <2>1, <2>2, <2>3, <2>4, <2>6, Zenon
<1>3. /\ db' = db /\ done' = done /\ risks' = risks
      /\ \A u \in Tabs : User(u) \in Users /\ User(u)' = User(u)
  BY KeepsSays
<1>4. /\ ratings'[me][x] = list
      /\ \A v \in Users, y \in Items : v # me \/ y # x => ratings'[v][y] = ratings[v][y]
      /\ \A y \in Items : y # x => \A b : RatingsOf(y, b)' = RatingsOf(y, b)
  <2>1. Stores /\ ratings' = [ratings EXCEPT ![me][x] = list]
    BY <1>1, KeepsSays
  <2>2. /\ ratings' \in [Users -> [Items -> Seq(BOOLEAN)]] /\ ratings'[me][x] = list
        /\ \A v \in Users, y \in Items : v # me \/ y # x => ratings'[v][y] = ratings[v][y]
        /\ \A y \in Items : y # x => \A b : RatingsOf(y, b)' = RatingsOf(y, b)
    BY <2>1, OneListRated, ZenonT(60)
  <2>3. QED
    BY <2>2
<1>5. Same(r, s) /\ s.item = x /\ s.kind = "rate" /\ Holds(r) /\ Holds(s) /\ Rating(r)
  BY <1>1 DEF GoesOnAs, Same, Holds, Writing, Rating
<1>6. NothingIsUndone'
  BY <1>2, <1>3 DEF RowsInv, NothingIsUndone
<1>7. OneEach'
  <2>1. ASSUME Clear(risks), NEW u \in Users, NEW y \in Items PROVE Len(ratings'[u][y]) <= 1
    <3>1. CASE u = me /\ y = x
      BY <1>4, <2>1, <3>1
    <3>2. CASE u # me \/ y # x
      BY <1>2, <1>4, <2>1, <3>2 DEF RowsInv, OneEach
    <3>3. QED
      BY <3>1, <3>2
  <2>2. QED
    BY <1>3, <2>1 DEF OneEach
<1>8. AllCounted'
  <2>1. Pending(x)'
    BY <1>2, <1>5 DEF Pending
  <2>2. ASSUME "overlap" \notin risks, NEW y \in Items, y # x, db[y] # None, ~Pending(y)' PROVE Counted(db[y], y)'
    <3>1. ~Pending(y)
      BY <1>1, <1>2, <2>2, PendingStays
    <3>2. Counted(db[y], y)
      BY <1>2, <2>2, <3>1 DEF RowsInv, AllCounted
    <3>3. QED
      BY <1>3, <1>4, <2>2, <3>2 DEF Counted
  <2>3. QED
    BY <1>3, <2>1, <2>2 DEF AllCounted
<1>9. LeftKept(t, {i})
  <2>1. ASSUME NEW u \in Tabs, NEW j \in DOMAIN work[u], NEW w, w = work[u][j], Left(t, {i}, u, j) PROVE RowKept(u, w)'
    <3>1. RowKept(u, w) /\ Apart(risks, t, r, u, w) /\ w \in Requests
      BY <1>2, <1>3, <2>1 DEF LeftApart
    <3>2. Holds(w) => w.item \in Items
      BY <3>1, SameRow DEF Requests, Holds, Writing
    <3>3. Holds(w) /\ "overlap" \notin risks => w.item # x
      BY <1>1, <1>5, <3>1 DEF Apart
    <3>4. Holds(w) /\ "overlap" \notin risks => Counted(w.row, w.item)'
      BY <1>4, <3>1, <3>2, <3>3 DEF RowKept, Counted
    <3>5. ASSUME Clear(risks), w.stage \in {"old", "new"} PROVE ratings'[User(u)][w.item] = ratings[User(u)][w.item]
      <4>1. w.kind = "rate" /\ Holds(w) /\ Rating(w)
        BY <3>1, <3>5 DEF Requests, Holds, Writing, Rating
      <4>2. w.item # x \/ User(u) # me
        BY <1>1, <1>5, <3>1, <3>3, <3>5, <4>1 DEF Apart, Clear
      <4>3. QED
        BY <1>3, <1>4, <3>2, <4>1, <4>2
    <3>6. QED
      BY <1>3, <3>1, <3>4, <3>5 DEF RowKept, Holds
  <2>2. QED
    BY <2>1 DEF LeftKept
<1>10. RowKept(t, s)'
  <2>1. AtMost(r.row, done[x], "rate") /\ ("overlap" \notin risks => AllOf(r.row, done[x], "rate"))
    BY <1>1, <1>2, <1>5 DEF RowKept
  <2>2. AtMost(s.row, done[x], "rate") /\ ("overlap" \notin risks => AllOf(s.row, done[x], "rate"))
    BY <2>1 DEF AtMost, AllOf
  <2>3. s.stage # "old"
    OBVIOUS
  <2>4. Clear(risks) /\ s.stage = "new" => ratings'[User(t)][x] = <<>>
    BY <1>1, <1>4
  <2>5. QED
    BY <1>1, <1>3, <1>5, <2>2, <2>3, <2>4 DEF RowKept
<1>11. LeftApart(t, {i}, s)
  BY <1>1, <1>2, <1>5 DEF LeftApart, Apart
<1>12. QED
  BY <1>2, <1>6, <1>7, <1>8, <1>9, <1>10, <1>11, RowsFrame

\* A list that has one rating has none without it.
LEMMA OneRating ==
    ASSUME NEW S, NEW a \in S
    PROVE  Append(<<>>, a) = <<a>> /\ Len(<<a>>) <= 1 /\ Without(<<a>>, a) = <<>>
<1>1. Append(<<>>, a) = <<a>>
  OBVIOUS
<1>0. <<a>> \in Seq(S)
  OBVIOUS
<1>2. PICK w \in Seq(S) : w = <<a>>
  BY <1>0
<1>3. Len(w) = 1 /\ DOMAIN w = {1} /\ w[1] = a
  BY <1>2
<1>4. (\E i \in DOMAIN w : w[i] = a) /\ (CHOOSE i \in DOMAIN w : w[i] = a) = 1
  BY <1>3
<1>5. Without(w, a) = RemoveAt(w, 1)
  BY <1>4 DEF Without
<1>6. PICK v \in Seq(S) : v = RemoveAt(w, 1) /\ Len(v) = 0
  BY <1>3, RemovedAt
<1>7. v = <<>>
  BY <1>6
<1>8. QED
  BY <1>1, <1>2, <1>3, <1>5, <1>6, <1>7

\* The earlier rating goes: its counter in the row that is held goes down.
LEMMA OldRows ==
    ASSUME Keeps, NEW t \in Tabs, NEW i, NEW r, NEW s, GoesOnAs(t, i, r, s), r.kind = "rate", r.stage = "old",
           s.stage = "new", s.row = Withdraw(r.row, r.likes), UNCHANGED <<db, done, risks>>,
           ratings' = [ratings EXCEPT ![User(t)][r.item] = Without(@, ~r.likes)]
    PROVE  RowsInv'
<1>1. PICK x \in Items, me \in Users : x = r.item /\ me = User(t)
  BY GoesOnSays, KeepsSays
<1>2. Stores /\ r \in Requests /\ RowKept(t, r) /\ r.row \in Rows /\ r.likes \in BOOLEAN /\ Holds(r)
  BY GoesOnSays, KeepsSays, SameRow DEF GoesOnAs, Holds, Writing
<1>0. PICK a \in BOOLEAN : a = ~r.likes
  BY <1>2
<1>3. PICK mine \in Seq(BOOLEAN) : mine = ratings[me][x]
  BY <1>1, <1>2 DEF Stores
<1>4. PICK list \in Seq(BOOLEAN) : list = Without(mine, a)
  BY WithoutShape
<1>5. ratings' = [ratings EXCEPT ![me][x] = list]
  BY <1>0, <1>1, <1>2, <1>3, <1>4 DEF Stores
<1>6. Clear(risks) => mine = <<a>> /\ list = <<>>
  <2>1. Clear(risks) => mine = <<a>>
    BY <1>0, <1>1, <1>2, <1>3 DEF RowKept
  <2>2. QED
    BY <1>4, <2>1, OneRating
<1>7. s.row.text = r.row.text /\ s.row.views = r.row.views /\ s.row.plays = r.row.plays
  BY <1>2 DEF Withdraw, Rows
<1>8. ASSUME "overlap" \notin risks PROVE Counted(s.row, x)'
  <2>1. Counted(r.row, x) /\ mine = <<a>> /\ list = <<>>
    BY <1>1, <1>2, <1>6, <1>8 DEF RowKept, Clear
  <2>2. PICK f : f = ratings'
    OBVIOUS
  <2>3. RatesFirst(f, ratings, me, x, a)
    BY <1>2, <1>3, <1>5, <2>1, <2>2 DEF Stores, RatesFirst
  <2>4. /\ Cardinality(Raters(ratings, x, a)) = Cardinality(Raters(f, x, a)) + 1
        /\ \A b \in BOOLEAN : b # a => Raters(ratings, x, b) = Raters(f, x, b)
        /\ Cardinality(Raters(f, x, a)) \in Nat
    BY <2>3, OneMoreRater DEF OneMore
  <2>5. \A b : RatingsOf(x, b) = Cardinality(Raters(ratings, x, b)) /\ RatingsOf(x, b)' = Cardinality(Raters(f, x, b))
    BY <2>2 DEF RatingsOf, Raters
  <2>9. /\ RatingsOf(x, a) = RatingsOf(x, a)' + 1 /\ RatingsOf(x, a)' \in Nat
        /\ \A b \in BOOLEAN : b # a => RatingsOf(x, b)' = RatingsOf(x, b)
    BY <2>4, <2>5, Zenon
  <2>6. CASE r.likes = TRUE
    <3>1. a = FALSE
      BY <1>0, <2>6, Zenon
    <3>2. s.row.dislikes = r.row.dislikes - 1 /\ s.row.likes = r.row.likes
      BY <1>2, <2>6 DEF Withdraw, Rows
    <3>3. /\ RatingsOf(x, TRUE)' = RatingsOf(x, TRUE)
          /\ RatingsOf(x, FALSE) = RatingsOf(x, FALSE)' + 1 /\ RatingsOf(x, FALSE)' \in Nat
      BY <2>9, <3>1, Zenon
    <3>4. PICK n \in Nat : n = RatingsOf(x, FALSE)'
      BY <3>3
    <3>5. s.row.dislikes = n
      <4>1. r.row.dislikes = n + 1
        BY <2>1, <3>3, <3>4, Zenon DEF Counted
      <4>2. QED
        BY <3>2, <4>1
    <3>6. QED
      BY <2>1, <3>2, <3>3, <3>4, <3>5 DEF Counted
  <2>7. CASE r.likes = FALSE
    <3>1. a = TRUE
      BY <1>0, <2>7, Zenon
    <3>2. s.row.likes = r.row.likes - 1 /\ s.row.dislikes = r.row.dislikes
      BY <1>2, <2>7 DEF Withdraw, Rows
    <3>3. /\ RatingsOf(x, FALSE)' = RatingsOf(x, FALSE)
          /\ RatingsOf(x, TRUE) = RatingsOf(x, TRUE)' + 1 /\ RatingsOf(x, TRUE)' \in Nat
      BY <2>9, <3>1, Zenon
    <3>4. PICK n \in Nat : n = RatingsOf(x, TRUE)'
      BY <3>3
    <3>5. s.row.likes = n
      <4>1. r.row.likes = n + 1
        BY <2>1, <3>3, <3>4, Zenon DEF Counted
      <4>2. QED
        BY <3>2, <4>1
    <3>6. QED
      BY <2>1, <3>2, <3>3, <3>4, <3>5 DEF Counted
  <2>8. QED
    BY <1>2, <2>6, <2>7
<1>9. Clear(risks) => Len(list) <= 1 /\ (s.stage = "new" => list = <<>>)
  BY <1>6, OneRating
<1>10. ratings' = [ratings EXCEPT ![User(t)][r.item] = list] /\ ("overlap" \notin risks => Counted(s.row, r.item)')
  BY <1>1, <1>5, <1>8
<1>11. QED
  BY <1>7, <1>9, <1>10, RatesAnew, ZenonT(60)

\* The new rating is kept: its counter goes up.
LEMMA NewRows ==
    ASSUME Keeps, NEW t \in Tabs, NEW i, NEW r, NEW s, GoesOnAs(t, i, r, s), r.kind = "rate", r.stage = "new",
           s.stage = "kept", s.row = Cast(r.row, r.likes), UNCHANGED <<db, done, risks>>,
           ratings' = [ratings EXCEPT ![User(t)][r.item] = Append(ratings[User(t)][r.item], r.likes)]
    PROVE  RowsInv'
<1>1. PICK x \in Items, me \in Users : x = r.item /\ me = User(t)
  BY GoesOnSays, KeepsSays
<1>2. Stores /\ r \in Requests /\ RowKept(t, r) /\ r.row \in Rows /\ r.likes \in BOOLEAN /\ Holds(r)
  BY GoesOnSays, KeepsSays, SameRow DEF GoesOnAs, Holds, Writing
<1>0. PICK a \in BOOLEAN : a = r.likes
  BY <1>2
<1>3. PICK mine \in Seq(BOOLEAN) : mine = ratings[me][x]
  BY <1>1, <1>2 DEF Stores
<1>4. PICK list \in Seq(BOOLEAN) : list = Append(mine, a)
  BY AppendProperties
<1>5. ratings' = [ratings EXCEPT ![me][x] = list]
  BY <1>0, <1>1, <1>3, <1>4
<1>6. Clear(risks) => mine = <<>> /\ list = <<a>>
  <2>1. Clear(risks) => mine = <<>>
    BY <1>1, <1>2, <1>3 DEF RowKept
  <2>2. QED
    BY <1>4, <2>1, OneRating
<1>7. s.row.text = r.row.text /\ s.row.views = r.row.views /\ s.row.plays = r.row.plays
  BY <1>2 DEF Cast, Rows
<1>8. ASSUME "overlap" \notin risks PROVE Counted(s.row, x)'
  <2>1. Counted(r.row, x) /\ mine = <<>> /\ list = <<a>>
    BY <1>1, <1>2, <1>6, <1>8 DEF RowKept, Clear
  <2>2. PICK g : g = ratings'
    OBVIOUS
  <2>3. RatesFirst(ratings, g, me, x, a)
    <3>1. g[me][x] = list /\ g \in [Users -> [Items -> Seq(BOOLEAN)]] /\ \A v \in Users \ {me} : g[v][x] = ratings[v][x]
      BY <1>2, <1>5, <2>2 DEF Stores
    <3>2. QED
      BY <1>2, <1>3, <2>1, <3>1, Zenon DEF Stores, RatesFirst
  <2>4. /\ Cardinality(Raters(g, x, a)) = Cardinality(Raters(ratings, x, a)) + 1
        /\ \A b \in BOOLEAN : b # a => Raters(g, x, b) = Raters(ratings, x, b)
        /\ Cardinality(Raters(ratings, x, a)) \in Nat
    BY <2>3, OneMoreRater DEF OneMore
  <2>5. \A b : RatingsOf(x, b) = Cardinality(Raters(ratings, x, b)) /\ RatingsOf(x, b)' = Cardinality(Raters(g, x, b))
    BY <2>2 DEF RatingsOf, Raters
  <2>9. /\ RatingsOf(x, a)' = RatingsOf(x, a) + 1 /\ RatingsOf(x, a) \in Nat
        /\ \A b \in BOOLEAN : b # a => RatingsOf(x, b)' = RatingsOf(x, b)
    BY <2>4, <2>5, Zenon
  <2>6. CASE r.likes = TRUE
    <3>1. a = TRUE
      BY <1>0, <2>6, Zenon
    <3>2. s.row.likes = r.row.likes + 1 /\ s.row.dislikes = r.row.dislikes
      BY <1>2, <2>6 DEF Cast, Rows
    <3>3. /\ RatingsOf(x, FALSE)' = RatingsOf(x, FALSE)
          /\ RatingsOf(x, TRUE)' = RatingsOf(x, TRUE) + 1 /\ RatingsOf(x, TRUE) \in Nat
      BY <2>9, <3>1, Zenon
    <3>4. QED
      BY <2>1, <3>2, <3>3 DEF Counted
  <2>7. CASE r.likes = FALSE
    <3>1. a = FALSE
      BY <1>0, <2>7, Zenon
    <3>2. s.row.dislikes = r.row.dislikes + 1 /\ s.row.likes = r.row.likes
      BY <1>2, <2>7 DEF Cast, Rows
    <3>3. /\ RatingsOf(x, TRUE)' = RatingsOf(x, TRUE)
          /\ RatingsOf(x, FALSE)' = RatingsOf(x, FALSE) + 1 /\ RatingsOf(x, FALSE) \in Nat
      BY <2>9, <3>1, Zenon
    <3>4. QED
      BY <2>1, <3>2, <3>3 DEF Counted
  <2>8. QED
    BY <1>2, <2>6, <2>7
<1>9. Clear(risks) => Len(list) <= 1 /\ (s.stage = "new" => list = <<>>)
  <2>1. Clear(risks) => Len(list) <= 1
    BY <1>6, OneRating, Zenon
  <2>2. s.stage # "new"
    OBVIOUS
  <2>3. QED
    BY <2>1, <2>2, Zenon
<1>10. ratings' = [ratings EXCEPT ![User(t)][r.item] = list] /\ ("overlap" \notin risks => Counted(s.row, r.item)')
  BY <1>1, <1>5, <1>8
<1>11. QED
  BY <1>7, <1>9, <1>10, RatesAnew, ZenonT(60)

\* What the assignments of a handler say of s.
Becomes(t, i, r, s) ==
    /\ \A a : Finish(t, i, a) => s.stage = "done" /\ ~Holds(s)
    /\ \A st : Advance(t, i, [r EXCEPT !.stage = st]) => s.stage = st /\ s.row = r.row
    /\ \A st, row : Advance(t, i, [r EXCEPT !.stage = st, !.row = row]) => s.stage = st /\ s.row = row
    /\ \A st, pin : Advance(t, i, [r EXCEPT !.stage = st, !.pin = pin]) => s.stage = st

\* A request is in one state after its handler went on.
LEMMA WentOn ==
    ASSUME Keeps, NEW t \in Tabs, NEW i, NEW r, NEW s, GoesOnAs(t, i, r, s)
    PROVE  Becomes(t, i, r, s)
<1>1. Typed /\ r = work[t][i] /\ r \in Requests /\ i \in DOMAIN work[t] /\ Advance(t, i, s)
  BY KeepsSays DEF GoesOnAs
<1>2. \A x : Advance(t, i, x) => s = x
  BY <1>1, OneAdvances
<1>3. ASSUME NEW a, Finish(t, i, a) PROVE s.stage = "done" /\ ~Holds(s)
  <2>1. s = [r EXCEPT !.stage = "done", !.answer = a]
    BY <1>1, <1>2, <1>3 DEF Finish
  <2>2. s.stage = "done"
    BY <1>1, <2>1 DEF Requests
  <2>3. QED
    BY <2>2 DEF Holds, Writing
<1>4. ASSUME NEW st, Advance(t, i, [r EXCEPT !.stage = st]) PROVE s.stage = st /\ s.row = r.row
  BY <1>1, <1>2, <1>4 DEF Requests
<1>5. ASSUME NEW st, NEW row, Advance(t, i, [r EXCEPT !.stage = st, !.row = row]) PROVE s.stage = st /\ s.row = row
  <2>1. s = [r EXCEPT !.stage = st, !.row = row]
    BY <1>2, <1>5, Zenon
  <2>2. QED
    BY <1>1, <2>1 DEF Requests
<1>6. ASSUME NEW st, NEW pin, Advance(t, i, [r EXCEPT !.stage = st, !.pin = pin]) PROVE s.stage = st
  <2>1. s = [r EXCEPT !.stage = st, !.pin = pin]
    BY <1>2, <1>6, ZenonT(60)
  <2>2. QED
    BY <1>1, <2>1 DEF Requests
<1>7. QED
  BY <1>3, <1>4, <1>5, <1>6, Zenon DEF Becomes

\* What the handlers make of the row they read, and what they count.
LEMMA CountsOne ==
    ASSUME Stores, NEW x \in Items
    PROVE  /\ \A row \in Rows : /\ Grown([row EXCEPT !.plays = @ + 1], row, "start")
                                /\ Grown([row EXCEPT !.views = @ + 1], row, "view")
                                /\ Grown([row EXCEPT !.text = @ + 1], row, "save")
                                /\ Grown(row, row, "rate")
           /\ Tally(x, "plays") => Tallied(x, "start")
           /\ Tally(x, "views") => Tallied(x, "view")
           /\ Tally(x, "text") => Tallied(x, "save")
           /\ done' = done => Tallied(x, "rate")
<1>1. ASSUME NEW row \in Rows
      PROVE  /\ Grown([row EXCEPT !.plays = @ + 1], row, "start") /\ Grown([row EXCEPT !.views = @ + 1], row, "view")
             /\ Grown([row EXCEPT !.text = @ + 1], row, "save") /\ Grown(row, row, "rate")
  BY <1>1 DEF Rows, Grown, One
<1>2. done \in [Items -> [views : Nat, plays : Nat, text : Nat]]
  BY DEF Stores
<1>3. Tally(x, "plays") => Tallied(x, "start")
  BY <1>2 DEF Tally, Tallied, One
<1>4. Tally(x, "views") => Tallied(x, "view")
  BY <1>2 DEF Tally, Tallied, One
<1>5. Tally(x, "text") => Tallied(x, "save")
  BY <1>2 DEF Tally, Tallied, One
<1>6. done' = done => Tallied(x, "rate")
  BY <1>2 DEF Tallied, One
<1>7. QED
  BY <1>1, <1>3, <1>4, <1>5, <1>6

\* A handler holds a row if it counts or rates.
LEMMA HoldersRate ==
    ASSUME NEW r \in Requests
    PROVE  /\ Holds(r) => r.kind \in {"start", "view", "save", "rate"}
           /\ r.stage \in {"old", "new", "kept", "rated"} => r.kind = "rate"
BY DEF Requests, Holds, Writing

\* The lists and the deletions write no row.
LEMMA ListRows ==
    ASSUME Keeps, NEW t \in Tabs, NEW i, NEW r, NEW s, GoesOnAs(t, i, r, s),
           \/ r.kind = "list" /\ List(t, i, r)
           \/ r.kind = "delete" /\ (DeleteQuiz(t, i, r) \/ DeleteQuiztivity(t, i, r)) /\ UNCHANGED <<done, risks>>
    PROVE  RowsInv'
<1>1. ~Holds(s) /\ r.stage \notin {"new", "kept"}
  BY HoldersRate DEF GoesOnAs, Same
<1>2. Stores
  BY KeepsSays
<1>3. UNCHANGED <<ratings, done>> /\ \A x \in Items : db'[x] \in {db[x], None}
  <2>1. CASE List(t, i, r)
    BY <2>1 DEF List, server
  <2>2. CASE DeleteQuiz(t, i, r) /\ UNCHANGED <<done, risks>>
    BY <1>2, <2>2 DEF DeleteQuiz, server, Stores
  <2>3. CASE DeleteQuiztivity(t, i, r) /\ UNCHANGED <<done, risks>>
    BY <1>2, <2>3 DEF DeleteQuiztivity, server, Stores
  <2>4. QED
    BY <2>1, <2>2, <2>3
<1>4. QED
  BY <1>1, <1>3, QuietRows

\* The handlers that count a view or keep a text: they read the row, and write it.
LEMMA ViewRows ==
    ASSUME Keeps, NEW t \in Tabs, NEW i, NEW r, NEW s, GoesOnAs(t, i, r, s),
           (r.kind = "view" /\ View(t, i, r)) \/ (r.kind = "save" /\ Save(t, i, r))
    PROVE  RowsInv'
<1>0. Becomes(t, i, r, s)
  BY WentOn
<1>1. PICK x \in Items : x = r.item
  BY GoesOnSays
<1>2. Stores
  BY KeepsSays
<1>3. ASSUME UNCHANGED <<server, done>>, Finish(t, i, "404"), r.stage = "sent" PROVE RowsInv'
  <2>1. ~Holds(s)
    BY <1>0, <1>3, Zenon DEF Becomes
  <2>2. QED
    BY <1>3, <2>1, QuietRows DEF server
<1>4. ASSUME r.stage = "sent", UNCHANGED <<server, done>>, Hold(x), db[x] # None, NEW row, Grown(row, db[x], r.kind),
             Advance(t, i, [r EXCEPT !.stage = "counted", !.row = row])
      PROVE  RowsInv'
  <2>0. \A st, ro : Advance(t, i, [r EXCEPT !.stage = st, !.row = ro]) => s.stage = st /\ s.row = ro
    BY <1>0, Zenon DEF Becomes
  <2>1. s.stage = "counted" /\ s.row = row
    BY <1>4, <2>0, Zenon
  <2>2. QED
    BY <1>1, <1>4, <2>1, TakesRow DEF server
<1>5. ASSUME r.stage = "counted", Update(x, r.row), Tallied(x, r.kind), Finish(t, i, "ok"), UNCHANGED <<ratings, risks>>
      PROVE  RowsInv'
  <2>1. ~Holds(s) /\ Holds(r)
    BY <1>0, <1>5 DEF Becomes, Holds, Writing
  <2>2. QED
    BY <1>1, <1>5, <2>1, WritesRow
<1>6. CASE r.kind = "view" /\ View(t, i, r)
  <2>1. CASE r.stage = "sent" /\ db[x] # None
    <3>1. Grown([Row(x) EXCEPT !.views = @ + 1], db[x], "view")
      BY <1>2, <2>1, CountsOne DEF Stores, Row
    <3>2. QED
      BY <1>1, <1>4, <1>6, <2>1, <3>1 DEF View
  <2>2. CASE r.stage = "sent" /\ db[x] = None
    BY <1>1, <1>3, <1>6, <2>2 DEF View
  <2>3. CASE r.stage # "sent"
    BY <1>1, <1>2, <1>5, <1>6, <2>3, CountsOne DEF View
  <2>4. QED
    BY <2>1, <2>2, <2>3
<1>7. CASE r.kind = "save" /\ Save(t, i, r)
  <2>1. CASE r.stage = "sent" /\ db[x] # None
    <3>1. Grown([Row(x) EXCEPT !.text = @ + 1], db[x], "save")
      BY <1>2, <2>1, CountsOne DEF Stores, Row
    <3>2. QED
      BY <1>1, <1>4, <1>7, <2>1, <3>1 DEF Save
  <2>2. CASE r.stage = "sent" /\ db[x] = None
    BY <1>1, <1>3, <1>7, <2>2 DEF Save
  <2>3. CASE r.stage # "sent"
    BY <1>1, <1>2, <1>5, <1>7, <2>3, CountsOne DEF Save
  <2>4. QED
    BY <2>1, <2>2, <2>3
<1>8. QED
  BY <1>6, <1>7

\* The start of a game: it reads the row, writes it, and then holds none.
LEMMA StartRows ==
    ASSUME Keeps, NEW t \in Tabs, NEW i, NEW r, NEW s, GoesOnAs(t, i, r, s), r.kind = "start", StartQuiz(t, i, r)
    PROVE  RowsInv'
<1>0. Becomes(t, i, r, s)
  BY WentOn
<1>1. PICK x \in Items : x = r.item
  BY GoesOnSays
<1>2. Stores /\ r \in Requests
  BY KeepsSays DEF GoesOnAs
<1>3. /\ \A a : Finish(t, i, a) => ~Holds(s)
      /\ \A st : Advance(t, i, [r EXCEPT !.stage = st]) => s.stage = st
      /\ \A st, ro : Advance(t, i, [r EXCEPT !.stage = st, !.row = ro]) => s.stage = st /\ s.row = ro
      /\ \A st, p : Advance(t, i, [r EXCEPT !.stage = st, !.pin = p]) => s.stage = st
  BY <1>0, Zenon DEF Becomes
<1>4. r.stage \notin {"new", "kept"}
  BY <1>2, HoldersRate
<1>5. ASSUME UNCHANGED <<db, ratings, done>>, ~Holds(s) PROVE RowsInv'
  BY <1>4, <1>5, QuietRows
<1>6. CASE r.stage = "sent" /\ ~(User(t) \in signed /\ MayStart(t, x))
  <2>1. UNCHANGED <<db, ratings, done>> /\ \E a : Finish(t, i, a)
    BY <1>1, <1>6 DEF StartQuiz, Keep, server
  <2>2. QED
    BY <1>3, <1>5, <2>1
<1>7. CASE r.stage = "sent" /\ User(t) \in signed /\ MayStart(t, x)
  <2>1. PICK row : row = [Row(x) EXCEPT !.plays = @ + 1]
    OBVIOUS
  <2>2. UNCHANGED <<db, ratings, done>> /\ Hold(x) /\ Advance(t, i, [r EXCEPT !.stage = "counted", !.row = row])
    BY <1>1, <1>7, <2>1 DEF StartQuiz, Keep, server
  <2>3. s.stage = "counted" /\ s.row = row
    BY <1>3, <2>2, Zenon
  <2>4. db[x] # None /\ Grown(row, db[x], "start")
    BY <1>2, <1>7, <2>1, CountsOne DEF MayStart, Stores, Row
  <2>5. QED
    BY <1>1, <1>7, <2>2, <2>3, <2>4, TakesRow
<1>8. CASE r.stage = "counted"
  <2>1. Update(x, r.row) /\ Tally(x, "plays") /\ Advance(t, i, [r EXCEPT !.stage = "asking"]) /\ UNCHANGED <<ratings, risks>>
    BY <1>1, <1>8 DEF StartQuiz, Keep
  <2>2. Tallied(x, "start")
    BY <1>2, <2>1, CountsOne
  <2>3. s.stage = "asking"
    BY <1>3, <2>1, Zenon
  <2>4. Holds(r) /\ ~Holds(s)
    BY <1>8, <2>3 DEF Holds, Writing
  <2>5. QED
    BY <1>1, <2>1, <2>2, <2>4, WritesRow
<1>9. CASE r.stage = "asking"
  <2>1. UNCHANGED <<db, ratings, done>> /\ \E p : Advance(t, i, [r EXCEPT !.stage = "pinned", !.pin = p])
    BY <1>9, Zenon DEF StartQuiz, Keep, server
  <2>2. s.stage = "pinned"
    BY <1>3, <2>1, Zenon
  <2>3. ~Holds(s)
    BY <2>2 DEF Holds, Writing
  <2>4. QED
    BY <1>5, <2>1, <2>3
<1>10. CASE r.stage \notin {"sent", "counted", "asking"}
  <2>1. Keep(t, i, r) /\ UNCHANGED <<db, ratings, done>>
    BY <1>10 DEF StartQuiz
  <2>2. Advance(t, i, [r EXCEPT !.stage = "stored"]) \/ Finish(t, i, "ok")
    BY <2>1 DEF Keep
  <2>3. s.stage = "stored" \/ ~Holds(s)
    BY <1>3, <2>2, Zenon
  <2>4. ~Holds(s)
    BY <2>3 DEF Holds, Writing
  <2>5. QED
    BY <1>5, <2>1, <2>4
<1>11. QED
  BY <1>6, <1>7, <1>8, <1>9, <1>10

\* A list that has an element and no second one.
LEMMA OneLong ==
    ASSUME NEW S, NEW w \in Seq(S), Len(w) <= 1, w # <<>>
    PROVE  w = <<w[1]>> /\ w[1] \in S
<1>1. PICK n \in Nat : n = Len(w)
  OBVIOUS
<1>2. n # 0
  BY <1>1
<1>3. n = 1
  BY <1>1, <1>2
<1>4. Len(w) = 1
  BY <1>1, <1>3
<1>5. QED
  BY <1>4

\* Rating looks for an earlier rating: there is one if it has to go.
LEMMA LooksRows ==
    ASSUME Keeps, NEW t \in Tabs, NEW i, NEW r, NEW s, GoesOnAs(t, i, r, s), r.kind = "rate", r.stage = "rated",
           UNCHANGED <<db, ratings, done, risks>>, s.stage = Rated(t, r), s.stage \in {"old", "new"}, s.row = r.row
    PROVE  RowsInv'
<1>1. PICK x \in Items, me \in Users : x = r.item /\ me = User(t)
  BY GoesOnSays, KeepsSays
<1>2. /\ Traffic(t, {i}, i, s) /\ LeftApart(t, {i}, r) /\ r = work[t][i] /\ RowKept(t, r)
  BY GoesOnSays DEF GoesOnAs
<1>3. Stores /\ RowsInv /\ \A u \in Tabs : User(u)' = User(u)
  BY KeepsSays DEF Keeps
<1>4. s.item = x /\ s.kind = "rate" /\ s.likes = r.likes /\ Holds(r) /\ Holds(s) /\ Rating(r) /\ r.likes \in BOOLEAN
  BY <1>1, SameRow DEF GoesOnAs, Same, Holds, Writing, Rating
<1>5. Calm(t, {i}, i, s)
  BY <1>2 DEF Calm
<1>6. PICK mine \in Seq(BOOLEAN) : mine = ratings[me][x]
  BY <1>1, <1>3 DEF Stores
<1>7. s.stage = "new" => mine = <<>>
  BY <1>1, <1>6 DEF Rated
<1>8. s.stage = "old" /\ Clear(risks) => mine = <<~r.likes>>
  <2>1. ASSUME s.stage = "old" PROVE mine # <<>> /\ mine[1] # r.likes
    BY <1>1, <1>6, <2>1 DEF Rated
  <2>2. ASSUME s.stage = "old", Clear(risks) PROVE mine = <<~r.likes>>
    <3>1. Len(mine) <= 1
      BY <1>1, <1>3, <1>6, <2>2 DEF RowsInv, OneEach
    <3>3. mine = <<mine[1]>> /\ mine[1] \in BOOLEAN
      BY <2>1, <2>2, <3>1, OneLong, Zenon
    <3>4. mine[1] = ~r.likes
      BY <1>4, <2>1, <2>2, <3>3, Zenon
    <3>5. QED
      BY <3>3, <3>4
  <2>3. QED
    BY <2>2
<1>9. RowKept(t, s)'
  <2>1. Holds(s) => AtMost(s.row, done[x], s.kind)
    BY <1>1, <1>2, <1>4 DEF RowKept
  <2>2. "overlap" \notin risks => AllOf(s.row, done[x], s.kind) /\ Counted(s.row, x)
    BY <1>1, <1>2, <1>4 DEF RowKept
  <2>3. /\ s.stage = "old" /\ Clear(risks) => ratings[User(t)][x] = <<~s.likes>>
        /\ s.stage = "new" /\ Clear(risks) => ratings[User(t)][x] = <<>>
    BY <1>1, <1>4, <1>6, <1>7, <1>8
  <2>4. QED
    BY <1>3, <1>4, <2>1, <2>2, <2>3, RatingsStay DEF RowKept, Counted
<1>10. LeftApart(t, {i}, s)
  BY <1>1, <1>2, <1>4 DEF LeftApart, Apart
<1>11. QED
  BY <1>5, <1>9, <1>10, CalmRows

\* The handler that rates a quiz.
LEMMA RateRows ==
    ASSUME Keeps, NEW t \in Tabs, NEW i, NEW r, NEW s, GoesOnAs(t, i, r, s), r.kind = "rate", Rate(t, i, r), done' = done
    PROVE  RowsInv'
<1>0. Becomes(t, i, r, s)
  BY WentOn
<1>1. PICK x \in Items : x = r.item
  BY GoesOnSays
<1>2. Stores /\ r \in Requests
  BY KeepsSays DEF GoesOnAs
<1>3. /\ \A a : Finish(t, i, a) => ~Holds(s)
      /\ \A st : Advance(t, i, [r EXCEPT !.stage = st]) => s.stage = st /\ s.row = r.row
      /\ \A st, ro : Advance(t, i, [r EXCEPT !.stage = st, !.row = ro]) => s.stage = st /\ s.row = ro
  BY <1>0, Zenon DEF Becomes
<1>4. ASSUME UNCHANGED <<db, ratings>>, NEW a, Finish(t, i, a), r.stage \in {"new", "kept"} => db'[x] = None
      PROVE  RowsInv'
  <2>1. ~Holds(s)
    BY <1>3, <1>4, Zenon
  <2>2. QED
    BY <1>1, <1>4, <2>1, QuietRows
<1>5. CASE r.stage = "sent"
  <2>1. CASE \E a : Finish(t, i, a) /\ UNCHANGED server
    BY <1>4, <1>5, <2>1 DEF server
  <2>2. CASE db[x] # None /\ UNCHANGED server /\ Hold(x) /\ Advance(t, i, [r EXCEPT !.stage = "rated", !.row = Row(x)])
    <3>1. s.stage = "rated" /\ s.row = db[x]
      BY <1>3, <2>2, Zenon DEF Row
    <3>2. Grown(s.row, db[x], "rate")
      BY <1>2, <2>2, <3>1, CountsOne DEF Stores
    <3>3. QED
      BY <1>1, <1>5, <2>2, <3>1, <3>2, TakesRow DEF server
  <2>3. QED
    BY <1>1, <1>5, <2>1, <2>2 DEF Rate
<1>6. CASE r.stage = "rated"
  <2>1. UNCHANGED <<db, ratings, risks>>
    BY <1>6 DEF Rate, server
  <2>2. CASE Rated(t, r) \in {"failed", "409"}
    <3>1. Finish(t, i, Rated(t, r))
      BY <1>6, <2>2 DEF Rate
    <3>2. QED
      BY <1>4, <1>6, <2>1, <3>1
  <2>3. CASE Rated(t, r) \notin {"failed", "409"}
    <3>1. Advance(t, i, [r EXCEPT !.stage = Rated(t, r)])
      BY <1>6, <2>3 DEF Rate
    <3>2. s.stage = Rated(t, r) /\ s.row = r.row
      BY <1>3, <3>1, Zenon
    <3>3. Rated(t, r) \in {"old", "new"}
      BY <2>3 DEF Rated
    <3>4. QED
      BY <1>6, <2>1, <3>2, <3>3, LooksRows
  <2>4. QED
    BY <2>2, <2>3
<1>7. CASE r.stage = "old"
  <2>1. /\ ratings' = [ratings EXCEPT ![User(t)][x] = Without(@, ~r.likes)]
        /\ Advance(t, i, [r EXCEPT !.stage = "new", !.row = Withdraw(@, r.likes)]) /\ UNCHANGED <<db, risks>>
    BY <1>1, <1>7 DEF Rate
  <2>2. Advance(t, i, [r EXCEPT !.stage = "new", !.row = Withdraw(r.row, r.likes)])
    BY <1>2, <2>1 DEF Requests
  <2>3. s.stage = "new" /\ s.row = Withdraw(r.row, r.likes)
    BY <1>3, <2>2, Zenon
  <2>4. QED
    BY <1>1, <1>7, <2>1, <2>3, OldRows
<1>8. CASE r.stage = "new"
  <2>1. UNCHANGED <<db, risks>>
    BY <1>8 DEF Rate
  <2>2. CASE db[x] = None
    <3>1. Finish(t, i, "failed") /\ UNCHANGED ratings
      BY <1>1, <1>8, <2>2 DEF Rate
    <3>2. QED
      BY <1>4, <2>1, <2>2, <3>1
  <2>3. CASE db[x] # None
    <3>1. /\ ratings' = [ratings EXCEPT ![User(t)][x] = Append(ratings[User(t)][x], r.likes)]
          /\ Advance(t, i, [r EXCEPT !.stage = "kept", !.row = Cast(@, r.likes)])
      BY <1>1, <1>8, <2>3 DEF Rate
    <3>2. Advance(t, i, [r EXCEPT !.stage = "kept", !.row = Cast(r.row, r.likes)])
      BY <1>2, <3>1 DEF Requests
    <3>3. s.stage = "kept" /\ s.row = Cast(r.row, r.likes)
      BY <1>3, <3>2, Zenon
    <3>4. QED
      BY <1>1, <1>8, <2>1, <3>1, <3>3, NewRows
  <2>4. QED
    BY <2>2, <2>3
<1>9. CASE r.stage = "kept"
  <2>1. Update(x, r.row) /\ Finish(t, i, "ok") /\ UNCHANGED <<ratings, risks>>
    BY <1>1, <1>9 DEF Rate
  <2>2. ~Holds(s) /\ Tallied(x, "rate")
    BY <1>2, <1>3, <2>1, CountsOne
  <2>3. Holds(r)
    BY <1>9 DEF Holds, Writing
  <2>4. QED
    BY <1>1, <2>1, <2>2, <2>3, WritesRow
<1>10. QED
  BY <1>5, <1>6, <1>7, <1>8, <1>9 DEF Rate

\* Whatever the server does.
LEMMA HandleRows ==
    ASSUME Keeps, NEW t \in Tabs, Handle(t)
    PROVE  RowsInv'
<1>1. Stores /\ User(t) \in Users /\ Typed
  BY KeepsSays
<1>2. PICK i \in DOMAIN work[t] : \E s :
         work[t][i].stage # "done" /\ HandledAs(t, i, work[t][i], s) /\ Handles(t, i, work[t][i])
  BY <1>1, HandleShape
<1>3. PICK r, s : r = work[t][i] /\ r.stage # "done" /\ HandledAs(t, i, r, s) /\ Handles(t, i, r)
  BY <1>2
<1>4. GoesOnAs(t, i, r, s)
  BY <1>1, <1>3 DEF GoesOnAs, HandledAs, Typed
<1>5. CASE \/ r.kind = "list" /\ List(t, i, r)
           \/ r.kind = "delete" /\ (DeleteQuiz(t, i, r) \/ DeleteQuiztivity(t, i, r)) /\ UNCHANGED <<done, risks>>
  BY <1>4, <1>5, ListRows
<1>6. CASE r.kind = "start" /\ StartQuiz(t, i, r)
  BY <1>4, <1>6, StartRows
<1>7. CASE (r.kind = "view" /\ View(t, i, r)) \/ (r.kind = "save" /\ Save(t, i, r))
  BY <1>4, <1>7, ViewRows
<1>8. CASE r.kind = "rate" /\ Rate(t, i, r) /\ UNCHANGED done
  BY <1>4, <1>8, RateRows
<1>9. QED
  BY <1>3, <1>5, <1>6, <1>7, <1>8 DEF Handles

(***************************************************************************)
(* The whole                                                               *)
(***************************************************************************)

\* The page of a game is left.
LEMMA LeaveHostRows ==
    ASSUME Keeps, NEW t \in Tabs, LeaveHost(t)
    PROVE  RowsInv'
<1>1. work' = work /\ Hands /\ Typed
  BY KeepsSays DEF LeaveHost, Rest, server, Hands
<1>2. Traffic(t, {}, 0, None) /\ 0 \notin DOMAIN work'[t]
  BY <1>1, NoTraffic
<1>3. Calm(t, {}, 0, None)
  BY <1>1, <1>2 DEF Calm, Hands
<1>4. QED
  BY <1>2, <1>3, CalmRows

\* Every step keeps the invariant.
LEMMA NextRows == RowsInv /\ [Next]_vars => RowsInv'
<1> SUFFICES ASSUME RowsInv, [Next]_vars PROVE RowsInv'
  OBVIOUS
<1>1. Keeps
  BY NextDeleted, NextOnwards DEF Keeps, RowsInv
<1>2. ASSUME NEW t \in Tabs, Handle(t) \/ Arrives(t) \/ Fails(t) \/ LeaveHost(t) PROVE RowsInv'
  BY <1>1, <1>2, HandleRows, ArrivesRows, FailsRows, LeaveHostRows
<1>3. ASSUME NEW t \in Tabs,
             \/ OpenPage(t) \/ StartForm(t) \/ LegacyStart(t) \/ ConfirmDelete(t)
             \/ \E x \in Items : LegacyDelete(t, x) \/ SaveEdit(t, x)
      PROVE  RowsInv'
  BY <1>1, <1>3, PressRows
<1>4. ASSUME NEW t \in Tabs, NEW likes \in BOOLEAN, RatingComponent(t, likes) PROVE RowsInv'
  BY <1>1, <1>4, RatingRows
<1>5. CASE UNCHANGED <<db, ratings, done, work, risks>>
  BY <1>1, <1>5, StillRows
<1>6. ASSUME NEW t \in Tabs,
             \/ HostStarts(t) \/ CloseDialog(t) \/ LegacyClose(t) \/ \E dialog \in Dialogs : ViewPopup(t, dialog)
             \/ \E x \in Items, dialog \in Dialogs : DashboardItemCard(t, x, dialog) \/ LegacyCard(t, x, dialog)
      PROVE  RowsInv'
  BY <1>5, <1>6, ZenonT(60) DEF HostStarts, CloseDialog, LegacyClose, ViewPopup, DashboardItemCard, LegacyCard, Rest, server
<1>7. ASSUME NEW u \in Users, LobbyExpires(u) \/ SessionExpires(u) \/ \E p \in Pins : StartGame(u, p)
      PROVE  RowsInv'
  BY <1>5, <1>7 DEF LobbyExpires, SessionExpires, StartGame, server
<1>8. CASE Practise \/ UNCHANGED vars
  BY <1>5, <1>8 DEF Practise, vars, server
<1>9. CASE Next
  BY <1>2, <1>3, <1>4, <1>6, <1>7, <1>8, <1>9, ZenonT(60) DEF Next
<1>10. QED
  BY <1>8, <1>9

\* At first nobody rated anything, and the rows say so.
LEMMA InitRows == Init => RowsInv
<1> SUFFICES ASSUME Init PROVE RowsInv
  OBVIOUS
<1>1. DeletedInv /\ risks = {} /\ \A t \in Tabs : DOMAIN work[t] = {}
  BY InitDeleted DEF Init
<1>2. /\ \A x \in Items : db[x] = NewRow /\ done[x].views = 0 /\ done[x].plays = 0 /\ done[x].text = 0
      /\ \A u \in Users, x \in Items : ratings[u][x] = <<>>
  BY DEF Init
<1>3. NothingIsUndone
  BY <1>2 DEF NothingIsUndone, NewRow
<1>4. OneEach
  BY <1>2 DEF OneEach
<1>5. ASSUME NEW x \in Items PROVE Counted(db[x], x)
  <2>1. \A b : Raters(ratings, x, b) = {}
    BY <1>2, <1>5 DEF Raters
  <2>2. \A b : RatingsOf(x, b) = 0
    BY <2>1, FS_EmptySet DEF RatingsOf, Raters
  <2>3. db[x].likes = 0 /\ db[x].dislikes = 0
    BY <1>2, <1>5 DEF NewRow
  <2>4. QED
    BY <2>2, <2>3, Zenon DEF Counted
<1>6. QED
  BY <1>1, <1>3, <1>4, <1>5 DEF RowsInv, AllCounted

\* The invariant implies the property: nobody has a rating to count of a quiz
\* whose row nobody holds, and a user who never rates twice at once is not
\* excused by the other excuse.
LEMMA RowsInvAddUp == RowsInv /\ StartingTyped => RowsAddUp
<1> SUFFICES ASSUME RowsInv, StartingTyped PROVE RowsAddUp
  OBVIOUS
<1>1. CatalogueTypeOK /\ NothingIsUndone
  BY DEF RowsInv, DeletedInv, BaseInv, TypesHold, StartingTyped, CatalogueTypeOK
<1>2. OneRatingEach
  BY DEF RowsInv, OneEach, Clear, OneRatingEach
<1>3. ASSUME NEW x \in Items, ~Overlaps(x) PROVE ~Pending(x)
  BY <1>3 DEF Overlaps, InFlight, Pending, Writing
<1>4. RatingsAreCounted
  BY <1>3 DEF RowsInv, AllCounted, Counted, RatingsAreCounted
<1>5. QED
  BY <1>1, <1>2, <1>4 DEF RowsAddUp

\* In every behaviour of the catalogue, whatever tabs, users, scenes and bounds
\* there are, the rows add up: the counters of a quiz are its ratings, nothing
\* that was viewed, started or saved is undone, and a user has one rating of a
\* quiz, apart from the two excuses that the property names.
THEOREM RowsAlwaysAddUp == CatalogueSpec => []RowsAddUp
<1>1. RowsInv /\ StartingTyped /\ [Next]_vars => RowsInv' /\ StartingTyped'
  BY NextRows, NextStarting DEF RowsInv
<1>2. QED
  BY <1>1, InitRows, InitStarting, RowsInvAddUp, PTL DEF CatalogueSpec
=============================================================================
