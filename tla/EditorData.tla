----------------------------- MODULE EditorData -----------------------------
(***************************************************************************)
(* A quiz as the two editors hold it, and what they can do to its parts:   *)
(* the data operations of features/editor of the new client and of         *)
(* lib/editor of the legacy one.  An operator named after a component      *)
(* returns what one gesture in that component can make of the part it      *)
(* edits.  Texts, times and colours are members of small sets.             *)
(***************************************************************************)
EXTENDS Integers, Sequences, FiniteSets, SequencesExt

CONSTANTS Pictures, None

Types  == {"ABCD", "CHECK", "VOTING", "ORDER", "TEXT", "RANGE", "SLIDE"}
Listed == Types \ {"RANGE", "SLIDE"}
Marked == {"ABCD", "CHECK", "TEXT"}       \* answers that are right or wrong, or minded for case
Texts  == {"", "text", "other"}
Times  == {"", "0", "20"}
Colors == {"unset", "own", "default 1", "default 2", "default 3", "default 4"}
Shapes == {"headline", "circle"}
Bounds == {0, 5, 12}                      \* what is typed into the fields of a range

MaxAnswers == 4

NoSpan  == [min |-> 0, max |-> 0, low |-> 0, high |-> 0]
Default == [min |-> 0, max |-> 10, low |-> 3, high |-> 7]

\* of: the key of the question, 0 where it has none; mark: `right` or `case_sensitive`.
Answers   == [text : Texts, color : Colors, mark : BOOLEAN]
Spans     == [min : Nat, max : Nat, low : Nat, high : Nat]
Questions == [of : Nat, type : Types, text : Texts, time : Times, hide : BOOLEAN,
              image : Pictures \cup {None}, list : Seq(Answers), span : Spans,
              canvas : SUBSET Shapes]
Quizzes   == [title : Texts, public : BOOLEAN, cover : Pictures \cup {None},
              back : Pictures \cup {None}, color : {"unset", "own", "white"},
              questions : Seq(Questions)]

DefaultColor(i) == CASE i = 1 -> "default 1" [] i = 2 -> "default 2"
                     [] i = 3 -> "default 3" [] OTHER -> "default 4"

EmptyQuiz == [title |-> "", public |-> FALSE, cover |-> None, back |-> None,
              color |-> "unset", questions |-> <<>>]

EmptyQuestion(type, key) ==
    [of |-> key, type |-> type, text |-> "", time |-> "20", hide |-> FALSE, image |-> None,
     list |-> <<>>, span |-> IF type = "RANGE" THEN Default ELSE NoSpan, canvas |-> {}]

EmptyAnswer(type, i) ==
    [text |-> "", color |-> IF type = "TEXT" THEN "unset" ELSE DefaultColor(i), mark |-> FALSE]

-----------------------------------------------------------------------------
(* Whole quizzes. *)

Coloured(list) ==
    [i \in DOMAIN list |-> IF list[i].color = "unset"
                           THEN [list[i] EXCEPT !.color = DefaultColor(i)] ELSE list[i]]

\* The new client fills in missing colours when it loads a quiz or a draft.
NormaliseQuestion(q) ==
    IF q.type \in Listed \ {"TEXT"} THEN [q EXCEPT !.list = Coloured(@)] ELSE q

Normalise(quiz) ==
    [quiz EXCEPT !.questions = [k \in DOMAIN @ |-> NormaliseQuestion(@[k])]]

ToEditorState(quiz) ==
    [quiz EXCEPT !.questions = [k \in DOMAIN @ |-> [@[k] EXCEPT !.of = k]]]

ToQuizInput(form) ==
    [form EXCEPT !.questions = [k \in DOMAIN @ |-> [@[k] EXCEPT !.of = 0]]]

Swap(s, i, j) == [s EXCEPT ![i] = s[j], ![j] = s[i]]

MoveItem(s, from, to) == InsertAt(RemoveAt(s, from), to, s[from])

PicturesOf(quiz) ==
    ({quiz.cover, quiz.back} \cup {quiz.questions[k].image : k \in DOMAIN quiz.questions}) \ {None}

ListIsValid(type, list) ==
    /\ Len(list) >= IF type = "TEXT" THEN 1 ELSE 2
    /\ \A i \in DOMAIN list : list[i].text # ""

\* dataSchema of the new client; the legacy one takes any range.
IsValid(web, quiz) ==
    /\ quiz.title # ""
    /\ quiz.questions # <<>>
    /\ \A k \in DOMAIN quiz.questions :
          LET q == quiz.questions[k] IN
          /\ q.text # "" /\ q.time = "20"
          /\ q.type \in Listed => ListIsValid(q.type, q.list)
          /\ q.type = "SLIDE" => q.canvas # {}
          /\ (q.type = "RANGE" /\ web) => q.span.min < q.span.max

Least(a, b)    == IF a < b THEN a ELSE b
Greatest(a, b) == IF a < b THEN b ELSE a

RangeSpans(quiz) ==
    {quiz.questions[k].span : k \in {k \in DOMAIN quiz.questions : quiz.questions[k].type = "RANGE"}}

\* Every range has a span, and where it has one the correct span lies in it.
Spanned(quiz) == \A s \in RangeSpans(quiz) : s.min < s.max
Fitted(quiz)  == \A s \in RangeSpans(quiz) :
                    s.min < s.max => s.min <= s.low /\ s.low <= s.high /\ s.high <= s.max

\* The correct span is not pulled into the bounds.
Bug_FitRange(s) == [s EXCEPT !.low = Least(s.low, s.high), !.high = Greatest(s.low, s.high)]

FitRange(s) ==
    LET Clamp(x) == Least(s.max, Greatest(s.min, x)) IN
    IF s.max <= s.min THEN s
    ELSE [s EXCEPT !.low  = Least(Clamp(s.low), Clamp(s.high)),
                   !.high = Greatest(Clamp(s.low), Clamp(s.high))]

-----------------------------------------------------------------------------
(* The answers of a question in the new client. *)

Dropped(list) == {RemoveAt(list, i) : i \in DOMAIN list}

Grown(type, list) ==
    IF Len(list) < MaxAnswers THEN {Append(list, EmptyAnswer(type, Len(list) + 1))} ELSE {}

Retyped(list) == {[list EXCEPT ![i].text = x] : i \in DOMAIN list, x \in Texts}

Toggled(list) == {[list EXCEPT ![i].mark = ~@] : i \in DOMAIN list}

\* A colour is picked or reset.
Painted(list, reset) ==
         {[list EXCEPT ![i].color = "own"] : i \in DOMAIN list}
    \cup {[list EXCEPT ![i].color = reset[i]] : i \in DOMAIN list}

\* The text, the colour, its reset and the bin of one answer.
Tile(list, reset) == Retyped(list) \cup Dropped(list) \cup Painted(list, reset)

Defaults(list) == [i \in DOMAIN list |-> DefaultColor(i)]

ColorAnswerTile(list) == Tile(list, Defaults(list))

AbcdAnswers(type, list) == ColorAnswerTile(list) \cup Toggled(list) \cup Grown(type, list)

VotingAnswers(list) == ColorAnswerTile(list) \cup Grown("VOTING", list)

OrderAnswers(list) ==
    ColorAnswerTile(list) \cup Grown("ORDER", list)
      \cup {MoveItem(list, i, i - 1) : i \in 2 .. Len(list)}
      \cup {MoveItem(list, i, i + 1) : i \in 1 .. Len(list) - 1}

TextAnswers(list) == Retyped(list) \cup Dropped(list) \cup Toggled(list) \cup Grown("TEXT", list)

AnswerPart(q) ==
    {[q EXCEPT !.list = l] : l \in CASE q.type \in {"ABCD", "CHECK"} -> AbcdAnswers(q.type, q.list)
                                     [] q.type = "VOTING" -> VotingAnswers(q.list)
                                     [] q.type = "ORDER"  -> OrderAnswers(q.list)
                                     [] q.type = "TEXT"   -> TextAnswers(q.list)
                                     [] OTHER             -> {}}

\* The slider of a range that has a span, thumbs at its ends.
Slider(q) ==
    IF q.type = "RANGE" /\ q.span.min < q.span.max
    THEN {[q EXCEPT !.span = FitRange([@ EXCEPT !.low = x, !.high = y])] :
             x \in {q.span.min, q.span.low}, y \in {q.span.max, q.span.high}}
    ELSE {}

\* A bound being typed: whole numbers, and nothing is fitted yet.
BoundField(q) ==
    IF q.type = "RANGE"
    THEN {[q EXCEPT !.span.min = x] : x \in Bounds} \cup {[q EXCEPT !.span.max = x] : x \in Bounds}
    ELSE {}

QuestionCard(q) ==
         {[q EXCEPT !.text = x] : x \in Texts} \cup {[q EXCEPT !.image = None]}
    \cup {[q EXCEPT !.time = x] : x \in Times} \cup {[q EXCEPT !.hide = ~@]}

SettingsCard(f) ==
         {[f EXCEPT !.title = x] : x \in Texts} \cup {[f EXCEPT !.public = ~@]}
    \cup {[f EXCEPT !.cover = None]} \cup {[f EXCEPT !.back = None]}
    \cup {[f EXCEPT !.color = IF @ = "unset" THEN "white" ELSE "unset"]}
    \cup IF f.color = "unset" THEN {} ELSE {[f EXCEPT !.color = "own"]}

-----------------------------------------------------------------------------
(* The same parts in the legacy client, which edits the quiz in place. *)

ABCDEditorPart(type, list) ==
    Tile(list, Defaults(list)) \cup Toggled(list) \cup Grown(type, list)

VotingEditorPart(list) == Tile(list, Defaults(list)) \cup Grown("VOTING", list)

\* An unset colour is filled in at once, by Settled.
OrderEditorPart(list) ==
    Tile(list, [i \in DOMAIN list |-> "unset"]) \cup Grown("ORDER", list)
      \cup {Swap(list, i, i + 1) : i \in 1 .. Len(list) - 1}

TextEditorPart(list) == Retyped(list) \cup Dropped(list) \cup Toggled(list) \cup Grown("TEXT", list)

LegacyAnswerPart(q) ==
    {[q EXCEPT !.list = l] : l \in CASE q.type \in {"ABCD", "CHECK"} -> ABCDEditorPart(q.type, q.list)
                                     [] q.type = "VOTING" -> VotingEditorPart(q.list)
                                     [] q.type = "ORDER"  -> OrderEditorPart(q.list)
                                     [] q.type = "TEXT"   -> TextEditorPart(q.list)
                                     [] OTHER             -> {}}

\* card.svelte, and settings_menu.svelte for the title and the time of a slide.
LegacyCard(q) ==
         {[q EXCEPT !.text = x] : x \in Texts} \cup {[q EXCEPT !.hide = ~@]}
    \cup {[q EXCEPT !.time = x] : x \in Times}
    \cup IF q.type = "SLIDE" THEN {} ELSE {[q EXCEPT !.image = None]}

\* Without the switch there is no colour, and a new colour has to be picked.
LegacySettings(f) ==
         {[f EXCEPT !.title = x] : x \in Texts} \cup {[f EXCEPT !.public = ~@]}
    \cup {[f EXCEPT !.cover = None]} \cup {[f EXCEPT !.back = None]}
    \cup {[f EXCEPT !.color = x] : x \in {"unset", "own"}}

\* element_selection.svelte inserts a shape, edit_menu.svelte changes or moves one.
ElementSelection(canvas) == {canvas \cup {s} : s \in Shapes}
EditMenu(canvas) == IF canvas = {} THEN {} ELSE {canvas}
=============================================================================
