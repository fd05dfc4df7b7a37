------------------------------ MODULE MCEditor ------------------------------
(* The editors with two tabs and three pictures. *)
EXTENDS Editor

CONSTANTS one, two, cat, dog, owl

TwoTabs == {one, two}
ThreePictures == {cat, dog, owl}

Ui(first, second) == [t \in TwoTabs |-> IF t = one THEN first ELSE second]

Ask(type, list) == [EmptyQuestion(type, 0) EXCEPT !.text = "text", !.list = list,
                                                  !.canvas = IF type = "SLIDE" THEN {"headline"} ELSE {}]
Said(color, mark) == [text |-> "text", color |-> color, mark |-> mark]

Plainly == <<Said("own", FALSE), Said("unset", FALSE)>>

Quiz(questions) == [EmptyQuiz EXCEPT !.title = "text", !.questions = questions]

Ranges  == Quiz(<<Ask("RANGE", <<>>), Ask("VOTING", Plainly)>>)
Mixture == Quiz(<<Ask("SLIDE", <<>>), Ask("RANGE", <<>>), Ask("ORDER", Plainly)>>)
Minded  == Quiz(<<Ask("TEXT", <<Said("unset", TRUE)>>), Ask("ABCD", Plainly)>>)
Opening == Quiz(<<Ask("ABCD", Plainly)>>)
Public  == [Opening EXCEPT !.public = TRUE]
Covered == [Opening EXCEPT !.cover = cat, !.questions[1].image = dog]

Base == [ui |-> Ui("web", "closed"), creating |-> FALSE, stored |-> Opening, draft |-> None,
         files |-> {}, does |-> {}, adds |-> {}, edits |-> 1, visits |-> 1, saves |-> 1,
         expire |-> 0, fail |-> 0, deletes |-> 0]

Create(first, second) == [Base EXCEPT !.ui = Ui(first, second), !.creating = TRUE, !.stored = None]

WebScenes ==
         {[Base EXCEPT !.stored = Ranges, !.does = {"span"}, !.edits = 3]}
    \cup {[Base EXCEPT !.stored = q, !.does = {"answers"}, !.saves = 0] : q \in {Minded, Mixture, Ranges}}
    \cup {[Base EXCEPT !.stored = Mixture, !.does = {"order", "delete", "card"}, !.edits = 2, !.saves = 0]}
    \cup {[Base EXCEPT !.stored = Public, !.does = {"settings"}, !.edits = 2]}
    \cup {[Base EXCEPT !.stored = Opening, !.edits = 0, !.saves = 2, !.fail = 1, !.expire = 1]}
    \cup {[Base EXCEPT !.ui = Ui("web", "legacy"), !.stored = Quiz(<<Ask("SLIDE", <<>>)>>), !.does = {"slide"},
                       !.visits = 2, !.saves = 2]}
    \cup {[Base EXCEPT !.stored = Covered, !.files = {cat, dog}, !.does = {"settings"}, !.visits = 2, !.saves = 2]}
    \cup {[Base EXCEPT !.stored = Covered, !.files = {cat, dog}, !.does = {"settings"}, !.deletes = 1]}

CreateScenes ==
         {[Create("web", "closed") EXCEPT !.does = {"add", "crash", "leave"}, !.adds = {"ABCD", "RANGE"},
                                         !.edits = 2, !.visits = 2]}
    \cup {[Create("web", "closed") EXCEPT !.draft = Opening, !.does = {"settings", "crash", "leave"},
                                         !.visits = 2, !.expire = 1]}
    \cup {[Create("web", "closed") EXCEPT !.draft = Public, !.saves = 2, !.fail = 1]}
    \cup {[Create(x, "closed") EXCEPT !.draft = Opening, !.saves = 2, !.expire = 1] : x \in {"web", "legacy"}}
    \cup {[Create("web", "legacy") EXCEPT !.draft = Opening, !.visits = 2, !.saves = 2, !.edits = 0]}

LegacyBase == [Base EXCEPT !.ui = Ui("legacy", "closed")]

\* The one picture no quiz is linked to is deleted, and chosen from the library.
Illustrated == [Opening EXCEPT !.cover = cat, !.back = owl]

BinScenes ==
         {[LegacyBase EXCEPT !.stored = Illustrated, !.files = {cat, dog, owl}, !.does = {"picture"},
                             !.visits = 2, !.saves = 2, !.deletes = 1]}
    \cup {[Create("legacy", "closed") EXCEPT !.draft = Illustrated, !.files = {cat, dog, owl}, !.does = {"picture"},
                             !.deletes = 1]}

LegacyScenes ==
         {[LegacyBase EXCEPT !.stored = Mixture, !.does = {"span", "slide", "order", "delete"}, !.edits = 2,
                             !.saves = 0]}
    \cup {[LegacyBase EXCEPT !.stored = Minded, !.does = {"answers", "card"}]}
    \cup {[LegacyBase EXCEPT !.stored = Ranges, !.does = {"add"}, !.adds = {"SLIDE", "ORDER", "RANGE"}, !.edits = 2,
                             !.saves = 0]}
    \cup {[LegacyBase EXCEPT !.stored = Public, !.does = {"settings", "leave"}, !.saves = 2]}
    \cup {[LegacyBase EXCEPT !.stored = Covered, !.files = {cat, dog}, !.does = {"picture"}, !.deletes = 1]}
    \cup {[LegacyBase EXCEPT !.stored = [Ranges EXCEPT !.cover = cat], !.files = {cat}, !.does = {"picture"},
                             !.saves = 0]}
    \cup BinScenes

\* A new quiz, an answer that is lost and a second press.
LostScenes == {[Create("web", "closed") EXCEPT !.draft = Opening, !.does = {"settings"}, !.saves = 2, !.fail = 1]}

\* A tab that dies while a bound is typed, and is opened again.
HalfwayScenes == {[Create("web", "closed") EXCEPT !.does = {"span", "crash"},
                     !.draft = Quiz(<<Ask("RANGE", <<>>)>>), !.visits = 2]}

MixedScenes == HalfwayScenes \cup WebScenes \cup CreateScenes \cup LegacyScenes
=============================================================================
