----------------------------- MODULE MCCatalogue -----------------------------
(* Two quizzes or a quiz and a quiztivity, on one to three pages. *)
EXTENDS Catalogue

CONSTANTS one, two, three, quiz, other

ThreeTabs == {one, two, three}
TwoItems  == {quiz, other}

Ui(a, b, c) == [t \in ThreeTabs |-> IF t = one THEN a ELSE IF t = two THEN b ELSE c]
By(a, b, c) == Ui(a, b, c)

NoBound == [b \in Bounds |-> 0]

Base == [ui |-> Ui("web", "closed", "closed"), user |-> By("teacher", "reader", "teacher"),
         quizzes |-> {quiz}, public |-> {quiz}, asked |-> <<>>, uses |-> {},
         bound |-> [NoBound EXCEPT !["visits"] = 1]]

Bounded(s, what, n) == [s EXCEPT !.bound[what] = n]

Teachers == [Base EXCEPT !.user = By("teacher", "teacher", "teacher"), !.quizzes = TwoItems]

StartScenes ==
    LET web    == Bounded([Teachers EXCEPT !.uses = {"start", "download"}], "starts", 2)
        legacy == [web EXCEPT !.ui = Ui("legacy", "closed", "closed")]
        both   == [Bounded([web EXCEPT !.uses = {"start"}], "visits", 2) EXCEPT !.quizzes = {quiz}]
        once   == Bounded(web, "starts", 1)
        read   == [Bounded([Base EXCEPT !.uses = {"start"}], "visits", 2) EXCEPT !.ui = Ui("web", "view", "closed")]
    IN  {Bounded(web, "fail", 1), Bounded(legacy, "fail", 1), Bounded(once, "expire", 2),
         Bounded([once EXCEPT !.ui = Ui("legacy", "closed", "closed")], "expire", 1),
         [both EXCEPT !.ui = Ui("web", "legacy", "closed")], Bounded(read, "starts", 2)}

DeleteScenes ==
    LET web    == Bounded([Base EXCEPT !.uses = {"delete", "analytics"}], "deletes", 2)
        legacy == [web EXCEPT !.ui = Ui("legacy", "closed", "closed")]
        rated  == Bounded([Base EXCEPT !.ui = Ui("web", "view", "closed"), !.uses = {"delete"}], "deletes", 1)
        edited == Bounded([Teachers EXCEPT !.ui = Ui("legacy", "editor", "closed"),
                                           !.uses = {"delete", "start"}], "deletes", 1)
    IN  {Bounded(Bounded(web, "fail", 1), "visits", 2), Bounded(Bounded(legacy, "fail", 1), "starts", 1),
         Bounded(legacy, "expire", 1), Bounded(Bounded(rated, "visits", 2), "rates", 1),
         Bounded(Bounded(edited, "saves", 1), "starts", 1)}

RateScenes ==
    LET solo  == [Base EXCEPT !.ui = Ui("view", "closed", "editor"), !.user = By("reader", "reader", "teacher")]
        pair  == [Base EXCEPT !.ui = Ui("view", "view", "closed"), !.user = By("reader", "teacher", "teacher")]
    IN  {Bounded(solo, "rates", 3), Bounded(Bounded(solo, "rates", 2), "fail", 1),
         Bounded(Bounded(solo, "rates", 1), "saves", 1), Bounded(Bounded(solo, "rates", 1), "expire", 1), Bounded(Bounded(pair, "visits", 2), "rates", 2)}

Order == [type |-> "ORDER", answers |-> <<1, 2, 3>>]
Plain(type) == [type |-> type, answers |-> <<1, 2>>]

PracticeScenes ==
    {[Base EXCEPT !.ui = Ui("closed", "practice", "closed"), !.asked = <<a, b>>] :
        a \in {Order, Plain("ABCD"), Plain("SLIDE"), Plain("RANGE")},
        b \in {Order, Plain("CHECK"), Plain("TEXT"), Plain("VOTING")}}

AllScenes == StartScenes \cup DeleteScenes \cup RateScenes \cup PracticeScenes
=============================================================================
