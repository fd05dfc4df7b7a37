---------------------------- MODULE MCAnswerRound ----------------------------
(* AnswerRound on small instances: one or two named players and a host. *)
EXTENDS AnswerRound

CONSTANTS ann, bob, sAnn, sBob, sHost, h1

OneUser    == {ann}
OneSid     == {sAnn, sHost}
OnePlayer  == [s \in {sAnn} |-> ann]

TwoUsers   == {ann, bob}
TwoSids    == {sAnn, sBob, sHost}
TwoPlayers == [s \in {sAnn, sBob} |-> IF s = sAnn THEN ann ELSE bob]

NoQuestions    == {}
FirstQuestion  == {0}
SecondQuestion == {1}
OneHostTask    == {h1}

\* Everybody sends an answer once; ann twice; everybody twice.
AllOnce  == [s \in Sids |-> 1]
AnnTwice == [s \in Sids |-> IF s = sAnn THEN 2 ELSE 1]
AllTwice == [s \in Sids |-> 2]
==============================================================================
