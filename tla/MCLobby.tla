------------------------------- MODULE MCLobby -------------------------------
(* Lobby on small instances. *)
EXTENDS Lobby, TLC

CONSTANTS ann, s1, s2, s3

OneName  == {ann}
ThreeSids == {s1, s2, s3}
NoQuestions == {}

\* The connections are interchangeable.
AnyConnection == Permutations(ThreeSids)
==============================================================================
