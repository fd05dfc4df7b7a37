----------------------------- MODULE MCGamePages -----------------------------
(* GamePages with two players and quizzes of one or two questions. *)
EXTENDS GamePages

CONSTANTS ann, bob

TwoPlayers == {ann, bob}

Q(type) == [type |-> type, hidden |-> FALSE]
Secret  == [type |-> "ABCD", hidden |-> TRUE]

Game(quiz, remote, coming, reloads, hurry) ==
    [quiz |-> quiz, remote |-> remote, coming |-> coming, eager |-> {}, reloads |-> reloads,
     hasty |-> hurry, others |-> 0]

Eager(game)  == [game EXCEPT !.eager = {ann}]
Beside(game) == [game EXCEPT !.others = 1]

\* Two players of a short game; one player whose page is reloaded, whose host
\* presses too soon or hides results, or whose game has a remote control, with
\* a slide or without; two players of whom one may answer twice; and a game
\* beside another one.
MixedScenes ==
    { Game(<<Q("ABCD")>>,             FALSE, {ann, bob}, 0, 0),
      Game(<<Q("RANGE"), Q("CHECK")>>, FALSE, {ann}, 1, 0),
      Game(<<Q("SLIDE"), Q("ABCD")>>, FALSE, {ann}, 0, 1),
      Game(<<Secret, Secret>>,        FALSE, {ann}, 0, 0),
      Game(<<Q("ABCD"), Secret>>,     TRUE,  {ann}, 0, 0),
      Game(<<Q("ABCD"), Q("SLIDE")>>, TRUE,  {ann}, 0, 0),
      Eager(Game(<<Q("TEXT")>>,       FALSE, {ann, bob}, 0, 0)),
      Beside(Eager(Game(<<Q("ABCD"), Q("TEXT")>>, FALSE, {ann}, 0, 0))) }

==============================================================================
