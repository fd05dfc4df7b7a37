------------------------------ MODULE GameStore ------------------------------
(***************************************************************************)
(* What Redis and the Socket.IO server keep of ONE running game: the       *)
(* vocabulary shared by the modules of the live game.                      *)
(*                                                                         *)
(* A game is addressed by its pin; every key below is `...:{pin}...`, so   *)
(* the pin itself is left out.  Question texts, answers' texts, colours    *)
(* and the other payload of the PlayGame document are left out as well:    *)
(* no handler of the live game changes them.                               *)
(***************************************************************************)
EXTENDS Integers, FiniteSets

CONSTANTS
    Users,           \* the names players may choose
    Sids,            \* Socket.IO connections
    NumQuestions,    \* length of PlayGame.questions
    RangeQuestions,  \* indices of the questions of type RANGE
    SlideQuestions,  \* indices of the questions of type SLIDE
    None             \* Redis's nil / Python's None

Questions == 0 .. NumQuestions - 1

\* The host's page asks for the question after the one it shows, also when that
\* was the last one and its results are hidden: one index past the end.
Indices == 0 .. NumQuestions

ASSUME GameStoreAssumption ==
    /\ NumQuestions \in Nat
    /\ RangeQuestions \subseteq Questions
    /\ SlideQuestions \subseteq Questions
    /\ None \notin Users
    /\ None \notin Sids
    /\ None \notin Indices
    /\ IsFiniteSet(Sids)    \* a server has finitely many connections

\* `game:{pin}`: the mutable part of the PlayGame document.  It is always
\* read and written as a WHOLE.
PlayGame == [started          : BOOLEAN,
             current_question : {-1} \cup Indices,
             question_show    : BOOLEAN]

NewGame == [started |-> FALSE, current_question |-> -1, question_show |-> FALSE]

\* A member of the set `game_session:{pin}:players`.
GamePlayer == [username : Users, sid : Sids]

\* `socket_io_session:{id}`: who a connection is.  `ping` tells whether
\* echo_time_sync has added the "ping" field yet.
Session == [username : Users \cup {None}, admin : BOOLEAN, ping : BOOLEAN]

ASSUME NoneIsNoSession == None \notin Session

PlayerSession(u) == [username |-> u, admin |-> FALSE, ping |-> FALSE]
AdminSession     == [username |-> None, admin |-> TRUE, ping |-> FALSE]

==============================================================================
