------------------------------ MODULE MCLiveGame ------------------------------
(* LiveGame on small instances. *)
EXTENDS LiveGame

CONSTANTS ann, bob, s1, s2, s3, s4, h1

TwoNames    == {ann, bob}
FourSids    == {s1, s2, s3, s4}
TwoSeats    == [u \in {ann, bob} |-> IF u = ann THEN s1 ELSE s2]
NoQuestions == {}
AllOnce     == [s \in FourSids |-> 1]

\* Two ways into a game.  From the empty lobby: the name ann and the two
\* connections s1 and s2, with everything that can happen to them.
FromScratch ==
    LET busy == {s \in Sids : entering'[s] # Lobby!NotEntering} IN
    /\ busy \cup told' \cup (Sids \ open') \subseteq {s1, s2}
    /\ \A s \in busy : entering'[s].username # bob

\* From a full lobby: two players and a connection to come back on.  No
\* connection is lost, nobody registers as a remote, nobody is kicked, and a
\* question is asked once.  Pages still reload (a page may rejoin before its
\* old connection is gone).
Calm ==
    /\ UNCHANGED <<open, told, kicking>>
    /\ \A h \in HostTasks : hosting'[h].op = "set_question_number" => room.question = -1

\* Only in a full lobby is the host at the connection Host.
MixedSpec ==
    /\ LiveInit \/ SeatedInit
    /\ [][LiveNext /\ IF admin = Host THEN Calm ELSE FromScratch]_liveVars

OneHostTask == {h1}
==============================================================================
