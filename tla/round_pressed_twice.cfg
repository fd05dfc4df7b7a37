\* Two players answer one question, one of them twice; one host.
SPECIFICATION FairSpec
CONSTANTS
    None = None
    ann = ann
    bob = bob
    sAnn = sAnn
    sBob = sBob
    sHost = sHost
    h1 = h1
    Users <- TwoUsers
    Sids <- TwoSids
    PlayerOf <- TwoPlayers
    Host = sHost
    NumQuestions = 1
    RangeQuestions <- NoQuestions
    SlideQuestions <- NoQuestions
    Attempts <- AnnTwice
    HostTasks <- OneHostTask
INVARIANTS
    TypeOK
    ListedAnswersAreScored
    EveryoneAnsweredIsSound
PROPERTIES
    SettledAnswersStay
    KeepsLedger
    FullListIsAnnounced
