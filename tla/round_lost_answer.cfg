\* Two players answer one question at the same time.
SPECIFICATION Spec
CONSTANTS
    None = None
    ann = ann
    bob = bob
    sAnn = sAnn
    sBob = sBob
    sHost = sHost
    h1 = h1
    Users <- TwoUsers
    Sids <- TwoSids
    PlayerOf <- TwoPlayers
    Host = sHost
    NumQuestions = 1
    RangeQuestions <- NoQuestions
    SlideQuestions <- NoQuestions
    Attempts <- AllOnce
    HostTasks <- OneHostTask
INVARIANTS
    SubmittedAnswersAreStored
