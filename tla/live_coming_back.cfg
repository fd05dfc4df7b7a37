\* One name from the empty lobby on; two players in the lobby, one spare connection to come back on.
SPECIFICATION MixedSpec
CONSTANTS
    None = None
    ann = ann
    bob = bob
    s1 = s1
    s2 = s2
    s3 = s3
    s4 = s4
    h1 = h1
    Users <- TwoNames
    Sids <- FourSids
    Seats <- TwoSeats
    Host = s3
    NumQuestions = 1
    RangeQuestions <- NoQuestions
    SlideQuestions <- NoQuestions
    Attempts <- AllOnce
    HostTasks <- OneHostTask
\* Every connection may be lost, after which nothing happens any more.
CHECK_DEADLOCK FALSE
INVARIANTS
    HalvesAgree
PROPERTIES
    EnoughAnswersForEveryone
