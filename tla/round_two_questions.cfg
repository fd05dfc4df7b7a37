\* One player, who may answer twice; a RANGE question and a SLIDE, asked in any order.
SPECIFICATION Spec
CONSTANTS
    None = None
    ann = ann
    bob = bob
    sAnn = sAnn
    sBob = sBob
    sHost = sHost
    h1 = h1
    Users <- OneUser
    Sids <- OneSid
    PlayerOf <- OnePlayer
    Host = sHost
    NumQuestions = 2
    RangeQuestions <- FirstQuestion
    SlideQuestions <- SecondQuestion
    Attempts <- AllTwice
    HostTasks <- OneHostTask
INVARIANTS
    ClockRunsBeforeAnswers
PROPERTIES
    StartedIsPermanent
    LaterAnswersAreRefused
