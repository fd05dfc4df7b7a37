SPECIFICATION SignInSpec
CONSTANTS
    new = new
    old = old
    None = None
    Pages <- TwoPages
    Scenes <- MixedScenes
CHECK_DEADLOCK FALSE
INVARIANTS
    StepsAgree
    NeverStranded
    SignedInIsHome
PROPERTIES
    GetsIn
