SPECIFICATION AccountsSpec
CONSTANTS
    one = one
    two = two
    None = None
    Browsers <- TwoBrowsers
    Scenes <- MixedScenes
CHECK_DEADLOCK FALSE
INVARIANTS
    OneCreated
    RightPasswordPasses
    ToldIsStored
    ChangedIsSignedOut
PROPERTIES
    EndsSignedIn
