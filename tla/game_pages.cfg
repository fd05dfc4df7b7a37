SPECIFICATION PagesSpec
CONSTANTS
    ann = ann
    bob = bob
    None = None
    Players <- TwoPlayers
    Scenes <- MixedScenes
CHECK_DEADLOCK FALSE
INVARIANTS
    PagesTypeOK
    ScreensAgree
    ScoresAgree
PROPERTIES
    TimersStopWhenHostsWait
    GameFinishes
