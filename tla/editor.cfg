SPECIFICATION EditorSpec
CONSTANTS
    one = one
    two = two
    cat = cat
    dog = dog
    owl = owl
    None = None
    Tabs <- TwoTabs
    Pictures <- ThreePictures
    Scenes <- MixedScenes
    MaxQuizzes = 3
CHECK_DEADLOCK FALSE
INVARIANTS
    UntouchedStay
    WorkIsKept
    SavesHold
    StoresAgree
PROPERTIES
    PressedIsSaved
