SPECIFICATION EditorSpec
CONSTANTS
    one = one
    two = two
    cat = cat
    dog = dog
    owl = owl
    None = None
    Tabs <- TwoTabs
    Pictures <- ThreePictures
    Scenes <- LostScenes
    MaxQuizzes = 3
CHECK_DEADLOCK FALSE
INVARIANTS
    RepeatedOnlyWhenExpired
