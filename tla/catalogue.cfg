SPECIFICATION CatalogueSpec
CONSTANTS
    one = one
    two = two
    three = three
    quiz = quiz
    other = other
    None = None
    Tabs <- ThreeTabs
    Items <- TwoItems
    Pins = {1, 2}
    Scenes <- AllScenes
CHECK_DEADLOCK FALSE
INVARIANTS
    DeletedIsGone
    RowsAddUp
    GamesKeepTheirHosts
    PracticeIsRight
PROPERTIES
    PressedSettles
