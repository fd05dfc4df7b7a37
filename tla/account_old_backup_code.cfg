SPECIFICATION AccountsSpec
CONSTANTS
    one = one
    two = two
    None = None
    Browsers <- TwoBrowsers
    Scenes <- ChangeScenes
CHECK_DEADLOCK FALSE
PROPERTIES
    OldCodesStayOld
