\* One name, three connections.
SPECIFICATION LobbySpec
CONSTANTS
    None = None
    ann = ann
    s1 = s1
    s2 = s2
    s3 = s3
    Users <- OneName
    Sids <- ThreeSids
    NumQuestions = 1
    RangeQuestions <- NoQuestions
    SlideQuestions <- NoQuestions
\* Every connection may be lost, after which nothing happens any more.
CHECK_DEADLOCK FALSE
INVARIANTS
    LobbyTypeOK
    PlayersAreCounted
    JoinedPagesAreTimed
PROPERTIES
    NamesPassByCookie
    PlayersKeepTheirNames
SYMMETRY AnyConnection
