\* Three users of the lobby and one realm, or two of each.
SPECIFICATION LobbySpec
CONSTANTS
    a = a
    b = b
    c = c
    EndPoint = {a, b, c}
    PublicRealmCount = 1
    MaxRealmID = 2
    MaxReclaimable = 2
    JoinNumber <- OnlyLobby
    Disciplined = FALSE
    EntityName <- Entities
    Data <- Nothing
    NoData = NoData
    Lifetime <- Seconds
    LegacyFile <- Nothing
    MaxNow = 1
    MaxConnections = 3
    LobbyRealm = 0
    Task <- Tasks
    SaveTime = 1
    MaxBegun = 6
    MaxAtOnce = 2
    MaxRacers = 2
    MaxOpened = 4
VIEW WithoutOutbox
SYMMETRY EndPoints
INVARIANTS LobbyCounted RealmsListed FirstLearns   AllReadyStart OneHost
\* Connections and clicks are bounded.
CHECK_DEADLOCK FALSE
