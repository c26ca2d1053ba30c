\* Two players whose names do not all come back from encode and decode as they went.
SPECIFICATION PokerSpec
CONSTANTS
    a = a
    b = b
    EndPoint = {a, b}
    PublicRealmCount = 1
    MaxRealmID = 0
    MaxReclaimable = 1
    JoinNumber <- Table
    Disciplined = FALSE
    EntityName <- Kept
    Data <- Texts
    NoData = NoData
    Lifetime <- Seconds
    LegacyFile <- Nothing
    MaxNow = 1
    MaxConnections = 3
    TableRealm = 0
    StartChips = 2
    CardCount = 7
    Rolls <- OneRoll
    PlayerName <- OddNamesAt
    BetAmount <- One
    MaxBegun = 4
    MaxAtOnce = 2
VIEW WithoutOutbox
INVARIANT TablesAgree
\* Connections and clicks are bounded.
CHECK_DEADLOCK FALSE
