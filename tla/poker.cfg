\* Two players at a table, one of whom may come back once.
SPECIFICATION PokerSpec
CONSTANTS
    a = a
    b = b
    EndPoint = {a, b}
    PublicRealmCount = 1
    MaxRealmID = 0
    MaxReclaimable = 1
    JoinNumber <- Table
    Disciplined = FALSE
    EntityName <- Kept
    Data <- Texts
    NoData = NoData
    Lifetime <- Seconds
    LegacyFile <- Nothing
    MaxNow = 1
    MaxConnections = 3
    TableRealm = 0
    StartChips = 2
    CardCount = 7
    Rolls <- OneRoll
    PlayerName <- NamesAt
    BetAmount <- One
    MaxBegun = 5
    MaxAtOnce = 2
VIEW WithoutOutbox
INVARIANTS TablesOK TablesAgree MoneyKept NoCardTwice DealerShown ListShowsUsers SendersKnown
\* Connections and clicks are bounded.
CHECK_DEADLOCK FALSE
