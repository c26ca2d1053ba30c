\* Clients that name public or live realms only.
SPECIFICATION SpecClients
CONSTANTS
    EndPoint = {a, b, c}
    PublicRealmCount = 1
    MaxRealmID = 3
    MaxReclaimable = 2
    JoinNumber <- AnyNumber
    Disciplined = TRUE
    EntityName <- Nobody
    Data <- Nobody
    NoData = NoData
    Lifetime <- Nobody
    LegacyFile <- Nobody
    MaxNow = 1
SYMMETRY EndPoints
VIEW WithoutOutbox
INVARIANTS RealmNumbers NoDeadRealm RealmViewAgrees RealmNoticesAreNews
PROPERTY CreatedRealmIsNew
