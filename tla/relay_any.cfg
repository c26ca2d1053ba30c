\* Clients that write any number.
SPECIFICATION SpecClients
CONSTANTS
    EndPoint = {a, b, c}
    PublicRealmCount = 1
    MaxRealmID = 2
    MaxReclaimable = 1
    JoinNumber <- SomeNumbers
    Disciplined = FALSE
    EntityName <- Nobody
    Data <- Nobody
    NoData = NoData
    Lifetime <- Nobody
    LegacyFile <- Nobody
    MaxNow = 1
SYMMETRY EndPoints
VIEW WithoutKids
INVARIANTS TypeOK UserNumbers Membership RealmTree UserViewAgrees UserNoticesAreNews
