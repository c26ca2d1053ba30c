\* Entities saved for one or two seconds, by two users in two realms, in a
\* directory that an earlier version may have left.
SPECIFICATION Spec
CONSTANTS
    EndPoint = {a, b}
    PublicRealmCount = 1
    MaxRealmID = 1
    MaxReclaimable = 1
    JoinNumber <- Public
    Disciplined = TRUE
    EntityName = {k}
    Data = {d1, d2}
    NoData = NoData
    Lifetime <- Seconds
    LegacyFile <- Old
    MaxNow = 4
SYMMETRY EndPoints
VIEW WithoutOutbox
PROPERTY StoreIsTimed
