\* Entities saved without a time.
SPECIFICATION Spec
CONSTANTS
    EndPoint = {a, b}
    PublicRealmCount = 1
    MaxRealmID = 1
    MaxReclaimable = 1
    JoinNumber <- Public
    Disciplined = TRUE
    EntityName = {k}
    Data = {d1, d2}
    NoData = NoData
    Lifetime <- NoTime
    LegacyFile <- Nothing
    MaxNow = 4
SYMMETRY EndPoints
VIEW WithoutOutbox
PROPERTY PermanentDataIsFound
