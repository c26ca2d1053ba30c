\* Three users, of whose sockets any may fail at any Send.
SPECIFICATION Spec
CONSTANTS
    EndPoint = {e1, e2, e3}
    Object = {r1, r2}
    Null = Null
    RealmNumber = {0, 1}
INVARIANTS
    TypeOK
    Membership
    DisconnectsOnce
    RealmsAgree
    SoundWithoutFailures
PROPERTY HandlersEnd
\* All users may be stale entries of the list, whose end points connect no more.
CHECK_DEADLOCK FALSE
