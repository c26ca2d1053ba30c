\* Three users, of whose sockets any may fail at any Send, and a spare Realm object.
SPECIFICATION Spec
CONSTANTS
    EndPoint = {e1, e2, e3}
    Object = {r1, r2, r3}
    Null = Null
    RealmNumber = {0, 1}
SYMMETRY Symmetry
\* All users may be stale entries of the list, whose end points connect no more.
PROPERTY DestroysDeserted
CHECK_DEADLOCK FALSE
