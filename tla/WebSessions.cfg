CONSTANTS
    r1 = r1
    r2 = r2
    Requests = {r1, r2}
    Untimed = {r2}
    MaxEvents = 2
SPECIFICATION Spec
INVARIANTS
    TypeOK
    SessionKept
    OneRunPerRequest
    LogoutLasts
PROPERTIES
    RestoreEnds
    EveryCallEnds
CHECK_DEADLOCK FALSE
