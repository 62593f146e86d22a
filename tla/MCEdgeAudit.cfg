\* Three requests within three milliseconds, and an index that keeps two keys.
CONSTANTS
    Requests = {r1, r2, r3}
    NoRequest = NoRequest
    Cap = 2
    MaxTime = 2
SPECIFICATION AuditSpec
SYMMETRY Symmetry
CHECK_DEADLOCK FALSE
INVARIANTS
    IndexedIsStored
    LoggedAloneIsShown
