CONSTANTS
    NULL = NULL
    INADDR_ANY = INADDR_ANY
    a1 = a1
    a2 = a2
    Addrs = {a1, a2}
    MaxPort = 1
    NumSockets = 3
    SO_REUSEADDR <- Bit
    SO_REUSEPORT <- Bit
    NumLists = 4
    Requests <- MCRequests
    Dsts = {a1}
    MaxCalls = 5
    MaxCallsRaced = 3
SPECIFICATION Spec
INVARIANTS
    LwTypeOK
    ListWellFormed
    ScanSound
    NoReuse
    WalkOnlyOwn
    WalkVisitsStaying
PROPERTIES
    ImplementsTable
    
CHECK_DEADLOCK FALSE
