CONSTANTS
    INADDR_ANY = INADDR_ANY
    Addrs <- MCAddrs
    MaxPort = 0
    NumSockets = 2
    SO_REUSEADDR <- MCOption
    SO_REUSEPORT <- MCOption
    BurstSize = 2
    TableSize = 4
    RingRoom = 2
    PoolSize = 3
    Fragments <- MCFragments
    MaxSends = 3
SPECIFICATION TxSpec
INVARIANTS TxTypeOK TxMbufsAccounted SentInOrder
PROPERTY DatagramsLeave
CHECK_DEADLOCK FALSE
