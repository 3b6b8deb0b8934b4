CONSTANTS
    INADDR_ANY = INADDR_ANY
    A = A
    B = B
    Addrs <- MCAddrs
    Dests <- MCDests
    NotUdp = NotUdp
    MaxPort = 0
    NumSockets = 2
    SO_REUSEADDR <- MCOption
    SO_REUSEPORT <- MCOption
    BurstSize = 2
    BufSize = 2
    RingRoom = 2
    BufIndices = 2
    MaxPackets = 3
    D = D
    Whole = Whole
    Datagrams = {D}
    Traffic <- MCTraffic
SPECIFICATION RxSpec
INVARIANT BufferFits
CHECK_DEADLOCK FALSE
