CONSTANTS
    INADDR_ANY = INADDR_ANY
    A = A
    B = B
    Addrs <- MCAddrs
    MaxPort = 1
    NumSockets = 3
    SO_REUSEADDR <- ReuseAddrLinux
    SO_REUSEPORT <- ReusePortLinux
SPECIFICATION Spec
SYMMETRY AddrSymmetry
VIEW WithoutRet
INVARIANT CounterMatchesSlots
CHECK_DEADLOCK FALSE
