CONSTANTS
    INADDR_ANY = INADDR_ANY
    A = A
    B = B
    Addrs <- MCAddrs
    MaxPort = 1
    NumSockets = 3
    SO_REUSEADDR <- ReuseAddrLinux
    SO_REUSEPORT <- ReusePortLinux
SPECIFICATION Spec
SYMMETRY AddrSymmetry
VIEW WithoutRet
INVARIANTS TypeOK BindingsOwned BoundOnce  AllocatorsSuffice CleanupUnbindsAll
PROPERTIES DeliveryOrderStable ImplementsUdpSockets
CHECK_DEADLOCK FALSE
