\* Two processes; the rings are created with count 1, the pool with 5 messages.
CONSTANTS
    WaitMax = 3
    IpcRoom = 0
    MsgPool = 5
SPECIFICATION StSpec
INVARIANTS PollerHasMemory MsgsAccounted
PROPERTIES InitReturns CleanupEnds CleanExit
CHECK_DEADLOCK FALSE
