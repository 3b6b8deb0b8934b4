CONSTANTS
    WaitMax = 3
    IpcRoom = 0
    MsgPool = 5
SPECIFICATION StSpec
INVARIANT PollerReady
CHECK_DEADLOCK FALSE
