\* The iterator allocator: 10 elements of 16 bytes (udpdk_list_init.c).
CONSTANTS
    Size = 10
    ElemBytes = 16
    NULL = NULL
SPECIFICATION Spec
INVARIANTS CountExact CursorFree
PROPERTY ImplementsPool
CHECK_DEADLOCK TRUE
