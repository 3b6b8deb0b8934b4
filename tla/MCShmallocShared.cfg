\* An allocator of 3 elements; the counter wraps at 5.
CONSTANTS
    Size = 3
    Words = 5
    MaxOverlaps = 2
    NULL = NULL
SPECIFICATION ShSpec
INVARIANTS ShTypeOK IteratorsApart
PROPERTIES ImplementsShmalloc CallsEnd
CHECK_DEADLOCK FALSE
