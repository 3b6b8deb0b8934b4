\* The same allocator, for the claim of the comment on the element stride.
CONSTANTS
    Size = 10
    ElemBytes = 16
    NULL = NULL
SPECIFICATION Spec
INVARIANT ElementsDisjoint
