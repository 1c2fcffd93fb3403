CONSTANTS
    Keys = {"a", "b"}
    Values = {x, y}
    Hash <- HashOf
    Cells = {c1, c2, c3}
    NULL = NULL
    Sizes = {0, 1}
    HASH_DEF_SIZE = 2
    Reentrant = {"hget", "hset", "hiter"}
    MaxCalls = 2
SYMMETRY Symmetry
SPECIFICATION Spec
INVARIANT TableIsSound
PROPERTY BindingsAreKept
CHECK_DEADLOCK FALSE
