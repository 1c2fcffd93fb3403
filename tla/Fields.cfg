CONSTANTS
    a = a
    b = b
    c = c
    Threads = {t1, t2}
    Names = {a, b, c}
    Values = {v}
    Hash <- Ids
    None = None
SPECIFICATION Spec
INVARIANTS
    LookupInBounds
    IdsAreKept
    ObjectIsMap
PROPERTIES
    LookupFindsRegistered
    LookupsEnd
