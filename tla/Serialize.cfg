CONSTANTS
    Heaps <- PossibleHeaps
    Fields <- FieldsOf
    MaxRec = 8
SPECIFICATION Spec
INVARIANTS
    RoundTrip
    HashIsStable
CHECK_DEADLOCK FALSE
