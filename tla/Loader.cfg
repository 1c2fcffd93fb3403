CONSTANTS
    Threads = {"t1", "t2"}
    Modules = {"a", "b", "c"}
    Code <- CodeOf
    Strings = {"open", "none", "sql", "gone"}
    Text <- TextOf
    Libraries <- LibrariesOf
    Symbols <- SymbolsOf
SPECIFICATION Spec
INVARIANTS
    
    PrimitivesAreFound
    NamesAreRestored
    LibrariesAgree
CHECK_DEADLOCK FALSE
