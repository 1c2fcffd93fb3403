CONSTANTS
    Programs <- Compiled
    TrapSize = 2
SPECIFICATION Spec
INVARIANTS
    StacksAgree
    BlocksAreReady
    HandlersAreOpen
PROPERTIES
    ImplementsInterpreter
CHECK_DEADLOCK FALSE
