CONSTANTS
    Programs <- AllPrograms
    TrapSize = 2
    MaxStack = 10
    SharedHandlers = FALSE
SPECIFICATION Spec
INVARIANTS
    DepthIsStatic
    FrameIsLeft
    SlotsInFrame
    CompiledIsAccepted
CHECK_DEADLOCK FALSE
