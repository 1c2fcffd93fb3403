CONSTANTS
    Threads = {main, t1, t2}
    Main = main
    None = None
    MaxMessages = 3
SPECIFICATION Spec
INVARIANTS
    FrameIsAlive
    OneHandle
    MessagesInOrder
PROPERTIES
    CreationEnds
CHECK_DEADLOCK FALSE
