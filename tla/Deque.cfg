CONSTANTS
    Threads = {t1, t2, t3}
    Messages = {m1, m2}
    Cells = {c1, c2, c3}
    Nil = Nil
    Null = Null
SPECIFICATION Spec
INVARIANTS
    EndsAgree
    NoLostWakeup
PROPERTIES
    MessagesAreTaken
    ImplementsQueue
CHECK_DEADLOCK FALSE
