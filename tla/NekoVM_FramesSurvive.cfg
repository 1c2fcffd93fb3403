CONSTANTS
    InitSize = 10
    MaxSize = 20
    CStackMax = 5
    MaxArgs = 1
    CallbackArgs = 1
    MaxDepth = 7
    This = {t1}
    Envs = {e1}
    NoThis = NoThis
    NoEnv = NoEnv
SPECIFICATION Spec
INVARIANTS
    FramesSurvive
