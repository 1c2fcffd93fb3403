CONSTANTS
    InitSize = 9
    MaxSize = 18
    CStackMax = 5
    MaxArgs = 1
    CallbackArgs = 0
    MaxDepth = 6
    This = {t1}
    Envs = {e1, e2}
    NoThis = NoThis
    NoEnv = NoEnv
SPECIFICATION Spec
INVARIANTS
    StacksApart
    StartIsInnermost
    TrapsNest
    DepthsAgree
    ContextAgrees
    CallbacksBalance
PROPERTIES
    TriesCatch
    ThrowLands
