CONSTANTS
    InitSize = 10
    MaxSize = 20
    CStackMax = 4
    MaxArgs = 1
    CallbackArgs = 6
    MaxDepth = 6
    This = {t1}
    Envs = {e1}
    NoThis = NoThis
    NoEnv = NoEnv
SPECIFICATION Spec
PROPERTIES
    TriesCatch
