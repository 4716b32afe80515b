\* Destructors that construct variables, three deep, and a key of the program's.
CONSTANTS
    v1 = v1
    v2 = v2
    v3 = v3
    Var = {v1, v2, v3}
    BodyVars = {v1, v2, v3}
    DtorUses <- ThreeDeep
    UserUses = {v2}
    KeyOrder <- EmutlsFirst
    NoObject = NoObject
SPECIFICATION Spec
INVARIANTS
    ExitInv
    DestroyedOnceInReverse
    AllDestroyed
    BlocksFreed
\* The thread is gone at the end.
CHECK_DEADLOCK FALSE
