CONSTANTS
    A = A
    None = None
    NoPad = NoPad
    NoSite = NoSite
    Thread = {t1, t2}
    Exc = {e1, e2, e3}
    Type = {A}
    Ptr = {p}
    Foreign = {t1, t2}
    CallSites <- MCCallSites
    MaxFrames = 6
    NestedRethrow = FALSE
SPECIFICATION Spec
SYMMETRY Symmetry
INVARIANTS
    HandlerStackInv
    HandlerCountAgrees
    UncaughtAgrees
    LiveIffReferred
    HandlerAwaits
\* The process may have ended.
CHECK_DEADLOCK FALSE
