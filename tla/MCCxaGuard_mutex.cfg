\* Three threads, nested and recursive statics, one exception.
CONSTANTS
    t1 = t1
    t2 = t2
    t3 = t3
    g1 = g1
    g2 = g2
    Thread = {t1, t2, t3}
    Guard = {g1, g2}
    Uses <- NestedUses
    HasThreadId = TRUE
    Descriptor <- CloseDescriptors
    IdRange = 4
    MaxThrows = 1
    NoThread = NoThread
    NoGuard = NoGuard
SPECIFICATION FairSpec
INVARIANTS
    GuardInv
    MutualExclusion
    ConstructedOnceBeforeUse
    NoFalseRecursion
    NoSelfWait
PROPERTIES
    ImplementsOnceInit
    AcquireReturns
\* The process ends when recursion is detected.
CHECK_DEADLOCK FALSE
