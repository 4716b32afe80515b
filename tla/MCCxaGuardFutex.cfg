\* Three threads, one static that may use itself, two exceptions.
CONSTANTS
    t1 = t1
    t2 = t2
    t3 = t3
    g1 = g1
    Thread = {t1, t2, t3}
    Guard = {g1}
    Uses <- SelfUse
    ThreadId <- Ids
    MaxThrows = 2
    NoThread = NoThread
    NoGuard = NoGuard
SPECIFICATION FairSpec
INVARIANTS
    FutexInv
PROPERTIES
    ImplementsOnceInit
    AcquireReturns
\* The process ends when recursion is detected.
CHECK_DEADLOCK FALSE
