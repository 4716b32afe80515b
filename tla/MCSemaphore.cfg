\* One thread acquires, one releases, one does both; the clock never shows
\* exactly the time asked for.
CONSTANTS
    entry = entry
    Awake = Awake
    Thread = {t1, t2, t3}
    Acquirer = {t1, t2}
    Releaser = {t2, t3}
    Entry = {entry}
    InitialCount = 0
    Updates = {1, 2}
    MaxReleased = 2
    RelTime = 4
    SpinTime = 0
    Clock = {0, 1, 5}
SPECIFICATION FairSpec
INVARIANTS
    SemaphoreInv
    NoLostPermit
PROPERTIES
    TimedReturns
