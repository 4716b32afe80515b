\* The clock shows exactly the time asked for.
CONSTANTS
    entry = entry
    Awake = Awake
    Thread = {t1, t2}
    Acquirer = {t1}
    Releaser = {t2}
    Entry = {entry}
    InitialCount = 0
    Updates = {1, 2}
    MaxReleased = 2
    RelTime = 4
    SpinTime = 0
    Clock = {0, 1, 4, 5}
SPECIFICATION Spec
INVARIANTS
    NoUntimedSleep
