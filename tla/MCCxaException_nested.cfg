\* One thread; destructors may rethrow what is in flight.
CONSTANTS
    A = A
    None = None
    NoPad = NoPad
    NoSite = NoSite
    Thread = {t1}
    Exc = {e1}
    Type = {A}
    Ptr = {p}
    Foreign = {}
    CallSites <- MCCallSites
    MaxFrames = 5
    NestedRethrow = TRUE
SPECIFICATION Spec
INVARIANT
    InFlightIsLive
CHECK_DEADLOCK FALSE
