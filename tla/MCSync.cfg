\* Three threads share each object; two of them wait for the future and look up
\* frames, the third and p1 provide.
CONSTANTS
    Thread = {t1, t2, t3}
    n_readers = 2
    Flag = {s1, s2}
    MaxThrows = 1
    Share <- MCShare
    Expected = 4
    Phases = 4
    maker = t1
    Waiter = {t1, t2}
    Provider = {t3, p1}
    promiser = p1
    image = image
    imageFde = imageFde
    Section = {s1, s2}
    Fdes <- MCFdes
    InitialSize = 2
    None = None
    s1 = s1
    s2 = s2
    a1 = a1
    a2 = a2
    b1 = b1
SPECIFICATION SyncSpec
\* All participants may drop out of the barrier, all owners let go.
CHECK_DEADLOCK FALSE
INVARIANTS
    ObjectsAreSound
    NoStrandedSleeper
    PhasesAreOrderly
    LifetimesEndOnce
    OneResult
    StateOutlivesUse
    LookupFindsRegistered
    CacheIsBounded
PROPERTIES
    OnceSpec
    NobodyWaitsForever
