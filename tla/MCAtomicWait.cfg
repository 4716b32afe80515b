\* Two threads wait, one stores and notifies.
CONSTANTS
    m = m
    n = n
    g = g
    h = h
    nativeEntry = nativeEntry
    globalEntry = globalEntry
    Awake = Awake
    NoStore = NoStore
    NoAtom = NoAtom
    Thread = {t1, t2, t3}
    Waiter = {t1, t2}
    Writer = {t3}
    Entry = {nativeEntry, globalEntry}
    Atom = {m, n, g, h}
    Native = {m, n}
    EntryOf <- MCEntryOf
    Orders <- MCOrders
    Kinds <- MCKinds
    Value = {0, 1}
    Initial = 0
    MaxStores = 2
SPECIFICATION FairSpec
INVARIANTS
    WaitInv
    NoLostWakeup
PROPERTIES
    WaitReturns
\* A program whose last store is made may sleep; WaitReturns says when it may not.
CHECK_DEADLOCK FALSE
