\* Two threads race for three variables; the third needs a larger array.
CONSTANTS
    Thread = {t1, t2}
    Control = {x, y, z}
    HeaderWords = 2
    Chunk = 4
SPECIFICATION TlsSpec
INVARIANTS
    EmuTlsInv
PROPERTIES
    AddressesAreStable
