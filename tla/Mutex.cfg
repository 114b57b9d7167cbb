SPECIFICATION FairSpec
CONSTANTS
    c1 = c1
    c2 = c2
    c3 = c3
    Contexts = {c1, c2, c3}
    None = None
    Looks = 2
INVARIANTS
    MutualExclusion
    NoLostWakeup
PROPERTIES
    ImplementsLock
    ServesEverybody
