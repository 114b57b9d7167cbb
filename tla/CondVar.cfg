CONSTANTS
    w1 = w1
    w2 = w2
    w3 = w3
    g1 = g1
    Waiters = {w1, w2, w3}
    Givers = {g1}
    Timed = {w2}
    Remaining = {"past", "later"}
    Programs <- SomePrograms
    None = None
SPECIFICATION FairSpec
CHECK_DEADLOCK FALSE
INVARIANTS
    MutexHeldAlone
    NodesInUse
PROPERTIES
    GivenIsTaken
    WaitsReturn
