SPECIFICATION Spec
CONSTANTS
    c1 = c1
    c2 = c2
    k = k
    Nobody = Nobody
    Original = {c1, c2}
    Copy = k
    MaxChild = 2
    MaxProg = 3
    First = 2
    Ids = {1, 2}
    MaxNumber = 5
    Forkers = {c1}
    Spawners = {c2, k}
    AnyWaiters = {c2, k}
CHECK_DEADLOCK FALSE
INVARIANTS
    WaitAnswered
