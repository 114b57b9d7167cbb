SPECIFICATION Spec
CONSTANTS
    c1 = c1
    c2 = c2
    c3 = c3
    Contexts = {c1, c2, c3}
    First = c1
    SnapContext = SnapContext
    N = 4
    StartAt <- MCStartAt
    Zero = Zero
    Retired = Retired
CHECK_DEADLOCK FALSE
INVARIANTS
    RefusedOnlyWhenFull
