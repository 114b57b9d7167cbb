SPECIFICATION PartsSpec
CONSTANTS
    c1 = c1
    c2 = c2
    c3 = c3
    Contexts = {c1, c2, c3}
    First = c1
    SnapContext = SnapContext
    N = 3
    StartAt <- MCStartAt
    Zero = Zero
    Retired = Retired
    Threads = {t1, t2}
    Groups = {g1, g2}
    None = None
SYMMETRY Symmetry
CHECK_DEADLOCK FALSE
INVARIANTS
    RegisteredIsFound
    ReadsOwn
    LeadsThere
    ListedOnce
    TransferredExactly
    SlotsInOnePlace
