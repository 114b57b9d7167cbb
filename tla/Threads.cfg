SPECIFICATION FairSpec
CONSTANTS
    Main = Main
    Tasks = {t1, t2, t3}
    Records = {r1, r2}
    None = None
CHECK_DEADLOCK FALSE
INVARIANTS
    RecordKept
    WaitedForOnce
PROPERTIES
    CloneReturns
