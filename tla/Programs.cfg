SPECIFICATION ProgramsSpec
CONSTANTS
    Tables <- SomeTables
    Ops <- SomeOps
    MaxOps = 2
    Reuse = FALSE
    MaxOpen = 1
    c1 = c1
    c2 = c2
    kid = kid
    Nobody = Nobody
INVARIANTS
    StartedAsAsked
    NothingKept
    ChildrenAccounted
    WaitsForItsOwn
    AnswersAsDefined
    ReadsWithinReach
    HandlesUsable
    VariablesKept
