SPECIFICATION FairSpec
CONSTANTS
    c1 = c1
    c2 = c2
    term = term
    chan = chan
    lis = lis
    file = file
    wend = wend
    bad = bad
    broken = broken
    Forever = Forever
    Contexts = {c1}
    Terminals = {term}
    Channels = {chan, wend}
    Messages = {lis, broken}
    Plain = {file}
    Failing = {broken}
    WriteOnly = {wend}
    ReadOnly = {term, chan}
    NonBlock = {lis}
    Timeouts = {Forever, 0, 2}
    Lens = {1, 2}
    MaxItems = 2
    MaxEnds = 1
    Programs <- Separate
    PollSets <- SeparateSets
CHECK_DEADLOCK FALSE
INVARIANTS
    InOrder
    ReportStaysTrue
PROPERTIES
    BoundedPollReturns
    InputEndsPoll
