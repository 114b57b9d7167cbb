SPECIFICATION FairSpec
CONSTANTS
    c1 = c1
    c2 = c2
    d1 = d1
    p1 = p1
    p2 = p2
    s1 = s1
    Contexts = {c1, c2}
    None = None
    NullDev = NullDev
    MaxFd = 2
    MaxDesc = 2
    MaxDirs = 1
    SettlingMax = 1
    StdStreams = 1
    Files = {}
    Dirs = {d1}
    Channels = {p1, p2}
    Sockets = {s1}
    Program = {"close", "dup", "dup2", "socket", "null", "read", "exec"}
CHECK_DEADLOCK FALSE
INVARIANTS
    RefsExact
    ReadSeesOpen
    OneKeeper
PROPERTIES
    ImplementsFds
    CallsReturn
