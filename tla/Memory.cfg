SPECIFICATION Spec
CONSTANTS
    c1 = c1
    c2 = c2
    Contexts = {c1, c2}
    P = 4
    Lens = {1, 2}
    FileLen = 3
    Offsets = {1}
    Align = 2
    Programs = {{"dontneed"}, {"free"}, {"file"}}
    Cap = 1
SYMMETRY MemorySymmetry
INVARIANTS
    SearchFinds
    RecordMatches
    MemoryAsExpected
    WholeUnmapReleases
