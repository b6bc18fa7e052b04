SPECIFICATION Spec
CONSTANTS
    PAGE_SIZE = 2
    NGuest = 4
    NFb = 1
    NPool = 5
    BrkBase = 1
    MmapStart = 2
    HeapPages = 3
    Addrs = {0, 2, 5}
    Sizes = {0, 1, 4}
    Brks = {0, 1, 3, 6, 8}
    Modes = {TRUE}
    MaxRegions = 3
    MaxRefs = 2
    MaxCalls = 4
    ChildCalls = TRUE
    Absent = Absent
INVARIANT ChildNeverFrees
CONSTRAINT Clear
VIEW State
CHECK_DEADLOCK FALSE
