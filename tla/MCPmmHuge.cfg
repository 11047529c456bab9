CONSTANTS
    Cpu = {c1, c2}
    MinLog = 1
    NSmall = 2
    HeapStart = 24
    SmallRegion = 4
    PageRegion = 16
    MPageRegion = 16
    HugeRegion = 128
    Requests = {5, 6}
SPECIFICATION Spec
INVARIANT
    ReturnsFresh
CHECK_DEADLOCK FALSE
