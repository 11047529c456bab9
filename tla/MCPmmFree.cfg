CONSTANTS
    Cpu = {c1, c2}
    MinLog = 1
    NSmall = 2
    HeapStart = 24
    SmallRegion = 4
    PageRegion = 16
    MPageRegion = 16
    HugeRegion = 64
    Requests = {2, 3}
SPECIFICATION Spec
INVARIANT
    FreeFindsClass
CHECK_DEADLOCK FALSE
