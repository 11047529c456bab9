CONSTANTS
    Checked = {"pmm", "disk", "clock", "display", "boot", "smp", "threads", "cte", "vme",
             "nativevme", "klib", "int64", "libco", "fatree", "frecov", "pstree", "crepl", "game"}
    self = self
    \* Pmm
    Cpu = {c1, c2}
    MinLog = 1
    NSmall = 2
    HeapStart = 24
    SmallRegion = 4
    PageRegion = 16
    MPageRegion = 16
    HugeRegion = 64
    Requests = {2, 3, 5}
    \* X86Smp and ThreadOs: three processors, with fewer and with more tasks.
    ncpu = 3
    TaskCounts = {2, 4}
    None = nobody
    \* Libco
    Co = {co1, co2, co3}
    Main = self
    Null = nobody
    MaxInRing = 2
    MaxIterations = 3
    \* SdDev: six bytes in three blocks.
    blksz = 2
    DiskBytes = 6
    Byte = {0, 1}
    Base = 2
    TopBase = 2
    MaxBytes = 3
    MaxRequests = 2
    Backend = {"ata", "file", "short"}
    \* RtcTimer: 12 seconds to the minute, 2 minutes to the hour, two counts
    \* to the second, started so that a minute or an hour ends.
    FirstTsc = {17, 41}
    Run = 9
    Freq = 2
    Minute = 12
    Hour = 2
    \* BootLoader
    SECTSIZE = 4
    ARGSIZE = 8
    HeaderSize = 8
    MAINARG_ADDR = 0
    ElfAddr = 8
    MemSize = 40
    Programs <- BootPrograms
    \* X86Trap
    Kernel = {1, 2}
    User = {3}
    StackWords = 24
    UserEnd = 150
    \* X86Vme
    ptlevels = 2
    PtIndex = {0, 1}
    UserTop = {1}
    PageFrame = {1, 2, 3, 4, 5}
    UserFrame = {11, 12}
    AddrSpace = {21, 22}
    KernelAs = 20
    \* NativeVme
    Processes = {c1, c2}
    HostSpaces = {s1, s2}
    UserVA = {v1, v2}
    Frames = {f1}
    Nil = nobody
SPECIFICATION PartsSpec
INVARIANTS
    Conserved FlatDisk RtcSound LoadsProgram StartsOnce ThreadsSound ContextsIntact
    HostShowsSpace ArithmeticExact CoroutinesSound ListsTree RecoversFiles
    TreePrinted AnswersLine SnakeIntact
PROPERTIES
    ImplementsHeap DrawsPicture SpacesSound KlibSound Terminates
CHECK_DEADLOCK FALSE
