CONSTANTS
    c1 = c1  c2 = c2
    idle1 = idle1  idle2 = idle2  t1 = t1  t2 = t2
    l1 = l1  l2 = l2  dev = dev
    Cpu = {c1, c2}
    Task = {idle1, idle2, t1, t2}
    IdleOf <- MCIdleOf
    TaskCpu <- MCTaskCpu
    Spinlock = {l1, l2, dev}
    CpuLock <- MCCpuLock
    NoLock = NoLock
    MaxNest = 2
SPECIFICATION FairSpec
INVARIANTS
    MutualExclusion
    HolderNotPreempted
    SafeAsserts
    InterruptStateRestored
PROPERTIES
    ImplementsRecursiveLock
    LockReleased
