CONSTANTS
    idle0 = idle0  idle1 = idle1  k1 = k1  k2 = k2  p1 = p1  p2 = p2  p3 = p3
    Null = Null
    NCpu = 2
    IdleOf <- MCIdleOf
    Kthread = {k1, k2}
    Proc = {p1, p2, p3}
    RuntimeCreate = FALSE
SPECIFICATION Spec
INVARIANTS
    RingIntact
    ContextSaved
    ExitNeverReturns
    FamilyOK
PROPERTY
    ImplementsRunQueue
