CONSTANTS
    c1 = c1  c2 = c2  p1 = p1  p2 = p2  q1 = q1  q2 = q2
    Idle = Idle
    Cpu = {c1, c2}
    Ring <- TwoCpus
    Opener = {p1, p2}
    Closer = {q1, q2}
    Capacity = 2
SPECIFICATION Spec
INVARIANT
    Balanced
PROPERTY
    ImplementsSemaphore
