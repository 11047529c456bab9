CONSTANTS
    c1 = c1  c2 = c2  p1 = p1  p2 = p2  q1 = q1  q2 = q2
    Idle = Idle
    Cpu = {c1}
    Ring <- OneCpu
    Opener = {p1}
    Closer = {q1, q2}
    Capacity = 1
SPECIFICATION FairSpec
PROPERTY
    KeepsPrinting
