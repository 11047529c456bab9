CONSTANTS
    Proc = {p1, p2, p3}
    Root = p1
    Page = {a, b, c}
    Frame = {f1, f2, f3, f4}
    PageZero = PageZero
    Value = {x, y}
    None = None
    MaxPages = 2
SYMMETRY Interchangeable
SPECIFICATION Spec
INVARIANT
    MemoryAccounted
PROPERTY
    ImplementsPrivateMemory
CHECK_DEADLOCK FALSE
