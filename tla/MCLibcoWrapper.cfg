CONSTANTS
    Co = {a, b, c}
    Main = Main
    Null = Null
    MaxIterations = 3
    MaxInRing = 3
SPECIFICATION CoSpec
INVARIANT
    WrapperNeverReturns
CHECK_DEADLOCK FALSE
