CONSTANTS
    NEVENTS = 3
    Script <- MCScript
    IrqCap = 1
    MaxTicks = 1
    Consumer = {"tty-task"}
    Tty <- MCTty
    Lines = 3
    Columns = 2
    TTY_COOK_BUF_SZ = 4
    Fresh = 0
    WelcomeText <- MCWelcome
    Writer <- MCWriter
    Program = {"program"}
    Text <- MCText
    Reader = {"reader"}
    Count = 2
SPECIFICATION FairSpec
INVARIANTS
    LinesAsTyped
    ScreenShowsTerminal
PROPERTY
    AllServed
CHECK_DEADLOCK FALSE
