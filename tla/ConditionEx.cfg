SPECIFICATION Spec
CONSTANTS
    f1 = f1
    f2 = f2
    f3 = f3
    Filenames <- MCFilenames
    MaxCalls = 7
    BUSY = FALSE
    NULL = NULL
    NoThread = NoThread
INVARIANTS
    NoLostWakeup
    PrintedOnceInOrder
PROPERTIES
    ImplementsMailbox
