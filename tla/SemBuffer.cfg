SPECIFICATION FairSpec
CONSTANTS
    Consumers = {c1, c2, c3}
    NumBuffers = 2
    Iterations = 4
    NULL = NULL
    NoThread = NoThread
INVARIANTS
    NoOverwrite
    OneOwner
    SlotsConserved
PROPERTIES
    ImplementsBoundedBuffer
    Termination
