SPECIFICATION Spec
CONSTANTS
    t1 = t1
    t2 = t2
    t3 = t3
    Threads <- MCThreads
    MaxRounds = 2
INVARIANTS
    ExclusiveUnlessInterrupted
PROPERTIES
    NoLostUpdate
    EveryRoundEnds
