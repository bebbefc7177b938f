\* The comment's `atomic', taken at its word.
SPECIFICATION Spec
CONSTANTS
    t1 = t1
    t2 = t2
    t3 = t3
    Threads <- MCTwoThreads
    MaxRounds = 2
INVARIANTS
    MutualExclusion
