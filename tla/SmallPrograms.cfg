SPECIFICATION Spec
CONSTANTS
    Adders = {t1, t2}
    Big = 4
    Width = 3
    NoAdder = NoAdder
    BarrierWorkers = {w1, w2}
    BarrierMain = m
    Rounds = 5
    QueueWorkers = {q1, q2, q3}
    NUMTASKS = 4
    CAPACITY = 2
    NoTask = NoTask
    NUMTHREADS = 3
    Turns = 2
    Readers = {r1, r2, r3, r4, r5}
    SSIZE_MAX = 3
    MaxForks = 2
    Senders = {s1, s2}
    LocalServers = {u1, u2}
    LocalClients = {c1, c2}
    Backlog = 0
    Nobody = Nobody
INVARIANTS
    SumComplete
    RoundsTogether
    CountsEveryTask
    DiesIffFailed
    OutputFaithful
    ReportsInOrder
    PlainTextsArriveOnce
    GreetsWhomItReads
PROPERTIES
    OnlyCancelledLeaks
    ReadersReadOn
    BothEnd
CHECK_DEADLOCK FALSE
