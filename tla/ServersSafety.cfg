SPECIFICATION Spec
CONSTANTS
    Servers <- AllServers
    Clients = {c1, c2, c3}
    Fds = {3, 4, 5}
    PoolSize = 1
    QueueSize = 1
    MaxBytes <- SafetyBytes
    Nobody = Nobody
SYMMETRY Symmetry
INVARIANTS
    OwnConnection
    NoDescriptorLeak
    AnsweredAfterMessage
    NeverOutOfDescriptors
