SPECIFICATION Spec
CONSTANTS
    AddressClients = {}
    NameClients = {n1}
    IPv6Clients = {x1, x2}
    MappedClients = {x2}
    NoClient = NoClient
    Lengths = {51, 7}
    MaxCopies = 2
INVARIANTS
    OwnAnswer
PROPERTIES
    EndsUnlessLost
