SPECIFICATION Spec
CONSTANTS
    PlainClients = {}
    TimedClients = {t1}
    IPv6Clients = {x1}
    NoClient = NoClient
    Lines <- MCLines
INVARIANTS
    AnswerComplete
    DiesOfLeaversOnly
PROPERTIES
    ServedInTheEnd
