SPECIFICATION FairSpec
CONSTANTS
    Clients = {c1, c2, c3}
    NoClient = NoClient
    Adapters = {"node", "durable_object"}
    MaxStatements = 2
    MaxBusy = 1
INVARIANTS
    NoForeignStatement
PROPERTIES
    EveryoneServed
CHECK_DEADLOCK FALSE
