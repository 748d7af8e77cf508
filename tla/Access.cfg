SPECIFICATION AccessSpec
CONSTANTS
    operator = operator
    visitor = visitor
    Clients = {operator, visitor}
    Operator = operator
    Handlers = {h1, h2}
    KeyIds = {1, 2}
    MaxActiveKeys = 1
    MaxSecrets = 2
    MaxRequests = 3
    MaxOrders = 1
INVARIANTS
    PasswordOwnsAccount
    KeyLimit
    GivenSecretsWork
PROPERTIES
    ShutOutStaysOut
SYMMETRY Interchangeable
CHECK_DEADLOCK FALSE
