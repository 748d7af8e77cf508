SPECIFICATION ReplaySpec
CONSTANTS
    alice = alice
    k1 = k1
    NoLimit = NoLimit
    NoKey = NoKey
    NoId = NoId
    Users = {alice}
    InitialBalance <- Balances
    ApiKeys = {k1}
    OwnerOf <- OneOwner
    SpendLimit <- Limits
    ReplayOptIn <- OptIns
    IdempotencyKeys = {i1}
    Fingerprints = {f1, f2}
    Amounts = {1}
    Costs = {2}
    MaxRequests = 2
    Maintainers = {m1}
    BatchLimit = 1
    MaxAborts = 0
    Attempts = {a1, a2, a3}
INVARIANTS
    ReplaysAnswerTheSameRequest
    NeverTwiceAtOnce
PROPERTIES
    NoExecutionWhileStored
SYMMETRY Interchangeable
CHECK_DEADLOCK FALSE
