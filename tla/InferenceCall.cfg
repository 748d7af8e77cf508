SPECIFICATION FairInferenceSpec
CONSTANTS
    alice = alice
    k1 = k1
    c1 = c1
    c2 = c2
    NoLimit = NoLimit
    NoKey = NoKey
    NoId = NoId
    NoCredential = NoCredential
    Users = {alice}
    InitialBalance <- Balances
    ApiKeys = {k1}
    OwnerOf <- OneOwner
    SpendLimit <- Limits
    ReplayOptIn <- OptIns
    IdempotencyKeys = {}
    Fingerprints = {f1}
    Amounts = {2}
    Costs = {0, 4}
    MaxRequests = 1
    Maintainers = {m1}
    BatchLimit = 1
    MaxAborts = 1
    Handlers = {h1}
    Credentials = {c1, c2}
    PoolOf <- Pools
    TimeoutOf <- Timeouts
    MaxAttempts = 2
    Ttl = 5
    Buffer = 2
    MaxTime = 5
    MaxFaults = 2
    MaxCrashes = 1
INVARIANTS
    HeldWhileRunning
    OutcomeMatchesRows
    EndedStreamIsCharged
    LeasesReturned
PROPERTIES
    NoFreeWork
    EveryCallEnds
    EveryHoldResolves
CHECK_DEADLOCK FALSE
