SPECIFICATION Spec
CONSTANTS
    alice = alice
    m1 = m1
    m2 = m2
    k1 = k1
    k2 = k2
    NoLimit = NoLimit
    NoKey = NoKey
    Users = {alice}
    InitialBalance <- Balances
    ApiKeys = {k1, k2}
    OwnerOf <- OneOwner
    SpendLimit <- Limits
    ReplayOptIn <- OptIns
    IdempotencyKeys = {i1}
    Fingerprints = {f1}
    Amounts = {3}
    Costs = {1, 4}
    MaxRequests = 2
    Maintainers = {m1, m2}
    BatchLimit = 1
    MaxAborts = 1
INVARIANTS
    MoneyConserved
    KeyCountersMatch
    SpendWithinLimit
    LedgerMatchesRequests
PROPERTIES
    ImplementsSpendHold
SYMMETRY Same
CHECK_DEADLOCK FALSE
