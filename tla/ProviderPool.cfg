SPECIFICATION FairPoolSpec
CONSTANTS
    p1 = p1
    p2 = p2
    Nobody = Nobody
    Requests = {r1, r2}
    Credentials = {p1, p2}
    Weight <- Weights
    MaxInFlight <- One
    Resolvable = {p1}
    LeaseTtl = 1
    Timeout = 2
    Slack = 1
    BaseCooldown = 1
    MaxCooldown = 2
    RetryAfter = 1
    MaxWait = 1
    LastClaim = 2
    LastRelease = 3
    MaxTime = 5
PROPERTIES
    CredentialsComeBack
    DriftHeals
    ImplementsSlots
CHECK_DEADLOCK FALSE
