SPECIFICATION LimiterSpec
CONSTANTS
    Identities = {i1, i2, i3}
    MaxHits = 2
    Window = 3
    Retention = 3
    MaxTracked = 2
    MaxTime = 4
PROPERTIES
    CountsKept
CHECK_DEADLOCK FALSE
