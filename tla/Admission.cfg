SPECIFICATION FairAdmissionSpec
CONSTANTS
    c1 = c1
    c2 = c2
    c3 = c3
    KindOf <- OneListing
    Calls = {c1, c2, c3}
    ApiKeys = {k1}
    MaxInFlight <- One
    RpmLimit <- Two
    Minute = 2
    ChatTtl = 4
    ModelsTtl = 1
    DefaultTtl = 2
    ReservationTtl = 4
    Buffer = 2
    BucketTtl = 3
    MaxWait = 1
    LastArrival = 2
    MaxTime = 6
INVARIANTS
    RpmBound
PROPERTIES
    SlotsComeBack
    ImplementsSlots
