CONSTANTS
    o1 = o1
    o2 = o2
    o3 = o3
    a = a
    b = b
    Payload <- ThreeObservations
    Scope = a
    ScanLimit = 2
    Recheck = 2
    Buffer = 2
    MaxLog = 3
    NoCursor = NoCursor
    r1 = r1
    r2 = r2
    r3 = r3
    r4 = r4
    c1 = c1
    c2 = c2
    Request = {r1, r2, r3, r4}
    Collector = {c1, c2}
    MaxConnections = 3
    MaxPerCollector = 2
SPECIFICATION StreamsSpec
INVARIANTS
    TypeOK
    DeliveredExactly
    CursorAccepted
    LeasesTypeOK
    CountersExact
    WithinLimits
    LeaseMatches
PROPERTY
    PromptRevocation
    EventuallyDelivered
    RevokedStreamEnds
