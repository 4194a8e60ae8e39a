CONSTANTS
    r1 = r1
    r2 = r2
    o1 = o1
    o2 = o2
    o3 = o3
    NoCheckpoint = NoCheckpoint
    NoWork = NoWork
    Runner = {r1, r2}
    Payload <- TwoPayloads
    MaxLog = 2
    BatchLimit = {1, 2}
    MaxAttempts = 2
SPECIFICATION FairSpec
INVARIANTS
    TypeOK
    EffectsExactlyOnce
    FailureRecordMatches
PROPERTIES
    FailureHistoryKept
    ImplementsDurableConsumer
    CatchesUp
