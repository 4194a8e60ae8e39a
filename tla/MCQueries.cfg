CONSTANTS
    web = web
    db = db
    attacker = attacker
    blank = blank
    cve = cve
    e1 = e1
    e2 = e2
    e3 = e3
    sensors = sensors
    hosts = hosts
    Payload <- QueriedPayloads
    MaxLog = 4
    Ruleset = {"COR_SEQ_001", "COR_SEQ_002"}
    Blank = {blank}
    ObservationOrder <- Observations
    EntityOrder <- EntityIdentifiers
    SourceOf <- SensorSources
    PageSize = 1
    v1 = v1
    v2 = v2
    Operator = {op1, op2}
    Request <- Requests
SPECIFICATION OperationsSpec
INVARIANTS
    PagesExact
    LineageReplyComplete
    RegistrationsAgree
CHECK_DEADLOCK FALSE
