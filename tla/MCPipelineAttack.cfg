CONSTANTS
    web = web
    db = db
    attacker = attacker
    blank = blank
    cve = cve
    e1 = e1
    e2 = e2
    e3 = e3
    Payload <- AttackPayloads
    MaxLog = 5
    Ruleset = {"COR_SEQ_001", "COR_SEQ_002", "COR_SEQ_003"}
    Blank = {blank}
SPECIFICATION FairSpec
INVARIANTS
    TypeOK
    EntitiesMatchLineage
    DerivationsPrefixOnly
    ScenesAreClosure
    ReplayMatchesProjection
PROPERTY
    PipelineAdvances
CHECK_DEADLOCK FALSE
