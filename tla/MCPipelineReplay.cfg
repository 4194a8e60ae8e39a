CONSTANTS
    web = web
    db = db
    attacker = attacker
    blank = blank
    cve = cve
    e1 = e1
    e2 = e2
    e3 = e3
    Payload <- LoosePayloads
    MaxLog = 3
    Ruleset = {"COR_SEQ_001", "COR_SEQ_002", "COR_SEQ_003"}
    Blank = {blank}
SPECIFICATION Spec
INVARIANT
    ReplayNeedsTrueFlag
CHECK_DEADLOCK FALSE
