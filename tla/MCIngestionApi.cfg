CONSTANTS
    c1 = c1
    k1 = k1
    r1 = r1
    r2 = r2
    here = here
    there = there
    Collector = {c1}
    Credential = {k1}
    Request = {r1, r2}
    Payload <- Payloads
    Submission <- Submissions
    ScopeOf <- Scopes
    MaxBatch = 2
    MaxAttempts = 2
    MaxTime = 1
SYMMETRY RequestSymmetry
SPECIFICATION Spec
INVARIANTS
    RevokedNeverAccepted
    AuditMatchesReplies
    BatchReplyTrue
CHECK_DEADLOCK FALSE
