CONSTANTS
    w1 = w1
    w2 = w2
    w3 = w3
    o1 = o1
    o2 = o2
    o3 = o3
    e1 = e1
    e2 = e2
    h1 = h1
    h2 = h2
    NoPut = NoPut
    ObservationId = {o1, o2, o3}
    EvidenceId = {e1, e2}
    Hash = {h1, h2}
    Writer = {w1, w2, w3}
    Payload <- RacingPayloads
SPECIFICATION Spec
SYMMETRY WriterSymmetry
INVARIANT ExpectedRacesResolved
