CONSTANTS
    o1 = o1
    o2 = o2
    o3 = o3
    o4 = o4
    a = a
    b = b
    poller = poller
    scanner = scanner
    Payload <- SparsePayloads
    Poller = {poller}
    Scanner = {scanner}
    ScopeOf <- ScannerOfA
    Limit = 2
    MaxLog = 2
SPECIFICATION Spec
INVARIANT InvariantErrorMeansInconsistent
