SPECIFICATION GSpec
CONSTANTS
    Callers = {p1, p2, p3}
    Chains = {x, y}
    Configured = {x}
    Scanners = {s1, s2, s3}
    None = None
INVARIANTS
    GTypeOK
    OneScannerPerChain
CHECK_DEADLOCK FALSE
