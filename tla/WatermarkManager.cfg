SPECIFICATION MFairSpec
CONSTANTS
    Heights = {0, 1, 2}
    Depth = 1
    Procs = {p1, p2}
    NoProc = NoProc
    Free = Free
    Orphan = Orphan
INVARIANTS
    MTypeOK
    NoLostUpdate
PROPERTIES
    RegisterSpec
    CallsReturn
