SPECIFICATION SSpec
CONSTANTS
    Heights = {0, 1, 2}
    MaxHeight = 2
    Depth = 1
    BatchSize = 1
    MaxRetries = 1
    Workers = {w1, w2}
    Handlers = {h1}
    Retriers = {r1}
    QueueCap = 1
    MaxResets = 0
    MaxRestarts = 1
    ShortBatches = TRUE
    None = None
INVARIANTS
    STypeOK
    GapAccounted
SYMMETRY Symmetry
CHECK_DEADLOCK FALSE
