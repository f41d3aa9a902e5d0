SPECIFICATION SFairSpec
CONSTANTS
    Heights = {0, 1, 2}
    MaxHeight = 2
    Depth = 2
    BatchSize = 2
    MaxRetries = 0
    Workers = {w1}
    Handlers = {h1}
    Retriers = {r1}
    QueueCap = 1
    MaxResets = 1
    MaxRestarts = 0
    ShortBatches = FALSE
    None = None
INVARIANTS
    WithinFinalized
PROPERTIES
    CatchesUp
