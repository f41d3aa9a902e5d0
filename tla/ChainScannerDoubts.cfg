SPECIFICATION SSpec
CONSTANTS
    Heights = {0, 1, 2}
    MaxHeight = 2
    Depth = 1
    BatchSize = 1
    MaxRetries = 0
    Workers = {w1, w2}
    Handlers = {h1, h2}
    Retriers = {r1}
    QueueCap = 2
    MaxResets = 1
    MaxRestarts = 0
    ShortBatches = FALSE
    None = None
\* One at a time: TLC stops at the first violation.
INVARIANT RescannedAfterReset
\* INVARIANT NoLostBlock
CHECK_DEADLOCK FALSE
