SPECIFICATION SSpec
CONSTANTS
    Heights = {0, 1, 2}
    MaxHeight = 2
    Depth = 1
    BatchSize = 1
    MaxRetries = 0
    Workers = {w1}
    Handlers = {h1}
    Retriers = {r1}
    QueueCap = 2
    MaxResets = 0
    MaxRestarts = 1
    ShortBatches = FALSE
    None = None
PROPERTY ResumesScan
CHECK_DEADLOCK FALSE
