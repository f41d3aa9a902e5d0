SPECIFICATION LFairSpec
CONSTANTS
    Controllers = {c1, c2}
    Workers = {w1}
    Processors = {p1}
    Scheduler = Scheduler
    Monitor = Monitor
    QueueCap = 1
    MaxRetriers = 1
    MaxStarts = 2
INVARIANT OneCrew
PROPERTY QuittersEnd
CHECK_DEADLOCK FALSE
