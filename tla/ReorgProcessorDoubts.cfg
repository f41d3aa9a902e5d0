SPECIFICATION PFairSpec
CONSTANTS
    MaxHeight = 2
    MaxForks = 1
    Tasks = {t1}
    PWorkers = {w1, w2}
    MaxEvents = 2
    QueueSize = 1
    MaxRetries = 1
\* One at a time: TLC stops at the first violation.
INVARIANT CleansOrphansOnly
\* INVARIANT RetriesAreValid
\* INVARIANT StatusIsTrue
\* PROPERTY PStopCompletes
CHECK_DEADLOCK FALSE
