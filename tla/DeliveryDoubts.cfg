SPECIFICATION FairSpec
CONSTANTS
    Partitions = {p1}
    MaxSent = 3
    Callers = {reader, other}
    Reader = reader
    Flusher = flusher
    BatchSize = 3
    RetryCount = 1
    MaxEvents = 3
    MaxReorgs = 1
    MaxRestarts = 1
\* One at a time: TLC stops at the first violation.
PROPERTY CallersReturn
\* INVARIANT CommittedWasHandled
CHECK_DEADLOCK FALSE
