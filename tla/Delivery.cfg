SPECIFICATION FairSpec
CONSTANTS
    Partitions = {p1}
    MaxSent = 3
    Callers = {reader, other}
    Reader = reader
    Flusher = flusher
    BatchSize = 3
    RetryCount = 1
    MaxEvents = 3
    MaxReorgs = 1
    MaxRestarts = 1
INVARIANTS
    WTypeOK
    ReorgAfterItsPast
PROPERTIES
    ImplementsAtMostOnce
    ImplementsFifo
    BufferIsFlushed
CHECK_DEADLOCK FALSE
