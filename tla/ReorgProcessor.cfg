SPECIFICATION PFairSpec
CONSTANTS
    MaxHeight = 1
    MaxForks = 2
    Tasks = {t1}
    PWorkers = {w1, w2}
    MaxEvents = 2
    QueueSize = 1
    MaxRetries = 1
INVARIANTS PTypeOK AcceptedIsAccounted CleanedIsReset
PROPERTY EventsAreSettled
CHECK_DEADLOCK FALSE
