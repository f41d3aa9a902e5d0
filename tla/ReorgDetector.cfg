SPECIFICATION DSpec
CONSTANTS
    MaxHeight = 3
    MaxForks = 2
    Tasks = {t1}
    Threshold = 1
    MaxDepth = 2
INVARIANTS DTypeOK NoFalseAlarm ForkPointExact
CHECK_DEADLOCK FALSE
