SPECIFICATION DStopSpec
CONSTANTS
    MaxHeight = 2
    MaxForks = 0
    Tasks = {t1}
    Threshold = 1
    MaxDepth = 3
PROPERTY StopCompletes
CHECK_DEADLOCK FALSE
