\* Does every stop request end the process?
CONSTANTS
    MaxIterations = 1
    MaxSignals = 1
SPECIFICATION FairSpec
PROPERTIES
    StopHonoured
CHECK_DEADLOCK FALSE
