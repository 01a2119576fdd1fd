CONSTANTS
    MaxGeneration = 2
    Deadline <- MCDeadline
    MaxCalls = 2
    MaxTime = 2
    MaxFaults = 1
SPECIFICATION FairSpec
PROPERTIES
    NothingIsLeft
CHECK_DEADLOCK FALSE
