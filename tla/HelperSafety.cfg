CONSTANTS
    MaxGeneration = 2
    Deadline <- MCDeadline
    MaxCalls = 3
    MaxTime = 2
    MaxFaults = 1
SPECIFICATION Spec
INVARIANTS
    EndedStaysGone
    TimerBacksWorkload
PROPERTIES
    PromiseKept
    ImplementsHostSlot
CHECK_DEADLOCK FALSE
