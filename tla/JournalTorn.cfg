CONSTANTS
    Commands = {m1}
    NoCommand = NoCommand
    MaxTries = 2
    LastInstant = 1
    MaxMishaps = 1
SPECIFICATION JournalSpec
INVARIANTS
    InFlightIsRetained
CHECK_DEADLOCK FALSE
