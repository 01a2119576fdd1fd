CONSTANTS
    Commands = {m1}
    NoCommand = NoCommand
    MaxTries = 2
    LastInstant = 1
    MaxMishaps = 1
SPECIFICATION FairJournalSpec
PROPERTIES
    RestartDrains
CHECK_DEADLOCK FALSE
