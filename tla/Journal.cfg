CONSTANTS
    Commands = {m1, m2}
    NoCommand = NoCommand
    MaxTries = 2
    LastInstant = 2
    MaxMishaps = 2
SPECIFICATION JournalSpec
SYMMETRY Symmetry
PROPERTIES
    ForgottenOnlyWhenSettled
    NoEarlyStop
CHECK_DEADLOCK FALSE
