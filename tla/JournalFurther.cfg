CONSTANTS
    Commands = {m1, m2}
    NoCommand = NoCommand
    MaxTries = 2
    LastInstant = 2
    MaxMishaps = 2
SPECIFICATION JournalSpec
SYMMETRY Symmetry
INVARIANTS
    JournalTypeOK
    CleanedStaysDown
CHECK_DEADLOCK FALSE
