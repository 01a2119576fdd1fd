CONSTANTS
    Objects = {o1, o2}
    Targets = {cat}
    IconTargets = {cat}
    Requests = {r1, r2}
    Workers = {}
    None = None
    PresignTtl = 1
    MaxUploadDuration = 1
    Grace = 0
    MaxRetained = 2
    MaxAttempts = 2
    MaxTime = 2
    MaxFaults = 1
SPECIFICATION Spec
SYMMETRY Symmetry
INVARIANTS
    IconIsReady
PROPERTIES
    NewestChoiceWins
CHECK_DEADLOCK FALSE
