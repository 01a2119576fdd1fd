CONSTANTS
    Objects = {o1}
    Targets = {chal}
    IconTargets = {}
    Requests = {r1, r2}
    Workers = {w1, w2}
    None = None
    PresignTtl = 1
    MaxUploadDuration = 1
    Grace = 0
    MaxRetained = 2
    MaxAttempts = 2
    MaxTime = 2
    MaxFaults = 2
SPECIFICATION Spec
SYMMETRY Symmetry
INVARIANTS
    TypeOK
    ReadyHasBytes
    DeletedIsGone
CHECK_DEADLOCK FALSE
