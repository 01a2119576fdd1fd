CONSTANTS
    Objects = {o1}
    Targets = {cat}
    IconTargets = {cat}
    Requests = {r1}
    Workers = {w1}
    None = None
    PresignTtl = 1
    MaxUploadDuration = 1
    Grace = 0
    MaxRetained = 2
    MaxAttempts = 2
    MaxTime = 2
    MaxFaults = 1
SPECIFICATION FairSpec
INVARIANTS
    IconIsReady
    ReadyHasBytes
    DeletedIsGone
PROPERTIES
    Settles
CHECK_DEADLOCK FALSE
