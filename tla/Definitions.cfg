SPECIFICATION Spec
CONSTANTS
    Users = {u1, u2}
    Challenges = {1, 2}
    Flags = {f1, f2}
    Categories = {g1}
    Keys = {k1, k2}
    Requests = {p1, p2}
    None = None
    Capacity = 3
    MaxRequests = 2
SYMMETRY Symmetry
CHECK_DEADLOCK FALSE
INVARIANTS
    EveryChallengeKeepsAFlag
    RunningMatchesDefinition
    PublishedHasRuntime
    OneChallengePerKey
