SPECIFICATION Spec
CONSTANTS
    Users = {u1, u2}
    Team = Team
    Challenges = {c1, c2}
    Dynamic = {c1}
    Flags = {f1, f2}
    Hints = {h1, h2}
    Requests = {p1, p2}
    None = None
    Initials = {1, 6}
    Minimum = 1
    Decay = 2
    Logics = {"all", "team"}
    Limits = {0, 1}
    Patches <- MCPatches
    Moves <- MCMoves
    PerMinute = 2
    Cost = 4
    Bonus = 1
    MaxRequests = 2
SYMMETRY Symmetry
CHECK_DEADLOCK FALSE
INVARIANTS
    TypeOK
    NoCircularWait
