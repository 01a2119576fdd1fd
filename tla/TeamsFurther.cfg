SPECIFICATION Spec
CONSTANTS
    Users = {u1, u2}
    TeamIds = {t1, t2}
    Requests = {p1, p2}
    None = None
    TeamSize = 1
    NumTeams = 1
    MaxLive = 1
    MaxRequests = 2
    MaxLogins = 1
    MaxRows = 2
    MaxPreviews = 1
SYMMETRY Symmetry
CHECK_DEADLOCK FALSE
INVARIANTS
    TypeOK
PROPERTIES
    FoundingFits
    DisbandsUnused
