SPECIFICATION Spec
CONSTANTS
    Gateways = {g1}
    Conns = {c1, c2}
    Admins = {a1}
    Logins = {l1, l2}
    HostKeys = {f1, f2}
    None = None
    MaxOpen = 3
    MaxMissed = 2
    Tolerated = 2
    MaxTickets = 2
    MaxOps = 2
    MaxKeys = 2
    MaxTrusts = 1
    MaxFaults = 1
SYMMETRY Symmetry
CHECK_DEADLOCK FALSE
INVARIANTS
    TypeOK
    PublishedIsStored
    OpenSessionIsPinned
    OneTerminalPerAdmin
