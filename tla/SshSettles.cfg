SPECIFICATION FairSpec
CONSTANTS
    Gateways = {g1, g2}
    Conns = {c1}
    Admins = {a1}
    Logins = {l1}
    HostKeys = {f1, f2}
    None = None
    MaxOpen = 3
    MaxMissed = 2
    Tolerated = 2
    MaxTickets = 1
    MaxOps = 3
    MaxKeys = 3
    MaxTrusts = 1
    MaxFaults = 1
CHECK_DEADLOCK FALSE
INVARIANTS
    DeletedKeyStaysGone
PROPERTIES
    RevokedTerminalEnds
    DeletedIsErased
