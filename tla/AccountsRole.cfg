SPECIFICATION Spec
CONSTANTS
    Users = {u1, u2, u3}
    Emails = {e1, e2, e3}
    Requests = {p1, p2}
    None = None
    NumUsers = 1
    OldLinks = {}
    MaxRequests = 2
SYMMETRY Symmetry
CHECK_DEADLOCK FALSE
INVARIANT TokenKeepsItsRole
