CONSTANTS
    Owners = {u1}
    Challenges = {ch1}
    Instances = {i1}
    Servers = {s1}
    Controllers = {c1, c2}
    None = None
    Capacities = {1}
    Ttls = {1}
    MaximumTtl = 1
    MaximumExtensions = 0
    MaxAttempts = 2
    MaxTime = 1
    MaxRevision = 1
    MaxCommands = 2
    MaxFaults = 1
SPECIFICATION Spec
SYMMETRY Symmetry
INVARIANTS
    LateStartDoesNotRevive
