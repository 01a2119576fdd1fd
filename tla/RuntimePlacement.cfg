CONSTANTS
    Owners = {u1, u2}
    Challenges = {ch1}
    Instances = {i1, i2}
    Servers = {s1, s2}
    Controllers = {c1, c2}
    None = None
    Capacities = {1, 2}
    Ttls = {1}
    MaximumTtl = 1
    MaximumExtensions = 0
    MaxAttempts = 1
    MaxTime = 0
    MaxRevision = 1
    MaxCommands = 2
    MaxFaults = 1
SPECIFICATION Spec
SYMMETRY Symmetry
INVARIANTS
    OneHostPerInstance
PROPERTIES
    CapacityRespected
