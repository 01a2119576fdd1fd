CONSTANTS
    Owners = {u1}
    Challenges = {ch1}
    Instances = {i1}
    Servers = {s1}
    Controllers = {c1, c2}
    None = None
    Capacities = {1}
    Ttls = {1}
    MaximumTtl = 2
    MaximumExtensions = 1
    MaxAttempts = 2
    MaxTime = 2
    MaxRevision = 1
    MaxCommands = 3
    MaxFaults = 1
SPECIFICATION Spec
SYMMETRY Symmetry
INVARIANTS
    StoppedSlotIsDrained
    StopNeverForgotten
    HostHonoursDeadline
PROPERTIES
    StoppedRowIsFinal
    HostsAreSlots
