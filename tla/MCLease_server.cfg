SPECIFICATION Spec
CONSTANTS
    a = a
    b = b
    c = c
    Replica = {a, b, c}
    NoRow = NoRow
    Vacant = Vacant
    TTL = 2
    MaxStall = 1
    Offset <- SameClock
    Serialised = FALSE
    Faults = {"crash"}
    MaxFaults = 2
INVARIANT OneLeader
SYMMETRY Symmetry
