SPECIFICATION Spec
CONSTANTS
    a = a
    b = b
    c = c
    Replica = {a, b}
    NoRow = NoRow
    Vacant = Vacant
    TTL = 2
    MaxStall = 1
    Offset <- SameClock
    Serialised = FALSE
    Faults = {"dberror"}
    MaxFaults = 1
INVARIANT OneLeader
