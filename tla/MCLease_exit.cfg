SPECIFICATION Spec
CONSTANTS
    a = a
    b = b
    c = c
    Replica = {a, b}
    NoRow = NoRow
    Vacant = Vacant
    TTL = 2
    MaxStall = 1
    Offset <- SameClock
    Serialised = TRUE
    Faults = {"crash"}
    MaxFaults = 1
INVARIANT CleanExitFreesLease
