SPECIFICATION FairSpec
CONSTANTS
    a = a
    b = b
    c = c
    Replica = {a, b}
    NoRow = NoRow
    Vacant = Vacant
    TTL = 3
    MaxStall = 2
    Offset <- Skewed
    Serialised = TRUE
    Faults = {"crash", "dberror", "reuse"}
    MaxFaults = 3
INVARIANT TypeOK
INVARIANT WorkerIsCurrentLeader
PROPERTY LeadershipSpec
PROPERTY Failover
