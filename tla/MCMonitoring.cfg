SPECIFICATION FairSpec
CONSTANTS
    m1 = m1
    m2 = m2
    g1 = g1
    g2 = g2
    Module = {m1}
    Monitor = {g1, g2}
    None = None
    Maintainable = {m1}
    Excluded = {"monitors", "run_now", "purge", "reads", "clear", "stale"}
    MaxChanges = 2
    MaxFaults = 2
INVARIANT TypeOK
INVARIANT StateIsTold
INVARIANT AlertsAreNews
INVARIANT HistoryOnce
PROPERTY DownIsHeard
ACTION_CONSTRAINT Roles
