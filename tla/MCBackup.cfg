SPECIFICATION FairSpec
CONSTANTS
    w1 = w1
    w2 = w2
    t1 = t1
    None = None
    Worker = {w1, w2}
    Task = {t1}
    Scheduled = {t1}
    Bucket = {"keep_daily", "keep_weekly"}
    Span <- MCSpan
    Policies <- MCPolicies
    Outcome <- MCOutcome
    Every = 1
    Excluded = {"prunes", "copies"}
    MaxTime = 1
    MaxCopies = 3
    MaxChanges = 1
    MaxFaults = 1
CHECK_DEADLOCK FALSE
INVARIANT TypeOK
INVARIANT GoodCopyStays
INVARIANT NewestKept
INVARIANT PruneSettles
PROPERTY LockHolds
PROPERTY DueIsTaken
