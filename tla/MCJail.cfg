SPECIFICATION Spec
CONSTANTS
    web = web
    syslog = syslog
    t1 = t1
    t2 = t2
    t3 = t3
    Process = {web, syslog}
    Thread = {t1, t2, t3}
    ProcessOf <- MCProcessOf
    None = None
    Threshold = 4
    Period = 2
    Durations <- MCDurations
    PermanentAfter = 1
    HandTerms = {None, 0, 1}
    CacheTTL = 1
    Forever = Forever
    MaxTime = 2
    MaxEvents = 3
SYMMETRY Symmetry
INVARIANT TypeOK
PROPERTY LiftedEverywhere
PROPERTY EnforcedEverywhere
 
PROPERTY BanIsEarned
CHECK_DEADLOCK FALSE
