SPECIFICATION FairSpec
CONSTANTS
    a = a
    b = b
    Replica = {a, b}
    Thread = {"beat"}
    MaxCmd = 2
    DrainMax = 2
    StaleClaim = 1
    OlderThan = 2
    MaxFaults = 2
INVARIANT TypeOK
INVARIANT AtMostOnce
INVARIANT ExpiredNeverRuns
PROPERTY OutcomeStable
PROPERTY MailboxSpec
PROPERTY EventuallyClosed
