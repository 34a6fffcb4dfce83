SPECIFICATION FairSpec
CONSTANTS
    r1 = r1
    r2 = r2
    Replica = {r1, r2}
    None = None
    Old = 1
    MaxRow = 5
    MaxOpen = 1
    Window = 2
    Batch = 2
    SeenSize = 4
    MaxChanges = 1
    MaxFaults = 1
    Faults = {"crash", "statement", "lease", "pause", "delete"}
INVARIANT TypeOK
INVARIANT OnceEach
INVARIANT NoneLost
PROPERTY NoReplay
PROPERTY CooldownHeld
PROPERTY EveryRowJudged
ACTION_CONSTRAINT FirstToR1
