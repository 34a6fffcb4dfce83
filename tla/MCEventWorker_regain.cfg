SPECIFICATION Spec
CONSTANTS
    r1 = r1
    r2 = r2
    Replica = {r1, r2}
    None = None
    Old = 0
    MaxRow = 2
    MaxOpen = 1
    Window = 2
    Batch = 3
    SeenSize = 4
    MaxChanges = 2
    MaxFaults = 0
    Faults = {}
PROPERTY NoDoubleFire
