SPECIFICATION Spec
CONSTANTS
    m1 = m1
    m2 = m2
    g1 = g1
    g2 = g2
    Module = {m1}
    Monitor = {g1, g2}
    None = None
    Maintainable = {}
    Excluded = {"run_now", "purge", "reads", "clear", "stale"}
    MaxChanges = 1
    MaxFaults = 0
INVARIANT StateIsTold
