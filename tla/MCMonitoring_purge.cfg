SPECIFICATION Spec
CONSTANTS
    m1 = m1
    m2 = m2
    g1 = g1
    g2 = g2
    Module = {m1, m2}
    Monitor = {g1, g2}
    None = None
    Maintainable = {m1}
    Excluded = {"monitors", "run_now", "purge", "reads", "clear"}
    MaxChanges = 2
    MaxFaults = 0
INVARIANT StateIsTold
ACTION_CONSTRAINT NoClears
