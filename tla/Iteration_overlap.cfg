\* Two handlers at a time on one game, two iterations.
CONSTANTS
    h1 = h1  h2 = h2  t1 = t1  t2 = t2
    Handler = {h1, h2}
    Task = {t1, t2}
    MaxVersion = 3
    MaxAttempts = 2
    MaxCalls = 5
    MaxFaults = 1
SPECIFICATION Spec
INVARIANTS TypeOK OneActiveTask RowsAgree
SYMMETRY InstanceSymmetry
CHECK_DEADLOCK FALSE
