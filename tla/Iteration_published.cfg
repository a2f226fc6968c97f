\* One handler at a time: a published game goes back to draft.
CONSTANTS
    h1 = h1  h2 = h2  t1 = t1  t2 = t2
    Handler = {h1}
    Task = {t1, t2}
    MaxVersion = 3
    MaxAttempts = 2
    MaxCalls = 6
    MaxFaults = 0
SPECIFICATION Spec
PROPERTIES PublishedStays
SYMMETRY InstanceSymmetry
CHECK_DEADLOCK FALSE
