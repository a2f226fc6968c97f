\* One process with room for two, three commands: a pass claims two of them with the
\* room it computed once, a third waits, and a command whose lease has lapsed is
\* claimed again, which replaces its handle.
CONSTANTS
    w1 = w1  w2 = w2  t1 = t1  t2 = t2  t3 = t3
    Task = {t1, t2, t3}
    Worker = {w1}
    Runners <- AllRunners
    Fingerprint = {}
    NoOwner = NoOwner
    LeaseS = 1
    TimeoutS = 2
    TtlS = 3
    Concurrency = 2
    MaxAttempts = 2
    MaxClock = 2
    MaxSkew = 0
    MaxFaults = 0
SPECIFICATION Spec
INVARIANTS RoomRespected
SYMMETRY TaskSymmetry
CHECK_DEADLOCK FALSE
