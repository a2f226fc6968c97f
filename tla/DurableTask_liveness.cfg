\* One command, two processes, one model call, one fault; no symmetry with liveness.
CONSTANTS
    w1 = w1  w2 = w2  t1 = t1  t2 = t2  t3 = t3
    Task = {t1}
    Worker = {w1, w2}
    Runners <- AllRunners
    Fingerprint = {f1}
    NoOwner = NoOwner
    LeaseS = 1
    TimeoutS = 2
    TtlS = 9
    Concurrency = 1
    MaxAttempts = 2
    MaxClock = 3
    MaxSkew = 0
    MaxFaults = 1
SPECIFICATION FairSpec
PROPERTIES CheckpointsKept EveryCommandEnds StaleRunsStop
CHECK_DEADLOCK FALSE
