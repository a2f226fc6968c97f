\* One command, two processes, a crash or Redis error, clocks up
\* to one tick apart, a TTL that runs out in time for the id to be submitted again.
CONSTANTS
    w1 = w1  w2 = w2  t1 = t1  t2 = t2  t3 = t3
    Task = {t1}
    Worker = {w1, w2}
    Runners <- AllRunners
    Fingerprint = {}
    NoOwner = NoOwner
    LeaseS = 1
    TimeoutS = 1
    TtlS = 2
    Concurrency = 1
    MaxAttempts = 2
    MaxClock = 3
    MaxSkew = 1
    MaxFaults = 1
SPECIFICATION Spec
INVARIANTS TypeOK Fenced AttemptsDistinct
PROPERTIES TerminalIsFinal ImplementsLifecycle
SYMMETRY WorkerSymmetry
CHECK_DEADLOCK FALSE
