\* One handler at a time, one crash or loss of the engine's record.
CONSTANTS
    g1 = g1  g2 = g2  s1 = s1  h1 = h1  h2 = h2
    Game = {g1}
    Handler = {s1}
    Sweeper = s1
    Requester = {s1}
    TotalQuota = 1
    MaxAttempts = 2
    MaxFaults = 1
    Calls = {"create", "deliver", "status", "cancel", "delete", "relay"}
SPECIFICATION FairSpec
INVARIANTS TypeOK QuotaMatchesGrants OutcomesAgree
PROPERTIES EveryTaskEnds
CHECK_DEADLOCK FALSE
