\* The sweep and one request or job at a time beside it; nothing crashes.
CONSTANTS
    g1 = g1  g2 = g2  s1 = s1  h1 = h1  h2 = h2
    Game = {g1}
    Handler = {s1, h1}
    Sweeper = s1
    Requester = {h1}
    TotalQuota = 1
    MaxAttempts = 2
    MaxFaults = 0
    Calls = {"create", "deliver", "status", "cancel", "delete", "relay"}
SPECIFICATION FairSpec
INVARIANTS NoUnitLost 
PROPERTIES NoResurrection EveryGameSettles
CHECK_DEADLOCK FALSE
