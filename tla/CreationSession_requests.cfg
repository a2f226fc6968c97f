\* Two requests at a time on one session, two games, every report and fault.
CONSTANTS
    h1 = h1
    h2 = h2
    h3 = h3
    g1 = g1
    g2 = g2
    g3 = g3
    p1 = p1
    p2 = p2
    Handler = {h1, h2}
    Game = {g1, g2}
    Prompt = {p1, p2}
    MaxRevision = 4
    MaxSlips = 1
    MaxCrashes = 1
SPECIFICATION Spec
INVARIANTS TypeOK OneLiveGame GeneratesShown
PROPERTIES SessionSettles
\* the session is left alone once it is closed or the bounds are reached
CHECK_DEADLOCK FALSE
