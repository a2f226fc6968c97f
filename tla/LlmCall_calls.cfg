\* One call with every retry, or a hedged one beside a plain one; one permit, later two.
CONSTANTS
    c1 = c1  c2 = c2
    Callers = {c1, c2}
    NRoutes = 2
    Limits <- MCLimits
    Mixes <- MCMixes
SPECIFICATION FairSpec
INVARIANTS TypeOK PermitsReturned NothingLeftBehind ResultSaved
PROPERTIES  EveryCallEnds
\* a call that has ended stays ended
CHECK_DEADLOCK FALSE
