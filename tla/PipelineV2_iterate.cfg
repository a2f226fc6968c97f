\* Iterations, with the real retry limits.
CONSTANTS
    Requests <- Iterate
    PatchMax = 3
    ReviewRetries = 2
    IterateMax = 3
    MaxDeficit = 2
SPECIFICATION FairSpec
INVARIANTS ResultChecked
\* a run that has ended stays ended
CHECK_DEADLOCK FALSE
