\* Creations of every tier and iterations, with the real retry limits.
CONSTANTS
    Requests <- Both
    PatchMax = 3
    ReviewRetries = 2
    IterateMax = 3
    MaxDeficit = 2
SPECIFICATION FairSpec
INVARIANTS TypeOK AcceptedIsEvidenced PatchNeverWorse NoOrphanReview
PROPERTIES RunEnds
\* a run that has ended stays ended
CHECK_DEADLOCK FALSE
