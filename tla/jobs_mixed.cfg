SPECIFICATION FairSpec
CHECK_DEADLOCK FALSE
CONSTANTS
    j1 = j1
    j2 = j2
    j3 = j3
    j4 = j4
    Worker = {w1, w2}
    Job = {j1, j2, j3, j4}
    NoJob = NoJob
    KindOf <- MixedKinds
    MaxAttempts = 2
    MaxCrashes = 1
    LeaseOutlivesWork = TRUE
INVARIANTS
    TypeOK
    EffectAtMostOnce
    ClosedSendIsSettled
PROPERTIES
    KeepsContract
    EveryJobEnds
