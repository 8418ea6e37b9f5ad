SPECIFICATION Spec
CONSTANTS
    Writers = {w1, w2}
    Tenants = {t1}
    MaxEventId = 3
    MaxXid = 3
    BatchSize = 2
    MaxAttempts = 2
    MaxRearmCount = 1
    MaxPendingGapRanges = 3
    HasBatchHandler = FALSE
    SkipApplyErrors = FALSE
    HasTransientErrors = TRUE
    MaxRollbacks = 1
SYMMETRY Symmetry
INVARIANT NoEventLost
CHECK_DEADLOCK FALSE
