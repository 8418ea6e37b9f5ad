SPECIFICATION Spec
CONSTANTS
    Writers = {w1}
    Tenants = {t1, t2}
    MaxEventId = 4
    MaxXid = 2
    BatchSize = 2
    MaxAttempts = 2
    MaxRearmCount = 1
    MaxPendingGapRanges = 2
    HasBatchHandler = TRUE
    SkipApplyErrors = FALSE
    HasTransientErrors = FALSE
    MaxRollbacks = 0
INVARIANTS LastFailedIsRetried
PROPERTIES HeldEventsComeFirst NothingNewAtGapLimit
CHECK_DEADLOCK FALSE
