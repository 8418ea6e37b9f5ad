SPECIFICATION FairSpec
CONSTANTS
    Writers = {w1, w2}
    Tenants = {t1}
    MaxEventId = 2
    MaxXid = 3
    BatchSize = 2
    MaxAttempts = 2
    MaxRearmCount = 1
    MaxPendingGapRanges = 3
    HasBatchHandler = FALSE
    SkipApplyErrors = FALSE
    HasTransientErrors = FALSE
    MaxRollbacks = 1
PROPERTIES EventuallyHandled
CHECK_DEADLOCK FALSE
