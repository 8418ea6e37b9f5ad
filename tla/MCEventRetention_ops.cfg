SPECIFICATION RetentionSpec
CONSTANTS
    Writers = {w1, w2}
    Tenants = {t1}
    MaxEventId = 3
    MaxXid = 3
    BatchSize = 2
    MaxAttempts = 2
    MaxRearmCount = 1
    MaxPendingGapRanges = 3
    HasBatchHandler = FALSE
    SkipApplyErrors = FALSE
    HasTransientErrors = TRUE
    MaxRollbacks = 0
SYMMETRY Symmetry
INVARIANTS LostOnlyIfOvertaken NoRedeliveryAfterCommit LastFailedIsRetried
PROPERTIES HaltsOnPoison SkipsOnlyTheFailedEvent ProgressNeverUndone PruneDropsOnlyPendingGaps
CHECK_DEADLOCK FALSE
