SPECIFICATION HandoverSpec
CONSTANTS
    Writers = {w1, w2}
    Tenants = {t1}
    MaxEventId = 3
    MaxXid = 2
    BatchSize = 2
    MaxAttempts = 1
    MaxRearmCount = 1
    MaxPendingGapRanges = 3
    HasBatchHandler = FALSE
    SkipApplyErrors = TRUE
    HasTransientErrors = FALSE
    MaxRollbacks = 0
    SubscribedIds = {1, 3}
    MarkDeadOnFailure = TRUE
    MaxRebuilds = 1
SYMMETRY Symmetry
INVARIANTS LostOnlyIfOvertaken NoRedeliveryAfterCommit GapsWellFormed
CHECK_DEADLOCK FALSE
