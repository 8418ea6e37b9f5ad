SPECIFICATION Spec
CONSTANTS
    Writers = {w1, w2, s1}
    SagaWriters = {s1}
    Tenants = {t1, t2}
    MaxEventId = 3
    MaxXid = 2
    RebuildBatchSize = 2
    MaxUnlockedBatches = 2
    SkipApplyErrors = TRUE
    MaxRebuilds = 1
SYMMETRY Symmetry
INVARIANTS HandlerEventsShownOnce
PROPERTIES DeadLettersAreNotApplied
CHECK_DEADLOCK FALSE
