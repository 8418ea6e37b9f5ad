SPECIFICATION FairSpec
CONSTANTS
    Consumers = {c1, c2}
    Passes = {p1, p2}
    StartCalls = {s1}
    Pausers = {q1, q2}
    MaxConcurrentConsumerTurns = 1
    PoolSize = 2
INVARIANTS SlotsAccountedFor QuietWhilePaused QuietAfterStop
PROPERTIES EveryTurnEnds DrainsEnd
CHECK_DEADLOCK FALSE
