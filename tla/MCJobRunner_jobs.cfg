SPECIFICATION FairSpec
CONSTANTS
    Jobs = {j1, j2}
    NoJob = NoJob
    Slots = {1, 2, 3}
    Tokens = {t1, t2}
    NoToken = NoToken
    JobDefs <- MCJobDefs
INVARIANTS SequentialUnlessLapsed AtMostLimitRun AttemptsWithinBudget FinalMeansFinal
PROPERTIES EveryJobSettles
CHECK_DEADLOCK FALSE
