SPECIFICATION Spec
CONSTANTS
    MaxId = 5
    MaxXmax = 2
INVARIANTS LoopsAgree MergeNeverShortensTheWait
CHECK_DEADLOCK FALSE
