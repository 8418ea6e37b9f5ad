SPECIFICATION FairSpec
CONSTANTS
    Requests = {r1, r2, r3}
    NoRequest = NoRequest
INVARIANTS OwnerUndisturbed AppliedOnce SameAnswer GivesUpBehindTwoHolders
PROPERTIES EveryRequestEnds
CHECK_DEADLOCK FALSE
