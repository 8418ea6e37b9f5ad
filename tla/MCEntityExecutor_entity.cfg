SPECIFICATION Spec
CONSTANTS
    Handlers = {h1, h2}
    Statuses = {open, closed}
    NoStatus = NoStatus
    Entities <- Declarations
    MaxVersion = 3
SYMMETRY Symmetry
CONSTRAINT Sound
INVARIANTS LiveIsRebuild
PROPERTIES BuildsOnWhatWasSeen PreviousIsReplaced DetailIsCurrent DetailHidesTrash
CHECK_DEADLOCK FALSE
