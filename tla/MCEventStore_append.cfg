SPECIFICATION Spec
CONSTANTS
    Writers = {w1, w2}
    Streams = {s1}
    Keys = {k1}
    NoKey = NoKey
    NoStream = NoStream
    MaxVersion = 3
    MaxAppends = 2
SYMMETRY Symmetry
INVARIANTS EveryViewConsistent
PROPERTIES ImplementsStreamLog
CHECK_DEADLOCK FALSE
