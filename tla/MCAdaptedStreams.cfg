SPECIFICATION AdaptedSpec
CONSTANTS
    Algos <- MCAlgos
    FrameSizes <- MCFrameSizes
    Frames = 2
    Hold = 2
    CinSize = 2
    CoutSize = 2
    DinSize = 3
    DoutSize = 1
    RecInSize = 2
INVARIANTS
    EndsAreTrue
PROPERTIES
    IsChannel
    Delivered
\* A program whose assertion fails stops.
CHECK_DEADLOCK FALSE
