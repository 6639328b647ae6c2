SPECIFICATION StreamsSpec
CONSTANTS
    HdrSize = 2
    RecInSize = 4
    SizeMax = 255
    FrameSizes <- MCFrameSizes
    Frames = 3
    CinSize = 3
    CoutSize = 3
    DinSize = 3
    DoutSize = 2
    Skips <- MCSkips
    Reuse = FALSE
INVARIANTS
    NeverHeaderError
    FramesInStep
PROPERTIES
    IsChannel
    Delivered
