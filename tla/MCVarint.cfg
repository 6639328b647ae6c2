SPECIFICATION VarintSpec
CONSTANTS
    Base = 4
    M = 128
    MaxLen = 4
    MaxVal <- MCMaxVal
    Streams <- MCStreams
    Buffers <- MCBuffers
INVARIANTS
    DecodesExactly
    RoundTrips
\* Both functions return, and the caller stops after the second.
CHECK_DEADLOCK FALSE
