SPECIFICATION MkSpec
CONSTANTS
    Rpms <- MCRpms
    MaxRpms = 2
    Lead = 1
    Align = 2
    Page = 4
    RecOuts <- MCRecOuts
    Garbage <- MCGarbage
INVARIANTS
    KeyIsOfHeader
    FrameIsOfRpm
\* The program ends.
CHECK_DEADLOCK FALSE
