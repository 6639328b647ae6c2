SPECIFICATION FairSpec
CONSTANTS
    Count = 4
    Items <- MCItems
    Prefixes <- MCPrefixes
    Widths <- MCWidths
INVARIANTS
    ReadsNearRange
    RangeIsExact
    OperatorAgrees
PROPERTIES
    Terminates
\* A search returns: the function really stops.
CHECK_DEADLOCK FALSE
