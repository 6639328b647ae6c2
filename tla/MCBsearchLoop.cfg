SPECIFICATION FairSpec
CONSTANTS
    Count = 4
    Items <- MCItems
INVARIANTS
    TypeOK
    WindowInRange
    SearchIsExact
    OperatorsAgree
PROPERTIES
    Terminates
\* A search returns: the loop really stops.
CHECK_DEADLOCK FALSE
