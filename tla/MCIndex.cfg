SPECIFICATION Spec
CONSTANTS
    Items <- MCItems
    Garbage <- MCGarbage
    PageSize = 4
    ChonkSize = 6
    Heap = 14
    SizeMax = 255
    Bytes = 2
    PerByte = 3
    Vals <- MCVals
    KeySize = 2
    ValSizes <- MCValSizes
    MaxCount = 3
    AllocCounts <- MCAllocCounts
INVARIANTS
    SearchesAreExact
    KeysStaySorted
    FindStaysInside
PROPERTIES
    AddKeepsPairs
    IsDictionary
\* A program that dereferences a NULL pointer stops.
CHECK_DEADLOCK FALSE
