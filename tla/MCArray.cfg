SPECIFICATION Spec
CONSTANTS
    Items <- MCItems
    Garbage <- MCGarbage
    ISizes <- MCISizes
    PageSize = 4
    ChonkSize = 6
    Heap = 14
    SizeMax = 255
    MaxCount = 4
    MaxAlloc = 4
INVARIANTS
    BlockIsTrue
PROPERTIES
    FailureChangesNothing
    InsortKeepsOrder
    IsSequence
