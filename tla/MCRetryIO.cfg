SPECIFICATION Spec
CONSTANTS
    MaxFile = 3
    Sizes <- MCSizes
    MaxOut = 2
    Garbage <- MCGarbage
INVARIANTS
    MovesAll
    EveryByteInPlace
    HoldsPieceOfFile
PROPERTIES
    Returns
