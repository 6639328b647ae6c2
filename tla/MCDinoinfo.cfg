SPECIFICATION DinoinfoSpec
CONSTANTS
    Hex = 2
    Bytes = 4
    PerByte = 4
    KeySize = 2
    LenMod = 4
    OffMod = 8
    CntMod = 8
    Objects <- MCObjects
    KeyStrs <- MCKeyStrs
INVARIANTS
    NamesAreTable
    ShownIsMatching
PROPERTY Finishes
\* The program ends.
CHECK_DEADLOCK FALSE
