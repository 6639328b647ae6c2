SPECIFICATION Spec
CONSTANTS
    DhdrSize = 2
    ShdrSize = 4
    FanoutSize = 2
    KeySize = 2
    ValSize = 1
    MaxSections = 2
    Names <- MCNames
    NamtabSize = 2
    BlobSizes <- MCBlobSizes
    Counts <- MCCounts
    Skews <- MCSkews
    SecMod = 64
    Msb = 128
    Mod64 = 1024
    Garbage64 <- MCGarbage64
    GarbageInt <- MCGarbageInt
    EIO = 5
INVARIANTS
    OpenMeansWhole
    SectionsInPlace
    CutOffIsNoticed
    FindsWhatIsThere
