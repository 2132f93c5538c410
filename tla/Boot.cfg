CONSTANTS
    A = A
    B = B
    L = L
    Images <- MCImages
    Loops <- MCLoops
    SvcEntry <- MCSvcEntry
    NumSectors = 2
    SectorLoops = 2
    SubSectorLoops = 2
    TableWords = 2
    Own = Own
    Zero = Zero
    Erased = Erased
    MaxMishaps = 1
    MaxLost = 1
    NoImage = NoImage
    Tries = 4
    Attempts = 3
    MaxSessions = 2
SPECIFICATION FairLoadSpec
INVARIANTS
    AcknowledgedIsInFlash
    OwnTableKept
    NeverHalts
    UploadSurvives
    ReportedIsSo
PROPERTIES
    ImplementsAppSlot
    SessionEnds
