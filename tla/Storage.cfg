\* Sectors of two bytes, commands of two bytes where the code has six, and
\* devices small enough for a transfer to reach their end.
SPECIFICATION StorageSpec
CONSTANTS
    SectorBytes  = 2
    MaxCount     = 2
    Geometry     <- MCGeometry
    Present      = {0}
    LbaDrive     = {0}
    Count        = {0, 1}
    Block        = {0}
    MaxBlock     = 1
    SdBlock      = 2
    SdStuff      = {2, 4}
    SdOp         = {72, 77, 81, 88, 119}
    SdArg        = {0, 88}
    SdData       = {88}
    WdDisk       <- MCDisk
    WdType       = 1797
    BusyReads    = 2
    AddressBytes = 2
    WdDensity    = {0, 2}
    WdTrack      = {0, 1}
    WdSector     = {1, 2}
    MaxTrack     = 2
    SasiDisk     = {0, 1}
    Blocks       = 3
    SasiSector   = 2
    CommandBytes = 2
    SenseBytes   = 2
    DriveBytes   = 2
    AlternateBytes = 2
    DataBytes    = 2
    DptrValues   = 3
    MaxBlocks    = 2
    SasiOp       <- MCSasiOp
    SasiCount    = {0, 1}
    SasiLba      = {1}
INVARIANTS
    StorageTypeOK
    IdeInStep
    SdInStep
    WdEndIsTold
    SasiPhaseTruth
    SasiBlocksInStep
PROPERTIES
    WritesAsked
    SdAnswers
