SPECIFICATION Spec
CONSTANTS
    Files <- MCFiles
    Callers <- MCCallers
    Bases = {100, 200}
    Part0Base = 900
    ChunkSize = 4
    FrameHeaderSize = 1
    MaxMbSize = 12
    SyncEveryNRows = 2
    NumArgbCacheRows = 4
    Faults <- MCFaults
INVARIANTS
    DataIsHeld
    LeftAtRest
    RowsComeOnce
PROPERTY ImplementsProgressive
