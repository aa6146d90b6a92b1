SPECIFICATION FairSpec
CONSTANTS
    d1 = d1
    c1 = c1
    Devices <- OneDevice
    Chunks <- OneChunk
    Parts = 2
    MidSync = FALSE
    MaxAttached = 1
    MaxFaults = 1
PROPERTIES
    AttachedIsPushed
