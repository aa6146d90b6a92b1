SPECIFICATION AllDevices
CONSTANTS
    t1 = t1
    t2 = t2
    c1 = c1
    c2 = c2
    Moving = {"runtime", "chunks", "enrollment", "relay", "queue"}
    MaxCommands = 4
    Devices <- Two
    Chunks <- TwoChunks
    Parts = 2
    MidSync = FALSE
    MaxAttached = 2
    MaxFaults = 2
    Joiners = {j1}
    Processes <- Two
    MaxAttempts = 2
    MaxEpoch = 2
    Peers = {"a", "b"}
    RecordsOf <- TwoJournals
    Txns <- Two
    PageSize = 1
    Operations = {"push", "pull", "enroll", "revoke", "delete"}
    MaxRequests = 2
    MaxTime = 2
    QueueOperations <- Two
    Captures = {1, 2, 3}
    TextOf <- CapturedTexts
    MaxQueue = 2
    MaxSends = 2
CHECK_DEADLOCK FALSE
SYMMETRY Symmetry
INVARIANTS
    PassphraseOutlivesVault
    CommandsTellTheTruth
    ChunksAreWhole
    RecordsHaveChunks
    EnrollmentIsSound
    RequestsServeOnce
    CapturesArrive
PROPERTY
    RelayImplementsLog
