SPECIFICATION Spec
CHECK_DEADLOCK FALSE
CONSTANTS
    MaxBeacons = 2
    DummyTemp = 23
    DummyLimit = 25
    BmpBits = 3
    Retries = 1
    ServerTemps = {0}
    ServerBitmaps <- MCServerBitmaps
    WordBits = 4
    QueueSize = 5
    ScanIndices <- MCScanIndices
    ScanTemps = {20, 21}
INVARIANT RefusedOnlyIfFull
