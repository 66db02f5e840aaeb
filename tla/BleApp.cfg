SPECIFICATION FairSpec
CHECK_DEADLOCK FALSE
CONSTANTS
    MaxBeacons = 2
    DummyTemp = 23
    DummyLimit = 25
    BmpBits = 3
    Retries = 1
    ServerTemps = {}
    ServerBitmaps <- MCServerBitmaps
    WordBits = 4
    QueueSize = 5
    ScanIndices <- MCScanIndices
    ScanTemps = {20, 21}
INVARIANTS BitsAreKnownOrStray CountCoversBits BitmapIsReported QuietOutsideDispatch DropsOnlyWhenCrowded
PROPERTIES ImplementsView ImplementsClient DispatchEnds
