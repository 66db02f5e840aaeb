SPECIFICATION FairSpec
CHECK_DEADLOCK FALSE
CONSTANTS
    MaxBeacons = 1
    DummyTemp = 23
    DummyLimit = 50
    BmpBits = 16
    Retries = 1
    ServerTemps = {}
    ServerBitmaps = {}
    WordBits = 32
    QueueSize = 32
    ScanIndices = {}
    ScanTemps = {}
PROPERTIES DurationEndsMode
