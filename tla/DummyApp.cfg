SPECIFICATION FairSpec
CHECK_DEADLOCK FALSE
CONSTANTS
    MaxBeacons = 3
    DummyTemp = 23
    DummyLimit = 25
    BmpBits = 3
    Retries = 2
    ServerTemps = {0}
    ServerBitmaps <- MCServerBitmaps
INVARIANTS TypeOK TableAgrees NeverInvalidDummy CloudInStep
PROPERTIES ImplementsView ImplementsClient AllReported WritesHeal
