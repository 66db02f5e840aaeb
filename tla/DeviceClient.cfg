SPECIFICATION DeviceSpec
CHECK_DEADLOCK FALSE
CONSTANTS
    Retries = 3
    Beacons = 3
    Modulus = 1024
    Totals <- MCTotals
    Received <- MCReceived
INVARIANTS ClientTypeOK ExitReason ResetBeforeExit WipedIsLeaving RegisteredIsHonest TreeIsComplete
PROPERTIES UnregisterEnds ProgressIsHonest LooksAlive
