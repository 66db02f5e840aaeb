SPECIFICATION UISpec
CHECK_DEADLOCK FALSE
CONSTANTS
    Boards <- MCBoards
    MaxPresses = 2
    Patterns <- MCPatterns
    Encore <- MCEncore
    MaxEvents = 2
INVARIANTS PlaysAlone NoPhantomClicks
PROPERTIES PressIsSeen PatternEnds
