SPECIFICATION APISpec
CONSTANTS
    MaxBeacons = 2
    DummyTemp = 23
    DummyLimit = 25
    Indices <- MCIndices
    Temps = {0, 15}
INVARIANT FreeEntriesAreClear
PROPERTY AddKeepsOthers
