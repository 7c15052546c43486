SPECIFICATION Spec
CONSTANTS
    NonceSpace = 4
    ThreadCount = 2
    WinSets = {{1}, {0, 3}}
    MaxBlocks = 2
    MaxResults = 2
    MaxPeerBlocks = 0
    MaxStops = 0
INVARIANTS
    OnlySolvedIsSubmitted
CHECK_DEADLOCK FALSE
