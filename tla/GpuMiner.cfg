SPECIFICATION FairSpec
CONSTANTS
    NonceSpace = 4
    ThreadCount = 2
    WinSets = {{}, {0, 3}}
    MaxBlocks = 3
    MaxResults = 2
    MaxPeerBlocks = 1
    MaxStops = 1
CHECK_DEADLOCK FALSE
 
PROPERTIES
    FoundIsSubmitted
    SolvableIsSubmitted
