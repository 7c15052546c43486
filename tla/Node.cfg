SPECIFICATION FairSpec
CONSTANTS
    MaxLength = 2
    MaxPush = 3
    MaxReceived = 1
CHECK_DEADLOCK FALSE
INVARIANTS
    TrafficSound
    ClosingSound
PROPERTIES
    PushedIsSent
    SilenceCloses
