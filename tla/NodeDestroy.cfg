SPECIFICATION Spec
CONSTANTS
    MaxLength = 2
    MaxPush = 2
    MaxReceived = 1
INVARIANTS
    DestroyedWithItsParts
CHECK_DEADLOCK FALSE
