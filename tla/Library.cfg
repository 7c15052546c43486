SPECIFICATION Spec
CHECK_DEADLOCK FALSE
CONSTANTS
    P = 43
    CurveB = 7
    MaxMagnitude = 32
    MulMagnitude = 8
    Order = 31
    ScalarBits = 5
    GeneratorXY <- MCGenerator
    WindowA = 4
    WindowG = 4
    GenBits = 2
    NumsX = 12
    PippengerThreshold = 2
    WnafBits = 256
    ScratchWindowA = 5
    MaxPointsPerBatch = 10000000
    Addends = {0, 1, 2, 25, 30}
    Scales = {1, 5}
    Factors = {0, 30, 11}
    Spaces <- MCSpaces
    MaxPointOps = 2
    ByteValues = 32
    ScalarBytes = 1
    SizeBytes = 6
    Secrets = {0, 7, 31}
    Hashes = {5, 31}
    NonceStreams <- MCNonceStreams
    Blinds <- MCBlinds
    Tweaks = {24, 2, 31}
    DepthLimit = 2
    ChildByte = 2
    HardenedChild = 8
    MaxHandles = 1
    MaxKeyOps = 5
INVARIANTS
    LimbsAreSound
    PointsAddUp
    SignaturesAreSound
    KeysAreSound
    MultiplicationIsPlanned
    SignaturesHaveOneForm
PROPERTY LimbsImplement
