\* The limits of the code are 520, 20, 201, 10000, 1000, 4 and 5.
CONSTANTS
    MAX_SCRIPT_ELEMENT_SIZE = 100
    MAX_PUBKEYS_PER_MULTISIG = 3
    MAX_OPS_PER_SCRIPT = 5
    MAX_SCRIPT_SIZE = 120
    MAX_STACK_SIZE = 9
    nDefaultMaxNumSize = 2
    nLockNumSize = 3
    SEQUENCE_LOCKTIME_DISABLE_FLAG = 1024
    SEQUENCE_LOCKTIME_TYPE_FLAG = 64
    SEQUENCE_LOCKTIME_MASK = 15
    SEQUENCE_FINAL = 2047
    LOCKTIME_THRESHOLD = 50
    Spends <- MCSpends
    CheckSig <- MCCheckSig
    CheckLockTime <- TxCheckLockTime
    CheckSequence <- TxCheckSequence
    CheckLowS <- MCCheckLowS
    HashOf <- MCHashOf
    Signatures <- MCSignatures
    Versions = {1, 2}
    LockTimes = {0, 40, 41, 60}
    InputSequences = {5, 2047}
    Outputs = {5, 6}
    Codes <- MCCodes
    Amounts = {7, 8}
    MaxEdits = 2
    WIDTH = 4
    LimbBits = 4
    ByteBits = 2
    Networks <- AllNetworks
    Candidate <- AllCandidates
    OtherBits <- SomeBits
    Interval = 2
    Spacing = 4
    MaxHeight = 6
SPECIFICATION ConsensusSpec
CHECK_DEADLOCK FALSE
INVARIANTS
    RootIdentifiesTxs
    TargetsAreExact
    GoodBlockPasses
    RetargetIsSound
    SoftFork
    UseIsBounded
    ReadingIsExact
    MultiSigMatches
    SolverIsSound
    SpendBindsTx
PROPERTY StepsAreOrderly
