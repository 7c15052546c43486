SPECIFICATION FairSpec
CONSTANTS
    Block = {1, 2, 3, 4, 5, 6, 7}
    Genesis = 5
    Prev <- TreePrev
    Vtx <- TreeVtx
    ValidBlock = {1, 2, 3, 4, 5, 6, 7}
    Tx <- TreeTx
    Vin <- TreeVin
    NOut <- TreeNOut
    WellFormedTx <- TreeTx
    ScriptOKTx <- TreeTx
    FeeTx = {21, 22, 23}
    RelayedTx = {21, 22, 23}
    Maturity = 1
    MaxOut = 2
    MaxBlockTxs = 1
    MaxCopies = 1
    MaxCrashes = 0
CHECK_DEADLOCK FALSE
INVARIANTS
    IndexSound
    LedgerSound
    PoolsSound
PROPERTIES
    ActiveHeightNeverDrops
    ExtendCompletes
