SPECIFICATION Spec
CONSTANTS
    Block = {1, 2, 3, 4, 5, 6, 7}
    Genesis = 5
    Prev <- TreePrev
    Vtx <- TreeVtx
    ValidBlock = {1, 2, 3, 4, 5, 6, 7}
    Tx <- TreeTx
    Vin <- TreeVin
    NOut <- TreeNOut
    WellFormedTx <- TreeTx
    ScriptOKTx <- TreeTx
    FeeTx = {}
    RelayedTx = {}
    Maturity = 1
    MaxOut = 2
    MaxBlockTxs = 1
    MaxCopies = 1
    MaxCrashes = 2
CHECK_DEADLOCK FALSE
INVARIANT IndexSound
PROPERTY ActiveHeightNeverDrops
