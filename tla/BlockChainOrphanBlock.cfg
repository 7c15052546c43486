SPECIFICATION FairSpec
CONSTANTS
    Block <- LineBlock
    Genesis = 5
    Prev <- LinePrev
    Vtx <- LineVtx
    ValidBlock <- LineBlock
    Tx <- TreeTx
    Vin <- TreeVin
    NOut <- TreeNOut
    WellFormedTx <- TreeTx
    ScriptOKTx <- TreeTx
    FeeTx = {}
    RelayedTx = {}
    Maturity = 1
    MaxOut = 2
    MaxBlockTxs = 1
    MaxCopies = 1
    MaxCrashes = 0
PROPERTIES
    OrphanIsAdopted
CHECK_DEADLOCK FALSE
