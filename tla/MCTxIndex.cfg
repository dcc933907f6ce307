CONSTANTS
    tc = tc
    tn = tn
    ti = ti
    tv = tv
    NoDoc = NoDoc
    Txs <- MCTxs
    TxInfo <- MCTxInfo
    Scrs <- MCScrs
SPECIFICATION Spec
INVARIANTS TypeOK PatchedStatusKept DestWriteNotReverted ScrOperationSettled
PROPERTIES TxsSettle
