CONSTANTS
    tc = tc
    tn = tn
    ti = ti
    tv = tv
    NoDoc = NoDoc
    Txs <- MCTxsNFT
    TxInfo <- MCTxInfoRefund
    Scrs <- MCScrsRefund
SPECIFICATION Spec
INVARIANT DestWriteNotReverted
