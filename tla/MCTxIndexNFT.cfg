CONSTANTS
    tc = tc
    tn = tn
    ti = ti
    tv = tv
    NoDoc = NoDoc
    Txs <- MCTxsNFT
    TxInfo <- MCTxInfoNFT
    Scrs <- MCScrsNFT
SPECIFICATION Spec
INVARIANT PatchedStatusKept
