CONSTANTS
    m0 = m0
    m1 = m1
    m2 = m2
    hA1 = hA1
    hA2 = hA2
    hA3 = hA3
    hB1 = hB1
    hB2 = hB2
    NoDoc = NoDoc
    Writers <- MCRevertProcessing
    Reverted = {hA2}
SPECIFICATION SpecRemoval
INVARIANT
    LiveTxsKept
