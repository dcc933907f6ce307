CONSTANTS
    mx = mx
    hA1 = hA1
    hB1 = hB1
    NoDoc = NoDoc
    Writers <- MCCross
SPECIFICATION Spec
INVARIANT
    BothSidesKept
