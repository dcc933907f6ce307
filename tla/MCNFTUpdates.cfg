CONSTANTS
    a0 = a0
    a1 = a1
    u1 = u1
    u2 = u2
    Blocks <- MCBlocks
    Attrs <- MCAttrs
    InitAttr = a0
    URIs <- MCURIs
    NoDoc = NoDoc
    Ghost = Ghost
SPECIFICATION Spec
INVARIANTS
    TypeOK
    URIsNoDuplicates
