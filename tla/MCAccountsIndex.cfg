CONSTANTS
    a1 = a1
    NoDoc = NoDoc
    Addresses <- MCAddresses
    MECTKeys <- MCMECTKeys
    TokenType <- MCTokenType
    Blocks <- MCBlocks
    Balances <- MCBalances
SPECIFICATION Spec
INVARIANTS
    TypeOK
    AccountShowsNewestExecuted
    MECTNonZeroNewestKept
    IdempotentReplay
