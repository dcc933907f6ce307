--------------------------- MODULE MCAccountsIndex ---------------------------
(* One address holding a fungible balance (nonce 0) and two units of one   *)
(* NFT collection, over three blocks (the first at timestamp 0, stored     *)
(* without timestamp) with balances 0 and 1: enough for a                   *)
(* write, a zero-balance delete and an older write to meet in every order. *)
EXTENDS AccountsIndex

CONSTANTS a1

MCAddresses == {a1}
MCMECTKeys ==
    {[addr |-> a1, token |-> "FNG", nonce |-> 0],
     [addr |-> a1, token |-> "NFT", nonce |-> 1]}
MCTokenType == [t \in {"FNG", "NFT"} |-> IF t = "FNG" THEN FungibleMECT ELSE NonFungibleMECT]
\* plain accounts only, for the liveness run
MCNoMECTKeys == {}
\* a genesis block at timestamp 0 and two blocks after it
MCBlocks == {0, 1, 2}
MCBalances == {0, 1}

=============================================================================
