------------------------------ MODULE MCTxIndex ------------------------------
EXTENDS TxIndex

CONSTANTS tc, tn, ti, tv

Res(t, blks, d, x, v, fh, rc) ==
    [tx |-> t, blocks |-> blks, data |-> d, cross |-> x, value |-> v, firstHop |-> fh,
     rcv |-> rc]

\* tc: cross-shard smart contract call, executed successfully at dst; its
\*     callback result (no value) goes back to src in src's next block
\* tn: intra-shard NFT transfer to a contract, whose user error comes back
\*     in the next block of the shard
\* ti: intra-shard contract call failing with a user error in its block
\* tv: cross-shard value transfer, no results
MCTxs == {tc, tn, ti, tv}
MCTxInfo == [t \in MCTxs |->
    CASE t = tc -> [cross |-> TRUE,  nft |-> FALSE]
      [] t = tn -> [cross |-> FALSE, nft |-> TRUE]
      [] t = ti -> [cross |-> FALSE, nft |-> FALSE]
      [] t = tv -> [cross |-> TRUE,  nft |-> FALSE]]
MCScrs ==
    { Res(tc, {<<"dst", 1>>}, "ok", FALSE, 0, TRUE, "dst"),
      Res(tc, {<<"dst", 1>>, <<"src", 2>>}, "ok", TRUE, 0, FALSE, "src"),
      Res(tn, {<<"src", 2>>}, "nftTransferUserError", FALSE, 0, FALSE, "src"),
      Res(ti, {<<"src", 1>>}, "userError", FALSE, 0, TRUE, "src") }

\* cross-shard NFT transfer failing at dst with a user error: the result
\* returning the token goes dst -> src, so dst sees a pending cross-shard
\* transfer and the failure reaches the index only as the patch of src
MCTxsNFT == {tc}
MCTxInfoNFT == [t \in MCTxsNFT |-> [cross |-> TRUE, nft |-> TRUE]]
MCScrsNFT == { Res(tc, {<<"dst", 1>>, <<"src", 2>>}, "nftTransferUserError", TRUE, 0, FALSE, "src") }

\* cross-shard contract call whose callback refunds the sender at src
MCScrsRefund == { Res(tc, {<<"dst", 1>>, <<"src", 2>>}, "ok", TRUE, 1, FALSE, "src") }
MCTxInfoRefund == [t \in MCTxsNFT |-> [cross |-> TRUE, nft |-> FALSE]]

=============================================================================
