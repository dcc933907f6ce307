--------------------------- MODULE MCBlockRemoval ---------------------------
EXTENDS BlockRemoval

CONSTANTS m0, m1, m2, hA1, hA2, hA3, hB1, hB2

\* block b of shard sh, header h, carrying miniblock m with the header
\* data of its miniblock header
W(m, sh, b, h, snd, rcv, pt, cs) ==
    [mb |-> m, shard |-> sh, block |-> b, header |-> h, sender |-> snd,
     receiver |-> rcv, procType |-> pt, construction |-> cs]

\* shard 0: block 1 (reverted) proposes the scheduled miniblock m0 and
\* carries m1; block 2 replaces it and carries both again; block 3
\* processes m0. Shard 1 meanwhile proposes and processes m2.
MCRevertProposal ==
    {W(m0, 0, 1, hA1, 0, 0, "Scheduled", "Proposed"),
     W(m1, 0, 1, hA1, 0, 0, "Normal", "Final"),
     W(m0, 0, 2, hA2, 0, 0, "Scheduled", "Proposed"),
     W(m1, 0, 2, hA2, 0, 0, "Normal", "Final"),
     W(m0, 0, 3, hA3, 0, 0, "Processed", "Final"),
     W(m2, 1, 1, hB1, 1, 1, "Scheduled", "Proposed"),
     W(m2, 1, 2, hB2, 1, 1, "Processed", "Final")}

\* shard 0: block 1 proposes m0, block 2 (reverted) processes it, block 3
\* replaces block 2 and processes m0 again
MCRevertProcessing ==
    {W(m0, 0, 1, hA1, 0, 0, "Scheduled", "Proposed"),
     W(m0, 0, 2, hA2, 0, 0, "Processed", "Final"),
     W(m0, 0, 3, hA3, 0, 0, "Processed", "Final")}
=============================================================================
