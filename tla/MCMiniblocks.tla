---------------------------- MODULE MCMiniblocks ----------------------------
EXTENDS Miniblocks

CONSTANTS mx, hA1, hB1

\* block b of shard sh, header h, carrying miniblock m with the header
\* data of its miniblock header
W(m, sh, b, h, snd, rcv, pt, cs) ==
    [mb |-> m, shard |-> sh, block |-> b, header |-> h, sender |-> snd,
     receiver |-> rcv, procType |-> pt, construction |-> cs]

\* a cross-shard miniblock from shard 0 to shard 1, in block 1 of each
MCCross ==
    {W(mx, 0, 1, hA1, 0, 1, "Normal", "Final"),
     W(mx, 1, 1, hB1, 0, 1, "Normal", "Final")}
=============================================================================
