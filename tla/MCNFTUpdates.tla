---------------------------- MODULE MCNFTUpdates ----------------------------
EXTENDS NFTUpdates

CONSTANTS a0, a1, u1, u2

MCBlocks == 1..3
MCAttrs == {a0, a1}
MCURIs == {u1, u2}
=============================================================================
