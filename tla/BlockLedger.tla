----------------------------- MODULE BlockLedger -----------------------------
(***************************************************************************)
(* What the indexer promises about the blocks of each shard in the index: *)
(* a block enters after the blocks before it in its shard, and a reverted *)
(* block leaves in one step, before any later block of its shard enters.  *)
(* BlockRemoval implements it: a block is in the index while any of its   *)
(* documents is.                                                           *)
(***************************************************************************)
EXTENDS Naturals

CONSTANTS
    Blks,       \* records [shard, block, header]: the blocks of the shards
    Reverted    \* header hashes of the blocks that are reverted

VARIABLES
    live,       \* header hashes of the blocks the index holds
    gone        \* header hashes of the reverted blocks removed

ledgerVars == <<live, gone>>

Before(b) == {e \in Blks : e.shard = b.shard /\ e.block < b.block}
After(b) == {e \in Blks : e.shard = b.shard /\ e.block > b.block}

LedgerInit ==
    /\ live = {}
    /\ gone = {}

\* a block enters when every earlier block of its shard is in the index,
\* or was reverted and has left it
Enter(b) ==
    /\ b.header \notin live \cup gone
    /\ \A e \in Before(b) :
        IF e.header \in Reverted THEN e.header \in gone ELSE e.header \in live
    /\ live' = live \cup {b.header}
    /\ UNCHANGED gone

\* a reverted block leaves while no later block of its shard has entered
Leave(b) ==
    /\ b.header \in Reverted \cap live
    /\ \A e \in After(b) : e.header \notin live
    /\ live' = live \ {b.header}
    /\ gone' = gone \cup {b.header}

LedgerNext == \E b \in Blks : Enter(b) \/ Leave(b)

LedgerSpec == LedgerInit /\ [][LedgerNext]_ledgerVars
=============================================================================
