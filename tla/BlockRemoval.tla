---------------------------- MODULE BlockRemoval ----------------------------
(***************************************************************************)
(* The miniblocks index of Miniblocks composed with the removal of a      *)
(* reverted block (itemRemoveBlock.Save) and the other documents a block  *)
(* leaves: its header in the blocks index, its transactions and its       *)
(* accountsmect documents.                                                 *)
(*                                                                         *)
(* A shard's single consumer runs the removal item of a reverted block   *)
(* after the block's own items and before the items of the next block.   *)
(* Save makes four requests in order (header, miniblocks, transactions,   *)
(* accounts) and returns at the first error; the item is then run again   *)
(* from the start, since the work-queue dispatcher re-submits an item     *)
(* whose Save failed.                                                      *)
(***************************************************************************)
EXTENDS Miniblocks, Sequences

CONSTANTS
    Reverted    \* header hashes of the blocks that are reverted and removed

\* the steps of Save: the request it makes next, or "done"
Steps == <<"header", "mbs", "txs", "accounts", "done">>

VARIABLES
    headers,    \* header hashes in the blocks index
    txIdx,      \* miniblocks whose transaction documents are indexed (a
                \* miniblock carries one transaction of the model)
    accIdx,     \* header hashes whose accountsmect documents are indexed
                \* (RemoveAccountsMECT deletes them by the header timestamp)
    rm          \* h \in Reverted -> index in Steps of Save's next request

allVars == <<vars, headers, txIdx, accIdx, rm>>

-----------------------------------------------------------------------------

WritersOf(h) == {w \in Writers : w.header = h}
ShardOf(h) == (CHOOSE w \in WritersOf(h) : TRUE).shard
BlockOf(h) == (CHOOSE w \in WritersOf(h) : TRUE).block

\* GetMiniblocksHashesHexEncoded: a block removes the miniblocks it carries
\* except the cross-shard ones it received (import-db mode off)
MbHashIncluded(w) == ~(w.sender # w.receiver /\ w.receiver = w.shard)

RemovedMbs(h) == {w.mb : w \in {v \in WritersOf(h) : MbHashIncluded(v)}}

\* fault: the scheduled miniblocks skipped instead of the processed ones
ShouldIgnoreScheduled(w) == w.procType = "Scheduled"

\* PrepareTransactionsForDatabase skips the transactions of a miniblock the
\* block processes after an earlier block proposed (and indexed) them
shouldIgnoreProcessedMBScheduled(w) == w.procType = "Processed"

\* GetHexEncodedHashesForRemove: the transactions of the block's miniblocks,
\* except the normal cross-shard ones at their source (import-db mode off)
isCrossShardAtSourceNormalTx(w) == w.sender # w.receiver /\ w.sender = w.shard

RemovedTxs(h) == {w.mb : w \in {v \in WritersOf(h) : ~isCrossShardAtSourceNormalTx(v)}}

\* the consumer of a shard runs the removal of an earlier reverted block
\* to its end before the next block of the shard
RemovalsBefore(w) ==
    \A v \in Earlier(w) : v.header \in Reverted => rm[v.header] = Len(Steps)

\* a shard's consumer is between items
ShardIdle(s) == \A v \in Writers : v.shard = s => pc[v] = "idle"

InitRemoval ==
    /\ Init
    /\ headers = {}
    /\ txIdx = {}
    /\ accIdx = {}
    /\ rm = [h \in Reverted |-> 1]

\* the shard's consumer starts the next block of the shard (or indexes an
\* earlier one again); a reverted block is indexed once, before its removal
StartBlock(w) ==
    /\ RemovalsBefore(w)
    /\ w.header \in Reverted => w \notin written
    /\ ReadExisting(w)
    /\ UNCHANGED <<headers, txIdx, accIdx, rm>>

\* the block's items: its miniblocks, its header (SerializeBlock), its
\* transactions and accounts
SaveBlock(w) ==
    /\ SaveMiniblock(w)
    /\ headers' = headers \cup {w.header}
    /\ txIdx' = IF shouldIgnoreProcessedMBScheduled(w) THEN txIdx ELSE txIdx \cup {w.mb}
    /\ accIdx' = accIdx \cup {w.header}
    /\ UNCHANGED rm

\* the request of step i of Save succeeds
RemoveStep(h, i) ==
    CASE Steps[i] = "header" -> headers' = headers \ {h}
                                /\ UNCHANGED <<doc, txIdx, accIdx>>
      [] Steps[i] = "mbs"    -> doc' = [m \in Mbs |-> IF m \in RemovedMbs(h)
                                                      THEN NoDoc ELSE doc[m]]
                                /\ UNCHANGED <<headers, txIdx, accIdx>>
      [] Steps[i] = "txs"    -> txIdx' = txIdx \ RemovedTxs(h)
                                /\ UNCHANGED <<doc, headers, accIdx>>
      [] OTHER               -> accIdx' = accIdx \ {h}
                                /\ UNCHANGED <<doc, headers, txIdx>>

\* fault: the removal item runs before the block's own items are written
RemoveBlockStepEarly(h) ==
    /\ rm[h] < Len(Steps)
    /\ ShardIdle(ShardOf(h))
    /\ RemoveStep(h, rm[h])
    /\ rm' = [rm EXCEPT ![h] = @ + 1]
    /\ UNCHANGED <<pc, inDB, written>>

\* Save runs (again) once the block's own items are written and the
\* shard's consumer is free; each successful request moves to the next
RemoveBlockStep(h) ==
    /\ rm[h] < Len(Steps)
    /\ WritersOf(h) \subseteq written
    /\ ShardIdle(ShardOf(h))
    /\ RemoveStep(h, rm[h])
    /\ rm' = [rm EXCEPT ![h] = @ + 1]
    /\ UNCHANGED <<pc, inDB, written>>

\* fault: Save goes on to the next request when one fails
RemoveErrorIgnored(h) ==
    /\ rm[h] \in 2..Len(Steps) - 1
    /\ rm' = [rm EXCEPT ![h] = @ + 1]
    /\ UNCHANGED <<vars, headers, txIdx, accIdx>>

\* a request after the first fails: Save returns the error and the item is
\* run again from its first request
RemoveBlockFails(h) ==
    /\ rm[h] \in 2..Len(Steps) - 1
    /\ rm' = [rm EXCEPT ![h] = 1]
    /\ UNCHANGED <<vars, headers, txIdx, accIdx>>

NextRemoval ==
    \/ \E w \in Writers : StartBlock(w) \/ SaveBlock(w)
    \/ \E h \in Reverted : RemoveBlockStep(h) \/ RemoveBlockFails(h)

SpecRemoval == InitRemoval /\ [][NextRemoval]_allVars

-----------------------------------------------------------------------------
(* Properties.                                                            *)

RemovalTypeOK ==
    /\ TypeOK
    /\ headers \cup accIdx \subseteq Headers \ {""}
    /\ txIdx \subseteq Mbs
    /\ rm \in [Reverted -> 1..Len(Steps)]

\* the blocks of h's shard after the reverted block h
Later(h) == {v \in Writers : v.shard = ShardOf(h) /\ v.block > BlockOf(h)}

\* once the consumer has started a block after a reverted one, nothing of
\* the reverted block is left: not its header or accounts, and none of the
\* miniblocks and transactions its removal deletes unless a later block of
\* the shard wrote them again; a failed request of Save in between must
\* not let the next block start on a half-removed block
RemovedBeforeNextBlock ==
    \A h \in Reverted :
        (\E v \in Later(h) : pc[v] = "read" \/ v \in written) =>
            /\ h \notin headers \cup accIdx
            /\ \A m \in RemovedMbs(h) :
                doc[m] = NoDoc \/ \E v \in Later(h) \cap written : v.mb = m
            /\ \A m \in RemovedTxs(h) :
                m \notin txIdx \/ \E v \in Later(h) \cap written : v.mb = m

\* every block that is not reverted finds its own side of each miniblock
\* it wrote in the document, after the removals of reverted blocks
BothSidesKeptLive ==
    \A w \in written : w.header \notin Reverted =>
        /\ doc[w.mb] # NoDoc
        /\ \A f \in Side(w) : doc[w.mb][f] = prepareMiniblockForDB(w)[f]

\* the transactions of every miniblock a block that is not reverted
\* executed or proposed (any but the processing of a scheduled miniblock)
\* are in the index, after the removals of reverted blocks
LiveTxsKept ==
    \A w \in written :
        w.header \notin Reverted /\ w.procType # "Processed" => w.mb \in txIdx

\* a block is in the index while its header or its accounts are: the first
\* and the last document Save deletes
Ledger == INSTANCE BlockLedger WITH
    Blks <- {[shard |-> w.shard, block |-> w.block, header |-> w.header] : w \in Writers},
    live <- headers \cup accIdx,
    gone <- {h \in Reverted : rm[h] = Len(Steps)}

\* the blocks of every shard enter the index in order, and a reverted block
\* leaves it as a whole before the next block of its shard enters, however
\* the requests of its removal fail and are re-run
ImplementsBlockLedger == Ledger!LedgerSpec
=============================================================================
