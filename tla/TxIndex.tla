------------------------------- MODULE TxIndex -------------------------------
(***************************************************************************)
(* The transactions index and the writers that share it.                  *)
(*                                                                         *)
(* A transaction is written by the indexer of its source shard ("src") and *)
(* for a cross-shard transaction also by the indexer of its destination    *)
(* shard ("dst"). The results (SCRs) a transaction produces are attached   *)
(* to it when they are in the same block (fillTxWithSCRsFields decides the *)
(* status written with it); results that arrive in a later block of a    *)
(* shard where the transaction is not are "orphans" and become standalone *)
(* writes: a status patch (serializeTxHashStatus) or a refund rewrite      *)
(* (SerializeTransactionWithRefund).                                       *)
(*                                                                         *)
(* Each shard indexer processes its blocks in order: it prepares a bulk   *)
(* (reading the store where the code does) and then saves it. The two     *)
(* indexers run as separate processes, and a shard may re-process an      *)
(* indexed block (catch-up, re-indexing).                                 *)
(*   src: block 1 holds every transaction, block 2 the later results       *)
(*   dst: block 1 holds the cross-shard transactions at destination       *)
(***************************************************************************)
EXTENDS Integers, FiniteSets

CONSTANTS
    Txs,        \* transaction hashes (model values)
    TxInfo,     \* t -> [cross : BOOLEAN, nft : BOOLEAN]: cross-shard, and
                \*      data is an (multi) NFT transfer with >= 4 arguments
    Scrs,       \* smart contract results (records, see ScrType)
    NoDoc       \* no document under the id

\* what a result's data and return message carry
ScrData == {"ok", "userError", "nftTransfer", "nftTransferUserError"}

ScrType == [tx : Txs, blocks : SUBSET ({"src", "dst"} \X {1, 2}),
            data : ScrData, cross : BOOLEAN, value : {0, 1},
            firstHop : BOOLEAN, rcv : {"src", "dst"}]

ASSUME /\ \A t \in Txs : TxInfo[t] \in [cross : BOOLEAN, nft : BOOLEAN]
       /\ Scrs \subseteq ScrType

Shards == {"src", "dst"}
LastBlock == [sh \in Shards |-> IF sh = "src" THEN 2 ELSE 1]

\* a transaction document: status, which writer's full body it holds
\* ("none": only the status of a patch upsert), and whether gasUsed/fee
\* were recomputed from a refund
Status == {"pending", "success", "fail"}
TxDoc == [status : Status, body : {"none", "provisional", "final"},
          refunded : BOOLEAN]
\* a full body written by the shard that executed the transaction never
\* holds the provisional status, and a patch-only document is a failure
WellFormedTxDoc(d) ==
    /\ d \in TxDoc
    /\ d.body = "final" => d.status # "pending"
    /\ d.body = "none" => d.status = "fail"

VARIABLES
    doc,        \* transactions index: t -> TxDoc or NoDoc
    progress,   \* sh -> last block the shard indexer has saved
    bulk,       \* sh -> [blk, items] prepared and not yet saved, or NoDoc
    patched,    \* history: transactions whose status patch was executed
    destSaved,  \* history: cross-shard transactions whose destination
                \*          write was executed
    ops,        \* operations index, results part: r -> status or NoDoc
    opsRcvSaved, \* history: results whose operation document the shard
                \*          that executes them (their receiver) wrote
    importDBMode \* sh -> whether the indexer of sh re-indexes a node's
                \*       database (import-db); fixed when it starts

vars == <<doc, progress, bulk, patched, destSaved, ops, opsRcvSaved, importDBMode>>

-----------------------------------------------------------------------------
(* Reconciliation of the results of one block (scrsDataToTransactions.go). *)

TxsIn(sh, b) ==
    IF b # 1 THEN {} ELSE {t \in Txs : sh = "src" \/ TxInfo[t].cross}

ScrsIn(sh, b) == {r \in Scrs : <<sh, b>> \in r.blocks}

\* isScResultSuccessful: the data starts with the success code
isScResultSuccessful(r) == r.data = "ok"

\* the data holds the hex of one of retCodes, or the return message is one
hasSCRWithErrorCode(scrs) ==
    \E r \in scrs : r.data \in {"userError", "nftTransferUserError"}

hasSuccessfulSCRs(scrs) == \E r \in scrs : isScResultSuccessful(r)

hasCrossShardPendingTransfer(scrs) ==
    \E r \in scrs : r.data \in {"nftTransfer", "nftTransferUserError"} /\ r.cross

\* the refund predicate of isSCRWithRefund (the same holds for a result
\* attached to its transaction, isSCRForSenderWithRefund)
isSCRWithRefund(r) == r.value # 0 /\ isScResultSuccessful(r) /\ ~r.firstHop

isMECTNFTTransferWithUserError(r) == r.data = "nftTransferUserError"

\* status the transaction grouper gives a transaction built at shard sh:
\* a cross-shard transaction is pending at its source
\* fault: source and destination shard swapped in the test
GroupedStatusSwapped(t, sh) ==
    IF TxInfo[t].cross /\ sh = "dst" THEN "pending" ELSE "success"

GroupedStatus(t, sh) ==
    IF TxInfo[t].cross /\ sh = "src" THEN "pending" ELSE "success"

\* fault: the error-code branch dropped, status never set to fail
FillIgnoringErrors(status, scrs) == status

\* status after fillTxWithSCRsFields (no relayed or invalid transactions)
fillTxWithSCRsFields(status, scrs) ==
    IF \/ scrs = {}
       \/ hasSuccessfulSCRs(scrs)
       \/ hasCrossShardPendingTransfer(scrs)
       \/ ~hasSCRWithErrorCode(scrs)
    THEN status
    ELSE "fail"

\* prepareTransaction: the document of t with the status the grouper gives
\* it, written by the shard that built it, its gasUsed and fee computed
\* from the gas limit (no refund yet); hashes, addresses, value and the
\* parsed data field are left out
prepareTransaction(t, sh, txStatus) ==
    [status   |-> txStatus,
     body     |-> IF TxInfo[t].cross /\ sh = "src" THEN "provisional" ELSE "final",
     refunded |-> FALSE]

\* the document a shard builds for t, its results of the block attached
\* (attachSCRsToTransactionsAndReturnSCRsWithoutTx, addScResultInfoIntoTx)
BuildTx(t, sh, b) ==
    LET attached == {r \in ScrsIn(sh, b) : r.tx = t}
        tx == prepareTransaction(t, sh, GroupedStatus(t, sh))
    IN [tx EXCEPT !.status = fillTxWithSCRsFields(@, attached),
                  !.refunded = \E r \in attached : isSCRWithRefund(r)]

\* the results of the block whose transaction is not in the block
Orphans(sh, b) == {r \in ScrsIn(sh, b) : r.tx \notin TxsIn(sh, b)}

-----------------------------------------------------------------------------
(* Bulk items of the transactions index (transactions/serialize.go).       *)

isCrossShardOnSourceShard(t, sh) == TxInfo[t].cross /\ sh = "src"

isNFTTransferOrMultiTransfer(t) == ~TxInfo[t].cross /\ TxInfo[t].nft

prepareSerializedDataForATransaction(t, sh, b) ==
    [tx |-> t, body |-> BuildTx(t, sh, b),
     op |-> CASE isCrossShardOnSourceShard(t, sh) -> "upsertReturn"
              [] isNFTTransferOrMultiTransfer(t)   -> "keepStatus"
              [] OTHER                             -> "index"]

\* processSCRsWithoutTx: hash -> "fail" for an NFT transfer user error
TxHashStatus(sh, b) ==
    {r.tx : r \in {o \in Orphans(sh, b) : isMECTNFTTransferWithUserError(o)}}

serializeTxHashStatus(sh, b) ==
    {[tx |-> t, op |-> "patchStatus",
      body |-> [status |-> "fail", body |-> "none", refunded |-> FALSE]]
        : t \in TxHashStatus(sh, b)}

TxHashRefund(sh, b) == {r.tx : r \in {o \in Orphans(sh, b) : isSCRWithRefund(o)}}

\* the caller reads the documents of the refunded hashes from the store and
\* SerializeTransactionWithRefund indexes each, gasUsed and fee recomputed;
\* a document holding only a patched status has no sender, and is skipped
\* by the refundForTx.Receiver != tx.Sender test
SerializeTransactionWithRefund(sh, b, store) ==
    {[tx |-> t, op |-> "index", body |-> [store[t] EXCEPT !.refunded = TRUE]]
        : t \in {x \in TxHashRefund(sh, b) : store[x] # NoDoc /\ store[x].body # "none"}}

SerializeTransactions(sh, b) ==
    {prepareSerializedDataForATransaction(t, sh, b) : t \in TxsIn(sh, b)}
        \cup serializeTxHashStatus(sh, b)

\* one bulk per block; its items write distinct transactions
BlockItems(sh, b, store) ==
    SerializeTransactions(sh, b) \cup SerializeTransactionWithRefund(sh, b, store)

-----------------------------------------------------------------------------
(* The operations index: copies of a block's transactions and results      *)
(* (operationsProcessor). The copies of the transactions go through the    *)
(* serializers of the transactions index and are not repeated here.        *)

\* shouldIndex: in import-db mode only the receiver shard writes a copy
shouldIndex(sh, r) == ~importDBMode[sh] \/ r.rcv = sh

\* fault: the receiver test inverted
OpStatusSwapped(sh, r) == IF sh # r.rcv THEN "success" ELSE "pending"

\* the status ProcessTransactionsAndSCRs gives the copy of a result: success
\* at the shard that executes it, pending elsewhere
OpStatus(sh, r) == IF sh = r.rcv THEN "success" ELSE "pending"

\* the results part of ProcessTransactionsAndSCRs; the CanBeIgnored flag
\* and the type it sets are not told apart by any property
ProcessTransactionsAndSCRs(sh, b) ==
    {[scr |-> r, status |-> OpStatus(sh, r)]
        : r \in {x \in ScrsIn(sh, b) : shouldIndex(sh, x)}}

\* fault: every copy written with a plain index
SerializeSCRsIndexAll(sh, b) ==
    {[scr |-> c.scr, op |-> "index", body |-> c.status]
        : c \in ProcessTransactionsAndSCRs(sh, b)}

\* SerializeSCRs: a copy written at a shard that is not the result's
\* receiver is an upsert with the "return" script, any other a plain index
SerializeSCRs(sh, b) ==
    {[scr |-> c.scr, op |-> IF c.scr.rcv # sh THEN "upsertReturn" ELSE "index",
      body |-> c.status]
        : c \in ProcessTransactionsAndSCRs(sh, b)}

-----------------------------------------------------------------------------
(* Faults of the writes below, used to check the properties detect them.   *)

\* status preservation dropped from the intra-shard NFT transfer upsert
ReplaceKeepingNothing(d, it) == it.body
\* the cross-shard source upsert overwriting an existing document
SourceUpsertOverwrites(d, it) == it.body

-----------------------------------------------------------------------------
(* The store executing one item on the stored document d.                  *)

\* {"script":{"source":"return"},"upsert": tx}
UpsertReturn(d, it) == IF d = NoDoc THEN it.body ELSE d

\* scripted upsert: create stores params.tx, update keeps the stored status
KeepStatusUpsert(d, it) ==
    IF d = NoDoc THEN it.body ELSE [it.body EXCEPT !.status = d.status]

\* update with script status = params.status, upsert {status}
PatchStatus(d, it) ==
    IF d = NoDoc THEN it.body ELSE [d EXCEPT !.status = it.body.status]

ApplyTxItem(d, it) ==
    CASE it.op = "upsertReturn" -> UpsertReturn(d, it)
      [] it.op = "keepStatus"   -> KeepStatusUpsert(d, it)
      [] it.op = "patchStatus"  -> PatchStatus(d, it)
      [] it.op = "index"        -> it.body

-----------------------------------------------------------------------------

TypeOK ==
    /\ \A t \in Txs : doc[t] = NoDoc \/ WellFormedTxDoc(doc[t])
    /\ progress \in [Shards -> 0..2]
    /\ \A sh \in Shards : bulk[sh] = NoDoc \/ bulk[sh].blk \in 1..LastBlock[sh]
    /\ patched \subseteq Txs /\ destSaved \subseteq Txs
    /\ ops \in [Scrs -> {"pending", "success", NoDoc}]
    /\ opsRcvSaved \subseteq Scrs
    /\ importDBMode \in [Shards -> BOOLEAN]

Init ==
    /\ doc = [t \in Txs |-> NoDoc]
    /\ progress = [sh \in Shards |-> 0]
    /\ bulk = [sh \in Shards |-> NoDoc]
    /\ patched = {} /\ destSaved = {}
    /\ ops = [r \in Scrs |-> NoDoc]
    /\ opsRcvSaved = {}
    /\ importDBMode \in [Shards -> BOOLEAN]

\* The shard indexer builds the bulk of block b (its next block, or one it
\* already indexed when it re-processes), reading the store for refunds.
PrepareBlock(sh, b) ==
    /\ bulk[sh] = NoDoc
    /\ b <= progress[sh] + 1 /\ b <= LastBlock[sh]
    /\ bulk' = [bulk EXCEPT ![sh] = [blk |-> b, items |-> BlockItems(sh, b, doc),
                                     ops |-> SerializeSCRs(sh, b)]]
    /\ UNCHANGED <<doc, progress, patched, destSaved, ops, opsRcvSaved, importDBMode>>

\* The store executes one item of the prepared bulk (the items of a bulk
\* are executed one by one, interleaved with the other indexer's writes;
\* the transport retries the bulk until all are executed). The block is
\* saved with its last item.
BulkLeft(sh, items, opItems) ==
    IF items = {} /\ opItems = {}
    THEN /\ progress' = [progress EXCEPT ![sh] = IF bulk[sh].blk > @ THEN bulk[sh].blk ELSE @]
         /\ bulk' = [bulk EXCEPT ![sh] = NoDoc]
    ELSE /\ bulk' = [bulk EXCEPT ![sh].items = items, ![sh].ops = opItems]
         /\ UNCHANGED progress

SaveItem(sh, it) ==
    /\ bulk[sh] # NoDoc
    /\ it \in bulk[sh].items
    /\ doc' = [doc EXCEPT ![it.tx] = ApplyTxItem(@, it)]
    /\ patched' = IF it.op = "patchStatus" THEN patched \cup {it.tx} ELSE patched
    /\ destSaved' = IF sh = "dst" THEN destSaved \cup {it.tx} ELSE destSaved
    /\ BulkLeft(sh, bulk[sh].items \ {it}, bulk[sh].ops)
    /\ UNCHANGED <<ops, opsRcvSaved, importDBMode>>

\* The store executes the operations-index item of a result.
SaveOp(sh, it) ==
    /\ bulk[sh] # NoDoc
    /\ it \in bulk[sh].ops
    /\ ops' = [ops EXCEPT ![it.scr] = IF it.op = "upsertReturn" THEN UpsertReturn(@, it)
                                                                ELSE it.body]
    /\ opsRcvSaved' = IF sh = it.scr.rcv THEN opsRcvSaved \cup {it.scr} ELSE opsRcvSaved
    /\ BulkLeft(sh, bulk[sh].items, bulk[sh].ops \ {it})
    /\ UNCHANGED <<doc, patched, destSaved, importDBMode>>

\* the items of the bulk in flight at sh
InFlight(sh) == IF bulk[sh] = NoDoc THEN {} ELSE bulk[sh].items
OpsInFlight(sh) == IF bulk[sh] = NoDoc THEN {} ELSE bulk[sh].ops

Next ==
    \/ \E sh \in Shards, b \in 1..2 : PrepareBlock(sh, b)
    \/ \E sh \in Shards : \E it \in InFlight(sh) : SaveItem(sh, it)
    \/ \E sh \in Shards : \E it \in OpsInFlight(sh) : SaveOp(sh, it)

\* Each indexer drains its FIFO job queue: a re-processing job does not
\* keep its next block from being taken forever (strong fairness, as the
\* next block is disabled while another bulk is in flight), and a prepared
\* bulk is saved. Re-processing itself is not assumed to happen.
NextBlock(sh) == PrepareBlock(sh, progress[sh] + 1)
SaveBulk(sh) == \/ \E it \in InFlight(sh) : SaveItem(sh, it)
                \/ \E it \in OpsInFlight(sh) : SaveOp(sh, it)

Fairness == \A sh \in Shards : SF_vars(NextBlock(sh)) /\ WF_vars(SaveBulk(sh))

Spec == Init /\ [][Next]_vars /\ Fairness

-----------------------------------------------------------------------------
(* Properties.                                                             *)

\* status the results of t make final: a user error in an NFT transfer
\* result fails the transaction
FinalStatus(t) ==
    IF \E r \in Scrs : r.tx = t /\ r.data \in {"userError", "nftTransferUserError"}
    THEN "fail" ELSE "success"

\* Once the status patch of an orphan result (serializeTxHashStatus) has
\* been executed, the transaction stays failed, whichever writer of the
\* document comes after it and however often a block is re-processed.
PatchedStatusKept ==
    \A t \in patched : doc[t] # NoDoc /\ doc[t].status = "fail"

\* Once the destination shard has written a cross-shard transaction, no
\* later write brings back the provisional document of the source shard
\* (the "return" upsert of prepareSerializedDataForATransaction).
DestWriteNotReverted ==
    \A t \in destSaved : doc[t].body = "final" /\ doc[t].status # "pending"

\* Once the shard that executes a result has written its operation copy
\* (success), the copy written by the shard that produced it (pending) never
\* replaces it, however the two indexers' bulks interleave and however
\* often a block is re-processed (SerializeSCRs' "return" upsert).
ScrOperationSettled == \A r \in opsRcvSaved : ops[r] = "success"

\* Every transaction document eventually holds the full body with the
\* status its results decide, and keeps it; every result's operation copy
\* eventually shows it executed.
TxsSettle ==
    <>[](/\ \A t \in Txs : doc[t] # NoDoc /\ doc[t].body = "final"
                                        /\ doc[t].status = FinalStatus(t)
         /\ \A r \in Scrs : ops[r] = "success")

=============================================================================
