# TLA+ models of the elastic indexer

These models cover the parts of `me-elastic-indexer` whose correctness depends
on the order in which writes reach Elasticsearch. Several shard indexers write
the same indices. A block may be indexed again (catch-up, re-indexing, a
transport retry). The store may execute the bulk requests of different blocks
in any order relative to the other writers, while the items of one bulk that
address one document run in their order. The
code makes the result converge with server-side painless scripts. The models
check whether those scripts really converge.

## The system

The indexer is called once per block. The main flows are:

1. **Event dispatch** (`process/logsevents`). Each log event goes through a
   chain of processors: fungible, nfts, scDeploys, informative, updateNFT and
   mectProperties, plus mectIssue and delegators on the metachain. The chain
   marks altered accounts, token supplies, roles and NFT updates.
2. **Transaction/result reconciliation** (`process/transactions`).
   - Transactions and smart-contract results (SCRs) are grouped per block.
   - Results are attached to their transaction in the same block.
   - `fillTxWithSCRsFields` infers the status.
   - Results whose transaction is not in the block ("orphans") become
     standalone writes: a status patch, or a refund rewrite.
3. **Accounts** (`process/accounts`).
   - Every altered address is loaded from the trie.
   - An `AccountInfo` is built, stamped with the block timestamp.
   - It is written to `accounts` (plain balance) or `accountsmect` (token
     balance), and NFT/SFT balances also go to `collections`.
4. **Serialization.** Every document write is a bulk item with one of four
   strategies:
   - a plain index;
   - a timestamp-guarded scripted upsert or delete (accounts);
   - a "return" upsert (a cross-shard transaction at its source);
   - a structural merge (collections) or a status patch (transactions).

The operations index shares the transactions' bulk and the results' two
writers, and is modelled inside `TxIndex`.
The other parts do not interact through shared state with these flows:
miniblocks, blocks, validators, templates, factories, logging and
the offline tools.

### Inventory: state, operations, hard behaviours

| Part | State it writes | Operations | Hard behaviour |
|---|---|---|---|
| accounts (`accountsProcessor.go`, `accounts/serialize.go`) | `accounts`, `accountsmect` documents | PrepareRegularAccountsMap, PrepareAccountsMapMECT, SerializeAccounts, SerializeAccountsMECT, upsert/delete scripts | out-of-order and repeated blocks; zero balances become deletes |
| collections (`collections/serialize.go`) | `collections` documents (token → nonce → balance) | ExtractAndSerializeCollectionsData, merge script | order of writes to one slot |
| transactions (`transactions/serialize.go`) | `transactions` documents | SerializeTransactions, serializeTxHashStatus, SerializeTransactionWithRefund | source and destination shard both write; patches; refunds read then write |
| reconciliation (`scrsDataToTransactions.go`, `transactionsProcessor.go`) | per-block transaction records | attach, fillTxWithSCRsFields, processSCRsWithoutTx | a status that is decided only by a later block |
| event dispatch (`logsAndEventsProcessor.go` and processors) | per-block altered accounts, tokens, roles | processEvent chain | stop/continue rule; unchecked topic lengths |
| NFT updates (`converters/tokenMetaData.go`) | `tokens`, `accountsmect` data | PrepareNFTUpdateData scripts | no timestamp guard; an empty upsert |
| miniblocks (`process/miniblocks`) | `miniblocks` documents (sender and receiver side) | PrepareDBMiniblocks, SerializeBulkMiniBlocks | existence read before a full index; two shards write one document |
| operations (`operations/operationsProcessor.go`) | `operations` copies of transactions and results | ProcessTransactionsAndSCRs, SerializeSCRs | the producing and the executing shard write one result copy with different statuses |
| block removal (`workItems/workItemRemoveBlock.go`) | deletes in several indices | Save: four steps | failure between the steps |

## Modules

### `AccountsIndex` (with `MCAccountsIndex`)

- **State.**
  - `chain[b]` is the balance of every address and token key after block `b`.
    It is chosen in `Init` over every combination of `Balances`.
  - `indexed` is the set of blocks the indexer has serialized.
  - `accounts`, `mect` and `coll` are the three indices.
  - `newest` is history: for each document or collection slot, the newest
    block whose item the store has executed.
- **Bulk items.**
  - `PrepareRegularAccountsMap` and `PrepareAccountsMapMECT` build the
    `AccountInfo` records.
  - `prepareSerializedAccount` chooses between `prepareSerializedAccountInfo`
    (upsert) and `prepareDeleteAccountInfo` (delete at zero token balance).
  - `ExtractAndSerializeCollectionsData` applies the same ignore rule as the
    code.
- **Scripts.**
  - `UpsertIfNotOlder` is the painless script of `prepareSerializedAccountInfo`.
  - `DeleteIfNotOlder` is the script of `prepareDeleteAccountInfo`. A create
    is a noop.
  - `CollectionMerge` is the collections script. Removing the last slot
    deletes the document.
  - A document written at timestamp 0 has no timestamp field (omitempty).
    Its `ts` is `NoTs`, and both scripts overwrite or delete it. An upsert
    at timestamp 0 has no timestamp parameter. Against a stored timestamp
    its comparison fails, and the document stays. The delete prints its
    timestamp with `%d`, so 0 compares as a number.
- **Actions.**
  - `IndexBlock(b)` serializes a block.
  - `Deliver(item)` executes any serialized item, at any time and any number
    of times.

### `TxIndex` (with `MCTxIndex`)

- **Layout.** There are two shard indexers. `src` has block 1 with every
  transaction and block 2 with later results. `dst` has block 1 with the
  cross-shard transactions at destination.
- **Results.** A result is abstracted to:
  - the kind of its data (`ok`, `userError`, `nftTransfer`,
    `nftTransferUserError`);
  - whether it crosses shards;
  - its value;
  - whether it is the first hop;
  - the blocks it is in;
  - its receiver, the shard that executes it.
- **Reconciliation operators.** `hasSCRWithErrorCode`, `hasSuccessfulSCRs`,
  `hasCrossShardPendingTransfer`, `isSCRWithRefund`,
  `isMECTNFTTransferWithUserError` and `fillTxWithSCRsFields` follow
  `scrsDataToTransactions.go` step by step. `BuildTx` starts from
  `prepareTransaction` (`transactionDBBuilder.go`). That is the document
  with the status the grouper gave it, written by the shard that built it,
  with the gas-limit fee and no refund. `BuildTx` then attaches the block's
  results. `Orphans` are the rest.
- **Document.** A transaction document holds:
  - its status;
  - whose body it holds (`provisional` from the source, `final`, or `none`
    for a patch-only upsert);
  - whether it was refunded.
- **Store semantics.** `UpsertReturn`, `KeepStatusUpsert`, `PatchStatus` and
  plain index are the store's semantics of the four bulk bodies.
- **Actions.**
  - `PrepareBlock(sh, b)` builds the bulk of the next block or of a block
    being re-processed. It reads the store for the refund rewrite, as its
    caller does.
  - `SaveItem(sh, it)` executes one item. The items of a bulk interleave with
    the other indexer's writes.
  - `SaveOp(sh, it)` executes one item of the operations index. The block is
    saved once both parts of its bulk are executed.
- **Operations index.** `ops` holds the copies of the results in the
  operations index. `ProcessTransactionsAndSCRs`
  (`operationsProcessor.go`) gives a copy the status `success` at its
  receiver and `pending` elsewhere. `shouldIndex` writes a copy only at its
  receiver in import-db mode. Whether a shard's indexer runs in import-db
  mode is fixed when it starts (`operationsProcessor.importDBMode`), so
  `importDBMode` is a variable chosen in `Init` and never changed: every run
  covers both modes at each shard. `SerializeSCRs` writes a copy from a shard
  that is not the receiver with the `return` upsert, and any other copy with
  a plain index. The file holding `SerializeSCRs` is not under `src/`, so
  that operator is modelled from the spec and the operations serialize
  test. The copies of transactions go through the transactions serializers
  and are not repeated.
- **History.** `patched`, `destSaved` and `opsRcvSaved` record the patch,
  destination and receiver-copy writes that have executed.

### `EventDispatch` (with `MCEventDispatch`)

- **State.**
  - `ev` is the event being dispatched.
  - `pc` is the index of the next processor in `Chain` (the order of
    `createEventsProcessors`).
  - `status` is `running`, `done` or `panic`.
  - `calls` is the sequence of processor calls made for the event.
  - `hasOps` records whether the log's transaction or result got
    `HasOperations`.
- **Event abstraction.** An event is its identifier, its topic count,
  whether the nonce in `topics[1]` is zero, whether the sender and the
  receiver in `topics[3]` are in the indexer's shard, whether the log hash is a
  transaction or a result of the block, whether role topics are role names,
  and whether the token topic is empty.
- **Processors.** One operator per processor's `processEvent` returns
  `processed`, whether the identifier is non-empty, and the kind of record it
  adds. Reading a topic the event does not have is a `Panic`.
- **Actions.**
  - `CallProcessor` is one iteration of the loop of `processEvent`, with its
    checks in code order: stop on an empty identifier, flag the transaction and
    continue, flag the result and stop, or stop on processed.
  - `NextEvent` starts the next event.
- **Bounds.** One identifier of each shape the processors tell apart (14
  identifiers), 0 to 5 topics, and every combination of the flags: 8,064
  events, on the metachain chain of eight processors.

### `NFTUpdates` (with `MCNFTUpdates`)

- **Document.** The accountsmect document of one address holding one NFT:
  timestamp, balance, attributes and the URI list of its data. `Ghost` is the
  empty `{}` document an update's upsert inserts.
- **Chain.** `chain[b]` is chosen in `Init`. It holds the balance after block
  `b`, whether the address is altered in `b`, and its
  `MECTNFTUpdateAttributes`/`MECTNFTAddURI` event in `b`. `TrieAttrs` and
  `TrieURIs` are the metadata `getMECTInfo` loads.
- **Items.** `SerializeAccountsMECT` gives the block's bulk: the account
  item (`AccountItem`: a guarded upsert or delete), then the update item
  (`PrepareNFTUpdateData`).
  The store runs `UpsertAccount`, `DeleteAccount` and `UpdateNFTData`, with
  `MergeURIs` the URI script.
- **Actions.**
  - `IndexBlock(b)` sends the bulk of block `b` once the previous request
    has returned. `b` is the next block, or one indexed before (a retry or
    a re-indexing). The indexer moves on only after a bulk succeeded.
  - `Deliver` executes the next item of the bulk. The store runs the items
    of one bulk in order: they all address one document, hence one shard.
  - `BulkFails` ends the request with an error before its remaining items
    run. The indexer then sends the block again.
- **Bounds.** Three blocks, two attribute values and two URIs.

### `Miniblocks` (with `MCMiniblocks`)

- **Writers.** A writer is one block of one shard that carries a miniblock.
  `prepareMiniblockForDB` and `SetFieldsFromMe` give its view of the miniblock:
  sender/receiver block hash and processing types.
- **Actions.**
  - `ReadExisting(w)` is the existence read made before the bulk.
  - `SaveMiniblock(w)` writes the item `prepareMiniblockData` chooses: a full
    index if the document was missing, else an update of the writer's own side.
  - A shard's blocks are read and written one at a time and in order (its
    single consumer). Different shards interleave.
- **Scenario.** `MCCross` has a cross-shard miniblock written by its sender
  and its receiver shard. The serial case runs inside `BlockRemoval`.

### `BlockRemoval` (with `MCBlockRemoval`)

`BlockRemoval` extends `Miniblocks`. It adds the other documents of a block
and the removal of a reverted block (`itemRemoveBlock.Save`).

- **State.**
  - `headers` and `accIdx`: the blocks whose header and accountsmect
    documents are indexed.
  - `txIdx`: the miniblocks whose transaction documents are indexed. A
    miniblock carries one transaction in the model.
  - `rm[h]`: the request `Save` makes next for reverted block `h`.
- **Actions.**
  - `StartBlock(w)` is `ReadExisting`, after any earlier reverted block of
    the shard is fully removed. The shard's FIFO consumer runs the removal
    item between the reverted block and the next one.
  - `SaveBlock(w)` is `SaveMiniblock` plus the block's header, transactions
    and accounts. `PrepareTransactionsForDatabase` skips the transactions of a
    processed scheduled miniblock (`shouldIgnoreProcessedMBScheduled`): the
    block that proposed it already indexed them.
  - `RemoveBlockStep(h)` makes one request of `Save` in its order: header,
    miniblocks (the hashes `GetMiniblocksHashesHexEncoded` lists, which skips
    cross-shard miniblocks the block received; with import-db mode on it also
    skips those the block sent, a branch the model leaves out because an
    import re-processes a node's final blocks, which are never reverted),
    transactions (the hashes
    `GetHexEncodedHashesForRemove` lists, which skips normal cross-shard
    miniblocks at their source), accounts.
  - `RemoveBlockFails(h)` is a request after the first returning an error.
    `Save` returns it, and the dispatcher runs the item again from the first
    request. A failure of the first request changes nothing.
- **Refinement.** `BlockLedger` is the abstract promise. Each shard's blocks
  enter the index in order, and a reverted block leaves it in one step before
  the next block of its shard enters. `BlockRemoval` instantiates it with
  `live <- headers \cup accIdx` (a block is in the index while the first or
  the last document `Save` deletes is there) and `gone <-` the reverted
  blocks whose `Save` has completed. The run checks `ImplementsBlockLedger`
  as a `PROPERTY`.
- **Scenarios.**
  - `MCRevertProposal`: shard 0 reverts block 1, which proposed a scheduled
    miniblock and carried a normal one. Block 2 carries both again, and
    block 3 processes the scheduled one. Shard 1 meanwhile proposes and
    processes its own scheduled miniblock.
  - `MCRevertProcessing`: block 2, which processed the miniblock block 1
    proposed, is reverted and replaced by block 3.

## Runs

| Run | Config | Expect | What it shows |
|---|---|---|---|
| accounts_order | `MCAccountsIndex.cfg` | pass | Account documents always show the newest executed block, also when the first block has timestamp 0 and its documents carry none. A non-zero newest token balance is never lost. Every item is idempotent on every reachable store. |
| mect_zero_resurrected | `MCAccountsIndexMectOrder.cfg` | violation | Delete (block 3, balance 0) executed before the document exists is a noop. The upsert of block 2 then creates the document with the old balance. |
| collection_order | `MCAccountsIndexCollOrder.cfg` | violation | Block 3 sets a collection slot, then block 1's zero removes it. |
| tx_writers | `MCTxIndex.cfg` | pass | Cross-shard success, intra-shard NFT transfer failed in a later block, intra-shard call failed in its block, and a cross-shard value transfer all converge. A patch is never undone, and the source never reverts the destination. tc's callback result is copied into the operations index by both shards, and the receiver's `success` is never replaced (`ScrOperationSettled`), with each shard's indexer in or out of import-db mode. |
| tx_patch_lost | `MCTxIndexNFT.cfg` | violation | The destination's plain index after the source's fail patch leaves `success`. |
| tx_refund_stale | `MCTxIndexRefund.cfg` | violation | The refund rewrite of a document read before the destination write restores the pending provisional document. |
| dispatch_routing | `MCEventDispatch.cfg` | pass | At most one processor processes any event. A shared fungible/NFT identifier is processed by exactly the processor its nonce picks. An event that some processor of the chain would extract data from (a non-empty identifier) is never ended early by a processor that skips it or does not know it (`EventNotSwallowed`). |
| nft_uris | `MCNFTUpdates.cfg` | pass | However account upserts and URI items interleave or repeat, no URI is listed twice. |
| nft_ghost | `MCNFTUpdatesGhost.cfg` | violation | When the holder updates an NFT and sends it away in one block, the bulk's delete runs first and the update item then inserts the empty upsert document. |
| miniblocks_cross_race | `MCMiniblocksCross.cfg` | violation | Sender and receiver shard both read "missing" and both index the whole miniblock. The later write erases the other side. |
| blocks_removal | `MCBlockRemoval.cfg` | pass | A block is reverted while two shards index, and any request of the removal may fail and be re-run. The next block never starts on a half-removed block (`RemovedBeforeNextBlock`). Every live block keeps its side of each miniblock (`BothSidesKeptLive`) and its transactions (`LiveTxsKept`). The whole implements `BlockLedger` (`ImplementsBlockLedger`). |
| removal_erases_proposal | `MCBlockRemovalErase.cfg` | violation | Removing the block that processed a scheduled miniblock deletes the transactions and the miniblock document that the proposing block indexed. |

Every property of a passing run has a mutant in `PROJECT.json`: a plausible
fault of the mapped definition under which TLC finds the property violated.
Examples are a dropped guard, a reversed comparison, a dropped noop, a dropped
status preservation, a dropped nonce test, an off-by-one loop bound, or a
swapped pair of return values.

## Bounds

- **Accounts.** One address, two token keys (a fungible balance with nonce 0
  and an NFT with nonce 1), three blocks at timestamps 0, 1 and 2, and
  balances {0, 1}. Three blocks are the fewest where an item can be
  overtaken by both an older and a newer one. Timestamp 0 puts a document
  without a timestamp field among them. Balances {0, 1} cover the zero-to-delete conversion. Since every chain
  of balances is an initial state, every pattern of changes and zeroings over
  three blocks is explored. Documents of different addresses are
  independent: no script reads another document.
- **Transactions.** Four transactions of the four shapes the code tells
  apart, two indexers, and the blocks each shape needs. Items are executed one
  at a time, so every interleaving of the two indexers' writes and of a
  re-processed block is explored.

## Fairness

- **Accounts, NFT updates, miniblocks, block removal, dispatch.** Only safety
  is checked, so these specifications carry no fairness. `Save` may fail
  forever, since nothing in the code bounds the transport's failures.
- **Indexer progress.** In `TxIndex` each indexer drains a FIFO job queue
  (spec §5). The next block has strong fairness, because it is disabled while
  another bulk (possibly a re-processing) is in flight. Saving the prepared
  bulk has weak fairness.
- **Re-processing.** It may happen any number of times, but is never
  required.

## Findings

1. **Zero token balances leave no tombstone.** `prepareDeleteAccountInfo` is a
   noop on a missing document, so a later-executed older write resurrects a
   balance that the chain zeroed.
2. **The collections merge is order-dependent.** It has no timestamp guard,
   so it does not commute for writes to the same slot.
3. **The fail patch can be lost.** A cross-shard NFT transfer that failed at
   destination gets the `fail` status only from the source shard's patch. The
   destination shard's plain index erases the patch if it executes later.
4. **The refund rewrite is a stale read-modify-write.** It re-indexes a whole
   document read earlier, which can revert the destination's final document.
5. **Short events crash the indexer.** `fungibleMECTProcessor` reads
   `topics[1]` before its length check, and `nftsProcessor` reads `topics[1]`
   and `topics[2]` unchecked. Spec §7 says such a record is skipped.
   `MCEventDispatchPanic.cfg` shows it (`NoPanic`). This configuration is
   not among the runs: the chain's own events always carry the topics these
   processors read, and the violation runs are kept for the findings about
   the order in which the store executes writes.
6. **NFT updates create empty documents.** The update items carry
   `"upsert": {}` without `scripted_upsert`. The model keeps the bulk order
   of `SerializeAccountsMECT` (account items first), and TLC's trace is a
   block in which the holder updates the NFT and sends it away: the delete
   item removes the document, and the update item then inserts `{}`.
7. **Cross-shard miniblocks race.** The existence read is stale when the full
   index executes, so the sender's or the receiver's block hash is lost.
8. **Removing a reverted block erases a valid block's data.** Suppose the
   reverted block processed a scheduled miniblock that an earlier, valid block
   proposed. `GetHexEncodedHashesForRemove` lists the miniblock's
   transactions, and `GetMiniblocksHashesHexEncoded` lists the miniblock, so
   the removal deletes the transaction documents and the miniblock document
   that the proposing block wrote. The replacement block skips the
   transactions of a processed scheduled miniblock, so they are gone for
   good. Its miniblock document has no sender side.

Observed while modelling, without a run of their own:
- `processEvent` continues past a processor that processed a known
  transaction's event, where spec §4.1 says the chain stops. It is harmless
  while `AtMostOneProcessorActs` holds.
- The attributes script of `PrepareNFTUpdateData` has no timestamp guard, the
  same order dependence as finding 2.
- A relayed transaction's status depends on block boundaries.
  `fillTxWithSCRsFields` (`scrsDataToTransactions.go:96`) leaves a relayed
  transaction's status alone, so an NFT-transfer user error in the same
  block keeps it `success`. The same result in a later block is an orphan.
  `processSCRsWithoutTx` then patches the transaction to `fail`, whether it
  is relayed or not. `TxIndex` has no relayed transactions; modelling
  them would only add a violation run for this boundary dependence.
- The URIs script of `PrepareNFTUpdateData` (`tokenMetaData.go:145`) sets
  `ctx.nonEmptyURIs = true`. That is a key of the script context, not the
  document's `data.nonEmptyURIs`, so the update keeps only `ctx._source`
  and drops it. A document whose NFT was created without URIs keeps
  `nonEmptyURIs: false` after a URI is added, until an account upsert of a
  later block carries the trie's URIs. `NFTUpdates` does not model the
  flag: the wrong assignment is plain in the script text.

## Not modelled yet, and further work

Most important first:

1. **Reconciliation in full.** Relayed transactions, invalid transactions
   (status frozen), and gas/fee: `HadRefund` implies gasUsed comes from the
   refund.
2. **Block removal of transactions.** `GetHexEncodedHashesForRemove` keeps
   cross-shard transactions at source. It needs `TxIndex` composed with
   `BlockRemoval`.
3. **Balances after a revert.** `itemRemoveBlock.Save` deletes the
   accountsmect documents written at the reverted block's timestamp and
   leaves its accounts documents, so after a revert a held token balance can
   have no document and a plain balance can show the reverted value until
   the address is altered again. Checking it needs `AccountsIndex` composed
   with `BlockRemoval`; the delete by timestamp is in `elasticProcessor`,
   which is not under `src/`.
4. **Altered-account loading.** `GetAccounts`/`splitAlteredAccounts`. The altered-account lists come from the
   transactions grouper, which is not under `src/`. So the inputs, and
   whether `BalanceChange` is ever set, must be modelled from the spec.

The following are not modelled because they hold no state a model checker
could explore: balance-to-float conversion, document field layout, templates,
factories, logging, and the offline tools. The index-modifier tool
re-indexes transaction documents it read earlier, with no timestamp guard.
It could overwrite a concurrent write of the indexer, but its scroll and
bulk driver is not under `src/`. `prepareRewardTransaction` and
`prepareReceipt` have no caller under `src/`.
