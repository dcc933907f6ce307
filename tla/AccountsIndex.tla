---------------------------- MODULE AccountsIndex ----------------------------
(***************************************************************************)
(* The balance documents of the indexer and the server-side scripts that   *)
(* write them (src/process/accounts/serialize.go,                          *)
(* src/process/collections/serialize.go, and the AccountInfo records built *)
(* by src/process/accounts/accountsProcessor.go).                          *)
(*                                                                         *)
(* One shard indexer serializes blocks; each block's bulk request may be   *)
(* sent again (retry, catch-up, re-indexing) and the store may apply the   *)
(* requests of different blocks in any order and any number of times.     *)
(* The store is the three indices the code writes:                         *)
(*   accounts      id = address                  (plain accounts)          *)
(*   accountsmect  id = address-token-nonce      (token balances)          *)
(*   collections   id = address, body token -> nonce -> balance            *)
(***************************************************************************)
EXTENDS Integers, FiniteSets

CONSTANTS
    Addresses,      \* account addresses (model values)
    MECTKeys,       \* token balances: records [addr, token, nonce]
    TokenType,      \* token -> its type, as stored in the type field
    Blocks,         \* block timestamps, the order the chain produced them
                    \* (0 is the timestamp a genesis block can carry)
    Balances,       \* balances an account can have, 0 included
    NoDoc           \* the value of a document id that holds no document

NonFungibleMECT  == "NonFungibleMECT"
SemiFungibleMECT == "SemiFungibleMECT"
FungibleMECT     == "FungibleMECT"

ASSUME /\ Blocks \subseteq Nat /\ 0 \in Balances
       /\ \A k \in MECTKeys : k.addr \in Addresses

VARIABLES
    chain,      \* chain[b]: the balances the trie holds after block b
    indexed,    \* blocks serialized so far (their items can be re-delivered)
    accounts,   \* accounts index: address -> document or NoDoc
    mect,       \* accountsmect index: MECT key -> document or NoDoc
    coll,       \* collections index: address -> [token, nonce] -> balance
    newest      \* history: per document (slot), newest block whose item
                \* the store has executed, NoBlock if none

vars == <<chain, indexed, accounts, mect, coll, newest>>

CollSlots == {[token |-> k.token, nonce |-> k.nonce] : k \in MECTKeys}
\* a nested collection key that is not in the document
NoKey == -1

\* no block executed yet
NoBlock == -1
\* the timestamp field is omitted from a document whose timestamp is 0
\* (AccountInfo.Timestamp is omitempty); an integer no block has, so that
\* it compares with timestamps
NoTs == -2
StoredTs(t) == IF t = 0 THEN NoTs ELSE t

\* a balance document: the block timestamp it was written at, and the
\* balance; a token balance document never holds a zero balance (a zero
\* is written as a delete)
Doc == [ts : {StoredTs(b) : b \in Blocks}, balance : Balances]
MECTDoc == [ts : {StoredTs(b) : b \in Blocks}, balance : Balances \ {0}]
ChainState == [Addresses \cup MECTKeys -> Balances]

-----------------------------------------------------------------------------
(* AccountInfo records, as PrepareRegularAccountsMap and                   *)
(* PrepareAccountsMapMECT build them from the loaded account.               *)

PrepareRegularAccountsMap(b) ==
    {[id |-> a, ts |-> b, balance |-> chain[b][a]] : a \in Addresses}

\* the type is only filled for fungible balances (nonce 0); the type of an
\* NFT/SFT balance comes from the token document
AccountTypeOf(k) == IF k.nonce = 0 THEN FungibleMECT ELSE TokenType[k.token]

PrepareAccountsMapMECT(b) ==
    {[id |-> k, ts |-> b, balance |-> chain[b][k], type |-> AccountTypeOf(k)]
        : k \in MECTKeys}

-----------------------------------------------------------------------------
(* Bulk items. An item is the index, the document id, which script it      *)
(* runs and its parameters.                                                *)

NoSlot == [token |-> NoDoc, nonce |-> NoKey]

prepareSerializedAccountInfo(acc, index) ==
    [index |-> index, id |-> acc.id, script |-> "upsertIfNotOlder",
     slot |-> NoSlot, ts |-> acc.ts, balance |-> acc.balance]

prepareDeleteAccountInfo(acc, index) ==
    [index |-> index, id |-> acc.id, script |-> "deleteIfNotOlder",
     slot |-> NoSlot, ts |-> acc.ts, balance |-> 0]

prepareSerializedAccount(acc, isMECT, index) ==
    IF acc.balance = 0 /\ isMECT
    THEN prepareDeleteAccountInfo(acc, index)
    ELSE prepareSerializedAccountInfo(acc, index)

SerializeAccounts(b) ==
    {prepareSerializedAccount(acc, FALSE, "accounts") : acc \in PrepareRegularAccountsMap(b)}

SerializeAccountsMECT(b) ==
    {prepareSerializedAccount(acc, TRUE, "accountsmect") : acc \in PrepareAccountsMapMECT(b)}

\* the item's ts is not part of the script parameters: the collection
\* script has no timestamp guard
CollectionIgnored(acc) ==
    /\ acc.type \notin {NonFungibleMECT, SemiFungibleMECT}
    /\ acc.balance # 0 \/ acc.id.nonce = 0

ExtractAndSerializeCollectionsData(b) ==
    {[index |-> "collections", id |-> acc.id.addr, script |-> "collectionMerge",
      slot |-> [token |-> acc.id.token, nonce |-> acc.id.nonce],
      ts |-> acc.ts, balance |-> acc.balance]
        : acc \in {x \in PrepareAccountsMapMECT(b) : ~CollectionIgnored(x)}}

BlockBulk(b) ==
    SerializeAccounts(b) \cup SerializeAccountsMECT(b) \cup ExtractAndSerializeCollectionsData(b)

-----------------------------------------------------------------------------
(* Faults of the scripts below that a reviewer could plausibly introduce;  *)
(* each property of the runs is checked to be violated by one of them.     *)

\* a stored document without timestamp kept, as if it were the newest
UpsertUntimedKept(doc, item) ==
    IF doc = NoDoc \/ (doc.ts # NoTs /\ item.ts # 0 /\ doc.ts <= item.ts)
    THEN [ts |-> StoredTs(item.ts), balance |-> item.balance]
    ELSE doc
\* timestamp guard dropped from the delete
DeleteAlways(doc, item) == NoDoc
\* 'create' -> 'noop' dropped from the delete: the empty upsert body {} is
\* stored as a document without timestamp (ts 0)
DeleteCreatesEmpty(doc, item) ==
    IF doc = NoDoc THEN [ts |-> NoTs, balance |-> 0]
    ELSE IF doc.ts # NoTs /\ doc.ts > item.ts THEN doc ELSE NoDoc

-----------------------------------------------------------------------------
(* The scripts, as the store runs them on the stored document `doc`.       *)
(* A scripted upsert on a missing id runs with ctx.op = 'create'.          *)

\* if create: source = params.account; else replace when the stored
\* document has no timestamp or ctx._source.timestamp <=
\* params.account.timestamp. An account of timestamp 0 has no timestamp
\* in params.account: comparing a stored one with it fails the item, and
\* the document stays.
UpsertIfNotOlder(doc, item) ==
    IF \/ doc = NoDoc
       \/ doc.ts = NoTs
       \/ item.ts # 0 /\ doc.ts <= item.ts
    THEN [ts |-> StoredTs(item.ts), balance |-> item.balance]
    ELSE doc

\* if create: noop; else delete when the stored document has no timestamp
\* or ctx._source.timestamp <= params.timestamp (printed with %d, so 0 is
\* a number here)
DeleteIfNotOlder(doc, item) ==
    IF doc = NoDoc \/ (doc.ts # NoTs /\ doc.ts > item.ts) THEN doc ELSE NoDoc

RunAccountScript(doc, item) ==
    IF item.script = "upsertIfNotOlder"
    THEN UpsertIfNotOlder(doc, item)
    ELSE DeleteIfNotOlder(doc, item)

\* the collection document is the map slot -> balance; the document exists
\* while one slot is present, and is deleted when the last one is removed
EmptyCollection == [s \in CollSlots |-> NoKey]

\* fault: the '0' != value test dropped, a zero is stored in the slot
CollectionMergeSetAlways(doc, item) == [doc EXCEPT ![item.slot] = item.balance]

CollectionMerge(doc, item) ==
    IF item.balance # 0
    THEN [doc EXCEPT ![item.slot] = item.balance]
    ELSE [doc EXCEPT ![item.slot] = NoKey]

\* the store <<accounts, mect, coll>> after executing one bulk item
ApplyItem(st, item) ==
    CASE item.index = "accounts" ->
            <<[st[1] EXCEPT ![item.id] = RunAccountScript(@, item)], st[2], st[3]>>
      [] item.index = "accountsmect" ->
            <<st[1], [st[2] EXCEPT ![item.id] = RunAccountScript(@, item)], st[3]>>
      [] item.index = "collections" ->
            <<st[1], st[2], [st[3] EXCEPT ![item.id] = CollectionMerge(@, item)]>>

-----------------------------------------------------------------------------

\* the bulk items the indexer has serialized so far
sent == UNION {BlockBulk(b) : b \in indexed}

\* the document, or collection slot, an item writes
ItemAddr == ({"accounts"} \X Addresses \X {NoSlot})
            \cup ({"accountsmect"} \X MECTKeys \X {NoSlot})
            \cup ({"collections"} \X Addresses \X CollSlots)

ItemAddrOf(item) == <<item.index, item.id, item.slot>>

TypeOK ==
    /\ chain \in [Blocks -> ChainState]
    /\ indexed \subseteq Blocks
    /\ accounts \in [Addresses -> Doc \cup {NoDoc}]
    /\ mect \in [MECTKeys -> MECTDoc \cup {NoDoc}]
    /\ coll \in [Addresses -> [CollSlots -> (Balances \ {0}) \cup {NoKey}]]
    /\ newest \in [ItemAddr -> {NoBlock} \cup Blocks]

Init ==
    /\ chain \in [Blocks -> ChainState]
    /\ indexed = {}
    /\ accounts = [a \in Addresses |-> NoDoc]
    /\ mect = [k \in MECTKeys |-> NoDoc]
    /\ coll = [a \in Addresses |-> EmptyCollection]
    /\ newest = [ia \in ItemAddr |-> NoBlock]

\* The indexer serializes block b (accounts, accounts-MECT and collections
\* in one bulk). Indexing b again yields the same items, so a re-indexing or
\* a retry is a second Deliver of an item already in sent.
IndexBlock(b) ==
    /\ b \notin indexed
    /\ indexed' = indexed \cup {b}
    /\ UNCHANGED <<chain, accounts, mect, coll, newest>>

\* The store executes one bulk item (a first delivery or a retry).
Deliver(item) ==
    /\ item \in sent
    /\ LET st == ApplyItem(<<accounts, mect, coll>>, item)
       IN accounts' = st[1] /\ mect' = st[2] /\ coll' = st[3]
    /\ newest' = [newest EXCEPT ![ItemAddrOf(item)] = IF item.ts > @ THEN item.ts ELSE @]
    /\ UNCHANGED <<chain, indexed>>

Next ==
    \/ \E b \in Blocks : IndexBlock(b)
    \/ \E item \in sent : Deliver(item)

Spec == Init /\ [][Next]_vars

-----------------------------------------------------------------------------
(* Properties. The "latest" item of a document is the executed item of the *)
(* newest block: the state the index is meant to show.                     *)

\* balance of the newest executed item of a plain or token balance
NewestBalance(ia) == chain[newest[ia]][ia[2]]
NewestDoc(ia) == [ts |-> StoredTs(newest[ia]), balance |-> NewestBalance(ia)]
\* the token balance a collection slot of an address mirrors
SlotKey(a, s) == [addr |-> a, token |-> s.token, nonce |-> s.nonce]

\* A plain account document always shows the newest balance the store has
\* executed, whatever order the bulk requests of the blocks arrived in and
\* however often they were retried (timestamp guard of
\* prepareSerializedAccountInfo).
AccountShowsNewestExecuted ==
    \A a \in Addresses :
        LET ia == <<"accounts", a, NoSlot>> IN
        accounts[a] = IF newest[ia] = NoBlock THEN NoDoc ELSE NewestDoc(ia)

\* A token balance whose newest executed value is not zero is stored with
\* that value: neither an older write nor an older zero-balance delete can
\* replace or remove it (prepareSerializedAccountInfo, prepareDeleteAccountInfo).
MECTNonZeroNewestKept ==
    \A k \in MECTKeys :
        LET ia == <<"accountsmect", k, NoSlot>> IN
        newest[ia] # NoBlock /\ NewestBalance(ia) # 0 => mect[k] = NewestDoc(ia)

\* Timestamp monotonicity of token balances: whatever the delivery order,
\* the token balance document is the newest executed state: absent when
\* that balance is zero, that balance otherwise.
MECTShowsNewestExecuted ==
    \A k \in MECTKeys :
        LET ia == <<"accountsmect", k, NoSlot>> IN
        newest[ia] # NoBlock =>
            mect[k] = IF NewestBalance(ia) = 0 THEN NoDoc ELSE NewestDoc(ia)

\* The collection entry of an NFT/SFT balance is the newest executed
\* balance, whatever the delivery order (the structural merge of
\* ExtractAndSerializeCollectionsData is meant to commute).
CollectionShowsNewestExecuted ==
    \A a \in Addresses, s \in CollSlots :
        LET ia == <<"collections", a, s>>
            bal == chain[newest[ia]][SlotKey(a, s)]
        IN newest[ia] # NoBlock => coll[a][s] = IF bal = 0 THEN NoKey ELSE bal

\* Replaying a bulk item right after it was executed changes nothing: every
\* write the serializers produce is idempotent on every reachable store.
IdempotentReplay ==
    \A it \in sent :
        LET once == ApplyItem(<<accounts, mect, coll>>, it) IN
        ApplyItem(once, it) = once

=============================================================================
