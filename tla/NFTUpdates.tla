----------------------------- MODULE NFTUpdates -----------------------------
(***************************************************************************)
(* The accountsmect document of one address holding one NFT, and the two  *)
(* kinds of writers that share it: the account item of a block in which   *)
(* the address was altered (prepareSerializedAccount: a timestamp-guarded *)
(* upsert, or a delete at zero balance) and the NFT update item of a     *)
(* block with an MECTNFTUpdateAttributes or MECTNFTAddURI event by the    *)
(* address (PrepareNFTUpdateData, put in the same bulk after the account *)
(* items by SerializeAccountsMECT).                                      *)
(*                                                                         *)
(* The update items are plain "update" requests with a script and an      *)
(* empty upsert document: on a missing document the store inserts the     *)
(* empty document and does not run the script. Such a document ("Ghost") *)
(* has no data and no timestamp.                                          *)
(*                                                                         *)
(* A block's items form one bulk, and the store executes the items of a   *)
(* bulk in their order (they all address one document, hence one shard). *)
(* The indexer sends one bulk at a time and moves to the next block only  *)
(* after the bulk of the previous one succeeded. A request may fail after *)
(* any prefix of its items, and any block already indexed may be indexed *)
(* again later (retries, re-indexing).                                    *)
(***************************************************************************)
EXTENDS Integers, Sequences, SequencesExt

CONSTANTS
    Blocks,     \* 1..N
    Attrs,      \* attribute values (model values)
    InitAttr,   \* the attributes the NFT was created with
    URIs,       \* URI values (model values)
    NoDoc,      \* no document under the id
    Ghost       \* the empty document {} an update's upsert inserts

ASSUME InitAttr \in Attrs

\* the NFT event of the address in a block (nftsPropertiesProc.processEvent)
Upd == {[kind |-> "none"]} \cup [kind : {"attr"}, attr : Attrs]
                           \cup [kind : {"uri"}, uri : URIs]

\* what block b does to the address: its NFT balance after the block,
\* whether the address is among the block's altered accounts, its event
BlockType == [balance : {0, 1}, altered : BOOLEAN, upd : Upd]

\* a document of the NFT account: the timestamp and balance of the block
\* it was built for, and the attributes and URIs of its data
DocType == [ts : Blocks, balance : {1}, attrs : Attrs, uris : Seq(URIs)]

VARIABLES
    chain,      \* b -> BlockType
    indexed,    \* the last block whose bulk succeeded (0: none yet)
    cur,        \* the block whose bulk the store is executing
    left,       \* the items of that bulk not executed yet, in order
    doc         \* the document: DocType, NoDoc or Ghost

vars == <<chain, indexed, cur, left, doc>>

-----------------------------------------------------------------------------
(* The NFT's metadata in the trie after each block, read by getMECTInfo.  *)
(* The chain appends a URI the NFT does not already have.                *)

RECURSIVE TrieAttrs(_, _)
TrieAttrs(c, b) ==
    IF b = 0 THEN InitAttr
    ELSE IF c[b].upd.kind = "attr" THEN c[b].upd.attr ELSE TrieAttrs(c, b - 1)

RECURSIVE TrieURIs(_, _)
TrieURIs(c, b) ==
    IF b = 0 THEN <<>>
    ELSE LET prev == TrieURIs(c, b - 1) IN
         IF c[b].upd.kind = "uri" /\ c[b].upd.uri \notin ToSet(prev)
         THEN Append(prev, c[b].upd.uri) ELSE prev

\* a block alters the address whenever its balance changes, and the
\* address can update the NFT only in a block in which it holds it
ChainOK(c) ==
    \A b \in Blocks :
        LET before == IF b = 1 THEN 0 ELSE c[b - 1].balance IN
        /\ c[b].balance # before => c[b].altered
        /\ c[b].upd.kind # "none" => before = 1 \/ c[b].balance = 1

-----------------------------------------------------------------------------
(* Bulk items.                                                            *)

\* fault: the zero-balance test of prepareSerializedAccount dropped
AccountItemNoDelete(c, b) ==
    [kind |-> "upsert", ts |-> b,
     doc |-> [ts |-> b, balance |-> c[b].balance,
              attrs |-> TrieAttrs(c, b), uris |-> TrieURIs(c, b)]]

\* prepareSerializedAccount: delete at zero balance, else the account with
\* the token metadata PrepareAccountsMapMECT loaded for the block
AccountItem(c, b) ==
    IF c[b].balance = 0 THEN [kind |-> "delete", ts |-> b]
    ELSE [kind |-> "upsert", ts |-> b,
          doc |-> [ts |-> b, balance |-> c[b].balance,
                   attrs |-> TrieAttrs(c, b), uris |-> TrieURIs(c, b)]]

\* PrepareNFTUpdateData: the attributes script, replaced by the URIs
\* script when the update adds URIs
PrepareNFTUpdateData(c, b) ==
    IF c[b].upd.kind = "attr" THEN [kind |-> "attr", attr |-> c[b].upd.attr]
    ELSE [kind |-> "uris", uris |-> <<c[b].upd.uri>>]

\* SerializeAccountsMECT: the account item, then the update item
SerializeAccountsMECT(c, b) ==
    (IF c[b].altered THEN <<AccountItem(c, b)>> ELSE <<>>)
    \o (IF c[b].upd.kind # "none" THEN <<PrepareNFTUpdateData(c, b)>> ELSE <<>>)

-----------------------------------------------------------------------------
(* What the store does with an item.                                     *)

\* prepareSerializedAccountInfo's script (create, or no timestamp, or
\* stored timestamp not newer)
UpsertAccount(d, it) ==
    IF d \in {NoDoc, Ghost} \/ d.ts <= it.ts THEN it.doc ELSE d

\* prepareDeleteAccountInfo's script: a noop on create
DeleteAccount(d, it) ==
    IF d = NoDoc THEN NoDoc
    ELSE IF d = Ghost \/ d.ts <= it.ts THEN NoDoc ELSE d

\* fault: the URIs script appends every URI, present or not
MergeURIsAppendAll(uris, add) == uris \o add

\* the URIs script: set them when the data has none, else append each one
\* not already there
MergeURIs(uris, add) ==
    IF uris = <<>> THEN add
    ELSE uris \o SelectSeq(add, LAMBDA u : u \notin ToSet(uris))

\* both update scripts: the upsert {} is inserted as is on a missing
\* document, and a document without data is left alone
UpdateNFTData(d, it) ==
    CASE d \in {NoDoc, Ghost} -> Ghost
      [] it.kind = "attr"     -> [d EXCEPT !.attrs = it.attr]
      [] OTHER                -> [d EXCEPT !.uris = MergeURIs(d.uris, it.uris)]

ApplyItem(d, it) ==
    CASE it.kind = "upsert" -> UpsertAccount(d, it)
      [] it.kind = "delete" -> DeleteAccount(d, it)
      [] OTHER              -> UpdateNFTData(d, it)

-----------------------------------------------------------------------------

Init ==
    /\ chain \in {c \in [Blocks -> BlockType] : ChainOK(c)}
    /\ indexed = 0
    /\ cur = 1
    /\ left = <<>>
    /\ doc = NoDoc

\* once the previous request has returned, the indexer sends the bulk of
\* the next block, or of a block it indexed before; an empty buffer sends
\* no request and succeeds at once
IndexBlock(b) ==
    /\ left = <<>>
    /\ b <= indexed + 1
    /\ cur' = b
    /\ left' = SerializeAccountsMECT(chain, b)
    /\ indexed' = IF left' = <<>> THEN Max({indexed, b}) ELSE indexed
    /\ UNCHANGED <<chain, doc>>

\* the store executes the next item of the bulk; the bulk succeeds with
\* its last item
Deliver ==
    /\ left # <<>>
    /\ doc' = ApplyItem(doc, Head(left))
    /\ left' = Tail(left)
    /\ indexed' = IF left' = <<>> THEN Max({indexed, cur}) ELSE indexed
    /\ UNCHANGED <<chain, cur>>

\* the request fails before its remaining items run: the indexer gets an
\* error and sends the block again
BulkFails ==
    /\ left # <<>>
    /\ left' = <<>>
    /\ UNCHANGED <<chain, indexed, cur, doc>>

Next ==
    \/ \E b \in Blocks : IndexBlock(b)
    \/ Deliver
    \/ BulkFails

Spec == Init /\ [][Next]_vars

-----------------------------------------------------------------------------
(* Properties.                                                            *)

TypeOK ==
    /\ chain \in [Blocks -> BlockType]
    /\ indexed \in 0..Len(chain) /\ cur \in Blocks
    /\ Len(left) \in 0..2
    /\ doc \in DocType \cup {NoDoc, Ghost}

\* the URIs script appends only URIs the document lacks, so however the
\* account upserts (carrying the trie's URIs) and the URI items of any
\* blocks interleave or repeat, the document never lists a URI twice
URIsNoDuplicates == doc \in DocType => IsInjective(doc.uris)

\* an NFT update item never leaves a document without balance and
\* timestamp behind
NoGhostDocument == doc # Ghost
=============================================================================
