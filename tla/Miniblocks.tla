----------------------------- MODULE Miniblocks -----------------------------
(***************************************************************************)
(* The miniblocks index: one document per miniblock hash, written by      *)
(* every block that carries the miniblock.                                *)
(*                                                                         *)
(* A writer is one block of one shard indexer that contains the           *)
(* miniblock: the sender and the receiver shard of a cross-shard          *)
(* miniblock, or the block that proposes a scheduled intra-shard          *)
(* miniblock and the next block that processes it. Each builds its view  *)
(* of the miniblock (PrepareDBMiniblocks), reads whether the document     *)
(* exists, and then writes it: a full index when it did not, a partial    *)
(* update of its own side's fields when it did (prepareMiniblockData).   *)
(* The read and the write are separate steps; the blocks of one shard are *)
(* indexed one at a time, in order, by the shard's single consumer.       *)
(***************************************************************************)
EXTENDS Integers, FiniteSets

CONSTANTS
    Writers,    \* records [mb, shard, block, header, sender, receiver,
                \*          procType, construction]: block of shard, with
                \*          header hash, carrying miniblock mb
    NoDoc

\* the fields of a miniblock document prepareMiniblockData writes
\* (senderBlockHash, receiverBlockHash, procTypeS, procTypeD); "" when
\* the field is empty and left out of the JSON
Fields == {"S", "R", "pS", "pD"}

VARIABLES
    doc,        \* mb -> the document: [Fields -> value] or NoDoc
    pc,         \* w -> "idle" or "read" (existence read, write pending)
    inDB,       \* w -> what the writer's last read found
    written     \* history: the writers whose write has executed

vars == <<doc, pc, inDB, written>>

-----------------------------------------------------------------------------

Mbs == {w.mb : w \in Writers}
Headers == {w.header : w \in Writers} \cup {""}
ProcTypes == {"Normal", "Scheduled", "Processed", ""}

\* fault: the processing type and the construction state swapped
SetFieldsFromMeSwapped(w) ==
    CASE w.construction = "Final" /\ w.procType = "Normal" ->
            [S |-> w.header, R |-> w.header, pS |-> "Final", pD |-> "Final"]
      [] w.construction = "Proposed" /\ w.procType = "Scheduled" ->
            [S |-> w.header, R |-> "", pS |-> "Proposed", pD |-> ""]
      [] w.construction = "Final" /\ w.procType = "Processed" ->
            [S |-> "", R |-> w.header, pS |-> "Final", pD |-> "Final"]
      [] OTHER -> [S |-> "", R |-> "", pS |-> w.construction, pD |-> ""]

\* computeProcessingTypeAndConstructionState, setFieldsMBIntraShardAndCrossFromMe
SetFieldsFromMe(w) ==
    CASE w.construction = "Final" /\ w.procType = "Normal" ->
            [S |-> w.header, R |-> w.header, pS |-> "Normal", pD |-> "Normal"]
      [] w.construction = "Proposed" /\ w.procType = "Scheduled" ->
            [S |-> w.header, R |-> "", pS |-> "Scheduled", pD |-> ""]
      [] w.construction = "Final" /\ w.procType = "Processed" ->
            [S |-> "", R |-> w.header, pS |-> "Processed", pD |-> "Processed"]
      [] OTHER -> [S |-> "", R |-> "", pS |-> w.procType, pD |-> ""]

\* prepareMiniblockForDB: the writer's view of the miniblock
prepareMiniblockForDB(w) ==
    IF w.sender = w.receiver \/ w.sender = w.shard
    THEN SetFieldsFromMe(w)
    ELSE [S |-> "", R |-> w.header, pS |-> "", pD |-> w.procType]

\* fault: the sender-side test of the update inverted on procTypeD
OwnFieldsInverted(w) ==
    IF w.shard = w.sender /\ prepareMiniblockForDB(w).pD = "Processed"
    THEN {"S", "pS"} ELSE {"R", "pD"}

\* the fields the update of prepareMiniblockData sets for this writer
OwnFields(w) ==
    IF w.shard = w.sender /\ prepareMiniblockForDB(w).pD # "Processed"
    THEN {"S", "pS"} ELSE {"R", "pD"}

\* prepareMiniblockData: index the whole miniblock, or update one side
prepareMiniblockData(w, isInDB) ==
    IF ~isInDB THEN [op |-> "index", fields |-> Fields, vals |-> prepareMiniblockForDB(w)]
    ELSE [op |-> "update", fields |-> OwnFields(w), vals |-> prepareMiniblockForDB(w)]

\* the store: an index replaces the document; an update of a missing
\* document fails and changes nothing
ApplyMiniblockItem(d, it) ==
    CASE it.op = "index" -> it.vals
      [] d = NoDoc       -> NoDoc
      [] OTHER -> [f \in Fields |-> IF f \in it.fields THEN it.vals[f] ELSE d[f]]

-----------------------------------------------------------------------------

\* the blocks of a shard before w, which its consumer indexes first
Earlier(w) == {v \in Writers : v.shard = w.shard /\ v.block < w.block}

Init ==
    /\ doc = [m \in Mbs |-> NoDoc]
    /\ pc = [w \in Writers |-> "idle"]
    /\ inDB = [w \in Writers |-> FALSE]
    /\ written = {}

\* the indexer of w's shard starts (or re-starts) indexing w's block and
\* reads which of its miniblocks are in the index
ReadExisting(w) ==
    /\ pc[w] = "idle"
    /\ \A v \in Writers : v.shard = w.shard => pc[v] = "idle"
    /\ Earlier(w) \subseteq written
    /\ pc' = [pc EXCEPT ![w] = "read"]
    /\ inDB' = [inDB EXCEPT ![w] = doc[w.mb] # NoDoc]
    /\ UNCHANGED <<doc, written>>

\* SerializeBulkMiniBlocks, and the store executes the item
SaveMiniblock(w) ==
    /\ pc[w] = "read"
    /\ doc' = [doc EXCEPT ![w.mb] = ApplyMiniblockItem(@, prepareMiniblockData(w, inDB[w]))]
    /\ pc' = [pc EXCEPT ![w] = "idle"]
    /\ written' = written \cup {w}
    /\ UNCHANGED inDB

Next == \E w \in Writers : ReadExisting(w) \/ SaveMiniblock(w)

Spec == Init /\ [][Next]_vars

-----------------------------------------------------------------------------
(* Properties.                                                            *)

TypeOK ==
    /\ pc \in [Writers -> {"idle", "read"}]
    /\ inDB \in [Writers -> BOOLEAN]
    /\ written \subseteq Writers
    /\ \A m \in Mbs :
        doc[m] \in {NoDoc} \cup [S : Headers, R : Headers, pS : ProcTypes, pD : ProcTypes]

\* the side of the miniblock a writer's block stands for: the sender side
\* when its view carries a sender block hash, else the receiver side
Side(w) == IF prepareMiniblockForDB(w).S # "" THEN {"S", "pS"} ELSE {"R", "pD"}

\* every writer whose write has executed finds its own side of the
\* miniblock (block hash and processing type) in the document: the other
\* side's writes, full or partial, never erase it
BothSidesKept ==
    \A w \in written : \A f \in Side(w) :
        doc[w.mb][f] = prepareMiniblockForDB(w)[f]
=============================================================================
