---------------------------- MODULE EventDispatch ----------------------------
(***************************************************************************)
(* The chain of event processors of src/process/logsevents.               *)
(*                                                                         *)
(* ExtractDataFromLogs offers every event of a block to the processors in *)
(* the order createEventsProcessors gives them; processEvent decides after *)
(* each call whether to stop, go on, or flag the transaction/result of the *)
(* log as having operations. The model follows one event of a block       *)
(* through the chain, one processor call per step, then the next block.   *)
(*                                                                         *)
(* An event is abstracted to its identifier, how many topics it carries,  *)
(* whether topics[1] (the nonce) is zero, whether the emitting address and *)
(* the receiver in topics[3] belong to the indexer's shard, whether the   *)
(* log's hash is a transaction or a result of the block, whether its role *)
(* topics are role names and whether its token topic is empty.            *)
(* Reading a topic the event does not have is an index out of range: the  *)
(* indexer panics ("panic" below).                                       *)
(***************************************************************************)
EXTENDS Integers, Sequences, FiniteSets

CONSTANTS
    Events,         \* the events a block may carry (records, see EventType)
    SelfIsMeta      \* the indexer runs on the metachain

\* operation identifiers each processor recognizes
FungibleIds   == {"MECTTransfer", "MECTBurn", "MECTLocalMint", "MECTLocalBurn",
                  "MECTWipe", "MultiMECTNFTTransfer"}
NFTIds        == {"MECTNFTTransfer", "MECTNFTBurn", "MECTNFTAddQuantity",
                  "MECTNFTCreate", "MultiMECTNFTTransfer", "MECTWipe"}
SCDeployIds   == {"SCDeploy", "SCUpgrade"}
InformativeIds == {"writeLog", "signalError", "completedTxEvent"}
NFTUpdateIds  == {"MECTNFTAddURI", "MECTNFTUpdateAttributes"}
RolesIds      == {"MECTSetRole", "MECTUnSetRole", "MECTNFTCreateRoleTransfer",
                  "upgradeProperties"}
IssueIds      == {"issue", "issueSemiFungible", "issueNonFungible",
                  "registerMetaMECT", "changeSFTToMetaMECT", "transferOwnership",
                  "registerAndSetAllRoles"}
DelegatorIds  == {"delegate", "unDelegate", "withdraw", "reDelegateRewards",
                  "claimRewards"}

AllIds == FungibleIds \cup NFTIds \cup SCDeployIds \cup InformativeIds
          \cup NFTUpdateIds \cup RolesIds \cup IssueIds \cup DelegatorIds

EventType == [id : AllIds, nTopics : Nat, nonceZero : BOOLEAN,
              senderSelf : BOOLEAN, receiverSelf : BOOLEAN,
              known : {"tx", "scr", "none"}, rolesOk : BOOLEAN,
              tokenEmpty : BOOLEAN]

ASSUME Events \subseteq EventType /\ SelfIsMeta \in BOOLEAN

\* createEventsProcessors
Chain == <<"fungible", "nfts", "scDeploys", "informative", "updateNFT", "mectProp">>
         \o (IF SelfIsMeta THEN <<"mectIssue", "delegators">> ELSE <<>>)

\* side effects a processor has on the block's logsData
Effects == {"alteredSender", "alteredReceiver", "supplySender", "supplyReceiver",
            "createInfo", "scDeploy", "nftUpdate", "roles", "properties",
            "tokenInfo", "delegator"}

-----------------------------------------------------------------------------
(* Results of one processor call: argOutputProcessEvent, reduced to        *)
(* processed, whether the identifier is non-empty, and the side effects.  *)

NotMine == [processed |-> FALSE, identifier |-> FALSE, effects |-> {}, panic |-> FALSE]
Skipped == [NotMine EXCEPT !.processed = TRUE]
Panic   == [NotMine EXCEPT !.panic = TRUE]
Done(ident, effs) == [processed |-> TRUE, identifier |-> ident, effects |-> effs,
                      panic |-> FALSE]

\* fault: the nonce test dropped from the fungible processor
FungibleNoNonceTest(e) ==
    CASE e.id \notin FungibleIds -> NotMine
      [] e.nTopics < 3           -> Skipped
      [] OTHER -> Done(~e.tokenEmpty, (IF e.senderSelf THEN {"alteredSender"} ELSE {})
                             \cup (IF e.nTopics >= 4 /\ e.receiverSelf
                                   THEN {"alteredReceiver"} ELSE {}))
\* fault: a short fungible event returned as not processed
FungibleShortNotProcessed(e) ==
    CASE e.id \notin FungibleIds -> NotMine
      [] e.nTopics < 2           -> Panic
      [] ~e.nonceZero            -> NotMine
      [] e.nTopics < 3           -> NotMine
      [] OTHER -> Done(~e.tokenEmpty, (IF e.senderSelf THEN {"alteredSender"} ELSE {})
                             \cup (IF e.nTopics >= 4 /\ e.receiverSelf
                                   THEN {"alteredReceiver"} ELSE {}))

\* fungibleMECTProcessor.processEvent: topics[1] is read before the topic
\* count is checked; the sender is marked on its own shard, the receiver
\* (topics[3]) only when it is in this shard
FungibleProcessEvent(e) ==
    CASE e.id \notin FungibleIds -> NotMine
      [] e.nTopics < 2           -> Panic
      [] ~e.nonceZero            -> NotMine
      [] e.nTopics < 3           -> Skipped
      [] OTHER -> Done(~e.tokenEmpty, (IF e.senderSelf THEN {"alteredSender"} ELSE {})
                             \cup (IF e.nTopics >= 4 /\ e.receiverSelf
                                   THEN {"alteredReceiver"} ELSE {}))

\* processNFTEventOnSender: the sender mark, a supply record for burn and
\* wipe, the create record when the token data topic is there
NFTSenderEffects(e) ==
    IF ~e.senderSelf THEN {}
    ELSE {"alteredSender"}
         \cup (IF e.id \in {"MECTNFTBurn", "MECTWipe"} THEN {"supplySender"} ELSE {})
         \cup (IF e.id = "MECTNFTCreate" /\ e.nTopics >= 4 THEN {"createInfo"} ELSE {})

shouldAddReceiverData(e) ==
    e.id \in {"MECTNFTTransfer", "MultiMECTNFTTransfer", "MECTWipe"} /\ e.nTopics >= 4

\* nftsProcessor.processEvent: topics[1] and topics[2] are read unchecked
NFTsProcessEvent(e) ==
    CASE e.id \notin NFTIds  -> NotMine
      [] e.nTopics < 2       -> Panic
      [] e.nonceZero         -> NotMine
      [] e.nTopics < 3       -> Panic
      [] ~shouldAddReceiverData(e) \/ ~e.receiverSelf
                             -> Done(TRUE, NFTSenderEffects(e))
      [] OTHER -> Done(TRUE, NFTSenderEffects(e) \cup {"alteredReceiver"}
                             \cup (IF e.id = "MECTWipe" THEN {"supplyReceiver"} ELSE {}))

SCDeploysProcessEvent(e) ==
    CASE e.id \notin SCDeployIds -> NotMine
      [] e.nTopics < 2           -> Skipped
      [] OTHER                   -> Done(FALSE, {"scDeploy"})

\* logs that only carry fee or refund information
InformativeProcessEvent(e) ==
    IF e.id \in InformativeIds THEN Skipped ELSE NotMine

\* nftsPropertiesProc.processEvent (a non-empty caller address assumed)
NFTsPropertiesProcessEvent(e) ==
    CASE e.id \notin NFTUpdateIds -> NotMine
      [] e.nTopics < 4            -> Skipped
      [] e.nonceZero              -> NotMine
      [] OTHER                    -> Done(TRUE, {"nftUpdate"})

\* mectPropertiesProc.processEvent; extractTokenProperties reads the
\* topics from index 2 in (property, value) pairs
MectPropertiesProcessEvent(e) ==
    CASE e.id \notin RolesIds                 -> NotMine
      [] e.nTopics < 4                        -> Skipped
      [] e.id = "upgradeProperties" /\ (e.nTopics - 2) % 2 = 1
                                              -> Panic
      [] e.id = "upgradeProperties"           -> Done(FALSE, {"properties"})
      [] e.id = "MECTNFTCreateRoleTransfer"   -> Done(FALSE, {"roles"})
      [] ~e.rolesOk                           -> Skipped
      [] OTHER                                -> Done(FALSE, {"roles"})

MectIssueProcessEvent(e) ==
    CASE e.id \notin IssueIds -> NotMine
      [] e.nTopics < 4        -> Skipped
      [] e.tokenEmpty         -> Skipped
      [] OTHER                -> Done(FALSE, {"tokenInfo"})

DelegatorsProcessEvent(e) ==
    IF e.id \in DelegatorIds THEN Done(FALSE, {"delegator"}) ELSE NotMine

RunProcessor(p, e) ==
    CASE p = "fungible"    -> FungibleProcessEvent(e)
      [] p = "nfts"        -> NFTsProcessEvent(e)
      [] p = "scDeploys"   -> SCDeploysProcessEvent(e)
      [] p = "informative" -> InformativeProcessEvent(e)
      [] p = "updateNFT"   -> NFTsPropertiesProcessEvent(e)
      [] p = "mectProp"    -> MectPropertiesProcessEvent(e)
      [] p = "mectIssue"   -> MectIssueProcessEvent(e)
      [] p = "delegators"  -> DelegatorsProcessEvent(e)


-----------------------------------------------------------------------------
(* processEvent: one event through the chain.                              *)

VARIABLES
    ev,         \* the event being dispatched
    pc,         \* index in Chain of the processor called next
    status,     \* "running", "done", or "panic" (the indexer stopped)
    calls,      \* sequence of [proc, out]: the calls made for ev, in order
    hasOps      \* {"tx"} or {"scr"}: the log's record got HasOperations

vars == <<ev, pc, status, calls, hasOps>>

Init ==
    /\ ev \in Events
    /\ pc = 1
    /\ status = "running"
    /\ calls = <<>>
    /\ hasOps = {}

\* fault: the loop bound off by one
AdvancePastEnd == pc' = pc + 1 /\ UNCHANGED status

\* the loop moves to the next processor, or ends after the last one
Advance ==
    \/ pc < Len(Chain) /\ pc' = pc + 1 /\ UNCHANGED status
    \/ pc = Len(Chain) /\ status' = "done" /\ UNCHANGED pc

\* fault: the loop ends after a processor that did not process the event
\* (return for continue at the end of the loop body)
CallProcessorStopNotMine ==
    /\ status = "running"
    /\ LET p   == Chain[pc]
           out == RunProcessor(p, ev)
       IN  /\ calls' = Append(calls, [proc |-> p, out |-> out])
           /\ UNCHANGED ev
           /\ \/ /\ out.panic
                 /\ status' = "panic"
                 /\ UNCHANGED <<pc, hasOps>>
              \/ /\ ~out.panic /\ ~out.identifier /\ out.processed
                 /\ status' = "done"
                 /\ UNCHANGED <<pc, hasOps>>
              \/ /\ ~out.panic /\ out.identifier /\ ev.known = "tx"
                 /\ hasOps' = hasOps \cup {"tx"}
                 /\ Advance
              \/ /\ ~out.panic /\ out.identifier /\ ev.known = "scr"
                 /\ hasOps' = hasOps \cup {"scr"}
                 /\ status' = "done"
                 /\ UNCHANGED pc
              \/ /\ ~out.panic /\ out.identifier /\ ev.known = "none"
                 /\ status' = "done"
                 /\ UNCHANGED <<pc, hasOps>>
              \/ /\ ~out.panic /\ ~out.processed
                 /\ status' = "done"
                 /\ UNCHANGED <<pc, hasOps>>

\* one iteration of the for loop of processEvent, the checks after the call
\* in the order the code makes them
CallProcessor ==
    /\ status = "running"
    /\ LET p   == Chain[pc]
           out == RunProcessor(p, ev)
       IN  /\ calls' = Append(calls, [proc |-> p, out |-> out])
           /\ UNCHANGED ev
           /\ \/ /\ out.panic
                 /\ status' = "panic"
                 /\ UNCHANGED <<pc, hasOps>>
              \/ /\ ~out.panic /\ ~out.identifier /\ out.processed
                 /\ status' = "done"
                 /\ UNCHANGED <<pc, hasOps>>
              \/ /\ ~out.panic /\ out.identifier /\ ev.known = "tx"
                 /\ hasOps' = hasOps \cup {"tx"}
                 /\ Advance
              \/ /\ ~out.panic /\ out.identifier /\ ev.known = "scr"
                 /\ hasOps' = hasOps \cup {"scr"}
                 /\ status' = "done"
                 /\ UNCHANGED pc
              \/ /\ ~out.panic /\ out.identifier /\ ev.known = "none"
                 /\ status' = "done"
                 /\ UNCHANGED <<pc, hasOps>>
              \/ /\ ~out.panic /\ ~out.processed
                 /\ UNCHANGED hasOps
                 /\ Advance

\* the next event (of this log, or of a later block) enters the chain
NextEvent ==
    /\ status = "done"
    /\ ev' \in Events
    /\ pc' = 1
    /\ status' = "running"
    /\ calls' = <<>>
    /\ hasOps' = {}

Next == CallProcessor \/ NextEvent

Spec == Init /\ [][Next]_vars

-----------------------------------------------------------------------------
(* Properties.                                                            *)

CallType == [proc : {Chain[i] : i \in 1..Len(Chain)},
             out : [processed : BOOLEAN, identifier : BOOLEAN,
                    effects : SUBSET Effects, panic : BOOLEAN]]

TypeOK ==
    /\ ev \in Events
    /\ pc \in 1..Len(Chain)
    /\ status \in {"running", "done", "panic"}
    /\ calls \in Seq(CallType) /\ Len(calls) <= Len(Chain)
    /\ hasOps \in SUBSET {"tx", "scr"}

ProcessedBy == {calls[i].proc : i \in {j \in 1..Len(calls) : calls[j].out.processed}}

\* processEvent goes on past a processor that processed the event of a
\* known transaction; still no second processor acts on the same event
\* (spec: "exactly one of the two ever returns processed=true")
AtMostOneProcessorActs == Cardinality(ProcessedBy) <= 1

\* an event whose identifier both the fungible and the nfts processor
\* recognize is processed by exactly one of them, chosen by the nonce in
\* topics[1]: zero to fungible, non-zero to nfts
SharedIdentifierRouted ==
    (status = "done" /\ ev.id \in FungibleIds \cap NFTIds)
        => ProcessedBy = IF ev.nonceZero THEN {"fungible"} ELSE {"nfts"}

\* processEvent never ends the chain before a processor that extracts data
\* from the event (a non-empty identifier) has seen it: when some
\* processor of the chain would return an identifier for the event, one
\* call of the dispatch did. It fails when a processor that does not know
\* the event ends the loop, or one that knows it stops the loop with an
\* empty identifier ahead of the processor that would extract its data.
EventNotSwallowed ==
    (status = "done" /\ \E i \in 1..Len(Chain) : RunProcessor(Chain[i], ev).identifier)
        => \E i \in 1..Len(calls) : calls[i].out.identifier

\* spec: an event with too few topics is skipped with a warning, never
\* fatal; fungible and nfts index topics[1] and topics[2] unchecked
NoPanic == status # "panic"

=============================================================================
