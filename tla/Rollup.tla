------------------------------- MODULE Rollup -------------------------------
(***************************************************************************)
(* contracts/Rollup.sol with the contracts its handlers call: the stakes   *)
(* (StakeManager) and the deposit subtrees (SubtreeQueue).  Each action is *)
(* one external call, executed whole, since Ethereum serialises calls and  *)
(* undoes one that reverts; MineBlock is the passing of time.              *)
(***************************************************************************)
EXTENDS StakeManager, SubtreeQueue

CONSTANTS
    Coordinator,       \* POB.getCoordinator(): the account that may submit
    Deployer,          \* the committer of the genesis batch
    GenesisRoot,       \* genesisStateRoot
    ProcessTxs,        \* root reached from a root by processing transactions
    InsertSubtree,     \* roots reached from a root by grafting a subtree
    Payloads,          \* what a coordinator may submit in one batch
    TimeToFinalise,    \* governance.timeToFinalise(), in blocks
    MaxBlock           \* bound: the last block number

ASSUME AccountsAssumption == Coordinator \in Accounts /\ Deployer \in Accounts
ASSUME RootsAssumption ==
    /\ GenesisRoot \in StateRoots
    /\ ProcessTxs \in [StateRoots -> StateRoots]
    /\ InsertSubtree \in [StateRoots -> SUBSET StateRoots]

(* A payload is a list of commitments that merklise() accepts: it requires *)
(* no more than 32 nodes, and its loop does not end when there are none.   *)
MaxCommitments == 32
Payload == [stateRoot : StateRoots, txs : TxsOutcome \ {"None"},
            signed : BOOLEAN, misread : SUBSET Readers,
            migration : Migrations]
ASSUME PayloadsAssumption ==
    \A payload \in Payloads :
        payload \in Seq(Payload) /\ Len(payload) \in 1 .. MaxCommitments
ASSUME TimeAssumption == TimeToFinalise \in Nat /\ MaxBlock \in Nat

VARIABLES
    batches,               \* batches[i + 1] is the batch with id i
    invalidBatchMarker,    \* 0, or where the rollback in progress ends
    blockNumber,
    arrived                \* the subtrees that have become ready so far

rollupVars == <<batches, invalidBatchMarker, blockNumber>>
vars == <<batches, invalidBatchMarker, blockNumber, arrived,
          stakes, escrow, subtreeQueue, submittedSubtree>>

NumBatches == Len(batches)
TopBatchID == NumBatches - 1
LiveIDs == 0 .. TopBatchID
BatchOf(batchID) == batches[batchID + 1]
LastCommitment(batch) == batch.commitments[Len(batch.commitments)]
-----------------------------------------------------------------------------
(* Guards that Rollup.sol writes as modifiers.                             *)
OnlyCoordinator(sender) == sender = Coordinator
IsNotRollingBack == invalidBatchMarker = 0
IsRollingBackAboveOne == invalidBatchMarker > 1    \* slip: off by one
IsRollingBack == invalidBatchMarker > 0
(* Slip: finality is not asked for.                                        *)
IsDisputableForever(batchID) ==
    /\ batchID \in LiveIDs \ {0}
    /\ batchID < invalidBatchMarker \/ invalidBatchMarker = 0

IsDisputable(batchID) ==
    /\ batchID \in LiveIDs
    /\ blockNumber < BatchOf(batchID).finaliseOn
    /\ batchID < invalidBatchMarker \/ invalidBatchMarker = 0

(***************************************************************************)
(* MerkleTree.merklise() pads its nodes to the next of these sizes.  A     *)
(* proof reads one bit of its path for each node of its witness, which is  *)
(* as long as the caller makes it (MerkleTree.sol:12): one as long as the  *)
(* tree is high opens the leaf that the low bits of the path select, and   *)
(* these definitions are about it.  Shorter and longer ones open other     *)
(* nodes, see DisputeTransitionAcross.                                     *)
(***************************************************************************)
TreeSizes == {2, 4, 8, 16, MaxCommitments}
TreeSize(leafCount) ==
    CHOOSE size \in TreeSizes :
        leafCount <= size /\ (size = 2 \/ size < 2 * leafCount)

LeafIndex(batch, path) == 1 + (path % TreeSize(Len(batch.commitments)))
HasLeaf(batch, path) == LeafIndex(batch, path) \in DOMAIN batch.commitments
OpenedAt(batch, path) == batch.commitments[LeafIndex(batch, path)]

(* checkPreviousCommitment: where the commitment lies that the one at path *)
(* is judged by.                                                           *)
PreviousBatchID(batchID, path) == IF path = 0 THEN batchID - 1 ELSE batchID
PreviousPathFirst(batchID, path) ==    \* slip: the first one of the batch before
    IF path = 0 THEN 0 ELSE path - 1
PreviousPath(batchID, path) ==
    IF path = 0 THEN Len(BatchOf(batchID - 1).commitments) - 1 ELSE path - 1
-----------------------------------------------------------------------------
EmptyCommitment(kind, root) ==
    [kind |-> kind, stateRoot |-> root, txs |-> "None", signed |-> FALSE,
     misread |-> {}, migration |-> NoMigration]

GenesisBatch ==
    [batchType |-> "Genesis",
     commitments |-> <<EmptyCommitment("Genesis", GenesisRoot)>>,
     committer |-> Deployer, finaliseOn |-> blockNumber]

Init ==
    /\ blockNumber = 0
    /\ batches = <<GenesisBatch>>
    /\ invalidBatchMarker = 0
    /\ StakeInit
    /\ arrived = {}
    /\ SubtreeInit

(* Slip: a deposit batch, which has no transactions, is final at once.     *)
SubmitBatchDepositFinal(sender, commitments, batchType) ==
    /\ NumBatches < MaxBatches
    /\ batches' = Append(batches,
                    [batchType |-> batchType, commitments |-> commitments,
                     committer |-> sender,
                     finaliseOn |-> IF commitments[1].kind = "Deposit"
                                    THEN blockNumber
                                    ELSE blockNumber + TimeToFinalise])
    /\ Stake(NumBatches)
    /\ UNCHANGED <<invalidBatchMarker, blockNumber, arrived>>

(* submitBatch(): push the batch and take the stake of the new last id.    *)
SubmitBatch(sender, commitments, batchType) ==
    /\ NumBatches < MaxBatches
    /\ batches' = Append(batches,
                    [batchType |-> batchType, commitments |-> commitments,
                     committer |-> sender,
                     finaliseOn |-> blockNumber + TimeToFinalise])
    /\ Stake(NumBatches)
    /\ UNCHANGED <<invalidBatchMarker, blockNumber, arrived>>

Committed(payload, kind) ==
    [i \in 1 .. Len(payload) |->
        [kind |-> kind, stateRoot |-> payload[i].stateRoot,
         txs |-> payload[i].txs, signed |-> payload[i].signed,
         misread |-> payload[i].misread \ {kind},
         migration |-> payload[i].migration]]

SubmitTransfer(sender, payload) ==
    /\ OnlyCoordinator(sender)
    /\ SubmitBatch(sender, Committed(payload, "Transfer"), "Transfer")
    /\ UNCHANGED subtreeVars

SubmitCreate2Transfer(sender, payload) ==
    /\ OnlyCoordinator(sender)
    /\ SubmitBatch(sender, Committed(payload, "Create2Transfer"),
                   "Create2Transfer")
    /\ UNCHANGED subtreeVars

SubmitMassMigration(sender, payload) ==
    /\ OnlyCoordinator(sender)
    /\ SubmitBatch(sender, Committed(payload, "MassMigration"), "MassMigration")
    /\ UNCHANGED subtreeVars

(* submitDeposits(): graft the front subtree onto the last state root; the *)
(* batch is labelled MassMigration (line 426), its commitment has no body. *)
(* Where the subtree goes, and how long the proofs of the last commitment  *)
(* and of the vacancy are, is the coordinator's choice: of the new root.   *)
SubmitDeposits(sender) ==
    /\ OnlyCoordinator(sender)
    /\ IsNotRollingBack
    /\ LET previous == LastCommitment(BatchOf(TopBatchID))
       IN  \E newRoot \in InsertSubtree[previous.stateRoot] :
              SubmitBatch(sender, <<EmptyCommitment("Deposit", newRoot)>>,
                          "MassMigration")
    /\ DequeueToSubmit(NumBatches)
-----------------------------------------------------------------------------
(* Slip: the marker stays after the last batch is removed.                 *)
RollbackToKeepingMarker(marker, n) ==
    /\ n <= TopBatchID - marker + 1
    /\ batches' = SubSeq(batches, 1, NumBatches - n)
    /\ TryReenqueueDown(TopBatchID - n + 1, TopBatchID)
    /\ RewardAndBurn(TopBatchID, n)
    /\ invalidBatchMarker' = marker
    /\ UNCHANGED <<blockNumber, arrived>>

(* Slip: a call that pauses has re-enqueued the subtrees of the batches it *)
(* did not reach.                                                          *)
RollbackToReenqueuingAll(marker, n) ==
    LET pending == TopBatchID - marker + 1
    IN  /\ n <= pending
        /\ batches' = SubSeq(batches, 1, NumBatches - n)
        /\ TryReenqueueDown(marker, TopBatchID)
        /\ RewardAndBurn(TopBatchID, n)
        /\ invalidBatchMarker' = IF n = pending THEN 0 ELSE marker
        /\ UNCHANGED <<blockNumber, arrived>>

(***************************************************************************)
(* slashAndRollback() with marker as invalidBatchMarker: removes the top n *)
(* batches and returns, either because the marker was reached or because   *)
(* gasleft() fell to minGasLeft, which may happen before any iteration.    *)
(***************************************************************************)
RollbackTo(marker, n) ==
    LET pending == TopBatchID - marker + 1
    IN  /\ n <= pending
        /\ batches' = SubSeq(batches, 1, NumBatches - n)
        /\ TryReenqueueDown(TopBatchID - n + 1, TopBatchID)
        /\ RewardAndBurn(TopBatchID, n)
        /\ invalidBatchMarker' = IF n = pending THEN 0 ELSE marker
        /\ UNCHANGED <<blockNumber, arrived>>

SlashAndRollback(n) ==
    /\ IsRollingBack
    /\ RollbackTo(invalidBatchMarker, n)

(* A genesis or a deposit commitment has a constant bodyRoot that is the   *)
(* hash of no body, so no dispute can open it as a leaf.                   *)
HasBody(target) == target.kind \notin {"Genesis", "Deposit"}

(* processTransferCommit / processMassMigrationCommit end with a Result    *)
(* other than Ok or with another root than the one claimed.                *)
TransitionFails(reader, previous, target) ==
    IF target.kind = reader
    THEN \/ target.txs = "Rejected"
         \/ target.txs = "Ok" /\ ProcessTxs[previous.stateRoot] # target.stateRoot
    ELSE reader \in target.misread

(* checkSignature ends with a Result other than Ok.                        *)
SignatureFails(reader, target) ==
    IF target.kind = reader THEN ~target.signed ELSE reader \in target.misread

(* A transition dispute that succeeds, by proofs as long as their trees    *)
(* are high; one that fails changes nothing.                               *)
DisputeTransition(reader, batchID, path, n) ==
    /\ IsDisputable(batchID)
    /\ LET batch == BatchOf(batchID)
           previous == BatchOf(PreviousBatchID(batchID, path))
           previousPath == PreviousPath(batchID, path)
       IN  /\ HasLeaf(batch, path) /\ HasBody(OpenedAt(batch, path))
           /\ HasLeaf(previous, previousPath)
           /\ TransitionFails(reader, OpenedAt(previous, previousPath),
                              OpenedAt(batch, path))
    /\ RollbackTo(batchID, n)

DisputeSignature(reader, batchID, path, n) ==
    /\ IsDisputable(batchID)
    /\ LET batch == BatchOf(batchID)
       IN  /\ HasLeaf(batch, path) /\ HasBody(OpenedAt(batch, path))
           /\ SignatureFails(reader, OpenedAt(batch, path))
    /\ RollbackTo(batchID, n)

(***************************************************************************)
(* A transition dispute whose proof of the previous or of the target is    *)
(* shorter or longer than its tree is high.  What is hashed as a           *)
(* commitment is two words, and so is every inner node, of the batch's     *)
(* tree and of the state trees under it.                                   *)
(*  - As the previous any of them will do: its left child is taken for the *)
(*    state root, and the states below open under it by witnesses of the   *)
(*    length that leads to them.  The root reached is then another one     *)
(*    than the target claims, whatever the target does.                    *)
(*  - As the target of reader Transfer, two neighbouring states will do:   *)
(*    the four words of a state read as a body with an empty list.         *)
(* Whether such nodes and states exist is in the data below the roots, so  *)
(* that the model leaves open which try succeeds.  A signature dispute     *)
(* opens a leaf or reverts, since no signature of no message is checked    *)
(* (BLS.sol:71), and the body of a mass migration is longer than a state.  *)
(***************************************************************************)
DisputeTransitionAcross(reader, batchID, n) ==
    /\ IsDisputable(batchID)
    /\ \/ reader = "Transfer"
       \/ \E i \in DOMAIN BatchOf(batchID).commitments :
             HasBody(BatchOf(batchID).commitments[i])
    /\ RollbackTo(batchID, n)

DisputeTransitionTransfer(batchID, path, n) ==
    DisputeTransition("Transfer", batchID, path, n)

DisputeTransitionMassMigration(batchID, path, n) ==
    DisputeTransition("MassMigration", batchID, path, n)

DisputeSignatureTransfer(batchID, path, n) ==
    DisputeSignature("Transfer", batchID, path, n)

DisputeSignatureMassMigration(batchID, path, n) ==
    DisputeSignature("MassMigration", batchID, path, n)
-----------------------------------------------------------------------------
WithdrawStakeEarly(sender, batchID) ==    \* slip: finaliseOn is not asked for
    /\ batchID \in LiveIDs
    /\ sender = BatchOf(batchID).committer
    /\ Withdraw(batchID)
    /\ UNCHANGED <<arrived, rollupVars, subtreeVars>>

WithdrawStake(sender, batchID) ==
    /\ batchID \in LiveIDs
    /\ sender = BatchOf(batchID).committer
    /\ blockNumber > BatchOf(batchID).finaliseOn
    /\ Withdraw(batchID)
    /\ UNCHANGED <<arrived, rollupVars, subtreeVars>>

(***************************************************************************)
(* The depositFor() call whose deposit completes a subtree: insertAndMerge *)
(* enqueues its root.  The calls before it change nothing that a batch     *)
(* operation reads; module Hubble has them all and implements this one.    *)
(***************************************************************************)
SubtreeReady(subtreeRoot) ==
    /\ subtreeRoot \notin arrived
    /\ arrived' = arrived \union {subtreeRoot}
    /\ Enqueue(subtreeRoot)
    /\ UNCHANGED <<rollupVars, stakeVars>>

MineBlock ==
    /\ blockNumber < MaxBlock
    /\ blockNumber' = blockNumber + 1
    /\ UNCHANGED <<batches, invalidBatchMarker, arrived, stakeVars, subtreeVars>>

(* The paths that a dispute may give.  A tree of k leaves has at most 2k   *)
(* positions, and a larger path selects the leaf and the neighbour of one  *)
(* in this range.                                                          *)
Paths == UNION {0 .. 2 * Len(payload) : payload \in Payloads}

Submit ==
    \E sender \in Accounts :
        \/ \E payload \in Payloads : SubmitTransfer(sender, payload)
        \/ \E payload \in Payloads : SubmitCreate2Transfer(sender, payload)
        \/ \E payload \in Payloads : SubmitMassMigration(sender, payload)
        \/ SubmitDeposits(sender)

Dispute ==
    \E batchID \in BatchIDs, n \in 0 .. MaxBatches :
        \/ \E path \in Paths :
              \/ DisputeTransitionTransfer(batchID, path, n)
              \/ DisputeTransitionMassMigration(batchID, path, n)
              \/ DisputeSignatureTransfer(batchID, path, n)
              \/ DisputeSignatureMassMigration(batchID, path, n)
        \/ \E reader \in Readers : DisputeTransitionAcross(reader, batchID, n)

(* The calls to Rollup, and time.                                          *)
RollupNext ==
    \/ Submit
    \/ Dispute
    \/ \E n \in 0 .. MaxBatches : SlashAndRollback(n)
    \/ \E sender \in Accounts, batchID \in BatchIDs :
          WithdrawStake(sender, batchID)
    \/ MineBlock

Next ==
    \/ RollupNext
    \/ \E subtreeRoot \in Subtrees : SubtreeReady(subtreeRoot)

Spec == Init /\ [][Next]_vars

(***************************************************************************)
(* Anyone may send slashAndRollback() while a rollback is pending, and the *)
(* call removes at least one batch when it is given more than minGasLeft.  *)
(***************************************************************************)
Fairness == WF_vars(\E n \in 1 .. MaxBatches : SlashAndRollback(n))
FairSpec == Spec /\ Fairness
=============================================================================
