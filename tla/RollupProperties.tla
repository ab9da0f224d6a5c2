-------------------------- MODULE RollupProperties --------------------------
(***************************************************************************)
(* What makes module Rollup correct.                                       *)
(***************************************************************************)
EXTENDS Rollup

(* The batches nobody has condemned yet: those below the marker of a       *)
(* rollback in progress, and all of them when there is none.               *)
Accepted == IF invalidBatchMarker = 0 THEN NumBatches ELSE invalidBatchMarker

IsFinal(batchID) == blockNumber >= BatchOf(batchID).finaliseOn

(* A commitment does what its coordinator claims.                          *)
IsGood(previous, target) ==
    /\ target.txs = "Ok"
    /\ target.stateRoot = ProcessTxs[previous.stateRoot]
    /\ target.signed

BatchesTypeOK ==
    /\ batches \in Seq(Batch)
    /\ invalidBatchMarker \in Nat
    /\ blockNumber \in Nat
    /\ \A batchID \in LiveIDs :
          Len(BatchOf(batchID).commitments) \in 1 .. MaxCommitments

SubtreesTypeOK ==
    /\ arrived \subseteq Subtrees
    /\ OnlyHolds(arrived)

(* Every variable has its type: no slash or withdrawal pays out more ether *)
(* than the contract holds, and only subtrees that arrived are ever queued *)
(* or handed to a batch.                                                   *)
TypeOK == BatchesTypeOK /\ StakesTypeOK /\ SubtreesTypeOK

(* A pending rollback always ends at a batch that still stands and is not  *)
(* genesis, so the loop of slashAndRollback() terminates and its batchID   *)
(* never runs below zero, however often it paused and whatever was         *)
(* submitted or disputed in between.                                       *)
MarkerStands ==
    /\ 1 <= NumBatches /\ NumBatches <= MaxBatches
    /\ invalidBatchMarker # 0 => invalidBatchMarker < NumBatches

(* Batches become final in the order of their ids, and genesis always is:  *)
(* no final batch lies above one that may still be disputed.               *)
FinalInOrder ==
    /\ BatchOf(0).finaliseOn = 0
    /\ \A a, b \in LiveIDs :
          a < b => BatchOf(a).finaliseOn <= BatchOf(b).finaliseOn
    /\ \A b \in LiveIDs : BatchOf(b).finaliseOn <= blockNumber + TimeToFinalise

(* A batch that may still be disputed has its whole stake in the contract, *)
(* and no stake is left behind under an id that a rollback freed.          *)
StakesMatchBatches ==
    /\ \A batchID \in BatchIDs :
          stakes[batchID] # 0 => batchID \in LiveIDs \ {0}
    /\ \A batchID \in LiveIDs \ {0} :
          blockNumber <= BatchOf(batchID).finaliseOn
             => stakes[batchID] = GovStakeAmount

(* A deposit subtree that became ready is in exactly one place: once in    *)
(* the queue, or in one standing batch.  A rollback, however it pauses,    *)
(* neither loses a deposit nor lets it enter the state twice.              *)
SubtreesConserved ==
    /\ HoldsEachOnce(arrived)
    /\ \A b \in BatchIDs \ LiveIDs : submittedSubtree[b] = NoSubtree

(* The deposit manager and the batch list agree: exactly the standing      *)
(* deposit batches hold a subtree.                                         *)
HoldersAreDepositBatches ==
    \A batchID \in BatchIDs :
        submittedSubtree[batchID] # NoSubtree <=>
            /\ batchID \in LiveIDs
            /\ LastCommitment(BatchOf(batchID)).kind = "Deposit"

(* The commitment that the i-th of a batch builds on.                      *)
Predecessor(batchID, i) ==
    IF i = 1 THEN LastCommitment(BatchOf(batchID - 1))
             ELSE BatchOf(batchID).commitments[i - 1]

IsFaulty(batchID) ==
    \E i \in DOMAIN BatchOf(batchID).commitments :
        LET target == BatchOf(batchID).commitments[i]
        IN  HasBody(target) /\ ~IsGood(Predecessor(batchID, i), target)

(* The bytes of a commitment fail when they are read as the other shape.   *)
IsMisread(batchID) ==
    \E i \in DOMAIN BatchOf(batchID).commitments :
        BatchOf(batchID).commitments[i].misread # {}

(* The commitments fill their Merkle tree, so that the path after the last *)
(* one selects the first again.                                            *)
FillsTree(batchID) ==
    LET count == Len(BatchOf(batchID).commitments)
    IN  count = TreeSize(count)

(* A dispute of a batch by proofs that are as long as their trees are      *)
(* high: those that the tests and the client make.                         *)
DisputedAtLeaves(batchID) ==
    LET removed == NumBatches - NumBatches'
    IN  \E reader \in Readers, path \in Paths :
            \/ DisputeTransition(reader, batchID, path, removed)
            \/ DisputeSignature(reader, batchID, path, removed)

(***************************************************************************)
(* As long as proofs have the length of their tree, a dispute succeeds     *)
(* only against a batch with a faulty commitment relative to the one it    *)
(* really builds on, whatever predecessor the dispute names, but for two   *)
(* kinds of batch: one that can be misread and one that fills its tree.    *)
(* So no deposit batch and no honest neighbour of a faulty batch is        *)
(* condemned by them; nothing but the length that is left unchecked        *)
(* (MerkleTree.sol:12) gives a further way, DisputeTransitionAcross.       *)
(***************************************************************************)
CondemnedForCause ==
    [][\A batchID \in BatchIDs :
          Accepted' = batchID /\ batchID < Accepted /\ DisputedAtLeaves(batchID)
             => IsFaulty(batchID) \/ IsMisread(batchID) \/ FillsTree(batchID)]_vars

(* "Good state transition should not rollback" (test/rollup.test.ts:131):  *)
(* when no batch can be misread, one without a fault is never the one a    *)
(* rollback begins at, whatever proofs a dispute gives.                    *)
GoodBatchesStand ==
    [][Accepted' < Accepted =>
          IsFaulty(Accepted') \/ IsMisread(Accepted')]_vars

(* "slashAndRollback slashes all the coordinator's who have built on top   *)
(* of the invalid batch" (Rollup.sol:143): a batch that a rollback removes *)
(* pays its stake.                                                         *)
RemovedBatchesAreSlashed ==
    [][\A batchID \in LiveIDs :
          batchID >= NumBatches' => stakes[batchID] # 0]_vars

(***************************************************************************)
(* A rollback that has begun completes, if anyone keeps calling            *)
(* slashAndRollback() and the coordinator does not submit new batches on   *)
(* top of the condemned ones for ever.                                     *)
(***************************************************************************)
RollbackCompletes ==
    <>[][~Submit]_vars => (invalidBatchMarker # 0 ~> invalidBatchMarker = 0)

(***************************************************************************)
(* The inductive invariant, by the part of the state it speaks of.         *)
(***************************************************************************)
ChainInv == BatchesTypeOK /\ MarkerStands /\ FinalInOrder
StakeInv == StakesTypeOK /\ StakesMatchBatches /\ EscrowIsTotalStaked
SubtreeInv == SubtreesTypeOK /\ SubtreesConserved /\ HoldersAreDepositBatches
IInv == ChainInv /\ StakeInv /\ SubtreeInv

(* The rollup keeps the promise of Ledger: what is final is never removed  *)
(* or altered, and only a tail of the accepted batches is ever cut off.    *)
AcceptedBatches == SubSeq(batches, 1, Accepted)
FinalPositions == {i \in 1 .. Accepted : IsFinal(i - 1)}
Promise == INSTANCE Ledger WITH ledger <- AcceptedBatches,
                                final <- FinalPositions
ImplementsLedger == Promise!LedgerSpec
=============================================================================
