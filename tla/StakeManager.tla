---------------------------- MODULE StakeManager ----------------------------
(***************************************************************************)
(* contracts/StakeManager.sol: the stake each batch carries and the ether  *)
(* the contract holds.  Rollup inherits from StakeManager, so its handlers *)
(* conjoin these operators; none of them is an action by itself.           *)
(***************************************************************************)
EXTENDS Types, FiniteSets

CONSTANT GovStakeAmount    \* govStakeAmount, set once by the constructor

ASSUME GovStakeAmountAssumption == GovStakeAmount \in Nat \ {0}

VARIABLES
    stakes,    \* stakes[batchID]: 0 or GovStakeAmount
    escrow     \* the ether the rollup contract holds

stakeVars == <<stakes, escrow>>

StakeInit ==
    /\ stakes = [batchID \in BatchIDs |-> 0]
    /\ escrow = 0

Staked(ids) == {batchID \in ids : stakes[batchID] # 0}

(* Every entry is 0 or GovStakeAmount, so a sum of stakes is a count.      *)
TotalStaked(ids) == GovStakeAmount * Cardinality(Staked(ids))

(* stake(): the call carries exactly GovStakeAmount of ether.              *)
Stake(batchID) ==
    /\ stakes' = [stakes EXCEPT ![batchID] = GovStakeAmount]
    /\ escrow' = escrow + GovStakeAmount

(* The batches a call that removes n batches from the top down slashes.    *)
SlashedIDs(initialBatchID, n) == initialBatchID - n + 1 .. initialBatchID

(* Slip: the burnt third is computed by itself, and rounded down too.      *)
RewardAndBurnRounded(initialBatchID, totalSlashings) ==
    LET slashed == SlashedIDs(initialBatchID, totalSlashings)
        totalAmount == TotalStaked(slashed)
    IN  /\ stakes' = [batchID \in BatchIDs |->
                        IF batchID \in slashed THEN 0 ELSE stakes[batchID]]
        /\ escrow' = escrow - (totalAmount * 2) \div 3 - totalAmount \div 3

(* rewardAndBurn(): two thirds of the slashed ether, rounded down, go to   *)
(* the sender of the call and the rest to address 0.                       *)
RewardAndBurn(initialBatchID, totalSlashings) ==
    LET slashed == SlashedIDs(initialBatchID, totalSlashings)
        totalAmount == TotalStaked(slashed)
        reward == (totalAmount * 2) \div 3
        burn == totalAmount - reward
    IN  /\ stakes' = [batchID \in BatchIDs |->
                        IF batchID \in slashed THEN 0 ELSE stakes[batchID]]
        /\ escrow' = escrow - reward - burn

(* Slip: the entry is not deleted.                                         *)
WithdrawAgain(batchID) ==
    /\ stakes[batchID] # 0
    /\ UNCHANGED stakes
    /\ escrow' = escrow - stakes[batchID]

(* withdraw(): the staker gets the whole stake back, once.                 *)
Withdraw(batchID) ==
    /\ stakes[batchID] # 0
    /\ stakes' = [stakes EXCEPT ![batchID] = 0]
    /\ escrow' = escrow - stakes[batchID]
-----------------------------------------------------------------------------
StakesTypeOK ==
    /\ stakes \in [BatchIDs -> {0, GovStakeAmount}]
    /\ escrow \in Nat

(* The contract holds the sum of the stakes to the last wei: the rounding  *)
(* of the reward, partial rollbacks and withdrawals leave nothing over and *)
(* nothing short.                                                          *)
EscrowIsTotalStaked == escrow = TotalStaked(BatchIDs)
=============================================================================
