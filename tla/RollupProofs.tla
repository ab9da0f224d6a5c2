---------------------------- MODULE RollupProofs ----------------------------
(***************************************************************************)
(* Machine-checked proofs of the safety properties of RollupProperties,    *)
(* for every value of the constants.  First the two parts that the         *)
(* handlers of Rollup call: each operation of StakeManager keeps the ether *)
(* of the contract equal to the sum of the stakes, for any stake amount    *)
(* and any number of batches; each of SubtreeQueue keeps every subtree in  *)
(* exactly one place.  Last what a rollback may do: a dispute that is won  *)
(* has found a fault, but for the batches that can be misread or that fill *)
(* their Merkle tree; and what of the chain stays, for the rollup          *)
(* implements module Ledger.                                               *)
(***************************************************************************)
EXTENDS RollupProperties, FiniteSetTheorems, SequenceTheorems, TLAPS

LEMMA Distribute ==
    ASSUME NEW g \in Nat, NEW a \in Nat, NEW b \in Nat
    PROVE  g * (a + b) = g * a + g * b /\ g * a \in Nat
OBVIOUS

(* The staked batches are finitely many.                                   *)
LEMMA StakedFinite ==
    ASSUME NEW ids \in SUBSET BatchIDs
    PROVE  /\ IsFiniteSet(Staked(ids))
           /\ Cardinality(Staked(ids)) \in Nat
           /\ TotalStaked(ids) = GovStakeAmount * Cardinality(Staked(ids))
           /\ TotalStaked(ids) \in Nat
<1>1. IsFiniteSet(BatchIDs)
  BY MaxBatchesAssumption, FS_Interval DEF BatchIDs
<1>2. Staked(ids) \in SUBSET BatchIDs
  BY DEF Staked
<1>3. IsFiniteSet(Staked(ids))
  BY <1>1, <1>2, FS_Subset
<1>4. Cardinality(Staked(ids)) \in Nat
  BY <1>3, FS_CardinalityType
<1>5. GovStakeAmount * Cardinality(Staked(ids)) \in Nat
  BY <1>4, GovStakeAmountAssumption, Distribute
<1> QED
  BY <1>3, <1>4, <1>5 DEF TotalStaked

(* A stake taken for a free id is added to the escrow.                     *)
LEMMA StakePreserves ==
    ASSUME StakesTypeOK, EscrowIsTotalStaked,
           NEW batchID \in BatchIDs, stakes[batchID] = 0, Stake(batchID)
    PROVE  StakesTypeOK' /\ EscrowIsTotalStaked'
<1> DEFINE S == Staked(BatchIDs)
           T == {b \in BatchIDs : stakes'[b] # 0}
<1>1. stakes' = [stakes EXCEPT ![batchID] = GovStakeAmount]
      /\ escrow' = escrow + GovStakeAmount
  BY DEF Stake
<1>2. T = S \union {batchID} /\ batchID \notin S
  BY <1>1, GovStakeAmountAssumption DEF Staked, StakesTypeOK
<1>3. IsFiniteSet(S) /\ Cardinality(S) \in Nat
      /\ escrow = GovStakeAmount * Cardinality(S)
  BY StakedFinite DEF EscrowIsTotalStaked
<1> HIDE DEF S, T
<1>4. Cardinality(T) = Cardinality(S) + 1
  BY <1>2, <1>3, FS_AddElement
<1>5. escrow' = GovStakeAmount * Cardinality(T) /\ escrow' \in Nat
  <2>1. GovStakeAmount * (Cardinality(S) + 1)
          = GovStakeAmount * Cardinality(S) + GovStakeAmount * 1
        /\ GovStakeAmount * Cardinality(S) \in Nat
    BY <1>3, GovStakeAmountAssumption, Distribute
  <2>2. GovStakeAmount * 1 = GovStakeAmount
    BY GovStakeAmountAssumption
  <2> QED
    BY <1>1, <1>3, <1>4, <2>1, <2>2, GovStakeAmountAssumption
<1>6. stakes' \in [BatchIDs -> {0, GovStakeAmount}]
  BY <1>1 DEF StakesTypeOK
<1> QED
  BY <1>5, <1>6 DEF StakesTypeOK, EscrowIsTotalStaked, TotalStaked, Staked, T

(* What leaves the contract when the stakes of a set of ids are deleted    *)
(* and their sum is paid out.                                              *)
LEMMA PayOutPreserves ==
    ASSUME StakesTypeOK, EscrowIsTotalStaked, NEW ids \in SUBSET BatchIDs,
           stakes' = [b \in BatchIDs |-> IF b \in ids THEN 0 ELSE stakes[b]],
           escrow' = escrow - TotalStaked(ids)
    PROVE  StakesTypeOK' /\ EscrowIsTotalStaked'
<1> DEFINE S == Staked(BatchIDs)
           P == Staked(ids)
           T == {b \in BatchIDs : stakes'[b] # 0}
<1>1. P \subseteq S /\ T = S \ P
  BY DEF Staked, StakesTypeOK
<1>2. /\ IsFiniteSet(S) /\ Cardinality(S) \in Nat
      /\ IsFiniteSet(P) /\ Cardinality(P) \in Nat
      /\ escrow = GovStakeAmount * Cardinality(S)
      /\ TotalStaked(ids) = GovStakeAmount * Cardinality(P)
  BY StakedFinite DEF EscrowIsTotalStaked
<1> HIDE DEF S, P, T
<1>3. S \cap P = P
  BY <1>1
<1>4. Cardinality(T) = Cardinality(S) - Cardinality(P) /\ IsFiniteSet(T)
  <2>1. /\ IsFiniteSet(S \ P)
        /\ Cardinality(S \ P) = Cardinality(S) - Cardinality(S \cap P)
    BY <1>2, FS_Difference
  <2> QED
    BY <1>1, <1>3, <2>1
<1>5. Cardinality(T) \in Nat /\ Cardinality(S) = Cardinality(T) + Cardinality(P)
  BY <1>2, <1>4, FS_CardinalityType
<1>6. escrow' = GovStakeAmount * Cardinality(T) /\ escrow' \in Nat
  <2>1. GovStakeAmount * Cardinality(S)
          = GovStakeAmount * Cardinality(T) + GovStakeAmount * Cardinality(P)
        /\ GovStakeAmount * Cardinality(T) \in Nat
        /\ GovStakeAmount * Cardinality(P) \in Nat
    BY <1>2, <1>5, GovStakeAmountAssumption, Distribute
  <2> QED
    BY <1>2, <2>1
<1>7. stakes' \in [BatchIDs -> {0, GovStakeAmount}]
  BY DEF StakesTypeOK
<1> QED
  BY <1>6, <1>7 DEF StakesTypeOK, EscrowIsTotalStaked, TotalStaked, Staked, T

(* The reward and the burnt part add up to what was slashed, whatever the  *)
(* rounding of the two thirds.                                             *)
LEMMA RewardAndBurnPreserves ==
    ASSUME StakesTypeOK, EscrowIsTotalStaked, NEW top \in Int, NEW n \in Nat,
           SlashedIDs(top, n) \subseteq BatchIDs, RewardAndBurn(top, n)
    PROVE  StakesTypeOK' /\ EscrowIsTotalStaked'
<1> DEFINE total == TotalStaked(SlashedIDs(top, n))
           reward == (total * 2) \div 3
<1>1. /\ stakes' = [b \in BatchIDs |->
                     IF b \in SlashedIDs(top, n) THEN 0 ELSE stakes[b]]
      /\ escrow' = escrow - reward - (total - reward)
  BY DEF RewardAndBurn
<1>2. total \in Nat
  BY StakedFinite
<1>3. escrow \in Nat
  BY DEF StakesTypeOK
<1>4. escrow' = escrow - total
  <2>1. reward \in Int
    BY <1>2
  <2> HIDE DEF reward, total
  <2> QED
    BY <1>1, <1>2, <1>3, <2>1
<1> QED
  BY <1>1, <1>4, PayOutPreserves

(* A withdrawal pays out the one stake it deletes.                         *)
LEMMA WithdrawPreserves ==
    ASSUME StakesTypeOK, EscrowIsTotalStaked, NEW batchID \in BatchIDs,
           Withdraw(batchID)
    PROVE  StakesTypeOK' /\ EscrowIsTotalStaked'
<1>1. /\ stakes[batchID] # 0
      /\ stakes' = [stakes EXCEPT ![batchID] = 0]
      /\ escrow' = escrow - stakes[batchID]
  BY DEF Withdraw
<1>2. stakes' = [b \in BatchIDs |-> IF b \in {batchID} THEN 0 ELSE stakes[b]]
  BY <1>1 DEF StakesTypeOK
<1>3. Staked({batchID}) = {batchID}
  BY <1>1 DEF Staked
<1>4. TotalStaked({batchID}) = GovStakeAmount * 1
  BY <1>3, FS_Singleton DEF TotalStaked
<1>5. escrow' = escrow - TotalStaked({batchID})
  BY <1>1, <1>4, GovStakeAmountAssumption DEF StakesTypeOK
<1> QED
  BY <1>2, <1>5, PayOutPreserves
-----------------------------------------------------------------------------
(* Going down from the top, the batches that hold a subtree are met in the *)
(* order of their ranks 1, 2, ..., each at a rank of its own.              *)
LEMMA RankIsPosition ==
    ASSUME NEW H \in SUBSET BatchIDs
    PROVE  /\ Cardinality(H) \in Nat
           /\ \A b \in H : HolderRank(H, b) \in 1 .. Cardinality(H)
           /\ \A a, b \in H : HolderRank(H, a) = HolderRank(H, b) => a = b
           /\ \A k \in 1 .. Cardinality(H) : \E b \in H : HolderRank(H, b) = k
<1> DEFINE Up(b) == {c \in H : c >= b}
           rank == [b \in H |-> HolderRank(H, b)]
           n == Cardinality(H)
<1>1. IsFiniteSet(H) /\ n \in Nat
  <2>1. IsFiniteSet(BatchIDs)
    BY MaxBatchesAssumption, FS_Interval DEF BatchIDs
  <2> QED
    BY <2>1, FS_Subset, FS_CardinalityType
<1>2. \A b \in H : b \in Int
  BY MaxBatchesAssumption DEF BatchIDs
<1>3. \A b \in H : /\ HolderRank(H, b) = Cardinality(Up(b))
                   /\ Up(b) \in SUBSET H
                   /\ b \in Up(b)
  BY <1>2 DEF HolderRank
<1>4. \A a, b \in H : a < b => Up(b) \subseteq Up(a) /\ a \notin Up(b)
  BY <1>2
<1> HIDE DEF Up, n
<1>5. \A b \in H : /\ IsFiniteSet(Up(b))
                   /\ Cardinality(Up(b)) \in Nat
                   /\ Cardinality(Up(b)) <= n
                   /\ Cardinality(Up(b)) # 0
  <2> TAKE b \in H
  <2>1. IsFiniteSet(Up(b)) /\ Cardinality(Up(b)) <= n
    BY <1>1, <1>3, FS_Subset DEF n
  <2> QED
    BY <1>3, <2>1, FS_CardinalityType, FS_EmptySet
<1>6. \A b \in H : HolderRank(H, b) \in 1 .. n
  BY <1>1, <1>3, <1>5
<1>7. ASSUME NEW a \in H, NEW b \in H, a < b
      PROVE  HolderRank(H, a) # HolderRank(H, b)
  <2>1. Up(b) \in SUBSET Up(a) /\ Up(b) # Up(a)
    BY <1>3, <1>4, <1>7
  <2> QED
    BY <1>3, <1>5, <2>1, FS_Subset
<1>8. \A a, b \in H : HolderRank(H, a) = HolderRank(H, b) => a = b
  BY <1>2, <1>7
<1>9. rank \in Injection(H, 1 .. n)
  <2>1. rank \in [H -> 1 .. n]
    BY <1>6
  <2>2. \A a, b \in H : rank[a] = rank[b] => a = b
    BY <1>8
  <2> QED
    BY <2>1, <2>2 DEF Injection, IsInjective
<1>10. IsFiniteSet(1 .. n) /\ Cardinality(1 .. n) = n
  BY <1>1, FS_Interval
<1>11. rank \in Surjection(H, 1 .. n)
  BY <1>9, <1>10, FS_Injection DEF n
<1>12. \A k \in 1 .. n : \E b \in H : HolderRank(H, b) = k
  <2>1. \A k \in 1 .. n : \E b \in H : rank[b] = k
    BY <1>11 DEF Surjection
  <2> QED
    BY <2>1
<1> QED
  BY <1>1, <1>6, <1>8, <1>12 DEF n

(* The re-enqueued sequence lists the subtrees of the holders, and lists   *)
(* each once if no two holders share one.                                  *)
LEMMA ReenqueuedLists ==
    ASSUME NEW roots, submittedSubtree \in [BatchIDs -> roots \union {NoSubtree}],
           NEW H \in SUBSET BatchIDs,
           \A b \in H : submittedSubtree[b] # NoSubtree
    PROVE  /\ Reenqueued(H) \in Seq(roots)
           /\ Len(Reenqueued(H)) = Cardinality(H) /\ Cardinality(H) \in Nat
           /\ \A k \in 1 .. Len(Reenqueued(H)) :
                 \E b \in H : Reenqueued(H)[k] = submittedSubtree[b]
           /\ \A b \in H : \E k \in 1 .. Len(Reenqueued(H)) :
                 Reenqueued(H)[k] = submittedSubtree[b]
           /\ (\A a, b \in H : submittedSubtree[a] = submittedSubtree[b] => a = b)
                 => \A j, k \in 1 .. Len(Reenqueued(H)) :
                       Reenqueued(H)[j] = Reenqueued(H)[k] => j = k
<1> DEFINE n == Cardinality(H)
           at(k) == CHOOSE b \in H : HolderRank(H, b) = k
           r == Reenqueued(H)
<1>1. /\ n \in Nat
      /\ \A b \in H : HolderRank(H, b) \in 1 .. n
      /\ \A a, b \in H : HolderRank(H, a) = HolderRank(H, b) => a = b
      /\ \A k \in 1 .. n : \E b \in H : HolderRank(H, b) = k
  BY RankIsPosition
<1>2. \A k \in 1 .. n : at(k) \in H /\ HolderRank(H, at(k)) = k
  BY <1>1
<1>3. r = [k \in 1 .. n |-> submittedSubtree[at(k)]]
  BY DEF Reenqueued
<1> HIDE DEF n, at, r
<1>4. \A b \in H : submittedSubtree[b] \in roots
  OBVIOUS
<1>5. r \in Seq(roots) /\ Len(r) = n
  BY <1>1, <1>2, <1>3, <1>4
<1>6. \A b \in H : at(HolderRank(H, b)) = b
  BY <1>1, <1>2
<1>7. \A k \in 1 .. n : \E b \in H : r[k] = submittedSubtree[b]
  BY <1>2, <1>3
<1>8. \A b \in H : \E k \in 1 .. n : r[k] = submittedSubtree[b]
  BY <1>1, <1>3, <1>6
<1>9. ASSUME \A a, b \in H : submittedSubtree[a] = submittedSubtree[b] => a = b,
             NEW j \in 1 .. n, NEW k \in 1 .. n, r[j] = r[k]
      PROVE  j = k
  <2>1. at(j) = at(k)
    BY <1>2, <1>3, <1>9
  <2> QED
    BY <1>2, <2>1
<1> QED
  BY <1>1, <1>5, <1>7, <1>8, <1>9 DEF n, r

-----------------------------------------------------------------------------
(* A new root enters the queue.                                            *)
LEMMA EnqueuePreserves ==
    ASSUME NEW roots, OnlyHolds(roots), HoldsEachOnce(roots),
           NEW s, s \notin roots, s # NoSubtree, NoSubtree \notin roots,
           Enqueue(s)
    PROVE  OnlyHolds(roots \union {s})' /\ HoldsEachOnce(roots \union {s})'
<1>1. subtreeQueue' = Append(subtreeQueue, s)
      /\ submittedSubtree' = submittedSubtree
  BY DEF Enqueue
<1>2. subtreeQueue \in Seq(roots) /\ Len(subtreeQueue) \in Nat
  BY DEF OnlyHolds
<1>3. /\ Len(subtreeQueue') = Len(subtreeQueue) + 1
      /\ \A k \in 1 .. Len(subtreeQueue) : subtreeQueue'[k] = subtreeQueue[k]
      /\ subtreeQueue'[Len(subtreeQueue) + 1] = s
      /\ \A k \in 1 .. Len(subtreeQueue) : subtreeQueue[k] \in roots
      /\ subtreeQueue' \in Seq(roots \union {s})
  BY <1>1, <1>2
<1>4. \A b \in BatchIDs : submittedSubtree[b] \in roots \union {NoSubtree}
  BY DEF OnlyHolds
<1>5. OnlyHolds(roots \union {s})'
  BY <1>1, <1>3 DEF OnlyHolds
<1>6. \A r \in roots \union {s} :
         \/ \E k \in 1 .. Len(subtreeQueue') : subtreeQueue'[k] = r
         \/ \E b \in BatchIDs : submittedSubtree'[b] = r
  BY <1>1, <1>2, <1>3 DEF HoldsEachOnce
<1>7. \A j, k \in 1 .. Len(subtreeQueue') :
         subtreeQueue'[j] = subtreeQueue'[k] => j = k
  BY <1>2, <1>3 DEF HoldsEachOnce
<1>8. \A k \in 1 .. Len(subtreeQueue'), b \in BatchIDs :
         subtreeQueue'[k] # submittedSubtree'[b]
  BY <1>1, <1>2, <1>3, <1>4 DEF HoldsEachOnce
<1> QED
  BY <1>1, <1>5, <1>6, <1>7, <1>8 DEF HoldsEachOnce

(* The front of the queue goes to a batch that holds none.                 *)
LEMMA DequeuePreserves ==
    ASSUME NEW roots, OnlyHolds(roots), HoldsEachOnce(roots),
           NoSubtree \notin roots,
           NEW batchID \in BatchIDs, submittedSubtree[batchID] = NoSubtree,
           DequeueToSubmit(batchID)
    PROVE  /\ OnlyHolds(roots)' /\ HoldsEachOnce(roots)'
           /\ submittedSubtree'[batchID] # NoSubtree
           /\ \A b \in BatchIDs \ {batchID} :
                 submittedSubtree'[b] = submittedSubtree[b]
<1> DEFINE q == subtreeQueue
           sub == submittedSubtree
<1>1. /\ q # <<>> /\ q' = Tail(q)
      /\ sub' = [sub EXCEPT ![batchID] = Head(q)]
  BY DEF DequeueToSubmit
<1>2. q \in Seq(roots) /\ sub \in [BatchIDs -> roots \union {NoSubtree}]
  BY DEF OnlyHolds
<1>3. /\ Len(q) \in Nat /\ Len(q) > 0 /\ Len(q') = Len(q) - 1
      /\ q' \in Seq(roots)
      /\ Head(q) = q[1] /\ q[1] \in roots
      /\ \A k \in 1 .. Len(q') : k + 1 \in 1 .. Len(q) /\ q'[k] = q[k + 1]
  BY <1>1, <1>2
<1>4. /\ sub' \in [BatchIDs -> roots \union {NoSubtree}]
      /\ sub'[batchID] = q[1]
      /\ \A b \in BatchIDs \ {batchID} : sub'[b] = sub[b]
  BY <1>1, <1>2, <1>3
<1>5. /\ \A s \in roots : \/ \E k \in 1 .. Len(q) : q[k] = s
                          \/ \E b \in BatchIDs : sub[b] = s
      /\ \A j, k \in 1 .. Len(q) : q[j] = q[k] => j = k
      /\ \A a, b \in BatchIDs : sub[a] = sub[b] => a = b \/ sub[a] = NoSubtree
      /\ \A k \in 1 .. Len(q), b \in BatchIDs : q[k] # sub[b]
  BY DEF HoldsEachOnce
<1> HIDE DEF q, sub
<1>6. \A s \in roots : \/ \E k \in 1 .. Len(q') : q'[k] = s
                       \/ \E b \in BatchIDs : sub'[b] = s
  <2> TAKE s \in roots
  <2>1. CASE \E k \in 1 .. Len(q) : q[k] = s
    <3>1. PICK k \in 1 .. Len(q) : q[k] = s
      BY <2>1
    <3>2. CASE k = 1
      BY <1>4, <3>1, <3>2
    <3>3. CASE k # 1
      <4>1. k - 1 \in 1 .. Len(q') /\ (k - 1) + 1 = k
        BY <1>3, <3>3
      <4> QED
        BY <1>3, <3>1, <4>1
    <3> QED
      BY <3>2, <3>3
  <2>2. CASE \E b \in BatchIDs : sub[b] = s
    BY <1>4, <2>2 DEF sub
  <2> QED
    BY <1>5, <2>1, <2>2
<1>7. \A j, k \in 1 .. Len(q') : q'[j] = q'[k] => j = k
  <2> TAKE j, k \in 1 .. Len(q')
  <2>1. q[j + 1] = q[k + 1] => j + 1 = k + 1
    BY <1>3, <1>5
  <2> QED
    BY <1>3, <2>1
<1>8. \A a, b \in BatchIDs : sub'[a] = sub'[b] => a = b \/ sub'[a] = NoSubtree
  BY <1>3, <1>4, <1>5
<1>9. \A k \in 1 .. Len(q'), b \in BatchIDs : q'[k] # sub'[b]
  <2> TAKE k \in 1 .. Len(q'), b \in BatchIDs
  <2>1. k + 1 \in 1 .. Len(q) /\ q'[k] = q[k + 1] /\ 1 \in 1 .. Len(q) /\ k + 1 # 1
    BY <1>3
  <2>2. q[k + 1] # q[1] /\ q[k + 1] # sub[b]
    BY <1>5, <2>1
  <2> QED
    BY <1>4, <2>1, <2>2
<1> QED
  BY <1>3, <1>4, <1>6, <1>7, <1>8, <1>9
  DEF OnlyHolds, HoldsEachOnce, q, sub

(* A rollback moves the subtrees of the batches it removes to the back of  *)
(* the queue.                                                              *)
LEMMA ReenqueuePreserves ==
    ASSUME NEW roots, OnlyHolds(roots), HoldsEachOnce(roots),
           NoSubtree \notin roots,
           NEW first \in Int, NEW top \in Int, first .. top \subseteq BatchIDs,
           TryReenqueueDown(first, top)
    PROVE  /\ OnlyHolds(roots)' /\ HoldsEachOnce(roots)'
           /\ submittedSubtree' =
                 [b \in BatchIDs |-> IF b \in first .. top
                                     THEN NoSubtree ELSE submittedSubtree[b]]
<1> DEFINE q == subtreeQueue
           sub == submittedSubtree
           H == Holders(first, top)
           r == Reenqueued(H)
<1>1. /\ q' = q \o r
      /\ sub' = [b \in BatchIDs |-> IF b \in first .. top
                                    THEN NoSubtree ELSE sub[b]]
  BY DEF TryReenqueueDown
<1>2. q \in Seq(roots) /\ sub \in [BatchIDs -> roots \union {NoSubtree}]
  BY DEF OnlyHolds
<1>3. /\ \A s \in roots : \/ \E k \in 1 .. Len(q) : q[k] = s
                          \/ \E b \in BatchIDs : sub[b] = s
      /\ \A j, k \in 1 .. Len(q) : q[j] = q[k] => j = k
      /\ \A a, b \in BatchIDs : sub[a] = sub[b] => a = b \/ sub[a] = NoSubtree
      /\ \A k \in 1 .. Len(q), b \in BatchIDs : q[k] # sub[b]
  BY DEF HoldsEachOnce
<1>4. H \in SUBSET BatchIDs /\ \A b \in BatchIDs :
         b \in H <=> b \in first .. top /\ sub[b] # NoSubtree
  BY DEF Holders
<1>5. /\ r \in Seq(roots) /\ Len(r) \in Nat
      /\ \A k \in 1 .. Len(r) : \E b \in H : r[k] = sub[b]
      /\ \A b \in H : \E k \in 1 .. Len(r) : r[k] = sub[b]
      /\ \A j, k \in 1 .. Len(r) : r[j] = r[k] => j = k
  <2> HIDE DEF H
  <2>1. \A a, b \in H : sub[a] = sub[b] => a = b
    BY <1>3, <1>4
  <2> QED
    BY <1>2, <1>4, <2>1, ReenqueuedLists
<1> HIDE DEF q, sub, H, r
<1>6. /\ q' \in Seq(roots) /\ Len(q) \in Nat
      /\ Len(q') = Len(q) + Len(r)
      /\ \A k \in 1 .. Len(q) : q'[k] = q[k]
      /\ \A k \in 1 .. Len(q') : k > Len(q) => q'[k] = r[k - Len(q)]
  BY <1>1, <1>2, <1>5, ConcatProperties
<1>7. sub' \in [BatchIDs -> roots \union {NoSubtree}]
  BY <1>1, <1>2
<1>8. \A s \in roots : \/ \E k \in 1 .. Len(q') : q'[k] = s
                       \/ \E b \in BatchIDs : sub'[b] = s
  <2> TAKE s \in roots
  <2>1. CASE \E k \in 1 .. Len(q) : q[k] = s
    BY <1>5, <1>6, <2>1
  <2>2. CASE \E b \in BatchIDs : sub[b] = s
    <3>1. PICK b \in BatchIDs : sub[b] = s
      BY <2>2
    <3>2. CASE b \in first .. top
      <4>1. PICK k \in 1 .. Len(r) : r[k] = s
        BY <1>4, <1>5, <3>1, <3>2
      <4>2. /\ Len(q) + k \in 1 .. Len(q') /\ Len(q) + k > Len(q)
            /\ (Len(q) + k) - Len(q) = k
        BY <1>5, <1>6
      <4> QED
        BY <1>6, <4>1, <4>2
    <3>3. CASE b \notin first .. top
      BY <1>1, <3>1, <3>3
    <3> QED
      BY <3>2, <3>3
  <2> QED
    BY <1>3, <2>1, <2>2
<1>9. \A k \in 1 .. Len(q') :
         \/ k \in 1 .. Len(q) /\ q'[k] = q[k]
         \/ /\ k > Len(q) /\ k - Len(q) \in 1 .. Len(r)
            /\ q'[k] = r[k - Len(q)]
  BY <1>5, <1>6
<1>10. \A i \in 1 .. Len(q), k \in 1 .. Len(r) : q[i] # r[k]
  BY <1>3, <1>4, <1>5
<1>11. \A j, k \in 1 .. Len(q') : q'[j] = q'[k] => j = k
  <2> SUFFICES ASSUME NEW j \in 1 .. Len(q'), NEW k \in 1 .. Len(q'),
                      q'[j] = q'[k]
               PROVE  j = k
    OBVIOUS
  <2>1. CASE j \in 1 .. Len(q) /\ k \in 1 .. Len(q)
    BY <1>3, <1>6, <2>1
  <2>2. CASE j > Len(q) /\ k > Len(q)
    <3>1. j - Len(q) = k - Len(q)
      <4>1. /\ j - Len(q) \in 1 .. Len(r) /\ q'[j] = r[j - Len(q)]
            /\ k - Len(q) \in 1 .. Len(r) /\ q'[k] = r[k - Len(q)]
        BY <1>6, <1>9, <2>2
      <4> QED
        BY <1>5, <4>1
    <3> QED
      BY <1>6, <3>1
  <2> QED
    BY <1>6, <1>9, <1>10, <2>1, <2>2
<1>12. \A k \in 1 .. Len(q'), b \in BatchIDs : q'[k] # sub'[b]
  <2> SUFFICES ASSUME NEW k \in 1 .. Len(q'), NEW b \in BatchIDs,
                      b \notin first .. top
               PROVE  q'[k] # sub[b]
    <3>1. \A k \in 1 .. Len(q') : q'[k] # NoSubtree
      BY <1>6
    <3> QED
      BY <1>1, <3>1
  <2>1. CASE k \in 1 .. Len(q)
    BY <1>3, <1>6, <2>1
  <2>2. CASE k > Len(q)
    <3>1. PICK a \in H : q'[k] = sub[a]
      <4>1. k - Len(q) \in 1 .. Len(r) /\ q'[k] = r[k - Len(q)]
        BY <1>6, <1>9, <2>2
      <4> QED
        BY <1>5, <4>1
    <3>2. a \in BatchIDs /\ a \in first .. top /\ sub[a] # NoSubtree
      BY <1>4
    <3> QED
      BY <1>3, <3>1, <3>2
  <2> QED
    BY <1>9, <2>1, <2>2
<1>13. \A a, b \in BatchIDs : sub'[a] = sub'[b] => a = b \/ sub'[a] = NoSubtree
  BY <1>1, <1>3
<1> QED
  BY <1>1, <1>6, <1>7, <1>8, <1>11, <1>12, <1>13
  DEF OnlyHolds, HoldsEachOnce, q, sub
-----------------------------------------------------------------------------
(* A committed payload is a list of commitments of the one kind, as long   *)
(* as the payload.                                                         *)
LEMMA CommittedType ==
    ASSUME NEW payload \in Payloads, NEW kind \in Usage
    PROVE  /\ Committed(payload, kind) \in Seq(Commitment)
           /\ Len(Committed(payload, kind)) \in 1 .. MaxCommitments
           /\ \A i \in DOMAIN Committed(payload, kind) :
                 Committed(payload, kind)[i].kind = kind
<1> DEFINE new(i) == [kind |-> kind, stateRoot |-> payload[i].stateRoot,
                      txs |-> payload[i].txs, signed |-> payload[i].signed,
                      misread |-> payload[i].misread \ {kind},
                      migration |-> payload[i].migration]
           c == Committed(payload, kind)
<1>1. payload \in Seq(Payload) /\ Len(payload) \in 1 .. MaxCommitments
  BY PayloadsAssumption
<1>2. Len(payload) \in Nat /\ Len(payload) > 0
  <2>1. PICK count \in 1 .. MaxCommitments : count = Len(payload)
    BY <1>1
  <2>2. count \in Nat /\ count > 0
    BY DEF MaxCommitments
  <2> QED
    BY <2>1, <2>2
<1>3. \A i \in 1 .. Len(payload) : new(i) \in Commitment
  <2> TAKE i \in 1 .. Len(payload)
  <2>1. payload[i] \in Payload
    BY <1>1
  <2> QED
    BY <2>1 DEF Payload, Commitment, TxsOutcome
<1>4. c = [i \in 1 .. Len(payload) |-> new(i)]
  BY DEF Committed
<1> HIDE DEF new, c
<1>5. c \in Seq(Commitment) /\ Len(c) = Len(payload)
  BY <1>2, <1>3, <1>4
<1>6. \A i \in 1 .. Len(payload) : new(i).kind = kind
  BY DEF new
<1> QED
  BY <1>1, <1>2, <1>4, <1>5, <1>6 DEF c

-----------------------------------------------------------------------------
(* The initial state: genesis alone.                                       *)
LEMMA ChainInit == Init => ChainInv
<1> SUFFICES ASSUME Init PROVE ChainInv
  OBVIOUS
<1>1. /\ batches = <<GenesisBatch>> /\ invalidBatchMarker = 0
      /\ blockNumber = 0
  BY DEF Init
<1>2. EmptyCommitment("Genesis", GenesisRoot) \in Commitment
  BY RootsAssumption, MigrationsAssumption DEF EmptyCommitment, Commitment, Usage, TxsOutcome
<1>3. GenesisBatch \in Batch
  BY <1>1, <1>2, AccountsAssumption DEF GenesisBatch, Batch, Usage
<1>4. /\ GenesisBatch.finaliseOn = 0
      /\ Len(GenesisBatch.commitments) \in 1 .. MaxCommitments
  BY <1>1 DEF GenesisBatch, MaxCommitments
<1>5. Len(batches) = 1 /\ batches[1] = GenesisBatch /\ batches \in Seq(Batch)
  BY <1>1, <1>3
<1>6. BatchesTypeOK
  BY <1>1, <1>4, <1>5
  DEF BatchesTypeOK, LiveIDs, TopBatchID, NumBatches, BatchOf
<1>7. MarkerStands
  BY <1>1, <1>5, MaxBatchesAssumption DEF MarkerStands, NumBatches
<1>8. FinalInOrder
  BY <1>1, <1>4, <1>5, TimeAssumption
  DEF FinalInOrder, LiveIDs, TopBatchID, NumBatches, BatchOf
<1> QED
  BY <1>6, <1>7, <1>8 DEF ChainInv

(* FinalInOrder speaks of ids, which count from 0; a sequence counts from 1. *)
LEMMA FinalByPosition ==
    ASSUME ChainInv
    PROVE  /\ batches[1].finaliseOn = 0
           /\ \A i, j \in 1 .. Len(batches) :
                 i < j => batches[i].finaliseOn <= batches[j].finaliseOn
           /\ \A i \in 1 .. Len(batches) :
                 batches[i].finaliseOn <= blockNumber + TimeToFinalise
<1>1. /\ FinalInOrder
      /\ Len(batches) \in Nat
  BY DEF ChainInv, BatchesTypeOK
<1>2. /\ BatchOf(0) = batches[1]
      /\ \A i \in 1 .. Len(batches) : i - 1 \in LiveIDs /\ BatchOf(i - 1) = batches[i]
  BY <1>1 DEF LiveIDs, TopBatchID, NumBatches, BatchOf
<1>3. ASSUME NEW i \in 1 .. Len(batches), NEW j \in 1 .. Len(batches), i < j
      PROVE  batches[i].finaliseOn <= batches[j].finaliseOn
  <2>1. BatchOf(i - 1).finaliseOn <= BatchOf(j - 1).finaliseOn
    <3> HIDE DEF BatchOf
    <3> QED BY <1>1, <1>2, <1>3 DEF FinalInOrder
  <2> QED
    BY <1>2, <2>1
<1> QED
  BY <1>1, <1>2, <1>3 DEF FinalInOrder

(* A submission appends one batch, which is the last to become final.      *)
LEMMA ChainSubmit ==
    ASSUME ChainInv, NEW sender \in Accounts,
           NEW commitments \in Seq(Commitment), Len(commitments) \in 1 .. MaxCommitments,
           NEW batchType \in Usage,
           SubmitBatch(sender, commitments, batchType)
    PROVE  ChainInv'
<1> DEFINE b == [batchType |-> batchType, commitments |-> commitments,
                 committer |-> sender,
                 finaliseOn |-> blockNumber + TimeToFinalise]
<1>1. /\ batches' = Append(batches, b)
      /\ NumBatches < MaxBatches
      /\ invalidBatchMarker' = invalidBatchMarker
      /\ blockNumber' = blockNumber
  BY DEF SubmitBatch
<1>2. batches \in Seq(Batch) /\ blockNumber \in Nat /\ invalidBatchMarker \in Nat
  BY DEF ChainInv, BatchesTypeOK
<1>3. b \in Batch /\ b.finaliseOn = blockNumber + TimeToFinalise
                  /\ Len(b.commitments) \in 1 .. MaxCommitments
  BY <1>2, TimeAssumption DEF Batch
<1> HIDE DEF b
<1>4. /\ batches' \in Seq(Batch)
      /\ Len(batches') = Len(batches) + 1
      /\ Len(batches) \in Nat
      /\ \A i \in 1 .. Len(batches) : batches'[i] = batches[i]
      /\ batches'[Len(batches) + 1] = b
  BY <1>1, <1>2, <1>3
<1>5. BatchesTypeOK'
  <2>1. \A id \in LiveIDs : Len(batches[id + 1].commitments) \in 1 .. MaxCommitments
    BY DEF ChainInv, BatchesTypeOK, BatchOf
  <2>2. /\ LiveIDs = 0 .. Len(batches) - 1
        /\ LiveIDs' = 0 .. Len(batches') - 1
    BY DEF LiveIDs, TopBatchID, NumBatches
  <2>3. ASSUME NEW id \in LiveIDs'
        PROVE  Len(batches'[id + 1].commitments) \in 1 .. MaxCommitments
    <3>1. CASE id = Len(batches)
      BY <1>3, <1>4, <3>1
    <3>2. CASE id # Len(batches)
      <4>1. id \in LiveIDs /\ batches'[id + 1] = batches[id + 1]
        BY <1>4, <2>2, <3>2
      <4> QED
        BY <2>1, <4>1
    <3> QED
      BY <3>1, <3>2
  <2> QED
    BY <1>1, <1>2, <1>4, <2>3 DEF BatchesTypeOK, BatchOf
<1>6. MarkerStands'
  BY <1>1, <1>2, <1>4, MaxBatchesAssumption DEF ChainInv, MarkerStands, NumBatches
<1>7. FinalInOrder'
  <2>1. /\ \A i \in 1 .. Len(batches) : batches[i].finaliseOn \in Nat
        /\ Len(batches) >= 1
    <3>1. \A i \in 1 .. Len(batches) : batches[i] \in Batch
      BY <1>2
    <3> QED
      BY <3>1 DEF ChainInv, MarkerStands, NumBatches, Batch
  <2>2. /\ batches[1].finaliseOn = 0
        /\ \A i, j \in 1 .. Len(batches) :
              i < j => batches[i].finaliseOn <= batches[j].finaliseOn
        /\ \A i \in 1 .. Len(batches) :
              batches[i].finaliseOn <= blockNumber + TimeToFinalise
    BY FinalByPosition
  <2>3. /\ batches'[1].finaliseOn = 0
        /\ \A i, j \in 1 .. Len(batches') :
              i < j => batches'[i].finaliseOn <= batches'[j].finaliseOn
        /\ \A i \in 1 .. Len(batches') :
              batches'[i].finaliseOn <= blockNumber' + TimeToFinalise
    <3>1. /\ Len(batches') = Len(batches) + 1 /\ Len(batches) \in Nat
          /\ \A i \in 1 .. Len(batches) : batches'[i] = batches[i]
          /\ batches'[Len(batches) + 1].finaliseOn = blockNumber + TimeToFinalise
          /\ blockNumber' = blockNumber /\ blockNumber + TimeToFinalise \in Nat
      BY <1>1, <1>2, <1>3, <1>4, TimeAssumption
    <3>2. \A i \in 1 .. Len(batches') : i \in 1 .. Len(batches) \/ i = Len(batches) + 1
      BY <3>1
    <3>3. batches'[1].finaliseOn = 0
      BY <2>1, <2>2, <3>1
    <3>4. \A i \in 1 .. Len(batches') :
             batches'[i].finaliseOn <= blockNumber' + TimeToFinalise
      BY <2>2, <3>1, <3>2
    <3>5. ASSUME NEW i \in 1 .. Len(batches'), NEW j \in 1 .. Len(batches'), i < j
          PROVE  batches'[i].finaliseOn <= batches'[j].finaliseOn
      <4>1. i \in 1 .. Len(batches)
        BY <3>1, <3>5
      <4> QED
        BY <2>2, <3>1, <3>2, <3>5, <4>1
    <3> QED
      BY <3>3, <3>4, <3>5
  <2>4. \A b1 \in 0 .. Len(batches') - 1 : b1 + 1 \in 1 .. Len(batches')
    BY <1>4
  <2> QED
    BY <2>3, <2>4 DEF FinalInOrder, LiveIDs, TopBatchID, NumBatches, BatchOf
<1> QED
  BY <1>5, <1>6, <1>7 DEF ChainInv

(* A rollback cuts a tail that ends above genesis.                         *)
LEMMA ChainRollback ==
    ASSUME ChainInv, NEW marker \in 1 .. TopBatchID, NEW n \in Nat,
           RollbackTo(marker, n)
    PROVE  ChainInv'
<1>1. /\ n <= TopBatchID - marker + 1
      /\ batches' = SubSeq(batches, 1, NumBatches - n)
      /\ invalidBatchMarker' = IF n = TopBatchID - marker + 1 THEN 0 ELSE marker
      /\ blockNumber' = blockNumber
  BY DEF RollbackTo
<1>2. batches \in Seq(Batch) /\ blockNumber \in Nat /\ Len(batches) \in Nat
  BY DEF ChainInv, BatchesTypeOK
<1>3. /\ batches' \in Seq(Batch)
      /\ Len(batches') = Len(batches) - n
      /\ \A i \in 1 .. Len(batches') : batches'[i] = batches[i]
      /\ Len(batches') >= marker
      /\ marker \in Nat \ {0}
  BY <1>1, <1>2 DEF NumBatches, TopBatchID
<1>4. BatchesTypeOK'
  BY <1>1, <1>2, <1>3
  DEF ChainInv, BatchesTypeOK, LiveIDs, TopBatchID, NumBatches, BatchOf
<1>5. MarkerStands'
  BY <1>1, <1>2, <1>3, MaxBatchesAssumption
  DEF ChainInv, MarkerStands, NumBatches, TopBatchID
<1>6. FinalInOrder'
  <2>1. /\ batches[1].finaliseOn = 0
        /\ \A i, j \in 1 .. Len(batches) :
              i < j => batches[i].finaliseOn <= batches[j].finaliseOn
        /\ \A i \in 1 .. Len(batches) :
              batches[i].finaliseOn <= blockNumber + TimeToFinalise
    BY FinalByPosition
  <2>2. /\ batches'[1].finaliseOn = 0
        /\ \A i, j \in 1 .. Len(batches') :
              i < j => batches'[i].finaliseOn <= batches'[j].finaliseOn
        /\ \A i \in 1 .. Len(batches') :
              batches'[i].finaliseOn <= blockNumber' + TimeToFinalise
    <3>1. Len(batches') \in Nat /\ Len(batches') <= Len(batches)
      BY <1>2, <1>3
    <3>2. 1 .. Len(batches') \subseteq 1 .. Len(batches) /\ 1 \in 1 .. Len(batches')
      BY <1>2, <1>3, <3>1
    <3>3. \A i \in 1 .. Len(batches') : batches'[i].finaliseOn = batches[i].finaliseOn
      BY <1>3
    <3> QED
      BY <1>1, <2>1, <3>2, <3>3
  <2>3. \A b \in LiveIDs' : b \in Int /\ b + 1 \in 1 .. Len(batches')
    BY <1>3 DEF LiveIDs, TopBatchID, NumBatches
  <2> QED
    BY <2>2, <2>3 DEF FinalInOrder, BatchOf
<1> QED
  BY <1>4, <1>5, <1>6 DEF ChainInv

-----------------------------------------------------------------------------
(* What a submission and a rollback do to the list of batches, by id.      *)
LEMMA SubmitFacts ==
    ASSUME ChainInv, NEW sender \in Accounts,
           NEW commitments \in Seq(Commitment), NEW batchType \in Usage,
           SubmitBatch(sender, commitments, batchType)
    PROVE  /\ NumBatches \in BatchIDs /\ NumBatches \notin LiveIDs
           /\ NumBatches # 0
           /\ LiveIDs' = LiveIDs \union {NumBatches}
           /\ LiveIDs \subseteq BatchIDs
           /\ \A b \in LiveIDs : BatchOf(b)' = BatchOf(b)
           /\ batches'[NumBatches + 1] =
                 [batchType |-> batchType, commitments |-> commitments,
                  committer |-> sender,
                  finaliseOn |-> blockNumber + TimeToFinalise]
           /\ Stake(NumBatches)
           /\ UNCHANGED <<invalidBatchMarker, blockNumber, arrived>>
<1> DEFINE new == [batchType |-> batchType, commitments |-> commitments,
                   committer |-> sender,
                   finaliseOn |-> blockNumber + TimeToFinalise]
<1>1. /\ batches' = Append(batches, new)
      /\ Len(batches) < MaxBatches
      /\ Stake(NumBatches)
      /\ UNCHANGED <<invalidBatchMarker, blockNumber, arrived>>
  BY DEF SubmitBatch, NumBatches
<1>2. batches \in Seq(Batch) /\ Len(batches) \in Nat /\ Len(batches) >= 1
  BY DEF ChainInv, BatchesTypeOK, MarkerStands, NumBatches
<1> HIDE DEF new
<1>3. /\ Len(batches') = Len(batches) + 1
      /\ \A i \in 1 .. Len(batches) : batches'[i] = batches[i]
      /\ batches'[Len(batches) + 1] = new
  BY <1>1, <1>2
<1>4. LiveIDs = 0 .. Len(batches) - 1 /\ LiveIDs' = 0 .. Len(batches') - 1
  BY DEF LiveIDs, TopBatchID, NumBatches
<1>5. LiveIDs' = LiveIDs \union {Len(batches)}
  BY <1>2, <1>3, <1>4
<1>6. \A b \in LiveIDs : BatchOf(b)' = BatchOf(b)
  BY <1>2, <1>3, <1>4 DEF BatchOf
<1>7. LiveIDs \subseteq BatchIDs /\ Len(batches) \in BatchIDs
  BY <1>1, <1>2, <1>4, MaxBatchesAssumption DEF BatchIDs
<1>8. batches'[Len(batches) + 1] = new
  BY <1>3
<1> QED
  BY <1>1, <1>2, <1>4, <1>5, <1>6, <1>7, <1>8 DEF NumBatches, BatchOf, new

LEMMA RollbackFacts ==
    ASSUME ChainInv, NEW marker \in 1 .. TopBatchID, NEW n \in Nat,
           RollbackTo(marker, n)
    PROVE  /\ TopBatchID \in Int /\ n <= TopBatchID - marker + 1
           /\ LiveIDs = 0 .. TopBatchID
           /\ LiveIDs' = 0 .. TopBatchID - n
           /\ LiveIDs \subseteq BatchIDs
           /\ TopBatchID - n + 1 .. TopBatchID \subseteq LiveIDs \ {0}
           /\ LiveIDs' = LiveIDs \ (TopBatchID - n + 1 .. TopBatchID)
           /\ \A b \in LiveIDs' : BatchOf(b)' = BatchOf(b)
           /\ TryReenqueueDown(TopBatchID - n + 1, TopBatchID)
           /\ RewardAndBurn(TopBatchID, n)
           /\ invalidBatchMarker' =
                 IF n = TopBatchID - marker + 1 THEN 0 ELSE marker
           /\ UNCHANGED <<blockNumber, arrived>>
<1>1. /\ n <= TopBatchID - marker + 1
      /\ batches' = SubSeq(batches, 1, NumBatches - n)
      /\ TryReenqueueDown(TopBatchID - n + 1, TopBatchID)
      /\ RewardAndBurn(TopBatchID, n)
      /\ invalidBatchMarker' = IF n = TopBatchID - marker + 1 THEN 0 ELSE marker
      /\ UNCHANGED <<blockNumber, arrived>>
  BY DEF RollbackTo
<1>2. /\ batches \in Seq(Batch) /\ Len(batches) \in Nat
      /\ Len(batches) <= MaxBatches
  BY DEF ChainInv, BatchesTypeOK, MarkerStands, NumBatches
<1>3. /\ Len(batches') = Len(batches) - n
      /\ \A i \in 1 .. Len(batches') : batches'[i] = batches[i]
      /\ marker \in Nat /\ marker >= 1 /\ Len(batches) - n >= marker
  BY <1>1, <1>2 DEF NumBatches, TopBatchID
<1>4. /\ LiveIDs = 0 .. Len(batches) - 1
      /\ LiveIDs' = 0 .. Len(batches) - n - 1
  BY <1>3 DEF LiveIDs, TopBatchID, NumBatches
<1>5. \A b \in LiveIDs' : BatchOf(b)' = BatchOf(b)
  BY <1>2, <1>3, <1>4 DEF BatchOf
<1>6. LiveIDs \subseteq BatchIDs
  BY <1>2, <1>4, MaxBatchesAssumption DEF BatchIDs
<1>7. /\ TopBatchID - n + 1 .. TopBatchID \subseteq LiveIDs \ {0}
      /\ LiveIDs' = LiveIDs \ (TopBatchID - n + 1 .. TopBatchID)
      /\ LiveIDs' = 0 .. TopBatchID - n
      /\ TopBatchID \in Int
  BY <1>2, <1>3, <1>4 DEF TopBatchID, NumBatches
<1> QED
  BY <1>1, <1>4, <1>5, <1>6, <1>7 DEF LiveIDs

-----------------------------------------------------------------------------
(* The stakes follow the batches.                                          *)
LEMMA StakeSubmit ==
    ASSUME ChainInv, StakeInv, NEW sender \in Accounts,
           NEW commitments \in Seq(Commitment), NEW batchType \in Usage,
           SubmitBatch(sender, commitments, batchType)
    PROVE  StakeInv'
<1>1. /\ NumBatches \in BatchIDs /\ NumBatches \notin LiveIDs
      /\ NumBatches # 0
      /\ LiveIDs' = LiveIDs \union {NumBatches}
      /\ \A b \in LiveIDs : BatchOf(b)' = BatchOf(b)
      /\ Stake(NumBatches)
      /\ blockNumber' = blockNumber
      /\ LiveIDs \subseteq BatchIDs
  BY SubmitFacts
<1>2. stakes[NumBatches] = 0
  BY <1>1 DEF StakeInv, StakesMatchBatches
<1>3. StakesTypeOK' /\ EscrowIsTotalStaked'
  BY <1>1, <1>2, StakePreserves DEF StakeInv
<1>4. /\ stakes'[NumBatches] = GovStakeAmount
      /\ \A b \in BatchIDs \ {NumBatches} : stakes'[b] = stakes[b]
  BY <1>1 DEF Stake, StakeInv, StakesTypeOK
<1>5. StakesMatchBatches'
  <2>1. \A b \in BatchIDs : stakes'[b] # 0 => b \in LiveIDs' \ {0}
    BY <1>1, <1>4 DEF StakeInv, StakesMatchBatches
  <2>2. ASSUME NEW b \in LiveIDs' \ {0}, blockNumber' <= BatchOf(b)'.finaliseOn
        PROVE  stakes'[b] = GovStakeAmount
    <3>1. CASE b = NumBatches
      BY <1>4, <3>1
    <3>2. CASE b \in LiveIDs
      <4>1. BatchOf(b)' = BatchOf(b) /\ b \in BatchIDs \ {NumBatches}
        BY <1>1, <3>2
      <4>2. blockNumber <= BatchOf(b).finaliseOn
        BY <1>1, <2>2, <4>1
      <4>3. stakes[b] = GovStakeAmount
        BY <2>2, <3>2, <4>2 DEF StakeInv, StakesMatchBatches
      <4> QED
        BY <1>4, <4>1, <4>3
    <3> QED
      BY <1>1, <2>2, <3>1, <3>2
  <2> QED
    BY <2>1, <2>2 DEF StakesMatchBatches
<1> QED
  BY <1>3, <1>5 DEF StakeInv

LEMMA StakeRollback ==
    ASSUME ChainInv, StakeInv, NEW marker \in 1 .. TopBatchID, NEW n \in Nat,
           RollbackTo(marker, n)
    PROVE  StakeInv'
<1> DEFINE cut == TopBatchID - n + 1 .. TopBatchID
<1>1. /\ TopBatchID \in Int
      /\ LiveIDs \subseteq BatchIDs
      /\ cut \subseteq LiveIDs \ {0}
      /\ LiveIDs' = LiveIDs \ cut
      /\ \A b \in LiveIDs' : BatchOf(b)' = BatchOf(b)
      /\ RewardAndBurn(TopBatchID, n)
      /\ blockNumber' = blockNumber
  BY RollbackFacts
<1>2. cut = SlashedIDs(TopBatchID, n)
  BY DEF SlashedIDs
<1> HIDE DEF cut
<1>3. StakesTypeOK' /\ EscrowIsTotalStaked'
  BY <1>1, <1>2, RewardAndBurnPreserves DEF StakeInv
<1>4. stakes' = [b \in BatchIDs |-> IF b \in cut THEN 0 ELSE stakes[b]]
  BY <1>1, <1>2 DEF RewardAndBurn
<1>5. StakesMatchBatches'
  <2>1. \A b \in BatchIDs : stakes'[b] # 0 => b \in LiveIDs' \ {0}
    BY <1>1, <1>4 DEF StakeInv, StakesMatchBatches
  <2>2. ASSUME NEW b \in LiveIDs' \ {0}, blockNumber' <= BatchOf(b)'.finaliseOn
        PROVE  stakes'[b] = GovStakeAmount
    <3>1. BatchOf(b)' = BatchOf(b) /\ b \in LiveIDs \ {0} /\ b \notin cut
      BY <1>1, <2>2
    <3>2. blockNumber <= BatchOf(b).finaliseOn
      BY <1>1, <2>2, <3>1
    <3>3. stakes[b] = GovStakeAmount
      BY <3>1, <3>2 DEF StakeInv, StakesMatchBatches
    <3> QED
      BY <1>1, <1>4, <3>1, <3>3
  <2> QED
    BY <2>1, <2>2 DEF StakesMatchBatches
<1> QED
  BY <1>3, <1>5 DEF StakeInv

(* A withdrawal touches only the stake of a batch past its finaliseOn.     *)
LEMMA StakeWithdraw ==
    ASSUME ChainInv, StakeInv, NEW sender \in Accounts,
           NEW batchID \in BatchIDs, WithdrawStake(sender, batchID)
    PROVE  StakeInv'
<1>1. /\ batchID \in LiveIDs
      /\ blockNumber > BatchOf(batchID).finaliseOn
      /\ Withdraw(batchID)
      /\ batches' = batches /\ blockNumber' = blockNumber
  BY DEF WithdrawStake, rollupVars
<1>2. StakesTypeOK' /\ EscrowIsTotalStaked'
  BY <1>1, WithdrawPreserves DEF StakeInv
<1>3. stakes' = [stakes EXCEPT ![batchID] = 0]
  BY <1>1 DEF Withdraw
<1>4. LiveIDs' = LiveIDs /\ \A b \in LiveIDs : BatchOf(b)' = BatchOf(b)
  BY <1>1 DEF LiveIDs, TopBatchID, NumBatches, BatchOf
<1>5. ~(blockNumber <= BatchOf(batchID).finaliseOn)
  <2>1. batches \in Seq(Batch) /\ blockNumber \in Nat
        /\ batchID + 1 \in 1 .. Len(batches)
    BY <1>1 DEF ChainInv, BatchesTypeOK, LiveIDs, TopBatchID, NumBatches
  <2>2. BatchOf(batchID) \in Batch
    BY <2>1 DEF BatchOf
  <2>3. BatchOf(batchID).finaliseOn \in Nat
    BY <2>2 DEF Batch
  <2> QED
    BY <1>1, <2>1, <2>3
<1>6. StakesMatchBatches'
  BY <1>1, <1>3, <1>4, <1>5, GovStakeAmountAssumption
  DEF StakeInv, StakesTypeOK, StakesMatchBatches
<1> QED
  BY <1>2, <1>6 DEF StakeInv

-----------------------------------------------------------------------------
(* The subtrees follow the deposit batches.                                *)
LEMMA SubtreeSubmit ==
    ASSUME ChainInv, SubtreeInv, NEW sender \in Accounts,
           NEW commitments \in Seq(Commitment), Len(commitments) \in 1 .. MaxCommitments,
           NEW batchType \in Usage,
           \A i \in DOMAIN commitments : commitments[i].kind # "Deposit",
           SubmitBatch(sender, commitments, batchType),
           UNCHANGED subtreeVars
    PROVE  SubtreeInv'
<1>1. /\ NumBatches \in BatchIDs /\ NumBatches \notin LiveIDs
      /\ LiveIDs' = LiveIDs \union {NumBatches}
      /\ \A b \in LiveIDs : BatchOf(b)' = BatchOf(b)
      /\ batches'[NumBatches + 1].commitments = commitments
      /\ arrived' = arrived
  <2>1. batches'[NumBatches + 1] =
           [batchType |-> batchType, commitments |-> commitments,
            committer |-> sender, finaliseOn |-> blockNumber + TimeToFinalise]
    BY SubmitFacts
  <2>2. batches'[NumBatches + 1].commitments = commitments
    BY <2>1
  <2> QED
    BY <2>2, SubmitFacts
<1>2. subtreeQueue' = subtreeQueue /\ submittedSubtree' = submittedSubtree
  BY DEF subtreeVars
<1>3. SubtreesTypeOK'
  BY <1>1, <1>2 DEF SubtreeInv, SubtreesTypeOK, OnlyHolds
<1>4. SubtreesConserved'
  BY <1>1, <1>2 DEF SubtreeInv, SubtreesConserved, HoldsEachOnce
<1>5. LastCommitment(batches'[NumBatches + 1]).kind # "Deposit"
  <2>1. Len(commitments) \in DOMAIN commitments
    OBVIOUS
  <2> QED
    BY <1>1, <2>1 DEF LastCommitment
<1>6. submittedSubtree[NumBatches] = NoSubtree
  BY <1>1 DEF SubtreeInv, HoldersAreDepositBatches
<1>7. \A b \in BatchIDs :
         submittedSubtree'[b] # NoSubtree <=>
            b \in LiveIDs' /\ LastCommitment(BatchOf(b)').kind = "Deposit"
  <2> TAKE b \in BatchIDs
  <2>1. CASE b = NumBatches
    <3>1. BatchOf(b)' = batches'[NumBatches + 1]
      BY <2>1 DEF BatchOf
    <3> QED
      BY <1>2, <1>5, <1>6, <2>1, <3>1
  <2>2. CASE b # NumBatches
    BY <1>1, <1>2, <2>2 DEF SubtreeInv, HoldersAreDepositBatches
  <2> QED
    BY <2>1, <2>2
<1>8. HoldersAreDepositBatches'
  BY <1>7 DEF HoldersAreDepositBatches, LastCommitment
<1> QED
  BY <1>3, <1>4, <1>8 DEF SubtreeInv

LEMMA SubtreeDeposits ==
    ASSUME ChainInv, SubtreeInv, NEW sender \in Accounts,
           NEW commitment \in Commitment, commitment.kind = "Deposit",
           NEW batchType \in Usage,
           SubmitBatch(sender, <<commitment>>, batchType),
           DequeueToSubmit(NumBatches)
    PROVE  SubtreeInv'
<1>1. /\ NumBatches \in BatchIDs /\ NumBatches \notin LiveIDs
      /\ LiveIDs' = LiveIDs \union {NumBatches}
      /\ \A b \in LiveIDs : BatchOf(b)' = BatchOf(b)
      /\ batches'[NumBatches + 1].commitments = <<commitment>>
      /\ arrived' = arrived
  <2>1. <<commitment>> \in Seq(Commitment)
    OBVIOUS
  <2>2. batches'[NumBatches + 1] =
           [batchType |-> batchType, commitments |-> <<commitment>>,
            committer |-> sender, finaliseOn |-> blockNumber + TimeToFinalise]
    BY <2>1, SubmitFacts
  <2>3. batches'[NumBatches + 1].commitments = <<commitment>>
    BY <2>2
  <2> QED
    BY <2>1, <2>3, SubmitFacts
<1>2. submittedSubtree[NumBatches] = NoSubtree /\ NoSubtree \notin arrived
  BY <1>1, NoSubtreeAssumption
  DEF SubtreeInv, HoldersAreDepositBatches, SubtreesTypeOK
<1>3. /\ OnlyHolds(arrived)' /\ HoldsEachOnce(arrived)'
      /\ submittedSubtree'[NumBatches] # NoSubtree
      /\ \A b \in BatchIDs \ {NumBatches} :
            submittedSubtree'[b] = submittedSubtree[b]
  <2> DEFINE all == arrived
  <2>1. OnlyHolds(all) /\ HoldsEachOnce(all)
    BY DEF SubtreeInv, SubtreesTypeOK, SubtreesConserved
  <2>2. arrived' = all
    BY <1>1
  <2> QED
    BY <1>1, <1>2, <2>1, <2>2, DequeuePreserves DEF OnlyHolds, HoldsEachOnce
<1>4. SubtreesTypeOK'
  BY <1>1, <1>3 DEF SubtreeInv, SubtreesTypeOK
<1>5. SubtreesConserved'
  BY <1>1, <1>3 DEF SubtreeInv, SubtreesConserved
<1>6. LastCommitment(batches'[NumBatches + 1]).kind = "Deposit"
  BY <1>1 DEF LastCommitment
<1>7. \A b \in BatchIDs :
         submittedSubtree'[b] # NoSubtree <=>
            b \in LiveIDs' /\ LastCommitment(BatchOf(b)').kind = "Deposit"
  <2> TAKE b \in BatchIDs
  <2>1. CASE b = NumBatches
    <3>1. BatchOf(b)' = batches'[NumBatches + 1]
      BY <2>1 DEF BatchOf
    <3> QED
      BY <1>1, <1>3, <1>6, <2>1, <3>1
  <2>2. CASE b # NumBatches
    BY <1>1, <1>3, <2>2 DEF SubtreeInv, HoldersAreDepositBatches
  <2> QED
    BY <2>1, <2>2
<1>8. HoldersAreDepositBatches'
  BY <1>7 DEF HoldersAreDepositBatches, LastCommitment
<1> QED
  BY <1>4, <1>5, <1>8 DEF SubtreeInv

LEMMA SubtreeRollback ==
    ASSUME ChainInv, SubtreeInv, NEW marker \in 1 .. TopBatchID, NEW n \in Nat,
           RollbackTo(marker, n)
    PROVE  SubtreeInv'
<1> DEFINE first == TopBatchID - n + 1
           cut == first .. TopBatchID
<1>1. /\ TopBatchID \in Int
      /\ LiveIDs \subseteq BatchIDs
      /\ cut \subseteq LiveIDs \ {0}
      /\ LiveIDs' = LiveIDs \ cut
      /\ \A b \in LiveIDs' : BatchOf(b)' = BatchOf(b)
      /\ TryReenqueueDown(first, TopBatchID)
      /\ arrived' = arrived
  BY RollbackFacts
<1>2. NoSubtree \notin arrived /\ first \in Int /\ cut \subseteq BatchIDs
  BY <1>1, NoSubtreeAssumption DEF SubtreeInv, SubtreesTypeOK
<1>3. /\ OnlyHolds(arrived)' /\ HoldsEachOnce(arrived)'
      /\ submittedSubtree' = [b \in BatchIDs |->
                                IF b \in cut THEN NoSubtree ELSE submittedSubtree[b]]
  <2> HIDE DEF first
  <2>1. PICK roots : roots = arrived
    OBVIOUS
  <2>2. OnlyHolds(roots) /\ HoldsEachOnce(roots) /\ NoSubtree \notin roots
    BY <1>2, <2>1
    DEF SubtreeInv, SubtreesTypeOK, SubtreesConserved, OnlyHolds, HoldsEachOnce
  <2>3. /\ OnlyHolds(roots)' /\ HoldsEachOnce(roots)'
        /\ submittedSubtree' =
              [b \in BatchIDs |-> IF b \in first .. TopBatchID
                                  THEN NoSubtree ELSE submittedSubtree[b]]
    BY <1>1, <1>2, <2>2, ReenqueuePreserves
  <2> QED
    BY <1>1, <2>1, <2>3 DEF OnlyHolds, HoldsEachOnce
<1> HIDE DEF cut
<1>4. SubtreesTypeOK'
  BY <1>1, <1>3 DEF SubtreeInv, SubtreesTypeOK
<1>5. SubtreesConserved'
  BY <1>1, <1>3 DEF SubtreeInv, SubtreesConserved
<1>6. HoldersAreDepositBatches'
  BY <1>1, <1>3 DEF SubtreeInv, HoldersAreDepositBatches, LastCommitment
<1> QED
  BY <1>4, <1>5, <1>6 DEF SubtreeInv

LEMMA SubtreeArrives ==
    ASSUME SubtreeInv, NEW subtreeRoot \in Subtrees, SubtreeReady(subtreeRoot)
    PROVE  SubtreeInv'
<1>1. /\ subtreeRoot \notin arrived
      /\ arrived' = arrived \union {subtreeRoot}
      /\ Enqueue(subtreeRoot)
      /\ batches' = batches
  BY DEF SubtreeReady, rollupVars
<1>2. submittedSubtree' = submittedSubtree
  BY <1>1 DEF Enqueue
<1>3. OnlyHolds(arrived)' /\ HoldsEachOnce(arrived)'
  <2> DEFINE all == arrived \union {subtreeRoot}
  <2>1. OnlyHolds(arrived) /\ HoldsEachOnce(arrived)
        /\ NoSubtree \notin arrived /\ subtreeRoot # NoSubtree
    BY NoSubtreeAssumption DEF SubtreeInv, SubtreesTypeOK, SubtreesConserved
  <2>2. arrived' = all
    BY <1>1
  <2>3. subtreeRoot \notin arrived /\ Enqueue(subtreeRoot)
    BY <1>1
  <2> QED
    BY ONLY <2>1, <2>2, <2>3, EnqueuePreserves DEF OnlyHolds, HoldsEachOnce, all
<1>4. LiveIDs' = LiveIDs /\ \A b \in BatchIDs : BatchOf(b)' = BatchOf(b)
  BY <1>1 DEF LiveIDs, TopBatchID, NumBatches, BatchOf
<1>5. SubtreesTypeOK'
  BY <1>1, <1>3 DEF SubtreeInv, SubtreesTypeOK
<1>6. SubtreesConserved'
  BY <1>2, <1>3, <1>4 DEF SubtreeInv, SubtreesConserved
<1>7. HoldersAreDepositBatches'
  BY <1>2, <1>4 DEF SubtreeInv, HoldersAreDepositBatches, LastCommitment
<1> QED
  BY <1>5, <1>6, <1>7 DEF SubtreeInv

-----------------------------------------------------------------------------
(* The three kinds of step that change the batches.                        *)
LEMMA SubmitPayload ==
    ASSUME IInv, NEW sender \in Accounts, NEW payload \in Payloads,
           NEW kind \in {"Transfer", "Create2Transfer", "MassMigration"},
           SubmitBatch(sender, Committed(payload, kind), kind),
           UNCHANGED subtreeVars
    PROVE  IInv'
<1>1. /\ kind \in Usage /\ kind # "Deposit"
      /\ ChainInv /\ StakeInv /\ SubtreeInv
  BY DEF Usage, IInv
<1>2. /\ Committed(payload, kind) \in Seq(Commitment)
      /\ Len(Committed(payload, kind)) \in 1 .. MaxCommitments
      /\ \A i \in DOMAIN Committed(payload, kind) :
            Committed(payload, kind)[i].kind # "Deposit"
  BY <1>1, CommittedType
<1>3. ChainInv'
  BY <1>1, <1>2, ChainSubmit
<1>4. StakeInv'
  BY <1>1, <1>2, StakeSubmit
<1>5. SubtreeInv'
  BY <1>1, <1>2, SubtreeSubmit
<1> QED
  BY <1>3, <1>4, <1>5 DEF IInv

LEMMA SubmitSubtree ==
    ASSUME IInv, NEW sender \in Accounts, SubmitDeposits(sender)
    PROVE  IInv'
<1> DEFINE previous == LastCommitment(BatchOf(TopBatchID))
<1>0. PICK newRoot \in InsertSubtree[previous.stateRoot] :
         /\ SubmitBatch(sender, <<EmptyCommitment("Deposit", newRoot)>>,
                        "MassMigration")
         /\ DequeueToSubmit(NumBatches)
  BY DEF SubmitDeposits
<1> DEFINE c == EmptyCommitment("Deposit", newRoot)
<1>1. /\ SubmitBatch(sender, <<c>>, "MassMigration")
      /\ DequeueToSubmit(NumBatches)
  BY <1>0
<1>2. ChainInv /\ StakeInv /\ SubtreeInv
  BY DEF IInv
<1>3. previous \in Commitment
  <2>1. /\ batches \in Seq(Batch) /\ Len(batches) >= 1 /\ Len(batches) \in Nat
        /\ TopBatchID + 1 = Len(batches) /\ TopBatchID \in LiveIDs
    BY <1>2 DEF ChainInv, BatchesTypeOK, MarkerStands, LiveIDs, TopBatchID, NumBatches
  <2>2. BatchOf(TopBatchID) \in Batch
    BY <2>1 DEF BatchOf
  <2>3. Len(BatchOf(TopBatchID).commitments) \in 1 .. MaxCommitments
    BY <1>2, <2>1 DEF ChainInv, BatchesTypeOK
  <2>4. BatchOf(TopBatchID).commitments \in Seq(Commitment)
    BY <2>2 DEF Batch
  <2> QED
    BY <2>3, <2>4 DEF LastCommitment
<1>4. c \in Commitment /\ c.kind = "Deposit"
  <2>1. newRoot \in StateRoots
    BY <1>0, <1>3, RootsAssumption DEF Commitment
  <2> QED
    BY <2>1, MigrationsAssumption DEF EmptyCommitment, Commitment, Usage, TxsOutcome
<1>5. "MassMigration" \in Usage
  BY DEF Usage
<1> HIDE DEF c
<1>6. <<c>> \in Seq(Commitment) /\ Len(<<c>>) \in 1 .. MaxCommitments
  BY <1>4 DEF MaxCommitments
<1>7. ChainInv'
  BY <1>1, <1>2, <1>5, <1>6, ChainSubmit
<1>8. StakeInv'
  BY <1>1, <1>2, <1>5, <1>6, StakeSubmit
<1>9. SubtreeInv'
  BY <1>1, <1>2, <1>4, <1>5, SubtreeDeposits
<1> QED
  BY <1>7, <1>8, <1>9 DEF IInv

LEMMA RollbackPreserves ==
    ASSUME IInv, NEW marker \in 1 .. TopBatchID, NEW n \in Nat,
           RollbackTo(marker, n)
    PROVE  IInv'
<1>1. ChainInv /\ StakeInv /\ SubtreeInv
  BY DEF IInv
<1>2. ChainInv'
  BY <1>1, ChainRollback
<1>3. StakeInv'
  BY <1>1, StakeRollback
<1>4. SubtreeInv'
  BY <1>1, SubtreeRollback
<1> QED
  BY <1>2, <1>3, <1>4 DEF IInv

(* A dispute is never about genesis, which is final from the start, nor    *)
(* about a batch at or above the marker.                                   *)
LEMMA DisputableIsAboveGenesis ==
    ASSUME ChainInv, NEW batchID, IsDisputable(batchID)
    PROVE  /\ batchID \in 1 .. TopBatchID
           /\ batchID < Accepted
<1>1. batchID \in LiveIDs /\ blockNumber < BatchOf(batchID).finaliseOn
      /\ (batchID < invalidBatchMarker \/ invalidBatchMarker = 0)
  BY DEF IsDisputable
<1>2. blockNumber \in Nat /\ BatchOf(0).finaliseOn = 0 /\ Len(batches) \in Nat
  BY DEF ChainInv, BatchesTypeOK, FinalInOrder
<1>3. batchID # 0
  BY <1>1, <1>2
<1> QED
  BY <1>1, <1>2, <1>3 DEF LiveIDs, TopBatchID, NumBatches, Accepted

(* Where a rollback that goes on ends.                                     *)
LEMMA MarkerInRange ==
    ASSUME ChainInv, IsRollingBack
    PROVE  invalidBatchMarker \in 1 .. TopBatchID
BY DEF ChainInv, BatchesTypeOK, MarkerStands, IsRollingBack, TopBatchID, NumBatches

(* Every step that is neither a submission, nor a withdrawal, nor a new    *)
(* block, nor a new subtree is a rollback to the marker or to a batch that *)
(* was disputable.                                                         *)
LEMMA DisputeIsRollback ==
    ASSUME NEW batchID, NEW path, NEW n,
           \/ DisputeTransitionTransfer(batchID, path, n)
           \/ DisputeTransitionMassMigration(batchID, path, n)
           \/ DisputeSignatureTransfer(batchID, path, n)
           \/ DisputeSignatureMassMigration(batchID, path, n)
           \/ \E reader \in Readers : DisputeTransitionAcross(reader, batchID, n)
    PROVE  IsDisputable(batchID) /\ RollbackTo(batchID, n)
BY DEF DisputeTransitionTransfer, DisputeTransitionMassMigration,
       DisputeSignatureTransfer, DisputeSignatureMassMigration,
       DisputeTransition, DisputeSignature, DisputeTransitionAcross

-----------------------------------------------------------------------------
LEMMA InitIInv == Init => IInv
<1> SUFFICES ASSUME Init PROVE IInv
  OBVIOUS
<1>1. ChainInv
  BY ChainInit
<1>2. /\ batches = <<GenesisBatch>> /\ invalidBatchMarker = 0
      /\ blockNumber = 0 /\ arrived = {}
      /\ stakes = [batchID \in BatchIDs |-> 0] /\ escrow = 0
      /\ subtreeQueue = <<>>
      /\ submittedSubtree = [batchID \in BatchIDs |-> NoSubtree]
  BY DEF Init, StakeInit, SubtreeInit
<1>3. Len(batches) = 1 /\ batches[1] = GenesisBatch /\ LiveIDs = {0}
  BY <1>2 DEF LiveIDs, TopBatchID, NumBatches
<1>4. StakeInv
  <2>1. Staked(BatchIDs) = {}
    BY <1>2 DEF Staked
  <2>2. TotalStaked(BatchIDs) = 0
    BY <2>1, FS_EmptySet, GovStakeAmountAssumption DEF TotalStaked
  <2>3. StakesTypeOK /\ EscrowIsTotalStaked
    BY <1>2, <2>2 DEF StakesTypeOK, EscrowIsTotalStaked
  <2>4. StakesMatchBatches
    BY <1>2, <1>3 DEF StakesMatchBatches
  <2> QED
    BY <2>3, <2>4 DEF StakeInv
<1>5. SubtreeInv
  <2>1. SubtreesTypeOK
    BY <1>2 DEF SubtreesTypeOK, OnlyHolds
  <2>2. SubtreesConserved
    BY <1>2 DEF SubtreesConserved, HoldsEachOnce
  <2>3. LastCommitment(BatchOf(0)).kind # "Deposit"
    <3>1. BatchOf(0) = GenesisBatch
      BY <1>3 DEF BatchOf
    <3>2. GenesisBatch.commitments = <<EmptyCommitment("Genesis", GenesisRoot)>>
      BY DEF GenesisBatch
    <3>3. LastCommitment(BatchOf(0)) = EmptyCommitment("Genesis", GenesisRoot)
      BY <3>1, <3>2 DEF LastCommitment
    <3> QED
      BY <3>3 DEF EmptyCommitment
  <2>4. HoldersAreDepositBatches
    BY <1>2, <1>3, <2>3 DEF HoldersAreDepositBatches
  <2> QED
    BY <2>1, <2>2, <2>4 DEF SubtreeInv
<1> QED
  BY <1>1, <1>4, <1>5 DEF IInv

(* Steps that leave the batches alone.                                     *)
LEMMA ChainUnchanged ==
    ASSUME ChainInv, batches' = batches,
           invalidBatchMarker' = invalidBatchMarker,
           blockNumber' \in Nat, blockNumber' >= blockNumber
    PROVE  ChainInv'
<1>1. BatchesTypeOK' /\ MarkerStands'
  BY DEF ChainInv, BatchesTypeOK, MarkerStands, LiveIDs, TopBatchID, NumBatches, BatchOf
<1>2. \A b \in LiveIDs : BatchOf(b).finaliseOn <= blockNumber' + TimeToFinalise
  <2> TAKE b \in LiveIDs
  <2>1. batches \in Seq(Batch) /\ b + 1 \in 1 .. Len(batches) /\ blockNumber \in Nat
    BY DEF ChainInv, BatchesTypeOK, LiveIDs, TopBatchID, NumBatches
  <2>2. BatchOf(b) \in Batch
    BY <2>1 DEF BatchOf
  <2>3. BatchOf(b).finaliseOn \in Nat
    BY <2>2 DEF Batch
  <2>4. BatchOf(b).finaliseOn <= blockNumber + TimeToFinalise
    BY DEF ChainInv, FinalInOrder
  <2> QED
    BY <2>1, <2>3, <2>4, TimeAssumption
<1>3. LiveIDs' = LiveIDs /\ \A b : BatchOf(b)' = BatchOf(b)
  BY DEF LiveIDs, TopBatchID, NumBatches, BatchOf
<1>4. FinalInOrder'
  BY <1>2, <1>3 DEF ChainInv, FinalInOrder
<1> QED
  BY <1>1, <1>4 DEF ChainInv

LEMMA SubtreesUnchanged ==
    ASSUME SubtreeInv, batches' = batches, arrived' = arrived,
           UNCHANGED subtreeVars
    PROVE  SubtreeInv'
BY DEF SubtreeInv, SubtreesTypeOK, SubtreesConserved, OnlyHolds, HoldsEachOnce,
       HoldersAreDepositBatches, subtreeVars, LiveIDs, TopBatchID, NumBatches,
       BatchOf, LastCommitment

LEMMA StakesUnchanged ==
    ASSUME ChainInv, StakeInv, batches' = batches, UNCHANGED stakeVars,
           blockNumber' \in Nat, blockNumber' >= blockNumber
    PROVE  StakeInv'
<1>1. stakes' = stakes /\ escrow' = escrow /\ blockNumber \in Nat
  BY DEF stakeVars, ChainInv, BatchesTypeOK
<1>2. LiveIDs' = LiveIDs /\ \A b : BatchOf(b)' = BatchOf(b)
  BY DEF LiveIDs, TopBatchID, NumBatches, BatchOf
<1>3. StakesTypeOK' /\ EscrowIsTotalStaked'
  BY <1>1 DEF StakeInv, StakesTypeOK, EscrowIsTotalStaked, TotalStaked, Staked
<1>4. \A b \in LiveIDs : BatchOf(b).finaliseOn \in Nat
  <2> TAKE b \in LiveIDs
  <2>1. batches \in Seq(Batch) /\ b + 1 \in 1 .. Len(batches)
    BY DEF ChainInv, BatchesTypeOK, LiveIDs, TopBatchID, NumBatches
  <2>2. BatchOf(b) \in Batch
    BY <2>1 DEF BatchOf
  <2> QED
    BY <2>2 DEF Batch
<1>5. \A b \in LiveIDs : blockNumber' <= BatchOf(b).finaliseOn
                            => blockNumber <= BatchOf(b).finaliseOn
  BY <1>1, <1>4
<1>6. StakesMatchBatches'
  BY <1>1, <1>2, <1>5 DEF StakeInv, StakesMatchBatches
<1> QED
  BY <1>3, <1>6 DEF StakeInv

(* One step per action of Next.                                            *)
LEMMA StepIInv == IInv /\ [Next]_vars => IInv'
<1> SUFFICES ASSUME IInv, [Next]_vars PROVE IInv'
  OBVIOUS
<1> USE DEF IInv
<1>1. ASSUME NEW sender \in Accounts, NEW payload \in Payloads,
             SubmitTransfer(sender, payload)
      PROVE  IInv'
  BY <1>1, SubmitPayload DEF SubmitTransfer
<1>2. ASSUME NEW sender \in Accounts, NEW payload \in Payloads,
             SubmitCreate2Transfer(sender, payload)
      PROVE  IInv'
  BY <1>2, SubmitPayload DEF SubmitCreate2Transfer
<1>3. ASSUME NEW sender \in Accounts, NEW payload \in Payloads,
             SubmitMassMigration(sender, payload)
      PROVE  IInv'
  BY <1>3, SubmitPayload DEF SubmitMassMigration
<1>4. ASSUME NEW sender \in Accounts, SubmitDeposits(sender)
      PROVE  IInv'
  BY <1>4, SubmitSubtree
<1>5. ASSUME Dispute PROVE IInv'
  <2>1. PICK batchID \in BatchIDs, n \in 0 .. MaxBatches :
           IsDisputable(batchID) /\ RollbackTo(batchID, n)
    BY <1>5, DisputeIsRollback DEF Dispute
  <2>2. batchID \in 1 .. TopBatchID /\ n \in Nat
    BY <2>1, DisputableIsAboveGenesis
  <2> QED
    BY <2>1, <2>2, RollbackPreserves
<1>6. ASSUME NEW n \in 0 .. MaxBatches, SlashAndRollback(n)
      PROVE  IInv'
  <2>1. invalidBatchMarker \in 1 .. TopBatchID /\ n \in Nat
    BY <1>6, MarkerInRange DEF SlashAndRollback
  <2>2. PICK marker \in 1 .. TopBatchID : marker = invalidBatchMarker
    BY <2>1
  <2>3. RollbackTo(marker, n)
    BY <1>6, <2>2 DEF SlashAndRollback, RollbackTo
  <2> QED
    BY <2>1, <2>3, RollbackPreserves
<1>7. ASSUME NEW sender \in Accounts, NEW batchID \in BatchIDs,
             WithdrawStake(sender, batchID)
      PROVE  IInv'
  <2>1. /\ batches' = batches /\ invalidBatchMarker' = invalidBatchMarker
        /\ blockNumber' = blockNumber /\ arrived' = arrived
        /\ UNCHANGED subtreeVars /\ blockNumber \in Nat
    BY <1>7 DEF WithdrawStake, rollupVars, subtreeVars, ChainInv, BatchesTypeOK
  <2>2. ChainInv' /\ SubtreeInv'
    BY <2>1, ChainUnchanged, SubtreesUnchanged
  <2>3. StakeInv'
    BY <1>7, StakeWithdraw
  <2> QED
    BY <2>2, <2>3
<1>8. ASSUME NEW subtreeRoot \in Subtrees, SubtreeReady(subtreeRoot)
      PROVE  IInv'
  <2>1. /\ batches' = batches /\ invalidBatchMarker' = invalidBatchMarker
        /\ blockNumber' = blockNumber
        /\ UNCHANGED stakeVars /\ blockNumber \in Nat
    BY <1>8 DEF SubtreeReady, rollupVars, stakeVars, ChainInv, BatchesTypeOK
  <2>2. ChainInv' /\ StakeInv'
    BY <2>1, ChainUnchanged, StakesUnchanged
  <2> QED
    BY <1>8, <2>2, SubtreeArrives
<1>9. ASSUME MineBlock PROVE IInv'
  <2>1. /\ batches' = batches /\ invalidBatchMarker' = invalidBatchMarker
        /\ blockNumber' = blockNumber + 1 /\ arrived' = arrived
        /\ UNCHANGED stakeVars /\ UNCHANGED subtreeVars /\ blockNumber \in Nat
    BY <1>9 DEF MineBlock, stakeVars, subtreeVars, ChainInv, BatchesTypeOK
  <2> QED
    BY <2>1, ChainUnchanged, StakesUnchanged, SubtreesUnchanged
<1>10. ASSUME UNCHANGED vars PROVE IInv'
  <2>1. /\ batches' = batches /\ invalidBatchMarker' = invalidBatchMarker
        /\ blockNumber' = blockNumber /\ arrived' = arrived
        /\ UNCHANGED stakeVars /\ UNCHANGED subtreeVars /\ blockNumber \in Nat
    BY <1>10 DEF vars, stakeVars, subtreeVars, ChainInv, BatchesTypeOK
  <2> QED
    BY <2>1, ChainUnchanged, StakesUnchanged, SubtreesUnchanged
<1> QED
  BY <1>1, <1>2, <1>3, <1>4, <1>5, <1>6, <1>7, <1>8, <1>9, <1>10
  DEF Next, RollupNext, Submit

(* The inductive invariant holds in every reachable state.                 *)
THEOREM Invariant == Spec => []IInv
<1>1. Init => IInv
  BY InitIInv
<1>2. IInv /\ [Next]_vars => IInv'
  BY StepIInv
<1> QED
  BY <1>1, <1>2, PTL DEF Spec

(* Every variable keeps its type: no slash, partial rollback or withdrawal *)
(* ever pays out ether the contract does not have.                         *)
THEOREM TypeCorrect == Spec => []TypeOK
<1>1. IInv => TypeOK
  BY DEF IInv, TypeOK, ChainInv, StakeInv, SubtreeInv
<1> QED
  BY <1>1, Invariant, PTL

(* The marker of a rollback in progress is the id of a standing batch      *)
(* above genesis.                                                          *)
THEOREM MarkerAlwaysStands == Spec => []MarkerStands
<1>1. IInv => MarkerStands
  BY DEF IInv, ChainInv
<1> QED
  BY <1>1, Invariant, PTL

(* Batches become final in the order of their ids.                         *)
THEOREM FinalAlwaysInOrder == Spec => []FinalInOrder
<1>1. IInv => FinalInOrder
  BY DEF IInv, ChainInv
<1> QED
  BY <1>1, Invariant, PTL

(* A batch that may still be disputed is staked in full, and no stake is   *)
(* left under a freed id.                                                  *)
THEOREM StakesAlwaysMatch == Spec => []StakesMatchBatches
<1>1. IInv => StakesMatchBatches
  BY DEF IInv, StakeInv
<1> QED
  BY <1>1, Invariant, PTL

(* The ether of the contract is the sum of the stakes.                     *)
THEOREM EscrowAlwaysTotal == Spec => []EscrowIsTotalStaked
<1>1. IInv => EscrowIsTotalStaked
  BY DEF IInv, StakeInv
<1> QED
  BY <1>1, Invariant, PTL

(* No rollback loses or duplicates a deposit subtree.                      *)
THEOREM SubtreesAlwaysConserved == Spec => []SubtreesConserved
<1>1. IInv => SubtreesConserved
  BY DEF IInv, SubtreeInv
<1> QED
  BY <1>1, Invariant, PTL

(* Exactly the standing deposit batches hold a subtree.                    *)
THEOREM HoldersAlwaysDepositBatches == Spec => []HoldersAreDepositBatches
<1>1. IInv => HoldersAreDepositBatches
  BY DEF IInv, SubtreeInv
<1> QED
  BY <1>1, Invariant, PTL
-----------------------------------------------------------------------------
(* The tree of a batch has a place for each of its commitments.            *)
LEMMA TreeSizeFacts ==
    ASSUME NEW count \in 1 .. MaxCommitments
    PROVE  TreeSize(count) \in TreeSizes /\ count <= TreeSize(count)
<1> DEFINE Fits(size) == count <= size /\ (size = 2 \/ size < 2 * count)
<1>1. TreeSizes = {2, 4, 8, 16, 32} /\ count \in 1 .. 32
  BY DEF TreeSizes, MaxCommitments
<1>2. \E size \in TreeSizes : Fits(size)
  <2>1. CASE count <= 2
    BY <1>1, <2>1
  <2>2. CASE count > 2 /\ count <= 4
    BY <1>1, <2>2
  <2>3. CASE count > 4 /\ count <= 8
    BY <1>1, <2>3
  <2>4. CASE count > 8 /\ count <= 16
    BY <1>1, <2>4
  <2>5. CASE count > 16
    BY <1>1, <2>5
  <2> QED
    BY <1>1, <2>1, <2>2, <2>3, <2>4, <2>5
<1>3. TreeSize(count) = CHOOSE size \in TreeSizes : Fits(size)
  BY DEF TreeSize
<1> HIDE DEF Fits
<1>4. TreeSize(count) \in TreeSizes /\ Fits(TreeSize(count))
  BY <1>2, <1>3
<1> QED
  BY <1>4 DEF Fits

(* The leaf at a path and the one at the path before it are neighbours, or *)
(* the first and the last position of the tree.                            *)
LEMMA NeighbourLeaves ==
    ASSUME NEW size \in TreeSizes, NEW path \in Nat
    PROVE  /\ path % size \in 0 .. size - 1
           /\ path < size => path % size = path
           /\ path > 0 /\ path % size = 0 => (path - 1) % size = size - 1
           /\ path > 0 /\ path % size # 0 => (path - 1) % size = (path % size) - 1
<1>1. size = 2 \/ size = 4 \/ size = 8 \/ size = 16 \/ size = 32
  BY DEF TreeSizes, MaxCommitments
<1>2. CASE size = 2
  BY <1>2
<1>3. CASE size = 4
  BY <1>3
<1>4. CASE size = 8
  BY <1>4
<1>5. CASE size = 16
  BY <1>5
<1>6. CASE size = 32
  BY <1>6
<1> QED
  BY <1>1, <1>2, <1>3, <1>4, <1>5, <1>6

(* The commitments of a standing batch.                                    *)
LEMMA BatchFacts ==
    ASSUME ChainInv, NEW batchID \in LiveIDs
    PROVE  /\ BatchOf(batchID).commitments \in Seq(Commitment)
           /\ Len(BatchOf(batchID).commitments) \in 1 .. MaxCommitments
           /\ DOMAIN BatchOf(batchID).commitments
                 = 1 .. Len(BatchOf(batchID).commitments)
<1>1. batches \in Seq(Batch) /\ batchID + 1 \in 1 .. Len(batches)
  BY DEF ChainInv, BatchesTypeOK, LiveIDs, TopBatchID, NumBatches
<1>2. BatchOf(batchID) \in Batch
  BY <1>1 DEF BatchOf
<1>3. BatchOf(batchID).commitments \in Seq(Commitment)
  BY <1>2 DEF Batch
<1>4. Len(BatchOf(batchID).commitments) \in 1 .. MaxCommitments
  BY DEF ChainInv, BatchesTypeOK
<1> QED
  BY <1>3, <1>4

(* A signature dispute that is won.                                        *)
LEMMA SignatureHasCause ==
    ASSUME NEW reader, NEW batchID, NEW path, NEW n,
           DisputeSignature(reader, batchID, path, n)
    PROVE  IsFaulty(batchID) \/ IsMisread(batchID)
<1> DEFINE i == LeafIndex(BatchOf(batchID), path)
           target == BatchOf(batchID).commitments[i]
<1>1. /\ i \in DOMAIN BatchOf(batchID).commitments
      /\ HasBody(target) /\ SignatureFails(reader, target)
  BY DEF DisputeSignature, HasLeaf, OpenedAt
<1> HIDE DEF i
<1>2. CASE target.kind = reader
  BY <1>1, <1>2 DEF SignatureFails, IsFaulty, IsGood
<1>3. CASE target.kind # reader
  BY <1>1, <1>3 DEF SignatureFails, IsMisread
<1> QED
  BY <1>2, <1>3

(* A transition dispute that is won names the right predecessor, unless    *)
(* its path runs off the end of a full tree.                               *)
LEMMA TransitionHasCause ==
    ASSUME ChainInv, NEW reader, NEW batchID, NEW path \in Nat, NEW n,
           DisputeTransition(reader, batchID, path, n)
    PROVE  IsFaulty(batchID) \/ IsMisread(batchID) \/ FillsTree(batchID)
<1> DEFINE batch == BatchOf(batchID)
           size == TreeSize(Len(batch.commitments))
           i == LeafIndex(batch, path)
           target == batch.commitments[i]
           from == BatchOf(PreviousBatchID(batchID, path))
           j == LeafIndex(from, PreviousPath(batchID, path))
           previous == from.commitments[j]
<1>1. /\ IsDisputable(batchID)
      /\ i \in DOMAIN batch.commitments /\ HasBody(target)
      /\ j \in DOMAIN from.commitments
      /\ TransitionFails(reader, previous, target)
  BY DEF DisputeTransition, HasLeaf, OpenedAt
<1>2. batchID \in 1 .. TopBatchID
  BY <1>1, DisputableIsAboveGenesis
<1>3. batchID \in LiveIDs /\ batchID - 1 \in LiveIDs
  <2>1. Len(batches) \in Nat
    BY DEF ChainInv, BatchesTypeOK
  <2> QED
    BY <1>2, <2>1 DEF LiveIDs, TopBatchID, NumBatches
<1>4. /\ Len(batch.commitments) \in 1 .. MaxCommitments
      /\ DOMAIN batch.commitments = 1 .. Len(batch.commitments)
  BY <1>3, BatchFacts
<1>5. size \in TreeSizes /\ Len(batch.commitments) <= size
  BY <1>4, TreeSizeFacts
<1>6. i = 1 + (path % size)
  BY DEF LeafIndex
<1>7. CASE path = 0
  <2> DEFINE last == Len(BatchOf(batchID - 1).commitments)
  <2>1. /\ last \in 1 .. MaxCommitments
        /\ from = BatchOf(batchID - 1)
        /\ PreviousPath(batchID, path) = last - 1
    BY <1>3, <1>7, BatchFacts DEF PreviousBatchID, PreviousPath
  <2>2. TreeSize(last) \in TreeSizes /\ last <= TreeSize(last)
    BY <2>1, TreeSizeFacts
  <2>3. j = 1 + ((last - 1) % TreeSize(last))
    BY <2>1 DEF LeafIndex
  <2> HIDE DEF last
  <2>4. last \in Nat /\ last - 1 \in Nat /\ TreeSize(last) \in Nat
    BY <2>1, <2>2 DEF TreeSizes, MaxCommitments
  <2>5. (last - 1) % TreeSize(last) = last - 1
    BY <2>2, <2>4, NeighbourLeaves
  <2>6. j = last
    BY <2>3, <2>4, <2>5
  <2>7. path % size = 0
    BY <1>5, <1>7 DEF TreeSizes, MaxCommitments
  <2>8. i = 1
    BY <1>6, <2>7
  <2>9. previous = Predecessor(batchID, i)
    BY <2>1, <2>6, <2>8 DEF Predecessor, LastCommitment, last
  <2> QED
    BY <1>1, <2>9 DEF TransitionFails, IsFaulty, IsGood, IsMisread
<1>8. CASE path # 0
  <2>1. from = batch /\ j = 1 + ((path - 1) % size)
    BY <1>8 DEF PreviousBatchID, PreviousPath, LeafIndex
  <2>2. CASE path % size = 0
    <3>1. (path - 1) % size = size - 1
      BY <1>5, <1>8, <2>2, NeighbourLeaves
    <3>2. size \in Nat
      BY <1>5 DEF TreeSizes, MaxCommitments
    <3>3. size <= Len(batch.commitments)
      BY <1>1, <1>4, <2>1, <3>1, <3>2
    <3>4. Len(batch.commitments) = size
      BY <1>4, <1>5, <3>2, <3>3 DEF MaxCommitments
    <3> QED
      BY <3>4 DEF FillsTree
  <2>3. CASE path % size # 0
    <3>1. /\ (path - 1) % size = (path % size) - 1
          /\ path % size \in 0 .. size - 1
      BY <1>5, <1>8, <2>3, NeighbourLeaves
    <3>2. j = i - 1 /\ i # 1
      BY <1>6, <2>1, <2>3, <3>1
    <3>3. previous = Predecessor(batchID, i)
      BY <2>1, <3>2 DEF Predecessor
    <3> QED
      BY <1>1, <3>3 DEF TransitionFails, IsFaulty, IsGood, IsMisread
  <2> QED
    BY <2>2, <2>3
<1> QED
  BY <1>7, <1>8

(* A dispute by proofs as long as their trees that is won.                 *)
LEMMA CondemnedStep ==
    ASSUME ChainInv, NEW batchID \in BatchIDs, DisputedAtLeaves(batchID)
    PROVE  IsFaulty(batchID) \/ IsMisread(batchID) \/ FillsTree(batchID)
<1> DEFINE n == NumBatches - NumBatches'
<1>1. PICK reader \in Readers, path \in Paths :
         \/ DisputeTransition(reader, batchID, path, n)
         \/ DisputeSignature(reader, batchID, path, n)
  BY DEF DisputedAtLeaves
<1> HIDE DEF n
<1>2. path \in Nat
  BY DEF Paths
<1> QED
  BY <1>1, <1>2, TransitionHasCause, SignatureHasCause

(* Whichever batch is disputed, by whatever proofs of the length of their  *)
(* trees, at whatever path and after whatever rollbacks: it succeeds only  *)
(* against a batch with a faulty commitment, or one that can be misread,   *)
(* or one that fills its tree.                                             *)
THEOREM CondemnedAlwaysForCause == Spec => CondemnedForCause
<1>1. IInv /\ [Next]_vars =>
         [\A batchID \in BatchIDs :
             Accepted' = batchID /\ batchID < Accepted /\ DisputedAtLeaves(batchID)
                => IsFaulty(batchID) \/ IsMisread(batchID) \/ FillsTree(batchID)]_vars
  <2>1. ASSUME ChainInv, NEW batchID \in BatchIDs, DisputedAtLeaves(batchID)
        PROVE  IsFaulty(batchID) \/ IsMisread(batchID) \/ FillsTree(batchID)
    BY <2>1, CondemnedStep
  <2> QED
    BY <2>1 DEF IInv
<1> QED
  BY <1>1, Invariant, PTL DEF Spec, CondemnedForCause
-----------------------------------------------------------------------------
(* Taking a prefix.                                                        *)
LEMMA PrefixFacts ==
    ASSUME NEW s \in Seq(Batch), NEW n \in 0 .. Len(s)
    PROVE  /\ SubSeq(s, 1, n) \in Seq(Batch)
           /\ Len(SubSeq(s, 1, n)) = n
           /\ \A i \in 1 .. n : SubSeq(s, 1, n)[i] = s[i]
OBVIOUS

LEMMA SamePrefix ==
    ASSUME NEW s \in Seq(Batch), NEW t \in Seq(Batch), NEW n \in 0 .. Len(s),
           n <= Len(t), \A i \in 1 .. n : s[i] = t[i]
    PROVE  SubSeq(s, 1, n) = SubSeq(t, 1, n)
<1>1. n \in 0 .. Len(t)
  OBVIOUS
<1> DEFINE p == SubSeq(s, 1, n)
           q == SubSeq(t, 1, n)
<1>2. /\ p \in Seq(Batch) /\ q \in Seq(Batch) /\ Len(p) = Len(q)
      /\ \A i \in 1 .. Len(p) : p[i] = q[i]
  BY <1>1, PrefixFacts
<1> HIDE DEF p, q
<1>3. p = q
  BY <1>2, SeqEqual
<1> QED
  BY <1>3 DEF p, q

LEMMA PrefixOfPrefix ==
    ASSUME NEW s \in Seq(Batch), NEW n \in 0 .. Len(s), NEW k \in 0 .. n
    PROVE  SubSeq(SubSeq(s, 1, n), 1, k) = SubSeq(s, 1, k)
<1> DEFINE p == SubSeq(s, 1, n)
<1>1. p \in Seq(Batch) /\ Len(p) = n /\ \A i \in 1 .. n : p[i] = s[i]
  BY PrefixFacts
<1> HIDE DEF p
<1>2. SubSeq(p, 1, k) = SubSeq(s, 1, k)
  BY <1>1, SamePrefix
<1> QED
  BY <1>2 DEF p

-----------------------------------------------------------------------------
(* The ledger in a state of the rollup, by position.                       *)
LedgerFacts ==
    /\ batches \in Seq(Batch) /\ Len(batches) \in Nat
    /\ Accepted \in 1 .. Len(batches)
    /\ blockNumber \in Nat
    /\ AcceptedBatches = SubSeq(batches, 1, Accepted)
    /\ Len(AcceptedBatches) = Accepted
    /\ \A i \in 1 .. Len(batches) : batches[i].finaliseOn \in Nat
    /\ FinalPositions = {i \in 1 .. Accepted :
                            blockNumber >= batches[i].finaliseOn}

LEMMA LedgerNow == ChainInv => LedgerFacts
<1> SUFFICES ASSUME ChainInv PROVE LedgerFacts
  OBVIOUS
<1>1. /\ batches \in Seq(Batch) /\ Len(batches) \in Nat
      /\ blockNumber \in Nat /\ invalidBatchMarker \in Nat
      /\ Len(batches) >= 1
      /\ invalidBatchMarker # 0 => invalidBatchMarker < Len(batches)
  BY DEF ChainInv, BatchesTypeOK, MarkerStands, NumBatches
<1>2. Accepted \in 1 .. Len(batches)
  BY <1>1 DEF Accepted, NumBatches
<1>3. AcceptedBatches = SubSeq(batches, 1, Accepted)
  BY DEF AcceptedBatches
<1>4. Len(AcceptedBatches) = Accepted
  <2>1. PICK n \in 0 .. Len(batches) : n = Accepted
    BY <1>1, <1>2
  <2> QED
    BY <1>1, <1>3, <2>1, PrefixFacts
<1>5. \A i \in 1 .. Len(batches) : batches[i].finaliseOn \in Nat
  <2>1. \A i \in 1 .. Len(batches) : batches[i] \in Batch
    BY <1>1
  <2> QED
    BY <2>1 DEF Batch
<1>6. \A i \in 1 .. Accepted : IsFinal(i - 1) <=> blockNumber >= batches[i].finaliseOn
  BY <1>1, <1>2 DEF IsFinal, BatchOf
<1>7. FinalPositions = {i \in 1 .. Accepted : blockNumber >= batches[i].finaliseOn}
  BY <1>6 DEF FinalPositions
<1> QED
  BY <1>1, <1>2, <1>3, <1>4, <1>5, <1>7 DEF LedgerFacts

LEMMA LedgerAfter == ChainInv' => LedgerFacts'
BY LedgerNow, PTL

(* A step that leaves the accepted batches alone is a stutter.             *)
LEMMA KeepsLedger ==
    ASSUME ChainInv, ChainInv', Accepted' = Accepted,
           \A i \in 1 .. Accepted : batches'[i] = batches[i],
           blockNumber' = blockNumber
    PROVE  UNCHANGED <<AcceptedBatches, FinalPositions>>
<1>1. /\ batches \in Seq(Batch) /\ Len(batches) \in Nat
      /\ Accepted \in 1 .. Len(batches)
      /\ AcceptedBatches = SubSeq(batches, 1, Accepted)
      /\ FinalPositions = {i \in 1 .. Accepted :
                              blockNumber >= batches[i].finaliseOn}
  BY LedgerNow DEF LedgerFacts
<1>2. /\ batches' \in Seq(Batch) /\ Len(batches') \in Nat
      /\ Accepted' \in 1 .. Len(batches')
      /\ AcceptedBatches' = SubSeq(batches', 1, Accepted')
      /\ FinalPositions' = {i \in 1 .. Accepted' :
                               blockNumber' >= batches'[i].finaliseOn}
  BY LedgerAfter DEF LedgerFacts
<1>3. FinalPositions' = FinalPositions
  BY <1>1, <1>2
<1>4. AcceptedBatches' = AcceptedBatches
  <2>1. PICK n \in 0 .. Len(batches) : n = Accepted
    BY <1>1
  <2>2. SubSeq(batches, 1, n) = SubSeq(batches', 1, n)
    BY <1>1, <1>2, <2>1, SamePrefix
  <2> QED
    BY <1>1, <1>2, <2>1, <2>2
<1> QED
  BY <1>3, <1>4

(* A batch on top of a chain with no rollback in progress.                 *)
LEMMA GrowsLedger ==
    ASSUME ChainInv, ChainInv', Accepted' = Accepted + 1,
           \A i \in 1 .. Accepted : batches'[i] = batches[i],
           blockNumber' = blockNumber
    PROVE  Promise!Extend
<1>1. /\ batches \in Seq(Batch) /\ Len(batches) \in Nat
      /\ Accepted \in 1 .. Len(batches)
      /\ AcceptedBatches = SubSeq(batches, 1, Accepted)
      /\ Len(AcceptedBatches) = Accepted
      /\ FinalPositions = {i \in 1 .. Accepted :
                              blockNumber >= batches[i].finaliseOn}
  BY LedgerNow DEF LedgerFacts
<1>2. /\ batches' \in Seq(Batch) /\ Len(batches') \in Nat
      /\ Accepted' \in 1 .. Len(batches')
      /\ AcceptedBatches' = SubSeq(batches', 1, Accepted')
      /\ Len(AcceptedBatches') = Accepted'
      /\ FinalPositions' = {i \in 1 .. Accepted' :
                               blockNumber' >= batches'[i].finaliseOn}
  BY LedgerAfter DEF LedgerFacts
<1>3. SubSeq(AcceptedBatches', 1, Accepted) = AcceptedBatches
  <2>1. PICK n \in 0 .. Len(batches') : n = Accepted'
    BY <1>2
  <2>2. PICK k \in 0 .. n : k = Accepted
    BY <1>1, <2>1
  <2>3. SubSeq(SubSeq(batches', 1, n), 1, k) = SubSeq(batches', 1, k)
    BY <1>2, PrefixOfPrefix
  <2>4. k \in 0 .. Len(batches') /\ k <= Len(batches)
    BY <1>1, <2>1, <2>2
  <2>5. SubSeq(batches', 1, k) = SubSeq(batches, 1, k)
    BY <1>1, <1>2, <2>2, <2>4, SamePrefix
  <2> QED
    BY <1>1, <1>2, <2>1, <2>2, <2>3, <2>5
<1>4. FinalPositions' \in {FinalPositions, FinalPositions \union {Accepted + 1}}
  <2>1. \A i \in 1 .. Accepted : i \in FinalPositions' <=> i \in FinalPositions
    BY <1>1, <1>2
  <2>2. FinalPositions' \subseteq 1 .. Accepted + 1 /\ FinalPositions \subseteq 1 .. Accepted
    BY <1>1, <1>2
  <2>3. 1 .. Accepted + 1 = (1 .. Accepted) \union {Accepted + 1}
        /\ Accepted + 1 \notin 1 .. Accepted
    BY <1>1
  <2>4. CASE Accepted + 1 \in FinalPositions'
    BY <2>1, <2>2, <2>3, <2>4
  <2>5. CASE Accepted + 1 \notin FinalPositions'
    BY <2>1, <2>2, <2>3, <2>5
  <2> QED
    BY <2>4, <2>5
<1> QED
  BY <1>1, <1>2, <1>3, <1>4 DEF Promise!Extend

(* A dispute condemns a batch that is not final, so nothing above it is.   *)
LEMMA CutsLedger ==
    ASSUME ChainInv, ChainInv', NEW batchID, IsDisputable(batchID),
           Accepted' = batchID,
           \A i \in 1 .. batchID : batches'[i] = batches[i],
           blockNumber' = blockNumber
    PROVE  Promise!Condemn
<1>1. /\ batches \in Seq(Batch) /\ Len(batches) \in Nat
      /\ Accepted \in 1 .. Len(batches)
      /\ blockNumber \in Nat
      /\ \A i \in 1 .. Len(batches) : batches[i].finaliseOn \in Nat
      /\ AcceptedBatches = SubSeq(batches, 1, Accepted)
      /\ Len(AcceptedBatches) = Accepted
      /\ FinalPositions = {i \in 1 .. Accepted :
                              blockNumber >= batches[i].finaliseOn}
  BY LedgerNow DEF LedgerFacts
<1>2. /\ batches' \in Seq(Batch) /\ Len(batches') \in Nat
      /\ Accepted' \in 1 .. Len(batches')
      /\ AcceptedBatches' = SubSeq(batches', 1, Accepted')
      /\ FinalPositions' = {i \in 1 .. Accepted' :
                               blockNumber' >= batches'[i].finaliseOn}
  BY LedgerAfter DEF LedgerFacts
<1>3. /\ batchID \in Nat /\ batchID + 1 \in 1 .. Len(batches)
      /\ batchID < Accepted /\ batchID >= 1
      /\ blockNumber < batches[batchID + 1].finaliseOn
  <2>1. batchID \in 1 .. TopBatchID /\ batchID < Accepted
    BY DisputableIsAboveGenesis
  <2>2. blockNumber < BatchOf(batchID).finaliseOn
    BY DEF IsDisputable
  <2> QED
    BY <1>1, <2>1, <2>2 DEF BatchOf, TopBatchID, NumBatches
<1>4. FinalPositions \subseteq 1 .. batchID
  <2> SUFFICES ASSUME NEW i \in FinalPositions, i > batchID PROVE FALSE
    BY <1>1, <1>3
  <2>1. i \in 1 .. Len(batches) /\ blockNumber >= batches[i].finaliseOn
        /\ i >= batchID + 1
    BY <1>1, <1>3
  <2>2. \A a, b \in 1 .. Len(batches) :
           a < b => batches[a].finaliseOn <= batches[b].finaliseOn
    BY FinalByPosition
  <2>3. batches[batchID + 1].finaliseOn <= batches[i].finaliseOn
    BY <1>1, <1>3, <2>1, <2>2
  <2> QED
    BY <1>1, <1>3, <2>1, <2>3
<1>5. FinalPositions' = FinalPositions
  BY <1>1, <1>2, <1>3, <1>4
<1>6. AcceptedBatches' = SubSeq(AcceptedBatches, 1, batchID)
  <2>1. PICK n \in 0 .. Len(batches) : n = Accepted
    BY <1>1
  <2>2. PICK k \in 0 .. n : k = batchID
    BY <1>1, <1>3, <2>1
  <2>3. SubSeq(SubSeq(batches, 1, n), 1, k) = SubSeq(batches, 1, k)
    BY <1>1, PrefixOfPrefix
  <2>4. k \in 0 .. Len(batches) /\ k <= Len(batches')
    BY <1>1, <1>2, <2>1, <2>2
  <2>5. SubSeq(batches, 1, k) = SubSeq(batches', 1, k)
    BY <1>1, <1>2, <2>2, <2>4, SamePrefix
  <2> QED
    BY <1>1, <1>2, <2>1, <2>2, <2>3, <2>5
<1> QED
  BY <1>1, <1>3, <1>4, <1>5, <1>6 DEF Promise!Condemn

(* Time alone only adds to what is final.                                  *)
LEMMA AgesLedger ==
    ASSUME ChainInv, ChainInv', batches' = batches,
           invalidBatchMarker' = invalidBatchMarker, blockNumber' >= blockNumber
    PROVE  Promise!Finalise
<1>1. /\ Accepted \in 1 .. Len(batches) /\ blockNumber \in Nat
      /\ Len(batches) \in Nat
      /\ \A i \in 1 .. Len(batches) : batches[i].finaliseOn \in Nat
      /\ AcceptedBatches = SubSeq(batches, 1, Accepted)
      /\ Len(AcceptedBatches) = Accepted
      /\ FinalPositions = {i \in 1 .. Accepted :
                              blockNumber >= batches[i].finaliseOn}
  BY LedgerNow DEF LedgerFacts
<1>2. /\ blockNumber' \in Nat
      /\ AcceptedBatches' = SubSeq(batches', 1, Accepted')
      /\ FinalPositions' = {i \in 1 .. Accepted' :
                               blockNumber' >= batches'[i].finaliseOn}
  BY LedgerAfter DEF LedgerFacts
<1>3. Accepted' = Accepted
  BY DEF Accepted, NumBatches
<1>4. AcceptedBatches' = AcceptedBatches
  BY <1>1, <1>2, <1>3
<1>5. FinalPositions \subseteq FinalPositions'
  BY <1>1, <1>2, <1>3
<1>6. FinalPositions' \subseteq 1 .. Len(AcceptedBatches)
  BY <1>1, <1>2, <1>3
<1> QED
  BY <1>4, <1>5, <1>6 DEF Promise!Finalise

-----------------------------------------------------------------------------
(* The steps of the rollup, as steps of the ledger.                        *)
LEMMA SubmitExtends ==
    ASSUME ChainInv, ChainInv', NEW sender, NEW commitments, NEW batchType,
           SubmitBatch(sender, commitments, batchType)
    PROVE  Promise!Extend \/ UNCHANGED <<AcceptedBatches, FinalPositions>>
<1>1. /\ \E new : batches' = Append(batches, new)
      /\ invalidBatchMarker' = invalidBatchMarker
      /\ blockNumber' = blockNumber
  BY DEF SubmitBatch
<1>2. batches \in Seq(Batch) /\ Len(batches) \in Nat
      /\ Accepted \in 1 .. Len(batches)
  BY LedgerNow DEF LedgerFacts
<1>3. /\ Len(batches') = Len(batches) + 1
      /\ \A i \in 1 .. Len(batches) : batches'[i] = batches[i]
  BY <1>1, <1>2
<1>4. \A i \in 1 .. Accepted : batches'[i] = batches[i]
  BY <1>2, <1>3
<1>5. CASE invalidBatchMarker = 0
  <2>1. Accepted' = Accepted + 1
    BY <1>1, <1>3, <1>5 DEF Accepted, NumBatches
  <2> QED
    BY <1>1, <1>4, <2>1, GrowsLedger
<1>6. CASE invalidBatchMarker # 0
  <2>1. Accepted' = Accepted
    BY <1>1, <1>6 DEF Accepted
  <2> QED
    BY <1>1, <1>4, <2>1, KeepsLedger
<1> QED
  BY <1>5, <1>6

(* However far a rollback comes, what remains accepted ends at its marker. *)
LEMMA RollbackCutsAtMarker ==
    ASSUME ChainInv, NEW marker \in 1 .. TopBatchID, NEW n \in Nat,
           RollbackTo(marker, n)
    PROVE  /\ Accepted' = marker
           /\ \A i \in 1 .. marker : batches'[i] = batches[i]
           /\ blockNumber' = blockNumber
<1>1. /\ n <= TopBatchID - marker + 1
      /\ batches' = SubSeq(batches, 1, NumBatches - n)
      /\ invalidBatchMarker' = IF n = TopBatchID - marker + 1 THEN 0 ELSE marker
      /\ blockNumber' = blockNumber
  BY DEF RollbackTo
<1>2. batches \in Seq(Batch) /\ Len(batches) \in Nat
  BY LedgerNow DEF LedgerFacts
<1>3. /\ Len(batches') = Len(batches) - n
      /\ \A i \in 1 .. Len(batches') : batches'[i] = batches[i]
      /\ Len(batches') >= marker /\ marker \in Nat \ {0}
  BY <1>1, <1>2 DEF NumBatches, TopBatchID
<1>4. Accepted' = marker
  BY <1>1, <1>2, <1>3 DEF Accepted, NumBatches, TopBatchID
<1>5. \A i \in 1 .. marker : batches'[i] = batches[i]
  BY <1>2, <1>3
<1> QED
  BY <1>1, <1>4, <1>5

LEMMA InitImplements == Init => Promise!LedgerInit
<1> SUFFICES ASSUME Init PROVE Promise!LedgerInit
  OBVIOUS
<1>1. ChainInv
  BY ChainInit
<1>2. /\ batches = <<GenesisBatch>> /\ invalidBatchMarker = 0
      /\ blockNumber = 0
  BY DEF Init
<1>3. Accepted = 1
  BY <1>2 DEF Accepted, NumBatches
<1>4. GenesisBatch.finaliseOn = 0
  BY <1>2 DEF GenesisBatch
<1>5. FinalPositions = {1} /\ Len(AcceptedBatches) = 1
  <2>1. FinalPositions = {i \in 1 .. 1 : blockNumber >= batches[i].finaliseOn}
        /\ Len(AcceptedBatches) = 1
    BY <1>1, <1>3, LedgerNow DEF LedgerFacts
  <2>2. batches[1].finaliseOn = 0 /\ 1 .. 1 = {1}
    BY <1>2, <1>4
  <2> QED
    BY <1>2, <2>1, <2>2
<1> QED
  BY <1>5 DEF Promise!LedgerInit

LEMMA StepImplements ==
    ASSUME IInv, IInv', [Next]_vars
    PROVE  Promise!LedgerNext \/ UNCHANGED <<AcceptedBatches, FinalPositions>>
<1>1. ChainInv /\ ChainInv'
  BY DEF IInv
<1>2. CASE Submit
  BY <1>1, <1>2, SubmitExtends
  DEF Submit, SubmitTransfer, SubmitCreate2Transfer, SubmitMassMigration,
      SubmitDeposits, Promise!LedgerNext
<1>3. CASE Dispute
  <2>1. PICK batchID \in BatchIDs, n \in 0 .. MaxBatches :
           IsDisputable(batchID) /\ RollbackTo(batchID, n)
    BY <1>3, DisputeIsRollback DEF Dispute
  <2>2. batchID \in 1 .. TopBatchID /\ n \in Nat
    BY <1>1, <2>1, DisputableIsAboveGenesis
  <2>3. /\ Accepted' = batchID
        /\ \A i \in 1 .. batchID : batches'[i] = batches[i]
        /\ blockNumber' = blockNumber
    BY <1>1, <2>1, <2>2, RollbackCutsAtMarker
  <2>4. Promise!Condemn
    BY <1>1, <2>1, <2>3, CutsLedger
  <2> QED
    BY <2>4 DEF Promise!LedgerNext
<1>4. CASE \E n \in 0 .. MaxBatches : SlashAndRollback(n)
  <2>1. PICK n \in 0 .. MaxBatches : SlashAndRollback(n)
    BY <1>4
  <2>2. invalidBatchMarker \in 1 .. TopBatchID /\ n \in Nat
        /\ invalidBatchMarker # 0
    BY <1>1, <2>1, MarkerInRange DEF SlashAndRollback, IsRollingBack
  <2>3. PICK marker \in 1 .. TopBatchID : marker = invalidBatchMarker
    BY <2>2
  <2>4. RollbackTo(marker, n)
    BY <2>1, <2>3 DEF SlashAndRollback, RollbackTo
  <2>5. /\ Accepted' = marker
        /\ \A i \in 1 .. marker : batches'[i] = batches[i]
        /\ blockNumber' = blockNumber
    BY <1>1, <2>2, <2>4, RollbackCutsAtMarker
  <2>6. Accepted = marker
    BY <2>2, <2>3 DEF Accepted
  <2> QED
    BY <1>1, <2>5, <2>6, KeepsLedger
<1>5. CASE MineBlock
  <2>1. /\ batches' = batches /\ invalidBatchMarker' = invalidBatchMarker
        /\ blockNumber' >= blockNumber
    BY <1>1, <1>5, LedgerNow DEF MineBlock, LedgerFacts
  <2> QED
    BY <1>1, <2>1, AgesLedger DEF Promise!LedgerNext
<1>6. CASE UNCHANGED rollupVars
  <2>1. Accepted' = Accepted
    BY <1>6 DEF Accepted, NumBatches, rollupVars
  <2> QED
    BY <1>1, <1>6, <2>1, KeepsLedger DEF rollupVars
<1>7. \/ Submit \/ Dispute \/ MineBlock \/ UNCHANGED rollupVars
      \/ \E n \in 0 .. MaxBatches : SlashAndRollback(n)
  BY DEF Next, RollupNext, WithdrawStake, SubtreeReady, vars, rollupVars
<1> QED
  BY <1>2, <1>3, <1>4, <1>5, <1>6, <1>7

(* The rollup keeps the promise of the ledger: a final batch is never      *)
(* removed or altered, whatever is disputed and however rollbacks pause.   *)
THEOREM Refinement == Spec => ImplementsLedger
<1>1. Init => Promise!LedgerInit
  BY InitImplements
<1>2. IInv /\ IInv' /\ [Next]_vars => [Promise!LedgerNext]_(Promise!ledgerVars)
  BY StepImplements DEF Promise!ledgerVars
<1> QED
  BY <1>1, <1>2, Invariant, PTL DEF Spec, ImplementsLedger, Promise!LedgerSpec
=============================================================================
