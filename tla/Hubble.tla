------------------------------- MODULE Hubble -------------------------------
(***************************************************************************)
(* The rollup and the deposit manager together: users deposit one by one,  *)
(* the coordinator puts full subtrees in batches, and a rollback hands     *)
(* them back.  Subtrees is the set of the full trees that deposits can     *)
(* build, so that the composition implements module Rollup.                *)
(***************************************************************************)
EXTENDS RollupProperties, DepositManager

(* Full trees over consecutive deposits, each of any token and amount.     *)
FullSubtree(first, kinds) ==
    [height |-> SubtreeDepth,
     leaves |-> [i \in 1 .. GovMaxSubtreeSize |->
                    [deposit |-> first + i - 1, tokenType |-> kinds[i][1],
                     balance |-> kinds[i][2]]]]

FullSubtrees ==
    {FullSubtree(first, kinds) :
        first \in 1 .. MaxDeposits,
        kinds \in [1 .. GovMaxSubtreeSize -> Tokens \X (Amounts \ {0})]}

ASSUME FullSubtreesAssumption == FullSubtrees \subseteq Subtrees

hubbleVars == <<vars, depositVars>>

HubbleInit == Init /\ DepositInit

(* The subtree that this step completed, if it did, has arrived.           *)
Deposit(amount, token) ==
    /\ DepositFor(amount, token)
    /\ arrived' = arrived \union
          {subtreeQueue'[k] : k \in Len(subtreeQueue) + 1 .. Len(subtreeQueue')}
    /\ UNCHANGED <<rollupVars, stakeVars>>

HubbleNext ==
    \/ RollupNext /\ UNCHANGED depositVars
    \/ \E amount \in Amounts, token \in Tokens : Deposit(amount, token)

HubbleSpec == HubbleInit /\ [][HubbleNext]_hubbleVars
-----------------------------------------------------------------------------
(* A tree over a run of consecutive deposits, in the order they were made, *)
(* with as many leaves as its height has room for; and the run.            *)
IsFullRun(tree) ==
    /\ Len(tree.leaves) = TwoTo[tree.height]
    /\ \A i \in DOMAIN tree.leaves :
          /\ tree.leaves[i].deposit = tree.leaves[1].deposit + i - 1
          /\ tree.leaves[i] = deposits[tree.leaves[i].deposit]
FirstOf(tree) == tree.leaves[1].deposit
LastOf(tree) == tree.leaves[Len(tree.leaves)].deposit

(* The baby trees are the binary digits of depositCount: full trees of     *)
(* strictly falling height, one for each bit that is set, over the newest  *)
(* deposits in the order they were made, and never a whole subtree.        *)
BabyTreesCountInBinary ==
    LET end(i) == IF i = 0 THEN Len(deposits) - depositCount
                           ELSE LastOf(babyTrees[i])
    IN  /\ depositCount < GovMaxSubtreeSize
        /\ \A i \in 1 .. Len(babyTrees) :
              /\ IsFullRun(babyTrees[i])
              /\ FirstOf(babyTrees[i]) = end(i - 1) + 1
        /\ end(Len(babyTrees)) = Len(deposits)
        /\ \A i, j \in 1 .. Len(babyTrees) :
              i < j => babyTrees[i].height > babyTrees[j].height
        /\ \A k \in 0 .. SubtreeDepth :
              IsSet(depositCount, k) <=>
                 \E i \in 1 .. Len(babyTrees) : babyTrees[i].height = k

(* Every subtree in the queue or in a batch is the full tree of depth      *)
(* SubtreeDepth over a run of consecutive deposits, in order: the shape    *)
(* submitDeposits() counts on when it grafts it in one Merkle path.        *)
SubtreesAreFull ==
    /\ \A k \in 1 .. Len(subtreeQueue) :
          IsFullRun(subtreeQueue[k]) /\ subtreeQueue[k].height = SubtreeDepth
    /\ \A batchID \in BatchIDs : submittedSubtree[batchID] # NoSubtree =>
          /\ IsFullRun(submittedSubtree[batchID])
          /\ submittedSubtree[batchID].height = SubtreeDepth

(* The tokens in the vault are those of the deposits that wait in a baby   *)
(* tree, wait in the queue, or stand in a batch, each counted once for     *)
(* every place that holds it: a rollback changes where a deposit is, never *)
(* how much the vault owes for it.                                         *)
IsIn(leaf, tree) == \E i \in DOMAIN tree.leaves : tree.leaves[i] = leaf
Copies(leaf) ==
    Cardinality({i \in 1 .. Len(babyTrees) : IsIn(leaf, babyTrees[i])})
    + Cardinality({k \in 1 .. Len(subtreeQueue) : IsIn(leaf, subtreeQueue[k])})
    + Cardinality({batchID \in BatchIDs :
                      /\ submittedSubtree[batchID] # NoSubtree
                      /\ IsIn(leaf, submittedSubtree[batchID])})
Worth(leaf, token) == IF leaf.tokenType = token THEN leaf.balance ELSE 0

VaultBacksDeposits ==
    \A token \in Tokens :
        vaultBalance[token] =
            Total([d \in 1 .. Len(deposits) |->
                      Worth(deposits[d], token) * Copies(deposits[d])])

(* What the rollup sees of the deposit manager is a supply of full         *)
(* subtrees: with single deposits hidden, the composition is Rollup.       *)
ImplementsRollup == Spec
=============================================================================
