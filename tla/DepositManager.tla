--------------------------- MODULE DepositManager ---------------------------
(***************************************************************************)
(* contracts/DepositManager.sol: how single deposits are merged into full  *)
(* subtrees.  The queue of full subtrees is that of SubtreeQueue.  A hash  *)
(* is free: a tree is its height and its leaves from left to right, which  *)
(* determine it when it is full.                                           *)
(***************************************************************************)
EXTENDS SubtreeQueue, Loops

CONSTANTS
    Tokens,          \* token types that the token registry knows
    Amounts,         \* the amounts that users ask to deposit, 0 included
    SubtreeDepth,    \* governance.maxDepositSubtree()
    MaxDeposits      \* bound: deposits ever made

ASSUME DepositAssumption ==
    /\ Amounts \subseteq Nat
    /\ SubtreeDepth \in Nat
    /\ MaxDeposits \in Nat

VARIABLES
    babyTrees,       \* roots of the trees built so far, left to right
    depositCount,    \* deposits merged into babyTrees
    deposits,        \* history: every leaf deposited, in order
    vaultBalance     \* the tokens of each type that the vault holds

depositVars == <<babyTrees, depositCount, deposits, vaultBalance>>

GovMaxSubtreeSize == TwoTo[SubtreeDepth]

Leaf(leaf) == [height |-> 0, leaves |-> <<leaf>>]

NodeSwapped(left, right) ==    \* slip: the children change places
    [height |-> 1 + (IF left.height > right.height THEN left.height
                                                   ELSE right.height),
     leaves |-> right.leaves \o left.leaves]

(* keccak256 of a left and a right node.                                   *)
Node(left, right) ==
    [height |-> 1 + (IF left.height > right.height THEN left.height
                                                   ELSE right.height),
     leaves |-> left.leaves \o right.leaves]

DepositInit ==
    /\ babyTrees = <<>>
    /\ depositCount = 0
    /\ deposits = <<>>
    /\ vaultBalance = [token \in Tokens |-> 0]

MergesOnce(count) == (count + 1) % 2    \* slip: an if for the while

(* The loop of insertAndMerge() halves the count while it is even.         *)
Merges(count) ==
    CHOOSE k \in 0 .. count : /\ IsSet(count, k)
                              /\ \A j \in 0 .. k - 1 : ~IsSet(count, j)

(* Each turn of it replaces the last two of babyTrees by their parent.     *)
MergeLastTwo(trees) ==
    LET n == Len(trees)
    IN  Append(SubSeq(trees, 1, n - 2), Node(trees[n - 1], trees[n]))

MergeLast(trees, merges) ==
    LET after[k \in 0 .. merges] ==
            IF k = 0 THEN trees ELSE MergeLastTwo(after[k - 1])
    IN  after[merges]

(* Slip: reset() clears the count and leaves the tree.                     *)
InsertAndMergeKeepingTree(depositLeaf) ==
    LET count == depositCount + 1
        merged == MergeLast(Append(babyTrees, Leaf(depositLeaf)), Merges(count))
    IN  /\ babyTrees' = merged
        /\ IF count = GovMaxSubtreeSize
           THEN Enqueue(merged[1]) /\ depositCount' = 0
           ELSE depositCount' = count /\ UNCHANGED subtreeVars

(* Slip: the subtree is taken for full one deposit early.                  *)
InsertAndMergeEarly(depositLeaf) ==
    LET count == depositCount + 1
        merged == MergeLast(Append(babyTrees, Leaf(depositLeaf)), Merges(count))
    IN  IF count = GovMaxSubtreeSize - 1
        THEN /\ Enqueue(merged[1])
             /\ babyTrees' = <<>>
             /\ depositCount' = 0
        ELSE /\ babyTrees' = merged
             /\ depositCount' = count
             /\ UNCHANGED subtreeVars

InsertAndMerge(depositLeaf) ==
    LET count == depositCount + 1
        merged == MergeLast(Append(babyTrees, Leaf(depositLeaf)), Merges(count))
    IN  IF count = GovMaxSubtreeSize
        THEN /\ Enqueue(merged[1])
             /\ babyTrees' = <<>>
             /\ depositCount' = 0
        ELSE /\ babyTrees' = merged
             /\ depositCount' = count
             /\ UNCHANGED subtreeVars

(* depositFor(): tokens move from the sender to the vault, or the call     *)
(* reverts for want of allowance or balance; then the leaf is inserted.    *)
DepositFor(amount, token) ==
    LET leaf == [deposit |-> Len(deposits) + 1, tokenType |-> token,
                 balance |-> amount]
    IN  /\ Len(deposits) < MaxDeposits
        /\ amount > 0
        /\ vaultBalance' = [vaultBalance EXCEPT ![token] = @ + amount]
        /\ deposits' = Append(deposits, leaf)
        /\ InsertAndMerge(leaf)
=============================================================================
