---------------------------- MODULE SubtreeQueue ----------------------------
(***************************************************************************)
(* The part of contracts/DepositManager.sol that the rollup drives: the    *)
(* queue of deposit subtrees that wait for a batch, and the subtree each   *)
(* deposit batch took.  A subtree root is opaque here, as it is to Rollup. *)
(* The mapping queue[front..back] is the sequence of the roots between     *)
(* front and back; nothing else reads the two counters.                    *)
(***************************************************************************)
EXTENDS Types, FiniteSets

CONSTANTS
    Subtrees,     \* the roots of full deposit subtrees
    NoSubtree     \* bytes32(0), the entry of a batch without a subtree

ASSUME NoSubtreeAssumption == NoSubtree \notin Subtrees

VARIABLES
    subtreeQueue,       \* the waiting subtrees, front first
    submittedSubtree    \* submittedSubtree[batchID], or NoSubtree

subtreeVars == <<subtreeQueue, submittedSubtree>>

SubtreeInit ==
    /\ subtreeQueue = <<>>
    /\ submittedSubtree = [batchID \in BatchIDs |-> NoSubtree]

Enqueue(subtreeRoot) ==
    /\ subtreeQueue' = Append(subtreeQueue, subtreeRoot)
    /\ UNCHANGED submittedSubtree

(* dequeueToSubmit(): the front of the queue goes to batch batchID.        *)
DequeueToSubmit(batchID) ==
    /\ subtreeQueue # <<>>
    /\ subtreeQueue' = Tail(subtreeQueue)
    /\ submittedSubtree' =
          [submittedSubtree EXCEPT ![batchID] = Head(subtreeQueue)]

(***************************************************************************)
(* tryReenqueue(b) for b = top, top - 1, ..., first: each subtree met goes *)
(* to the BACK of the queue and its entry is deleted.  The k-th subtree    *)
(* re-enqueued is the one with k holders at or above its batch.            *)
(***************************************************************************)
Holders(first, top) ==
    {batchID \in first .. top : submittedSubtree[batchID] # NoSubtree}

HolderRank(holders, batchID) == Cardinality({b \in holders : b >= batchID})

Reenqueued(holders) ==
    [k \in 1 .. Cardinality(holders) |->
        submittedSubtree[CHOOSE b \in holders : HolderRank(holders, b) = k]]

(* Slip: the entry of the batch is not deleted.                            *)
TryReenqueueKeeping(first, top) ==
    /\ subtreeQueue' = subtreeQueue \o Reenqueued(Holders(first, top))
    /\ UNCHANGED submittedSubtree

TryReenqueueDown(first, top) ==
    /\ subtreeQueue' = subtreeQueue \o Reenqueued(Holders(first, top))
    /\ submittedSubtree' =
          [batchID \in BatchIDs |->
              IF batchID \in first .. top THEN NoSubtree
                                          ELSE submittedSubtree[batchID]]
-----------------------------------------------------------------------------
(* The queue and the batches hold nothing but the given roots ...          *)
OnlyHolds(roots) ==
    /\ subtreeQueue \in Seq(roots)
    /\ submittedSubtree \in [BatchIDs -> roots \union {NoSubtree}]

(* ... and each of them in exactly one place.                              *)
HoldsEachOnce(roots) ==
    /\ \A s \in roots :
          \/ \E k \in 1 .. Len(subtreeQueue) : subtreeQueue[k] = s
          \/ \E b \in BatchIDs : submittedSubtree[b] = s
    /\ \A j, k \in 1 .. Len(subtreeQueue) :
          subtreeQueue[j] = subtreeQueue[k] => j = k
    /\ \A a, b \in BatchIDs :
          submittedSubtree[a] = submittedSubtree[b]
             => a = b \/ submittedSubtree[a] = NoSubtree
    /\ \A k \in 1 .. Len(subtreeQueue), b \in BatchIDs :
          subtreeQueue[k] # submittedSubtree[b]
=============================================================================
