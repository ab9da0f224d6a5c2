-------------------------------- MODULE Tree --------------------------------
(***************************************************************************)
(* ts/tree/tree.ts and ts/tree/hasher.ts: the client's Merkle trees.  Only *)
(* nodes that were written are stored, and a write computes again the      *)
(* nodes above it and no other.  The root is level 0.                      *)
(***************************************************************************)
EXTENDS Loops

CONSTANT Zero      \* the leaf of the Hasher

hash2(x0, x1) == <<x0, x1>>

(* The loop makes the hash of a vacant tree of i levels for the level that *)
(* is i above that of the leaves.                                          *)
zeros(depth) ==
    LET zero[i \in 0 .. depth] ==
            IF i = 0 THEN Zero ELSE hash2(zero[i - 1], zero[i - 1])
    IN  [level \in 0 .. depth |-> zero[depth - level]]

(* new Tree(depth): a level and an index to a node, none of them stored.   *)
New(depth) == [depth |-> depth, zeros |-> zeros(depth), tree |-> <<>>]

getNode(t, level, index) ==
    IF <<level, index>> \in DOMAIN t.tree THEN t.tree[<<level, index>>]
    ELSE t.zeros[level]

root(t) == getNode(t, 0, 0)

(* Nodes are stored at a level, from an offset on.                         *)
Put(t, level, offset, nodes) ==
    LET places == {level} \X (offset .. offset + Len(nodes) - 1)
    IN  [t EXCEPT !.tree =
            [place \in DOMAIN t.tree \union places |->
                IF place \in places THEN nodes[place[2] - offset + 1]
                ELSE t.tree[place]]]

(* The stretch of len nodes from offset is widened to whole pairs.         *)
Widened(offset, len) ==
    LET left == offset % 2
    IN  [offset |-> offset - left, len |-> len + left + ((len + left) % 2)]

(* A turn of ascend(): the couples of the stretch of a level are hashed.   *)
updateCouples(up, level) ==
    LET wide == Widened(up.offset, up.len)
        couple(n) == hash2(getNode(up.t, level, wide.offset + 2 * n - 2),
                           getNode(up.t, level, wide.offset + 2 * n - 1))
    IN  [t |-> Put(up.t, level - 1, wide.offset \div 2,
                   [n \in 1 .. wide.len \div 2 |-> couple(n)]),
         offset |-> wide.offset \div 2,
         len |-> wide.len \div 2]

ascend(t, offset, len) ==
    LET up[i \in 0 .. t.depth] ==
            IF i = 0 THEN [t |-> t, offset |-> offset, len |-> len]
            ELSE updateCouples(up[i - 1], t.depth - i + 1)
    IN  up[t.depth].t

(* Slip: the nodes above are computed again from the first leaf on.        *)
updateBatchFromZero(t, offset, data) ==
    IF data = <<>> \/ Len(data) + offset > TwoTo[t.depth] THEN t
    ELSE ascend(Put(t, t.depth, offset, data), 0, Len(data))

(* A write out of the tree changes nothing and returns an error.           *)
updateBatch(t, offset, data) ==
    IF data = <<>> \/ Len(data) + offset > TwoTo[t.depth] THEN t
    ELSE ascend(Put(t, t.depth, offset, data), offset, Len(data))

updateSingle(t, leafIndex, leaf) ==
    IF leafIndex >= TwoTo[t.depth] THEN t
    ELSE ascend(Put(t, t.depth, leafIndex, <<leaf>>), leafIndex, 1)

(* The other node of a couple.                                             *)
Sibling(index) == IF index % 2 = 0 THEN index + 1 ELSE index - 1

(* Slip: the levels are counted from the leaves whatever the node is.      *)
witnessFromLeaves(t, index, depth) ==
    [i \in 1 .. depth |-> getNode(t, t.depth - i + 1, Sibling(Shifted(index, i - 1)))]

(* The siblings of the nodes on the way up from a node of a level.         *)
witness(t, index, depth) ==
    [i \in 1 .. depth |-> getNode(t, depth - i + 1, Sibling(Shifted(index, i - 1)))]

(* The whole Witness: with the node that it is for, and on which side of   *)
(* its sibling each node on the way up lies.                               *)
Witness(t, index, depth) ==
    [path |-> [i \in 1 .. depth |-> ~IsSet(index, i - 1)],
     nodes |-> witness(t, index, depth), leaf |-> getNode(t, depth, index),
     index |-> index, depth |-> depth]

(* The witness for a subtree to be merged at an offset, if it may be.      *)
IsAligned(mergeOffsetLower, subtreeDepth) ==
    Shifted(mergeOffsetLower, subtreeDepth)
        = Shifted(mergeOffsetLower + TwoTo[subtreeDepth] - 1, subtreeDepth)
witnessForBatch(t, mergeOffsetLower, subtreeDepth) ==
    Witness(t, Shifted(mergeOffsetLower, subtreeDepth), t.depth - subtreeDepth)

(* 0 or the code of an error.  (A witness of no level has the code -2.)    *)
checkInclusion(t, w) ==
    LET acc[i \in 0 .. w.depth] ==
            IF i = 0 THEN w.leaf
            ELSE IF w.path[i] THEN hash2(acc[i - 1], w.nodes[i])
            ELSE hash2(w.nodes[i], acc[i - 1])
    IN  IF w.nodes = <<>> THEN -2
        ELSE IF Len(w.nodes) # Len(w.path) THEN -3
        ELSE IF acc[w.depth] = root(t) THEN 0 ELSE -1

(* The tree just deep enough for the leaves, and of two leaves at least.   *)
merklize(leaves) ==
    LET depth == CHOOSE d \in 1 .. Len(leaves) :
                    /\ TwoTo[d] >= Len(leaves)
                    /\ d = 1 \/ TwoTo[d - 1] < Len(leaves)
    IN  updateBatch(New(depth), 0, leaves)
=============================================================================
