-------------------------------- MODULE Utils -------------------------------
(***************************************************************************)
(* ts/utils.ts: the client's own merklise(), with which deployAll() makes  *)
(* the genesis root.                                                       *)
(***************************************************************************)
EXTENDS Integers, Sequences, SequencesExt

CONSTANT Zero      \* keccak256 of 32 bytes of zero

getParentLeaf(left, right) == <<left, right>>

defaultHashes(depth) ==
    LET hashes[i \in 0 .. depth - 1] ==
            IF i = 0 THEN Zero ELSE getParentLeaf(hashes[i - 1], hashes[i - 1])
    IN  hashes

(* One turn of the loop: the pairs, and the last node when it has none.    *)
Halved(nodes, level, defaults) ==
    LET odd == Len(nodes) % 2
        n == (Len(nodes) + 1) \div 2
    IN  [i \in 1 .. n |->
            getParentLeaf(nodes[2 * i - 1],
                          IF i = n /\ odd = 1 THEN defaults[level] ELSE nodes[2 * i])]

(* Slip: the loop ends when two nodes are left.                            *)
merkliseEarly(dataLeaves, maxDepth) ==
    LET defaults == defaultHashes(maxDepth)
        after[level \in 0 .. maxDepth] ==
            IF level = 0 THEN dataLeaves
            ELSE IF level > 1 /\ Len(after[level - 1]) = 2 THEN after[level - 1]
            ELSE Halved(after[level - 1], level - 1, defaults)
    IN  after[maxDepth][1]

(* The first turn is always taken, and the last leaves one node.           *)
merklise(dataLeaves, maxDepth) ==
    LET defaults == defaultHashes(maxDepth)
        after[level \in 0 .. maxDepth] ==
            IF level = 0 THEN dataLeaves
            ELSE IF level > 1 /\ Len(after[level - 1]) = 1 THEN after[level - 1]
            ELSE Halved(after[level - 1], level - 1, defaults)
    IN  after[maxDepth][1]
=============================================================================
