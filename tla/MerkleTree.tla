------------------------------ MODULE MerkleTree ----------------------------
(***************************************************************************)
(* contracts/libs/MerkleTree.sol: the root of a list of nodes, and the     *)
(* root that a witness leads to.  A hash is free: that of two nodes is     *)
(* the pair of them.                                                       *)
(***************************************************************************)
EXTENDS Loops

CONSTANT ZERO_BYTES32      \* the leaf that is vacant

Hash(left, right) == <<left, right>>

computeRoot(leafInput, path, witness) ==
    LET leaf[i \in 0 .. Len(witness)] ==
            IF i = 0 THEN leafInput
            ELSE IF IsSet(path, i - 1) THEN Hash(witness[i], leaf[i - 1])
            ELSE Hash(leaf[i - 1], witness[i])
    IN  leaf[Len(witness)]

verify(root, leaf, path, witness) == computeRoot(leaf, path, witness) = root

(* The table of the hashes of vacant trees, the leaf being level 0.        *)
getRoot(level) ==
    LET node[i \in 0 .. level] ==
            IF i = 0 THEN ZERO_BYTES32 ELSE Hash(node[i - 1], node[i - 1])
    IN  node[level]

(* Slip: a node without a pair is hashed with a vacant leaf at any level.  *)
RoundOfLeaves(nodes, level) ==
    [i \in 1 .. (Len(nodes) + 1) \div 2 |->
        Hash(nodes[2 * i - 1],
             IF 2 * i <= Len(nodes) THEN nodes[2 * i] ELSE getRoot(0))]

(* One round of merklise(): a node without a pair is hashed with the       *)
(* vacant tree of its level.                                               *)
Round(nodes, level) ==
    [i \in 1 .. (Len(nodes) + 1) \div 2 |->
        Hash(nodes[2 * i - 1],
             IF 2 * i <= Len(nodes) THEN nodes[2 * i] ELSE getRoot(level))]

(* The rounds go on until one node is left, and there is always a first.   *)
(* (Without any node the contract's loop would not end.)                   *)
merklise(nodes) ==
    LET row[i \in 0 .. 6] ==
            IF i = 0 THEN nodes
            ELSE IF i > 1 /\ Len(row[i - 1]) = 1 THEN row[i - 1]
            ELSE Round(row[i - 1], i - 1)
    IN  row[6][1]
=============================================================================
