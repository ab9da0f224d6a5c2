------------------------------ MODULE MCRollup ------------------------------
(* Instances of Rollup small enough for TLC.                               *)
EXTENDS RollupProperties

MCRoots == {0, 1}
MCProcess == [root \in MCRoots |-> 1 - root]
MCInsert == [root \in MCRoots |-> {1 - root}]

Good(root) == [stateRoot |-> root, txs |-> "Ok", signed |-> TRUE,
               misread |-> {}, migration |-> NoMigration]
Rejected == [Good(0) EXCEPT !.txs = "Rejected"]
Reverting == [Good(0) EXCEPT !.txs = "Reverts"]
Unsigned(root) == [Good(root) EXCEPT !.signed = FALSE]
Misread(root) == [Good(root) EXCEPT !.misread = {"Transfer"}]

(* One commitment a batch: a right root or a wrong one, by its parent.     *)
OneEach == {<<Good(0)>>, <<Good(1)>>}

(* Three roots in a cycle, and batches of up to three commitments, each    *)
(* built on the one before it; two of them fill a Merkle tree, three leave *)
(* a position empty.                                                       *)
Cycle == {0, 1, 2}
CycleProcess == [root \in Cycle |-> (root + 1) % 3]
CycleInsert == [root \in Cycle |-> {(root + 1) % 3}]

Lists == {<<Good(1)>>, <<Rejected>>, <<Good(1), Good(2)>>, <<Good(1), Good(1)>>,
          <<Good(1), Unsigned(2)>>, <<Good(1), Reverting>>,
          <<Misread(1), Good(2)>>, <<Good(1), Good(2), Good(0)>>}
HonestLists == {<<Good(1)>>, <<Good(1), Good(2)>>}
=============================================================================
