------------------------------ MODULE MCHubble ------------------------------
(* Instances of Hubble small enough for TLC.                               *)
EXTENDS Hubble

MCRoots == {0, 1}
MCProcess == [root \in MCRoots |-> 1 - root]
MCInsert == [root \in MCRoots |-> {1 - root}]

Honest == [stateRoot |-> 1, txs |-> "Ok", signed |-> TRUE, misread |-> {},
           migration |-> NoMigration]
OneGood == {<<Honest>>}

MCNoSubtree == [height |-> 0, leaves |-> <<>>]
MCSubtrees == FullSubtrees
=============================================================================
