---------------------------- MODULE MCWithdrawals ---------------------------
(* Instances of Withdrawals small enough for TLC.                          *)
EXTENDS Withdrawals

CONSTANTS manager, other, token1, token2, alice, bob, coordinator

MCRoots == {0}
MCStay == [root \in MCRoots |-> 0]
MCNoInsert == [root \in MCRoots |-> {}]
MCSpokes == {manager, other}
MCFundsTwo == [token \in TokenContracts |-> 2]
MCSignedFor == [key \in {alice, bob} |-> {coordinator}]

MCNoMigration == [amount |-> 0]
Registered == [index \in {0, 1} |-> IF index = 0 THEN alice ELSE bob]

State(index, token, balance) ==
    [pubkeyIndex |-> index, tokenType |-> token, balance |-> balance]
Migration(spoke, token, amount, root) ==
    [targetSpokeID |-> spoke, tokenID |-> token, amount |-> amount,
     withdrawRoot |-> root, accountRoot |-> Registered]

(* One withdrawal and two by the first spoke, in two tokens, one by the   *)
(* second spoke, and one whose amount is not that of its root.             *)
Two == Migration(1, 1, 2, <<State(0, 1, 1), State(1, 1, 1)>>)
SecondToken == Migration(1, 2, 1, <<State(0, 2, 1)>>)
SecondSpoke == Migration(2, 1, 1, <<State(0, 1, 1)>>)
Short == Migration(1, 1, 0, <<State(1, 1, 2)>>)
MCMigrations == {MCNoMigration, Two, SecondToken, SecondSpoke, Short}

Migrating(migration, outcome) ==
    [stateRoot |-> 0, txs |-> outcome, signed |-> TRUE, misread |-> {},
     migration |-> migration]
(* Sound ones, which a dispute by proofs of other lengths may roll back,   *)
(* and others, of which one can be rolled back by any dispute.             *)
SoundOnes == {<<Migrating(Two, "Ok")>>, <<Migrating(SecondToken, "Ok")>>}
MixedOnes == {<<Migrating(SecondSpoke, "Ok")>>, <<Migrating(Short, "Rejected")>>}
=============================================================================
