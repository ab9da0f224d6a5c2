-------------------------- MODULE MCAccountRegistry -------------------------
(* An instance of AccountRegistry small enough for TLC.                    *)
EXTENDS AccountRegistry, TLC

CONSTANTS alice, bob, client1, client2

(* Neither keys nor clients are told apart by anything but equality.       *)
MCSymmetry == Permutations(Pubkeys) \union Permutations(Clients)
=============================================================================
