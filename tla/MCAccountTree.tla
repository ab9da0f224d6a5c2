---------------------------- MODULE MCAccountTree ---------------------------
(* An instance of AccountTree small enough for TLC.                        *)
EXTENDS AccountTree

CONSTANTS alice, bob
=============================================================================
