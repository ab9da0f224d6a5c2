------------------------------- MODULE MCClient ------------------------------
(* An instance of the committer's side small enough for TLC.               *)
EXTENDS Committer

MCPubkeys == <<"key0", "key1">>

(* In hundredths, where the token counts tenths.                           *)
MCInputs == {4, 96, 160, 1505, 15000, 200000}

(* A number of two bytes and the largest of four.                          *)
MCRandoms == {9, 4095}

(* The largest mantissa, tens that could be an exponent, and both parts.   *)
MCCodes == {0, 15, 26, 57}

(* Any transaction, alone or followed by one of the largest sender.        *)
Few(rand) == buildLists(rand, 1) \union
             {list \in buildLists(rand, 2) :
                 /\ list[2].fromIndex = 4095
                 /\ list[2].nonce = 9
                 /\ list[2].amount = 15
                 /\ list[2].fee = 100}
MCDrawn == Few(RandTransfers(MCRandoms, MCCodes))
           \union Few(RandMassMigrations(MCRandoms, MCCodes))
           \union Few(RandCreate2Transfers(MCRandoms, MCCodes))
=============================================================================
