------------------------------- MODULE Ledger -------------------------------
(***************************************************************************)
(* What the rollup promises to those who rely on it: a list of accepted    *)
(* batches that grows at its end, from which a faulty batch and all that   *)
(* was built on it may be cut off, but never a final one.                  *)
(***************************************************************************)
EXTENDS Integers, Sequences

VARIABLES
    ledger,    \* the accepted batches, genesis first
    final      \* the positions of the final ones

ledgerVars == <<ledger, final>>

LedgerInit ==
    /\ Len(ledger) = 1
    /\ final = {1}

(* A batch is accepted; with no challenge period it is final at once.      *)
Extend ==
    /\ Len(ledger') = Len(ledger) + 1
    /\ SubSeq(ledger', 1, Len(ledger)) = ledger
    /\ final' \in {final, final \union {Len(ledger')}}

(* A batch is condemned, and with it every later one; none was final.      *)
Condemn ==
    /\ \E k \in 0 .. Len(ledger) - 1 :
          /\ final \subseteq 1 .. k
          /\ ledger' = SubSeq(ledger, 1, k)
    /\ UNCHANGED final

(* Time passes and more of the accepted batches become final.              *)
Finalise ==
    /\ UNCHANGED ledger
    /\ final \subseteq final'
    /\ final' \subseteq 1 .. Len(ledger)

LedgerNext == Extend \/ Condemn \/ Finalise

LedgerSpec == LedgerInit /\ [][LedgerNext]_ledgerVars
=============================================================================
