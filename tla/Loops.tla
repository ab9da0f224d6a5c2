------------------------------- MODULE Loops --------------------------------
(***************************************************************************)
(* Loops of the contracts over numbers: sums, shifts and powers of two.    *)
(***************************************************************************)
EXTENDS Integers, Sequences

(* The sum that a loop over values adds up.                                *)
Total(values) ==
    LET upTo[i \in 0 .. Len(values)] ==
            IF i = 0 THEN 0 ELSE upTo[i - 1] + values[i]
    IN  upTo[Len(values)]
SumOf(Value(_), seq) == Total([i \in DOMAIN seq |-> Value(seq[i])])

(* 1 << k, which module Integers writes 2^k.                               *)
TwoTo[k \in Nat] == IF k = 0 THEN 1 ELSE 2 * TwoTo[k - 1]

(* number >> k, and whether the lowest bit of that is set.                 *)
Shifted(number, k) ==
    LET after[i \in 0 .. k] == IF i = 0 THEN number ELSE after[i - 1] \div 2
    IN  after[k]
IsSet(number, k) == Shifted(number, k) % 2 = 1
=============================================================================
