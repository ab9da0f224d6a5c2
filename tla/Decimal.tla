------------------------------- MODULE Decimal ------------------------------
(***************************************************************************)
(* ts/decimal.ts, and encodeDecimal() of contracts/libs/Tx.sol: integers   *)
(* kept as a mantissa and a power of ten.  A codec is given by the widths  *)
(* of the two and by the decimals of its token; USDT is 4, 12 and 6.       *)
(*                                                                         *)
(* A JavaScript number is a count of 10^-Digits; its arithmetic is exact   *)
(* here, where the code rounds away what floating point adds.              *)
(***************************************************************************)
EXTENDS Loops, SequencesExt

CONSTANTS
    ByteBits,        \* bits of a byte
    exponentBits, mantissaBits, place,
    Digits           \* decimals of the numbers that are given

ASSUME CodecAssumption ==
    /\ {ByteBits, exponentBits, mantissaBits} \subseteq Nat \ {0}
    /\ place \in Nat /\ Digits \in Nat /\ Digits >= place

(* What an encoding that throws, or reverts, leaves behind.                *)
Refused == <<-1>>

(* Ten to the e-th.                                                        *)
TenTo[e \in Nat] == IF e = 0 THEN 1 ELSE 10 * TenTo[e - 1]

(* The bytes of a number, and the number of bytes; and what is left of a   *)
(* number without its last k bytes.                                        *)
Base == TwoTo[ByteBits]
Cut(x, k) ==
    LET left[i \in 0 .. k] == IF i = 0 THEN x ELSE left[i - 1] \div Base
    IN  left[k]
Truncated(x, n) == [i \in 1 .. n |-> Cut(x, n - i) % Base]
hexZeroPad(x, n) == IF Cut(x, n) # 0 THEN Refused ELSE Truncated(x, n)
ValueOf(bytes) ==
    LET value[i \in 0 .. Len(bytes)] ==
            IF i = 0 THEN 0 ELSE value[i - 1] * Base + bytes[i]
    IN  value[Len(bytes)]

mantissaMax == TwoTo[mantissaBits] - 1
exponentMax == TwoTo[exponentBits] - 1
bytesLength == (mantissaBits + exponentBits) \div ByteBits

(* The tens that the loops of both encoders take out of an integer.        *)
Exponent(x) ==
    IF x = 0 THEN 0
    ELSE CHOOSE e \in 0 .. exponentMax :
            /\ x % TenTo[e] = 0
            /\ e = exponentMax \/ x % TenTo[e + 1] # 0
Mantissa(x) == x \div TenTo[Exponent(x)]
Code(x) == Exponent(x) * TwoTo[mantissaBits] + Mantissa(x)

encodeInt(x) ==
    IF Mantissa(x) > mantissaMax THEN Refused
    ELSE hexZeroPad(Code(x), bytesLength)

(* Slip: every mantissa is taken, as the client does.                      *)
encodeDecimalAny(x) ==
    IF Mantissa(x) > mantissaMax THEN Refused
    ELSE Truncated(Code(x), bytesLength)

(* The contract's encoder wants the mantissa BELOW the largest there is.   *)
encodeDecimal(x) ==
    IF Mantissa(x) >= mantissaMax THEN Refused
    ELSE Truncated(Code(x), bytesLength)

decodeInt(code) ==
    (code % TwoTo[mantissaBits]) * TenTo[code \div TwoTo[mantissaBits]]

(* The integers that randInt() may draw, given what rand() draws.          *)
randInt(codes) == {decodeInt(code) : code \in codes}

(* How many digits of a number a mantissa has no place for.                *)
Dropped(input) ==
    CHOOSE k \in 0 .. input :
        /\ input <= mantissaMax * TenTo[k]
        /\ k = 0 \/ input > mantissaMax * TenTo[k - 1]

(* Slip: the number is rounded up to one that can be encoded.              *)
castUp(input) ==
    LET unit == TenTo[Dropped(input)] IN ((input + unit - 1) \div unit) * unit

(* The leading digits of a number, as many as a mantissa holds.            *)
cast(input) ==
    LET unit == TenTo[Dropped(input)] IN (input \div unit) * unit

(* Math.round(number * 10 ** place), a half rounded up.                    *)
Rounded(number) ==
    LET unit == TenTo[Digits - place] IN (number + unit \div 2) \div unit

castInt(input) == Rounded(cast(input))
encode(input) == encodeInt(Rounded(input))

(* A number again.  (From 2^53 on the code divides before it converts, but *)
(* there the power of ten is above the decimals and nothing is cut.)       *)
decode(code) == decodeInt(code) * TenTo[Digits - place]
=============================================================================
