------------------------------- MODULE TxCodec ------------------------------
(***************************************************************************)
(* ts/tx.ts and contracts/libs/Tx.sol: the three kinds of transaction, the *)
(* bytes in which a commitment lists them, and the message that is signed  *)
(* for each.  Bytes are sequences of digits in the base of a byte.  A      *)
(* message is packed fields, each a width in bytes and a value: the widths *)
(* of the three kinds add up to different lengths, so that packings are    *)
(* equal when the fields are.                                              *)
(***************************************************************************)
EXTENDS Decimal

CONSTANT NoKey     \* the empty list that rand() gives in place of a key

amountLen == 2
feeLen == 2
stateIDLen == 4
WORD == 32         \* bytes of a uint256

concat(parts) ==
    IF \E i \in DOMAIN parts : parts[i] = Refused THEN Refused ELSE FlattenSeq(parts)
uint256(value) == <<WORD, value>>
uint256x4(key) == <<4 * WORD, key>>
uint32(value) == <<stateIDLen, value>>
uint8(value) == <<1, value>>
-----------------------------------------------------------------------------
(* The client.  A constructor throws when the codec is not of the widths   *)
(* of an amount and a fee.                                                 *)
checkByteLength(expected) == mantissaBits + exponentBits = expected * ByteBits
CheckedLengths == checkByteLength(amountLen) /\ checkByteLength(feeLen)

TxTransfer(fromIndex, toIndex, amount, fee, nonce) ==
    [kind |-> "Transfer", fromIndex |-> fromIndex, toIndex |-> toIndex,
     amount |-> amount, fee |-> fee, nonce |-> nonce]

TxMassMigration(fromIndex, amount, spokeID, fee, nonce) ==
    [kind |-> "MassMigration", fromIndex |-> fromIndex, amount |-> amount,
     spokeID |-> spokeID, fee |-> fee, nonce |-> nonce]

TxCreate2Transfer(fromIndex, toIndex, fromPubkey, toPubkey, toAccID, amount, fee, nonce) ==
    [kind |-> "Create2Transfer", fromIndex |-> fromIndex, toIndex |-> toIndex,
     fromPubkey |-> fromPubkey, toPubkey |-> toPubkey, toAccID |-> toAccID,
     amount |-> amount, fee |-> fee, nonce |-> nonce]

(* The transactions of a kind.  The fields of a message that have four     *)
(* bytes are no longer.                                                    *)
TxKinds == {"Transfer", "MassMigration", "Create2Transfer"}
Uint32Max == Base * Base * Base * Base - 1
TxOf(kind) ==
    CASE kind = "Transfer" ->
            [kind : {kind}, fromIndex : Nat, toIndex : Nat, amount : Nat, fee : Nat,
             nonce : Nat]
      [] kind = "MassMigration" ->
            [kind : {kind}, fromIndex : Nat, amount : Nat, spokeID : 0 .. Uint32Max,
             fee : Nat, nonce : 0 .. Uint32Max]
      [] kind = "Create2Transfer" ->
            [kind : {kind}, fromIndex : Nat, toIndex : Nat,
             fromPubkey : Nat \union {NoKey}, toPubkey : Nat \union {NoKey},
             toAccID : Nat, amount : Nat, fee : Nat, nonce : Nat]

(* What rand() of each class may return, given the random numbers of four  *)
(* bytes and the random decimals that are considered.                      *)
RandTransfers(numbers, codes) ==
    {TxTransfer(from, to, amount, fee, nonce) :
        from \in numbers, to \in numbers, amount \in randInt(codes),
        fee \in randInt(codes), nonce \in numbers}
RandMassMigrations(numbers, codes) ==
    {TxMassMigration(from, amount, spokeID, fee, nonce) :
        from \in numbers, amount \in randInt(codes), spokeID \in numbers,
        fee \in randInt(codes), nonce \in numbers}
RandCreate2Transfers(numbers, codes) ==
    {TxCreate2Transfer(from, to, NoKey, NoKey, toAccID, amount, fee, nonce) :
        from \in numbers, to \in numbers, toAccID \in numbers,
        amount \in randInt(codes), fee \in randInt(codes), nonce \in numbers}

(* buildList() of each class.                                              *)
buildLists(rand, n) == [1 .. n -> rand]

encodeTransfer(tx) ==
    concat(<<hexZeroPad(tx.fromIndex, stateIDLen), hexZeroPad(tx.toIndex, stateIDLen),
             encodeInt(tx.amount), encodeInt(tx.fee)>>)
encodeMassMigration(tx) ==
    concat(<<hexZeroPad(tx.fromIndex, stateIDLen),
             encodeInt(tx.amount), encodeInt(tx.fee)>>)

(* Slip: the account of the receiver comes before its state.               *)
encodeCreate2TransferSwapped(tx) ==
    concat(<<hexZeroPad(tx.fromIndex, stateIDLen), hexZeroPad(tx.toAccID, stateIDLen),
             hexZeroPad(tx.toIndex, stateIDLen),
             encodeInt(tx.amount), encodeInt(tx.fee)>>)
encodeCreate2Transfer(tx) ==
    concat(<<hexZeroPad(tx.fromIndex, stateIDLen), hexZeroPad(tx.toIndex, stateIDLen),
             hexZeroPad(tx.toAccID, stateIDLen),
             encodeInt(tx.amount), encodeInt(tx.fee)>>)

Encoded(tx) == CASE tx.kind = "Transfer" -> encodeTransfer(tx)
                 [] tx.kind = "MassMigration" -> encodeMassMigration(tx)
                 [] tx.kind = "Create2Transfer" -> encodeCreate2Transfer(tx)
serialize(txs) == concat([i \in DOMAIN txs |-> Encoded(txs[i])])

messageTransfer(tx) ==
    <<uint256(1), uint256(tx.fromIndex), uint256(tx.toIndex), uint256(tx.nonce),
      uint256(tx.amount), uint256(tx.fee)>>
messageMassMigration(tx) ==
    <<uint8(5), uint32(tx.fromIndex), uint256(tx.amount), uint256(tx.fee),
      uint32(tx.nonce), uint32(tx.spokeID)>>
messageCreate2Transfer(tx) ==
    <<uint256(3), uint256x4(tx.fromPubkey), uint256x4(tx.toPubkey),
      uint256(tx.nonce), uint256(tx.amount), uint256(tx.fee)>>
message(tx) == CASE tx.kind = "Transfer" -> messageTransfer(tx)
                 [] tx.kind = "MassMigration" -> messageMassMigration(tx)
                 [] tx.kind = "Create2Transfer" -> messageCreate2Transfer(tx)

(* What passes between users and the client, in words of 32 bytes.         *)
encodeOffchainTransfer(tx) ==
    <<1, tx.fromIndex, tx.toIndex, tx.amount, tx.fee, tx.nonce>>
encodeOffchainMassMigration(tx) ==
    <<5, tx.fromIndex, tx.amount, tx.fee, tx.spokeID, tx.nonce>>
encodeOffchainCreate2Transfer(tx) ==
    <<3, tx.fromIndex, tx.toIndex, tx.toAccID, tx.amount, tx.fee, tx.nonce>>
encodeOffchain(tx) ==
    CASE tx.kind = "Transfer" -> encodeOffchainTransfer(tx)
      [] tx.kind = "MassMigration" -> encodeOffchainMassMigration(tx)
      [] tx.kind = "Create2Transfer" -> encodeOffchainCreate2Transfer(tx)
-----------------------------------------------------------------------------
(* The contract reads a field as the bytes that end at its position after  *)
(* `index` transactions: a word is loaded and masked.                      *)
TX_LEN(kind) == CASE kind = "Transfer" -> 12 [] kind = "Create2Transfer" -> 16
                  [] kind = "MassMigration" -> 8
Field(txs, end, width) == ValueOf(SubSeq(txs, end - width + 1, end))
StateIDAt(txs, end) == Field(txs, end, stateIDLen)
AmountAt(txs, end) == decodeInt(Field(txs, end, amountLen))

(* Slip: the fee is read where the amount ends.                            *)
transferDecodeEarly(txs, index) ==
    LET p == index * TX_LEN("Transfer")
    IN  [fromIndex |-> StateIDAt(txs, p + 4), toIndex |-> StateIDAt(txs, p + 8),
         amount |-> AmountAt(txs, p + 10), fee |-> AmountAt(txs, p + 10)]
transferDecode(txs, index) ==
    LET p == index * TX_LEN("Transfer")
    IN  [fromIndex |-> StateIDAt(txs, p + 4), toIndex |-> StateIDAt(txs, p + 8),
         amount |-> AmountAt(txs, p + 10), fee |-> AmountAt(txs, p + 12)]
massMigrationDecode(txs, index) ==
    LET p == index * TX_LEN("MassMigration")
    IN  [fromIndex |-> StateIDAt(txs, p + 4),
         amount |-> AmountAt(txs, p + 6), fee |-> AmountAt(txs, p + 8)]
create2TransferDecode(txs, index) ==
    LET p == index * TX_LEN("Create2Transfer")
    IN  [fromIndex |-> StateIDAt(txs, p + 4), toIndex |-> StateIDAt(txs, p + 8),
         toAccID |-> StateIDAt(txs, p + 12),
         amount |-> AmountAt(txs, p + 14), fee |-> AmountAt(txs, p + 16)]

size(kind, txs) == Len(txs) \div TX_LEN(kind)
hasExcessData(kind, txs) == Len(txs) % TX_LEN(kind) # 0
Decoded(kind, txs, index) ==
    CASE kind = "Transfer" -> transferDecode(txs, index)
      [] kind = "MassMigration" -> massMigrationDecode(txs, index)
      [] kind = "Create2Transfer" -> create2TransferDecode(txs, index)

transferMessageOf(tx, nonce) ==
    <<uint256(1), uint256(tx.fromIndex), uint256(tx.toIndex), uint256(nonce),
      uint256(tx.amount), uint256(tx.fee)>>
massMigrationMessageOf(tx, nonce, spokeID) ==
    LET low(x) == ValueOf(Truncated(x, stateIDLen))
    IN  <<uint8(5), uint32(low(tx.fromIndex)), uint256(tx.amount), uint256(tx.fee),
          uint32(low(nonce)), uint32(low(spokeID))>>
create2TransferMessageOf(tx, nonce, from, to) ==
    <<uint256(3), uint256x4(from), uint256x4(to), uint256(nonce),
      uint256(tx.amount), uint256(tx.fee)>>

(* contracts/client/Offchain.sol.                                          *)
decodeTransfer(words) ==
    [txType |-> words[1], fromIndex |-> words[2], toIndex |-> words[3],
     amount |-> words[4], fee |-> words[5], nonce |-> words[6]]
decodeMassMigration(words) ==
    [txType |-> words[1], fromIndex |-> words[2], amount |-> words[3],
     fee |-> words[4], spokeID |-> words[5], nonce |-> words[6]]
decodeCreate2Transfer(words) ==
    [txType |-> words[1], fromIndex |-> words[2], toIndex |-> words[3],
     toAccID |-> words[4], amount |-> words[5], fee |-> words[6],
     nonce |-> words[7]]
decodeOffchain(kind, words) ==
    CASE kind = "Transfer" -> decodeTransfer(words)
      [] kind = "MassMigration" -> decodeMassMigration(words)
      [] kind = "Create2Transfer" -> decodeCreate2Transfer(words)

(* Its own serializers keep the low bytes of what does not fit.            *)
serializeTransfer(txs) ==
    concat([i \in DOMAIN txs |->
        concat(<<Truncated(txs[i].fromIndex, stateIDLen),
                 Truncated(txs[i].toIndex, stateIDLen),
                 encodeDecimal(txs[i].amount), encodeDecimal(txs[i].fee)>>)])
serializeCreate2Transfer(txs) ==
    concat([i \in DOMAIN txs |->
        concat(<<Truncated(txs[i].fromIndex, stateIDLen),
                 Truncated(txs[i].toIndex, stateIDLen),
                 Truncated(txs[i].toAccID, stateIDLen),
                 encodeDecimal(txs[i].amount), encodeDecimal(txs[i].fee)>>)])

(* The one for transfers that are given as the messages that were signed;  *)
(* nothing in the repository calls it.                                     *)
serializeMessages(messages) ==
    concat([i \in DOMAIN messages |->
        LET word(k) == messages[i][k][2]
        IN  concat(<<Truncated(word(2), stateIDLen), Truncated(word(3), stateIDLen),
                     encodeDecimal(word(5)), encodeDecimal(word(6))>>)])

(* (There is none for mass migrations.)                                    *)
serializeOnChain(kind, txs) ==
    IF kind = "Transfer" THEN serializeTransfer(txs) ELSE serializeCreate2Transfer(txs)
=============================================================================
