------------------------ MODULE CommitmentProperties ------------------------
(***************************************************************************)
(* What the client and the contracts have to agree on for a commitment to  *)
(* be understood, to be signed for and to be proved.                       *)
(***************************************************************************)
EXTENDS Commitments

Written == txs # <<>> /\ serialize(txs) # Refused

(* Every list that serialize() writes is read back by the contract, none   *)
(* missing, none in excess and each with its fields, and with the nonce    *)
(* that was signed the contract makes of each the message that was signed. *)
(* (A random Create2Transfer has no keys, of which no message is made.)    *)
ListsAreRead == Written =>
    LET kind == Head(txs).kind
        bytes == serialize(txs)
    IN  /\ size(kind, bytes) = Len(txs)
        /\ ~hasExcessData(kind, bytes)
        /\ \A i \in DOMAIN txs :
              LET tx == Decoded(kind, bytes, i - 1)
                  more == CASE kind = "Transfer" -> <<>>
                            [] kind = "MassMigration" -> <<txs[i].spokeID>>
                            [] kind = "Create2Transfer" ->
                                  <<txs[i].fromPubkey, txs[i].toPubkey>>
              IN  /\ \A field \in DOMAIN tx : tx[field] = txs[i][field]
                  /\ MessageOf(kind, tx, txs[i].nonce, more) = message(txs[i])

(* Users and the client understand each other, and the contract's own      *)
(* serializers give the bytes of the client's, except that they refuse the *)
(* largest mantissa, which the client writes and the contract reads.       *)
OffchainAgrees == Written =>
    LET kind == Head(txs).kind
        largest == \E i \in DOMAIN txs : mantissaMax \in {Mantissa(txs[i].amount),
                                                         Mantissa(txs[i].fee)}
        read == [i \in DOMAIN txs |-> decodeOffchain(kind, encodeOffchain(txs[i]))]
    IN  /\ \A i \in DOMAIN txs : \A field \in DOMAIN read[i] \ {"txType"} :
              read[i][field] = txs[i][field]
        /\ kind # "MassMigration" =>
              serializeOnChain(kind, read)
                = IF largest THEN Refused ELSE serialize(txs)
        /\ kind = "Transfer" =>
              serializeMessages([i \in DOMAIN txs |-> message(txs[i])])
                = IF largest THEN Refused ELSE serialize(txs)

(* The balance of a state that was given no more than the largest number   *)
(* that is ever decoded can be written, and is read as it is.  It is not   *)
(* above the number given, of which less than a share of ten in            *)
(* mantissaMax is lost, unless the number is of a few of the smallest      *)
(* units, which are rounded.                                               *)
unit == TenTo[Digits - place]
IsCastable == given <= mantissaMax * TenTo[exponentMax + Digits - place]

BalancesAreCast == IsCastable =>
    LET balance == states[0].balance
        kept == balance * unit
    IN  /\ encodeInt(balance) # Refused
        /\ encode(kept) = encodeInt(balance)
        /\ decode(ValueOf(encodeInt(balance))) = kept
        /\ IF given * 10 <= mantissaMax * unit
           THEN kept - given \in -unit .. unit
           ELSE kept <= given /\ (given - kept) * mantissaMax < given * 10

(* A list of the factories, made from the states before anything else, is  *)
(* accepted: it can be written, every nonce is that of its sender, and the *)
(* contract that reads it back processes it, as long as the balance can be *)
(* written and a tenth of it is anything at all.                           *)
FactoriesPass ==
    drafts = <<>> /\ batches = <<>> /\ txs \in FactoryLists
      /\ states[0].balance >= 10 /\ IsCastable =>
    LET kind == Head(txs).kind
        bytes == serialize(txs)
        body == [txs |-> DecodedTxs(kind, bytes), feeReceiver |-> 0]
    IN  /\ bytes # Refused
        /\ \A i \in DOMAIN txs : txs[i].nonce = tree[txs[i].fromIndex].nonce
        /\ IsOk(CASE kind = "Transfer" -> ProcessTransferCommit(tree, body)
                  [] kind = "Create2Transfer" -> ProcessCreate2TransferCommit(tree, body)
                  [] kind = "MassMigration" ->
                        ProcessMassMigrationCommit(tree, Migration(txs, 0)))
-----------------------------------------------------------------------------
MadeSoFar == UNION {{list[i] : i \in DOMAIN list} :
                       list \in {drafts} \union {batches[b].drafts : b \in DOMAIN batches}}

(* The contract reads from the bytes of a commitment what the client       *)
(* applied, and comes from the root before to the root that it claims.     *)
ClaimsAreProcessed ==
    \A made \in MadeSoFar :
        LET c == made.commitment
            list == DecodedTxs(c.kind, c.txs)
        IN  (IF c.kind = "Transfer"
             THEN ProcessTransferCommit(made.before, [txs |-> list,
                                                      feeReceiver |-> c.feeReceiver])
             ELSE ProcessMassMigrationCommit(made.before,
                      [txs |-> list, feeReceiver |-> c.feeReceiver,
                       tokenID |-> c.tokenID, amount |-> c.amount,
                       withdrawRoot |-> c.withdrawRoot]))
            = Ended("Ok", c.stateRoot)

(* checkSignature() takes the nonce of a sender from the tree after the    *)
(* whole commitment.  The messages are therefore those that were signed    *)
(* just when no sender is in the commitment twice and each has signed with *)
(* the nonce that it had before.                                           *)
SignaturesHold ==
    \A made \in MadeSoFar :
        CheckedMessages(made.commitment) = made.commitment.signature
        <=> \A i \in DOMAIN made.txs :
               /\ made.txs[i].nonce = made.before[made.txs[i].fromIndex].nonce
               /\ \A j \in DOMAIN made.txs :
                     made.txs[i].fromIndex = made.txs[j].fromIndex => i = j

(* The proofs that a client makes of its batch open, all of them, when     *)
(* every commitment in it names the account root under which the batch was *)
(* submitted; and when one does not, none of them opens, those of the      *)
(* others included.                                                        *)
ProofsOpenTogether ==
    \A b \in DOMAIN batches :
        LET batch == batches[b]
            fresh == \A i \in DOMAIN batch.drafts :
                        batch.drafts[i].commitment.accountRoot = batch.accountRoot
        IN  \A i \in DOMAIN batch.drafts : Opens(batch, i - 1) <=> fresh
=============================================================================
