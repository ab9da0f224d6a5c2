----------------------------- MODULE Transition -----------------------------
(***************************************************************************)
(* What a commitment does to the state tree: contracts/libs/Transition.sol *)
(* and the three contracts that process transactions with it, Transfer,    *)
(* Create2Transfer and MassMigration.                                      *)
(*                                                                         *)
(* A state tree is a function from the indices that hold a state; every    *)
(* other leaf is vacant.  A proof opens the leaf at its index, so that the *)
(* state in a proof is tree[index] or the `require` fails.  Arithmetic is  *)
(* in 256 bits and an amount is a decimal of two bytes, below 2^62, so     *)
(* that nothing overflows.                                                 *)
(***************************************************************************)
EXTENDS Loops, SequencesExt

(* The end of a step of processing: its Result and the new tree.  A        *)
(* `require` that fails reverts the whole call.                            *)
Ended(result, tree) == [result |-> result, tree |-> tree]
Reverts(tree) == Ended("Reverts", tree)
IsOk(step) == step.result = "Ok"

(* The next step is taken only from a good one.                            *)
Then(step, Next(_)) == IF IsOk(step) THEN Next(step.tree) ELSE step

(* for (i = 0; i < length; i++), returning at the first bad result.        *)
ForEach(Process(_, _), tree, txs) ==
    LET after[i \in 0 .. Len(txs)] ==
            IF i = 0 THEN Ended("Ok", tree)
            ELSE Then(after[i - 1], LAMBDA current : Process(current, txs[i]))
    IN  after[Len(txs)]
-----------------------------------------------------------------------------
CreateState(pubkeyIndex, tokenType, amount) ==
    [pubkeyIndex |-> pubkeyIndex, tokenType |-> tokenType,
     balance |-> amount, nonce |-> 0]

(* The checks of validateAndApplySender(), in their order.                 *)
SenderResult(sender, tokenType, amount, fee) ==
    IF amount = 0 THEN "InvalidTokenAmount"
    ELSE IF sender.balance < amount + fee THEN "NotEnoughTokenBalance"
    ELSE IF sender.tokenType # tokenType THEN "BadFromTokenType"
    ELSE "Ok"

(* Slip: a payment spends no nonce.                                        *)
ProcessSenderKeepingNonce(tree, index, tokenType, amount, fee) ==
    IF index \notin DOMAIN tree THEN Reverts(tree)
    ELSE LET result == SenderResult(tree[index], tokenType, amount, fee)
         IN  Ended(result,
                   IF result # "Ok" THEN tree
                   ELSE [tree EXCEPT ![index].balance = @ - (amount + fee)])

ProcessSender(tree, index, tokenType, amount, fee) ==
    IF index \notin DOMAIN tree THEN Reverts(tree)
    ELSE LET result == SenderResult(tree[index], tokenType, amount, fee)
         IN  Ended(result,
                   IF result # "Ok" THEN tree
                   ELSE [tree EXCEPT ![index].balance = @ - (amount + fee),
                                     ![index].nonce = @ + 1])

ProcessReceiver(tree, index, tokenType, amount) ==
    IF index \notin DOMAIN tree THEN Reverts(tree)
    ELSE IF tree[index].tokenType # tokenType THEN Ended("BadToTokenType", tree)
    ELSE Ended("Ok", [tree EXCEPT ![index].balance = @ + amount])

(* A tree with the states of another one that holds none of its own.       *)
Merged(tree, other) ==
    [index \in DOMAIN tree \union DOMAIN other |->
        IF index \in DOMAIN tree THEN tree[index] ELSE other[index]]

(* A state may be created only where the leaf is vacant.                   *)
ProcessNewReceiver(tree, index, state) ==
    IF index \in DOMAIN tree THEN Reverts(tree)
    ELSE Ended("Ok", Merged(tree, [i \in {index} |-> state]))

(* The token of a commitment is that of the state in its first proof: the  *)
(* first sender's, or the fee receiver's when there is no transaction.     *)
TokenTypeOf(tree, txs, feeReceiver) ==
    LET first == IF txs = <<>> THEN feeReceiver ELSE Head(txs).fromIndex
    IN  tree[first].tokenType

Fees(txs) == SumOf(LAMBDA tx : tx.fee, txs)
-----------------------------------------------------------------------------
(* Slip: the receiver is read from the tree before the sender was written. *)
ProcessTransferStale(tree, tx, tokenType) ==
    Then(ProcessSender(tree, tx.fromIndex, tokenType, tx.amount, tx.fee),
         LAMBDA current :
            IF tx.toIndex \notin DOMAIN tree THEN Reverts(tree)
            ELSE Ended("Ok", [current EXCEPT ![tx.toIndex].balance =
                                 tree[tx.toIndex].balance + tx.amount]))

(* processTx() of Transfer.                                                *)
ProcessTransfer(tree, tx, tokenType) ==
    Then(ProcessSender(tree, tx.fromIndex, tokenType, tx.amount, tx.fee),
         LAMBDA current :
            ProcessReceiver(current, tx.toIndex, tokenType, tx.amount))

ProcessTransferCommit(tree, body) ==
    LET tokenType == TokenTypeOf(tree, body.txs, body.feeReceiver)
    IN  Then(ForEach(LAMBDA current, tx : ProcessTransfer(current, tx, tokenType),
                     tree, body.txs),
             LAMBDA current : ProcessReceiver(current, body.feeReceiver,
                                              tokenType, Fees(body.txs)))

(* Slip: nothing shows that the leaf is vacant.                            *)
ProcessCreate2TransferOver(tree, tx, tokenType) ==
    Then(ProcessSender(tree, tx.fromIndex, tokenType, tx.amount, tx.fee),
         LAMBDA current :
            Ended("Ok", (tx.toIndex :> CreateState(tx.toAccID, tokenType, tx.amount))
                           @@ current))

(* processTx() of Create2Transfer.                                         *)
ProcessCreate2Transfer(tree, tx, tokenType) ==
    Then(ProcessSender(tree, tx.fromIndex, tokenType, tx.amount, tx.fee),
         LAMBDA current :
            ProcessNewReceiver(current, tx.toIndex,
                               CreateState(tx.toAccID, tokenType, tx.amount)))

ProcessCreate2TransferCommit(tree, body) ==
    LET tokenType == TokenTypeOf(tree, body.txs, body.feeReceiver)
    IN  Then(ForEach(LAMBDA current, tx :
                        ProcessCreate2Transfer(current, tx, tokenType),
                     tree, body.txs),
             LAMBDA current : ProcessReceiver(current, body.feeReceiver,
                                              tokenType, Fees(body.txs)))
-----------------------------------------------------------------------------
(* processMassMigrationTx() creates the state to be withdrawn: it goes to  *)
(* the key of the sender, with the whole amount.  No commitment changes    *)
(* the key of a state, so it may be read from the tree before.             *)
WithdrawLeaves(tree, body) ==
    [i \in DOMAIN body.txs |->
        CreateState(tree[body.txs[i].fromIndex].pubkeyIndex, body.tokenID,
                    body.txs[i].amount)]

TotalAmount(txs) == SumOf(LAMBDA tx : tx.amount, txs)

(* Slip: the amount of the body is not compared.                           *)
MigrationResultAnyAmount(tree, body) ==
    IF Len(body.txs) \notin 1 .. 32 THEN "Reverts"
    ELSE IF WithdrawLeaves(tree, body) # body.withdrawRoot THEN "BadWithdrawRoot"
    ELSE "Ok"

(* What processMassMigrationCommit() checks of the body after the fees.    *)
(* merklise() does not end on no leaves and refuses more than 32.          *)
MigrationResult(tree, body) ==
    IF TotalAmount(body.txs) # body.amount THEN "MismatchedAmount"
    ELSE IF Len(body.txs) \notin 1 .. 32 THEN "Reverts"
    ELSE IF WithdrawLeaves(tree, body) # body.withdrawRoot THEN "BadWithdrawRoot"
    ELSE "Ok"

(* The token of a mass migration is that of its body.                      *)
ProcessMassMigrationCommit(tree, body) ==
    Then(Then(ForEach(LAMBDA current, tx :
                         ProcessSender(current, tx.fromIndex, body.tokenID,
                                       tx.amount, tx.fee),
                      tree, body.txs),
              LAMBDA current : ProcessReceiver(current, body.feeReceiver,
                                               body.tokenID, Fees(body.txs))),
         LAMBDA current : Ended(MigrationResult(tree, body), current))
-----------------------------------------------------------------------------
(* The message that checkSignature() wants signed for a transaction, under *)
(* the root AFTER the whole commitment: the nonce is that of the sender    *)
(* there, less one.  A Create2Transfer names keys and no state.  (A mass   *)
(* migration also names its spoke.)  With the nonce 0 the call reverts,    *)
(* but a sender in a commitment with the result Ok has spent a nonce.      *)
Message(tree, kind, tx) ==
    [kind |-> kind, nonce |-> tree[tx.fromIndex].nonce - 1,
     text |-> IF kind = "Create2Transfer"
              THEN [from |-> tree[tx.fromIndex].pubkeyIndex, to |-> tx.toAccID,
                    amount |-> tx.amount, fee |-> tx.fee]
              ELSE tx]

Messages(tree, kind, txs) == {Message(tree, kind, txs[i]) : i \in DOMAIN txs}

(* What a mass migration that was processed with the result Ok satisfies:  *)
(* its amount is the sum of its withdrawals, which are in its token.       *)
IsSound(migration) ==
    /\ migration.amount = SumOf(LAMBDA state : state.balance,
                                migration.withdrawRoot)
    /\ \A i \in DOMAIN migration.withdrawRoot :
          migration.withdrawRoot[i].tokenType = migration.tokenID
=============================================================================
