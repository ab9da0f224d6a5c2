------------------------------ MODULE Frontend ------------------------------
(***************************************************************************)
(* contracts/client/ClientFrontend.sol: what a user asks before signing.   *)
(* The states come with the question and no tree, so that the answer is    *)
(* about these states, and about nobody else's transactions.               *)
(***************************************************************************)
EXTENDS StateProofs

(* An answer: the new states of the two sides, and the result.             *)
Answer(newSender, newReceiver, result) ==
    [newSender |-> newSender, newReceiver |-> newReceiver, result |-> result]

(* Transition.validateAndApplySender() for the token of the sender.        *)
validateAndApplySender(sender, amount, fee) ==
    LET result == SenderResult(sender, sender.tokenType, amount, fee)
    IN  [result |-> result,
         state |-> IF result # "Ok" THEN sender
                   ELSE [sender EXCEPT !.balance = @ - (amount + fee),
                                       !.nonce = @ + 1]]

(* Slip: the fee is left out.                                              *)
validateAndApplyTransferFeeless(sender, receiver, tx) ==
    LET paid == validateAndApplySender(sender, tx.amount, 0)
    IN  IF paid.result # "Ok" THEN Answer(sender, <<>>, paid.result)
        ELSE IF receiver.tokenType # sender.tokenType
        THEN Answer(paid.state, receiver, "BadToTokenType")
        ELSE Answer(paid.state, [receiver EXCEPT !.balance = @ + tx.amount], "Ok")

validateAndApplyTransfer(sender, receiver, tx) ==
    LET paid == validateAndApplySender(sender, tx.amount, tx.fee)
    IN  IF paid.result # "Ok" THEN Answer(sender, <<>>, paid.result)
        ELSE IF receiver.tokenType # sender.tokenType
        THEN Answer(paid.state, receiver, "BadToTokenType")
        ELSE Answer(paid.state, [receiver EXCEPT !.balance = @ + tx.amount], "Ok")

(* A state of the sender's key, or of another account, is created.         *)
Creating(sender, pubkeyIndex, tx) ==
    LET paid == validateAndApplySender(sender, tx.amount, tx.fee)
    IN  IF paid.result # "Ok" THEN Answer(sender, <<>>, paid.result)
        ELSE Answer(paid.state,
                    CreateState(pubkeyIndex, sender.tokenType, tx.amount), "Ok")
validateAndApplyMassMigration(sender, tx) == Creating(sender, sender.pubkeyIndex, tx)
validateAndApplyCreate2Transfer(sender, tx) == Creating(sender, tx.toAccID, tx)
-----------------------------------------------------------------------------
(* The transactions of the bodies from a state that exists.                *)
Asked(bodies) ==
    {tx \in UNION {{body.txs[i] : i \in DOMAIN body.txs} : body \in bodies} :
        tx.fromIndex \in DOMAIN tree}

(* The answer is what the contracts make of the transaction alone, in a    *)
(* commitment of the sender's token: the same result and the same states.  *)
(* A transfer to oneself is the exception: the receiver is answered as it  *)
(* would be had it not paid, with its old nonce and too much by what the   *)
(* sender pays.  (It is asked after as many commitments as ProofsServe.)   *)
FrontendAgrees == Len(applied) <= MaxProved =>
    /\ \A tx \in Asked(TransferBodies) : tx.toIndex \in DOMAIN tree =>
          LET sender == tree[tx.fromIndex]
              answer == validateAndApplyTransfer(sender, tree[tx.toIndex], tx)
              step == ProcessTransfer(tree, tx, sender.tokenType)
              after == step.tree[tx.toIndex]
          IN  /\ answer.result = step.result
              /\ IsOk(step) =>
                    IF tx.fromIndex = tx.toIndex
                    THEN answer.newReceiver = [after EXCEPT
                            !.balance = @ + tx.amount + tx.fee, !.nonce = @ - 1]
                    ELSE /\ answer.newSender = step.tree[tx.fromIndex]
                         /\ answer.newReceiver = after
    /\ \A tx \in Asked(MassMigrationBodies) :
          LET sender == tree[tx.fromIndex]
              answer == validateAndApplyMassMigration(sender, tx)
              step == ProcessSender(tree, tx.fromIndex, sender.tokenType,
                                    tx.amount, tx.fee)
          IN  /\ answer.result = step.result
              /\ IsOk(step) =>
                    /\ answer.newSender = step.tree[tx.fromIndex]
                    /\ <<answer.newReceiver>> =
                          WithdrawLeaves(tree, [txs |-> <<tx>>,
                                                tokenID |-> sender.tokenType])
    /\ \A tx \in Asked(Create2TransferBodies) : tx.toIndex \notin DOMAIN tree =>
          LET sender == tree[tx.fromIndex]
              answer == validateAndApplyCreate2Transfer(sender, tx)
              step == ProcessCreate2Transfer(tree, tx, sender.tokenType)
          IN  /\ answer.result = step.result
              /\ IsOk(step) => /\ answer.newSender = step.tree[tx.fromIndex]
                               /\ answer.newReceiver = step.tree[tx.toIndex]
=============================================================================
