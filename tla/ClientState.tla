----------------------------- MODULE ClientState ----------------------------
(***************************************************************************)
(* ts/stateTree.ts: the client's StateTree, which applies the transactions *)
(* of a commitment to its own tree to make the proofs for a dispute, and   *)
(* says whether they were `safe`.  Compared with the contracts on every    *)
(* tree that a chain of commitments reaches.                               *)
(***************************************************************************)
EXTENDS StateChain

(* What a method leaves behind: the tree, which is changed in place, and   *)
(* whether it returns safe or not, or throws.                              *)
Left(status, states) == [status |-> status, tree |-> states]
IsSafe(left) == left.status = "safe"

Pay(states, tx) == [states EXCEPT ![tx.fromIndex].balance = @ - (tx.amount + tx.fee),
                                  ![tx.fromIndex].nonce = @ + 1]
CanPay(states, tx) == states[tx.fromIndex].balance >= tx.amount + tx.fee

(* Slip: a balance that covers the amount and not the fee is enough.       *)
ApplyTxTransferFeeless(states, tx) ==
    IF /\ {tx.fromIndex, tx.toIndex} \subseteq DOMAIN states
       /\ states[tx.fromIndex].balance >= tx.amount
       /\ states[tx.fromIndex].tokenType = states[tx.toIndex].tokenType
    THEN Left("safe", [Pay(states, tx) EXCEPT ![tx.toIndex].balance = @ + tx.amount])
    ELSE Left("unsafe", states)

ApplyTxTransfer(states, tx) ==
    IF /\ {tx.fromIndex, tx.toIndex} \subseteq DOMAIN states
       /\ CanPay(states, tx)
       /\ states[tx.fromIndex].tokenType = states[tx.toIndex].tokenType
    THEN Left("safe", [Pay(states, tx) EXCEPT ![tx.toIndex].balance = @ + tx.amount])
    ELSE Left("unsafe", states)

(* A sender that does not exist is `undefined`, whose use throws.          *)
ApplyMassMigration(states, tx) ==
    IF tx.fromIndex \notin DOMAIN states THEN Left("throws", states)
    ELSE IF CanPay(states, tx) THEN Left("safe", Pay(states, tx))
    ELSE Left("unsafe", states)

(* The sender has paid when createState() finds the index in use.          *)
ApplyTxCreate2Transfer(states, tx) ==
    IF tx.fromIndex \notin DOMAIN states THEN Left("throws", states)
    ELSE IF ~CanPay(states, tx) THEN Left("unsafe", states)
    ELSE IF tx.toIndex \in DOMAIN states THEN Left("throws", Pay(states, tx))
    ELSE LET created == CreateState(tx.toAccID, states[tx.fromIndex].tokenType, tx.amount)
         IN  Left("safe", Merged(Pay(states, tx), [i \in {tx.toIndex} |-> created]))

(* The loop stops applying at the first transaction that is not safe.      *)
ApplyTxs(Apply(_, _), states, txs) ==
    LET left[i \in 0 .. Len(txs)] ==
            IF i = 0 THEN Left("safe", states)
            ELSE IF IsSafe(left[i - 1]) THEN Apply(left[i - 1].tree, txs[i])
            ELSE left[i - 1]
    IN  left[Len(txs)]

ApplyFee(states, fees, feeReceiver) ==
    IF feeReceiver \in DOMAIN states
    THEN Left("safe", [states EXCEPT ![feeReceiver].balance = @ + fees])
    ELSE Left("unsafe", states)

(* applyTransferBatch(), applyCreate2TransferBatch() and                   *)
(* applyMassMigrationBatch(): the fees of all transactions are paid out,   *)
(* and the `safe` of the fee replaces that of the transactions.  reduce()  *)
(* throws on no transactions.                                              *)
ApplyBatch(Apply(_, _), states, body) ==
    LET left == ApplyTxs(Apply, states, body.txs)
    IN  IF left.status = "throws" \/ body.txs = <<>>
        THEN Left("throws", left.tree)
        ELSE ApplyFee(left.tree, Fees(body.txs), body.feeReceiver)

ApplyTransferBatch(states, body) == ApplyBatch(ApplyTxTransfer, states, body)
ApplyCreate2TransferBatch(states, body) ==
    ApplyBatch(ApplyTxCreate2Transfer, states, body)
ApplyMassMigrationBatch(states, body) ==
    ApplyBatch(ApplyMassMigration, states, body)
-----------------------------------------------------------------------------
(* What the client leaves to others to look at: no amount is 0, and one    *)
(* token is used by all, the fee receiver included.                        *)
IsUniform(states, body, tokenType) ==
    /\ \A i \in DOMAIN body.txs :
          /\ body.txs[i].amount > 0
          /\ body.txs[i].fromIndex \in DOMAIN states
                => states[body.txs[i].fromIndex].tokenType = tokenType
    /\ body.feeReceiver \in DOMAIN states
          => states[body.feeReceiver].tokenType = tokenType

FirstToken(states, body) ==
    LET first == Head(body.txs).fromIndex
    IN  IF first \in DOMAIN states THEN states[first].tokenType ELSE 0

(* Whether the client found every transaction safe, and then the fee.      *)
AllSafe(Apply(_, _), states, body) ==
    /\ body.txs # <<>>
    /\ IsSafe(ApplyTxs(Apply, states, body.txs))
    /\ IsSafe(ApplyBatch(Apply, states, body))

(* On every tree on which a commitment may be made the client and the      *)
(* contracts judge the same transactions good, and then reach one tree:    *)
(* a batch of whose transactions each was safe, with its fee, is accepted, *)
(* and no batch that is accepted has one that was not.  (Without any       *)
(* transaction reduce() throws, which the contracts do not mind.)          *)
ClientAgrees == Len(applied) < MaxCommitments =>
    /\ \A body \in TransferBodies :
          LET contract == ProcessTransferCommit(tree, body)
          IN  /\ IsOk(contract) /\ body.txs # <<>> <=>
                    /\ AllSafe(ApplyTxTransfer, tree, body)
                    /\ IsUniform(tree, body, FirstToken(tree, body))
              /\ IsOk(contract) /\ body.txs # <<>> =>
                    contract.tree = ApplyTransferBatch(tree, body).tree
    /\ \A body \in Create2TransferBodies :
          LET contract == ProcessCreate2TransferCommit(tree, body)
          IN  /\ IsOk(contract) /\ body.txs # <<>> <=>
                    /\ AllSafe(ApplyTxCreate2Transfer, tree, body)
                    /\ IsUniform(tree, body, FirstToken(tree, body))
              /\ IsOk(contract) /\ body.txs # <<>> =>
                    contract.tree = ApplyCreate2TransferBatch(tree, body).tree
    /\ \A body \in MassMigrationBodies :
          LET contract == ProcessMassMigrationCommit(tree, body)
          IN  /\ IsOk(contract) /\ body.txs # <<>> <=>
                    /\ AllSafe(ApplyMassMigration, tree, body)
                    /\ IsUniform(tree, body, body.tokenID)
                    /\ MigrationResult(tree, body) = "Ok"
              /\ IsOk(contract) /\ body.txs # <<>> =>
                    contract.tree = ApplyMassMigrationBatch(tree, body).tree

(* "Should be a valid applyTransferBatch" (test/rollupTransfer.test.ts:151)*)
(* is what a test concludes from the `safe` that applyTransferBatch()      *)
(* returns: the contract accepts the batch.                                *)
SafeIsValid ==
    \A body \in TransferBodies :
        /\ IsSafe(ApplyTransferBatch(tree, body))
        /\ IsUniform(tree, body, FirstToken(tree, body))
        => IsOk(ProcessTransferCommit(tree, body))
=============================================================================
