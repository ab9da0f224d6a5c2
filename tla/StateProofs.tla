----------------------------- MODULE StateProofs ----------------------------
(***************************************************************************)
(* The proofs that the StateTree of ts/stateTree.ts makes of a commitment, *)
(* with which disputeTransitionTransfer() and the like are called, and how *)
(* the contracts process with them: knowing a root and no tree, they check *)
(* each state against the root, change it and compute the next root.       *)
(* Transition says what they would find in the tree itself.                *)
(***************************************************************************)
EXTENDS ClientState

CONSTANTS
    STATE_DEPTH,       \* of the state tree
    ZERO_BYTES32,      \* the vacant leaf
    HashZero,          \* the bytes of a witness that is a placeholder
    MaxProved          \* bound: the commitments after which proofs are made

ASSUME StateProofsAssumption ==
    /\ STATE_DEPTH \in Nat \ {0} /\ NumLeaves = TwoTo[STATE_DEPTH]
    /\ MaxProved \in Nat

(* An index of a state has as many bits as the tree has levels.            *)
ASSUME IndicesAssumption ==
    \A body \in TransferBodies \union Create2TransferBodies \union MassMigrationBodies :
        /\ body.feeReceiver \in 0 .. NumLeaves - 1
        /\ \A i \in DOMAIN body.txs : body.txs[i].fromIndex \in 0 .. NumLeaves - 1
ASSUME ReceiversAssumption ==
    \A body \in TransferBodies : \A i \in DOMAIN body.txs :
        body.txs[i].toIndex \in 0 .. NumLeaves - 1

(* A leaf is the hash of a state, the vacant leaf or no leaf of a tree.    *)
ASSUME LeavesAssumption ==
    HashZero # ZERO_BYTES32 /\ {HashZero, ZERO_BYTES32} \intersect Seq(Nat) = {}

Merkle == INSTANCE Tree WITH Zero <- ZERO_BYTES32
Contract == INSTANCE MerkleTree

(* The hash of a state.                                                    *)
toStateLeaf(state) ==
    <<state.pubkeyIndex, state.tokenType, state.balance, state.nonce>>

StateProof(state, witness) == [state |-> state, witness |-> witness]
EMPTY_STATE == CreateState(0, 0, 0)
PLACEHOLDER_PROOF_WITNESS == [i \in 1 .. STATE_DEPTH |-> HashZero]
Placeholder == StateProof(EMPTY_STATE, PLACEHOLDER_PROOF_WITNESS)
-----------------------------------------------------------------------------
(* The client's StateTree: the states and a Merkle tree of their leaves.   *)
getStateWitness(client, stateID) ==
    Merkle!witness(client.stateTree, stateID, STATE_DEPTH)

Replaced(states, stateID, state) ==
    [i \in DOMAIN states \union {stateID} |-> IF i = stateID THEN state ELSE states[i]]
Written(client, stateID, state) ==
    [states |-> Replaced(client.states, stateID, state),
     stateTree |-> Merkle!updateSingle(client.stateTree, stateID, toStateLeaf(state))]

createStateBulk(states) ==
    LET client[i \in 0 .. NumLeaves] ==
            IF i = 0 THEN [states |-> <<>>, stateTree |-> Merkle!New(STATE_DEPTH)]
            ELSE IF i - 1 \in DOMAIN states
            THEN Written(client[i - 1], i - 1, states[i - 1])
            ELSE client[i - 1]
    IN  client[NumLeaves]

(* What a method returns: its proofs and whether they are safe.            *)
Made(client, proofs, safe) == [client |-> client, proofs |-> proofs, safe |-> safe]

(* The sender as it is, and the tree with it as it will be.                *)
SenderProof(client, tx) ==
    StateProof(client.states[tx.fromIndex], getStateWitness(client, tx.fromIndex))
SenderPaid(client, tx) ==
    Written(client, tx.fromIndex, Pay(client.states, tx)[tx.fromIndex])

(* Slip: both witnesses are taken before the sender is written.            *)
TransferProofsBefore(client, tx) ==
    LET paid == SenderPaid(client, tx)
        receiver == paid.states[tx.toIndex]
    IN  Made(Written(paid, tx.toIndex, [receiver EXCEPT !.balance = @ + tx.amount]),
             <<SenderProof(client, tx),
               StateProof(receiver, getStateWitness(client, tx.toIndex))>>,
             TRUE)

(* The receiver is opened in the tree that the sender has left.            *)
TransferProofs(client, tx) ==
    LET paid == SenderPaid(client, tx)
        receiver == paid.states[tx.toIndex]
    IN  Made(Written(paid, tx.toIndex, [receiver EXCEPT !.balance = @ + tx.amount]),
             <<SenderProof(client, tx),
               StateProof(receiver, getStateWitness(paid, tx.toIndex))>>,
             TRUE)

(* A receiver that is missing is opened as the empty state, and one that   *)
(* the sender cannot pay is not opened at all.                             *)
applyTxTransfer(client, tx) ==
    LET states == client.states
    IN  IF tx.fromIndex \notin DOMAIN states
        THEN Made(client,
                  <<StateProof(EMPTY_STATE, getStateWitness(client, tx.fromIndex)),
                    Placeholder>>, FALSE)
        ELSE IF tx.toIndex \notin DOMAIN states
        THEN Made(client,
                  <<SenderProof(client, tx),
                    StateProof(EMPTY_STATE, getStateWitness(client, tx.toIndex))>>,
                  FALSE)
        ELSE IF /\ CanPay(states, tx)
                /\ states[tx.fromIndex].tokenType = states[tx.toIndex].tokenType
        THEN TransferProofs(client, tx)
        ELSE Made(client, <<SenderProof(client, tx), Placeholder>>, FALSE)

applyMassMigration(client, tx) ==
    IF CanPay(client.states, tx)
    THEN Made(SenderPaid(client, tx), <<SenderProof(client, tx)>>, TRUE)
    ELSE Made(client, <<Placeholder>>, FALSE)

(* The witness of the new state is taken when it is there, which makes no  *)
(* difference to the nodes beside it.                                      *)
applyTxCreate2Transfer(client, tx) ==
    IF ~CanPay(client.states, tx)
    THEN Made(client, <<SenderProof(client, tx), Placeholder>>, FALSE)
    ELSE LET receiver == CreateState(tx.toAccID,
                                     client.states[tx.fromIndex].tokenType, tx.amount)
             created == Written(SenderPaid(client, tx), tx.toIndex, receiver)
         IN  Made(created,
                  <<SenderProof(client, tx),
                    StateProof(receiver, getStateWitness(created, tx.toIndex))>>,
                  TRUE)

applyFee(made, fees, feeReceiver) ==
    LET client == made.client
        receiver == client.states[feeReceiver]
        paid == Written(client, feeReceiver, [receiver EXCEPT !.balance = @ + fees])
    IN  IF feeReceiver \notin DOMAIN client.states
        THEN Made(client, Append(made.proofs, Placeholder), FALSE)
        ELSE Made(paid,
                  Append(made.proofs,
                         StateProof(receiver, getStateWitness(client, feeReceiver))),
                  TRUE)

applyTx(kind, client, tx) ==
    CASE kind = "Transfer" -> applyTxTransfer(client, tx)
      [] kind = "Create2Transfer" -> applyTxCreate2Transfer(client, tx)
      [] kind = "MassMigration" -> applyMassMigration(client, tx)

(* The proofs of a batch; those of what comes after the first transaction  *)
(* that is not safe, which the contracts never look at, are left out.      *)
ProofsOf(kind, client, body) ==
    LET made[i \in 0 .. Len(body.txs)] ==
            IF i = 0 THEN Made(client, <<>>, TRUE)
            ELSE IF ~made[i - 1].safe THEN made[i - 1]
            ELSE LET next == applyTx(kind, made[i - 1].client, body.txs[i])
                 IN  [next EXCEPT !.proofs = made[i - 1].proofs \o @]
    IN  applyFee(made[Len(body.txs)], Fees(body.txs), body.feeReceiver).proofs
-----------------------------------------------------------------------------
(* The contracts, which are given a root.                                  *)
Opens(stateRoot, leaf, index, proof) ==
    Contract!verify(stateRoot, leaf, index, proof.witness)
NewRoot(state, index, proof) ==
    Ended("Ok", Contract!computeRoot(toStateLeaf(state), index, proof.witness))

processSender(stateRoot, index, tokenType, amount, fee, proof) ==
    LET sender == proof.state
        result == SenderResult(sender, tokenType, amount, fee)
    IN  IF ~Opens(stateRoot, toStateLeaf(sender), index, proof) THEN Reverts(stateRoot)
        ELSE IF result # "Ok" THEN Ended(result, stateRoot)
        ELSE NewRoot([sender EXCEPT !.balance = @ - (amount + fee), !.nonce = @ + 1],
                     index, proof)

processReceiver(stateRoot, index, tokenType, amount, proof) ==
    LET receiver == proof.state
    IN  IF ~Opens(stateRoot, toStateLeaf(receiver), index, proof) THEN Reverts(stateRoot)
        ELSE IF receiver.tokenType # tokenType THEN Ended("BadToTokenType", stateRoot)
        ELSE NewRoot([receiver EXCEPT !.balance = @ + amount], index, proof)

processCreate2TransferReceiver(stateRoot, tx, tokenType, proof) ==
    IF ~Opens(stateRoot, ZERO_BYTES32, tx.toIndex, proof) THEN Reverts(stateRoot)
    ELSE NewRoot(CreateState(tx.toAccID, tokenType, tx.amount), tx.toIndex, proof)

processTransferTx(stateRoot, tx, tokenType, from, to) ==
    Then(processSender(stateRoot, tx.fromIndex, tokenType, tx.amount, tx.fee, from),
         LAMBDA root : processReceiver(root, tx.toIndex, tokenType, tx.amount, to))

processCreate2TransferTx(stateRoot, tx, tokenType, from, to) ==
    Then(processSender(stateRoot, tx.fromIndex, tokenType, tx.amount, tx.fee, from),
         LAMBDA root : processCreate2TransferReceiver(root, tx, from.state.tokenType, to))

(* The i-th transaction of a kind, with the proofs that are made for it.   *)
processTx(kind, stateRoot, tx, tokenType, proofs, i) ==
    CASE kind = "Transfer" ->
            processTransferTx(stateRoot, tx, tokenType, proofs[2 * i - 1], proofs[2 * i])
      [] kind = "Create2Transfer" ->
            processCreate2TransferTx(stateRoot, tx, tokenType,
                                     proofs[2 * i - 1], proofs[2 * i])
      [] kind = "MassMigration" ->
            processSender(stateRoot, tx.fromIndex, tokenType, tx.amount, tx.fee, proofs[i])

(* The loop of the three, and the fee with the proof after the last.  (The *)
(* checks of the body of a migration, for which no proof is needed, are    *)
(* MigrationResult.)                                                       *)
processCommit(kind, stateRoot, body, tokenType, proofs, last) ==
    LET step[i \in 0 .. Len(body.txs)] ==
            IF i = 0 THEN Ended("Ok", stateRoot)
            ELSE Then(step[i - 1],
                      LAMBDA root : processTx(kind, root, body.txs[i], tokenType, proofs, i))
    IN  Then(step[Len(body.txs)],
             LAMBDA root : processReceiver(root, body.feeReceiver, tokenType,
                                           Fees(body.txs), proofs[last]))

processTransferCommit(stateRoot, body, proofs) ==
    processCommit("Transfer", stateRoot, body, proofs[1].state.tokenType, proofs,
                  2 * Len(body.txs) + 1)
processCreate2TransferCommit(stateRoot, body, proofs) ==
    processCommit("Create2Transfer", stateRoot, body, proofs[1].state.tokenType, proofs,
                  2 * Len(body.txs) + 1)
processMassMigrationTxs(stateRoot, body, proofs) ==
    processCommit("MassMigration", stateRoot, body, body.tokenID, proofs,
                  Len(body.txs) + 1)
-----------------------------------------------------------------------------
RootOf(states) == Merkle!root(createStateBulk(states).stateTree)
Throws(Apply(_, _), states, body) ==
    body.txs = <<>> \/ ApplyTxs(Apply, states, body.txs).status = "throws"

(* With the proofs of the client the contracts reach every result that     *)
(* they would reach in the tree itself, and the same root in the end: a    *)
(* good commitment is seen to be good, and a sender that has too little is *)
(* shown to have.  Two faults cannot be shown with them, because the call  *)
(* reverts: that of a transfer to another token, and that of a migration   *)
(* for which there is too little, for which the client returns             *)
(* placeholders.  (When it migrates nothing and its fee is too much, the   *)
(* result in the tree would be that it migrates nothing.)                  *)
ProofsServe == Len(applied) <= MaxProved =>
    LET client == createStateBulk(tree)
        root == Merkle!root(client.stateTree)
        same(served, step) ==
            /\ served.result = step.result
            /\ IsOk(step) => served.tree = RootOf(step.tree)
    IN  /\ \A body \in TransferBodies : ~Throws(ApplyTxTransfer, tree, body) =>
              LET served == processTransferCommit(root, body, ProofsOf("Transfer", client, body))
                  step == ProcessTransferCommit(tree, body)
              IN  IF /\ step.result = "BadToTokenType"
                     /\ ~IsSafe(ApplyTxs(ApplyTxTransfer, tree, body.txs))
                  THEN served.result = "Reverts"
                  ELSE same(served, step)
        /\ \A body \in Create2TransferBodies : ~Throws(ApplyTxCreate2Transfer, tree, body) =>
              same(processCreate2TransferCommit(root, body,
                                                ProofsOf("Create2Transfer", client, body)),
                   ProcessCreate2TransferCommit(tree, body))
        /\ \A body \in MassMigrationBodies : ~Throws(ApplyMassMigration, tree, body) =>
              LET served == Then(processMassMigrationTxs(root, body,
                                     ProofsOf("MassMigration", client, body)),
                                 LAMBDA after : Ended(MigrationResult(tree, body), after))
                  step == ProcessMassMigrationCommit(tree, body)
                  unsafe == ~IsSafe(ApplyTxs(ApplyMassMigration, tree, body.txs))
              IN  \/ /\ served.result = "Reverts" /\ unsafe
                     /\ step.result \in {"NotEnoughTokenBalance", "InvalidTokenAmount"}
                  \/ /\ same(served, step)
                     /\ step.result # "NotEnoughTokenBalance"
=============================================================================
