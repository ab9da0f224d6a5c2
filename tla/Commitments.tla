----------------------------- MODULE Commitments ----------------------------
(***************************************************************************)
(* ts/commitments.ts: how a committer makes transactions into commitments  *)
(* and a batch, submits it, and keeps the batch to prove its commitments   *)
(* with.  A commitment names the root of the account tree when it is made, *)
(* but submitTransfer() and submitMassMigration() of contracts/Rollup.sol  *)
(* take the root when it is submitted, and others register keys between.   *)
(*                                                                         *)
(* Hashes are free: that of packed values is the sequence of them.  The    *)
(* root of the account tree is told by the number of keys under it, that   *)
(* of a state tree by the tree.                                            *)
(***************************************************************************)
EXTENDS Factory, Transition, TLC

CONSTANTS
    Zero,              \* the vacant leaf
    Inputs,            \* numbers, for the balance that the states begin with
    NumOfStates,       \* how many they are
    Drawn,             \* lists that buildList() of a class of transactions drew
    Payers, Payees, FeeReceivers,      \* states that pay, are paid, get fees
    SpokeIDs,
    MaxKeys, MaxSigned, MaxDrafts, MaxBatches     \* bounds

(* Any transaction can be constructed.                                     *)
ASSUME WidthsAssumption == CheckedLengths

(* No more states than a commitment has transactions (COMMIT_SIZE), and    *)
(* whoever pays has one of them.                                           *)
ASSUME CommitterAssumption ==
    /\ NumOfStates \in 1 .. 32 /\ 2 * NumOfStates <= Uint32Max
    /\ {MaxKeys, MaxSigned, MaxDrafts, MaxBatches} \subseteq Nat
    /\ Inputs \subseteq Nat /\ SpokeIDs \subseteq 0 .. Uint32Max
    /\ Payers \subseteq 0 .. NumOfStates - 1
    /\ Payees \subseteq Nat /\ FeeReceivers \subseteq Nat

(* A list that is drawn is of one kind, and its senders are others.        *)
ASSUME DrawnAssumption ==
    \A list \in Drawn : \E kind \in TxKinds :
        /\ list \in Seq(TxOf(kind))
        /\ \A i \in DOMAIN list : list[i].fromIndex \notin 0 .. NumOfStates - 1

(* No nonce outgrows its four bytes.                                       *)
ASSUME NoncesAssumption ==
    9 + NumOfStates + MaxDrafts * (NumOfStates + MaxSigned) <= Uint32Max

Client == INSTANCE Tree
Contract == INSTANCE MerkleTree WITH ZERO_BYTES32 <- Zero

VARIABLES
    keys,          \* how many keys are registered
    given,         \* the number given for their balance
    states,        \* the committer's State objects
    tree,          \* its StateTree, which has clones of them
    txs,           \* the transactions signed and not yet in a commitment
    drafts,        \* the commitments of the next batch, each with the
                   \* transactions and the tree that it was made from
    batches        \* the batches submitted: the object, and the root on chain

commitmentVars == <<keys, given, states, tree, txs, drafts, batches>>

Clones(list) == [i \in DOMAIN list |-> Leaf(list[i])]
StatesFrom(input) == buildList(NumOfStates, 0, 0, 1, castInt(input), 9)
NewStates == buildList(NumOfStates, NumOfStates, NumOfStates, 1, 0, 0)

CommitmentsInit ==
    /\ given \in Inputs
    /\ states = StatesFrom(given)
    /\ tree = Clones(states)
    /\ keys = NumOfStates
    /\ txs = <<>> /\ drafts = <<>> /\ batches = <<>>

(* Another key is registered, by anybody.                                  *)
RegisterKey ==
    /\ keys < MaxKeys
    /\ keys' = keys + 1
    /\ UNCHANGED <<given, states, tree, txs, drafts, batches>>
-----------------------------------------------------------------------------
(* Lists of transactions.  The factories know the states, and not what the *)
(* tree has become.  Those that were drawn are never committed, and are    *)
(* made only at the beginning.                                             *)
NewList(lists) ==
    /\ txs = <<>>
    /\ txs' \in lists
    /\ UNCHANGED <<keys, given, states, tree, drafts, batches>>

FactoryLists ==
    {txTransferFactory(states, n) : n \in 1 .. NumOfStates}
    \union {txMassMigrationFactory(states, n, spokeID) :
               n \in 1 .. NumOfStates, spokeID \in SpokeIDs}
    \union {txCreate2TransferFactory(states, NewStates, NumOfStates)}

Waiting(from) == Cardinality({i \in DOMAIN txs : txs[i].fromIndex = from})

(* One transfer more, with the nonce that its sender has then.             *)
SignTransfer(from, to) ==
    /\ Len(txs) < MaxSigned
    /\ \A i \in DOMAIN txs : txs[i].kind = "Transfer"
    /\ txs' = Append(txs, TxTransfer(from, to, 1, 0, tree[from].nonce + Waiting(from)))
    /\ UNCHANGED <<keys, given, states, tree, drafts, batches>>
-----------------------------------------------------------------------------
(* A commitment of the client.                                             *)
TransferCommitment(stateRoot, accountRoot, signature, feeReceiver, bytes) ==
    [kind |-> "Transfer", stateRoot |-> stateRoot, accountRoot |-> accountRoot,
     signature |-> signature, feeReceiver |-> feeReceiver, txs |-> bytes]

MassMigrationCommitment(stateRoot, accountRoot, signature, targetSpokeID, withdrawRoot, tokenID, amount, feeReceiver, bytes) ==
    [kind |-> "MassMigration", stateRoot |-> stateRoot, accountRoot |-> accountRoot,
     signature |-> signature, targetSpokeID |-> targetSpokeID,
     withdrawRoot |-> withdrawRoot, tokenID |-> tokenID, amount |-> amount,
     feeReceiver |-> feeReceiver, txs |-> bytes]

bodyRootTransfer(c) == <<c.accountRoot, c.signature, c.feeReceiver, c.txs>>
bodyRootMassMigration(c) ==
    <<c.accountRoot, c.signature, c.targetSpokeID, c.withdrawRoot, c.tokenID,
      c.amount, c.feeReceiver, c.txs>>
bodyRoot(c) == IF c.kind = "Transfer" THEN bodyRootTransfer(c)
               ELSE bodyRootMassMigration(c)
hash(c) == <<c.stateRoot, bodyRoot(c)>>
toCompressedStruct(c) == [stateRoot |-> c.stateRoot, bodyRoot |-> bodyRoot(c)]

(* The sum of the signatures of all senders, each on its own transaction.  *)
Signed(list) ==
    [i \in DOMAIN list |-> <<states[list[i].fromIndex].publicKey, message(list[i])>>]

Drafted(commitment, after) ==
    /\ drafts' = Append(drafts, [commitment |-> commitment, txs |-> txs,
                                 before |-> tree])
    /\ tree' = after
    /\ txs' = <<>>
    /\ UNCHANGED <<keys, given, states, batches>>

InAll == Len(drafts) + SumOf(LAMBDA batch : Len(batch.drafts), batches)

(* A list may be made into a commitment of its kind when it is not empty,  *)
(* its senders are the committer's, and every amount can be written.       *)
MayDraft(kind) ==
    /\ InAll < MaxDrafts
    /\ txs # <<>>
    /\ \A i \in DOMAIN txs : txs[i].kind = kind /\ txs[i].fromIndex \in DOMAIN states
    /\ \A i \in DOMAIN drafts : drafts[i].commitment.kind = kind
    /\ serialize(txs) # Refused

DraftTransfer(feeReceiver) ==
    /\ MayDraft("Transfer")
    /\ LET step == ProcessTransferCommit(tree, [txs |-> txs, feeReceiver |-> feeReceiver])
       IN  /\ IsOk(step)
           /\ Drafted(TransferCommitment(step.tree, keys, Signed(txs), feeReceiver,
                                         serialize(txs)),
                      step.tree)

Migration(list, feeReceiver) ==
    [txs |-> list, feeReceiver |-> feeReceiver, tokenID |-> 1,
     amount |-> TotalAmount(list),
     withdrawRoot |-> WithdrawLeaves(tree, [txs |-> list, tokenID |-> 1])]

DraftMassMigration(feeReceiver) ==
    /\ MayDraft("MassMigration")
    /\ LET body == Migration(txs, feeReceiver)
           step == ProcessMassMigrationCommit(tree, body)
       IN  /\ IsOk(step)
           /\ Drafted(MassMigrationCommitment(step.tree, keys, Signed(txs),
                                              Head(txs).spokeID, body.withdrawRoot,
                                              body.tokenID, body.amount, feeReceiver,
                                              serialize(txs)),
                      step.tree)
-----------------------------------------------------------------------------
(* The contract: Types.toHash() of the two bodies, and the leaf that each  *)
(* submission makes of its arrays.                                         *)
toHash(stateRoot, bodyHash) == <<stateRoot, bodyHash>>
toHashTransfer(body) == <<body.accountRoot, body.signature, body.feeReceiver, body.txs>>
toHashMassMigration(body) ==
    <<body.accountRoot, body.signature, body.targetSpokeID, body.withdrawRoot,
      body.tokenID, body.amount, body.feeReceiver, body.txs>>

submitTransfer(accountRoot, stateRoots, signatures, feeReceivers, txss) ==
    Contract!merklise([i \in DOMAIN stateRoots |->
        toHash(stateRoots[i], <<accountRoot, signatures[i], feeReceivers[i], txss[i]>>)])

(* Slip: the token and the amount are taken from each other's place.       *)
submitMassMigrationSwapped(accountRoot, stateRoots, signatures, meta, withdrawRoots, txss) ==
    Contract!merklise([i \in DOMAIN stateRoots |->
        toHash(stateRoots[i],
               toHashMassMigration(
                   [accountRoot |-> accountRoot, signature |-> signatures[i],
                    targetSpokeID |-> meta[i][1], withdrawRoot |-> withdrawRoots[i],
                    tokenID |-> meta[i][3], amount |-> meta[i][2],
                    feeReceiver |-> meta[i][4], txs |-> txss[i]]))])
submitMassMigration(accountRoot, stateRoots, signatures, meta, withdrawRoots, txss) ==
    Contract!merklise([i \in DOMAIN stateRoots |->
        toHash(stateRoots[i],
               toHashMassMigration(
                   [accountRoot |-> accountRoot, signature |-> signatures[i],
                    targetSpokeID |-> meta[i][1], withdrawRoot |-> withdrawRoots[i],
                    tokenID |-> meta[i][2], amount |-> meta[i][3],
                    feeReceiver |-> meta[i][4], txs |-> txss[i]]))])

(* submit() of TransferBatch and of MassMigrationBatch, that the contract  *)
(* reverts when there are more commitments than merklise() takes.          *)
Each(Part(_)) == [i \in DOMAIN drafts |-> Part(drafts[i].commitment)]
SubmitTransferBatch ==
    submitTransfer(keys, Each(LAMBDA c : c.stateRoot), Each(LAMBDA c : c.signature),
                   Each(LAMBDA c : c.feeReceiver), Each(LAMBDA c : c.txs))
SubmitMassMigrationBatch ==
    submitMassMigration(
        keys, Each(LAMBDA c : c.stateRoot), Each(LAMBDA c : c.signature),
        Each(LAMBDA c : <<c.targetSpokeID, c.tokenID, c.amount, c.feeReceiver>>),
        Each(LAMBDA c : c.withdrawRoot), Each(LAMBDA c : c.txs))

Submit ==
    /\ drafts # <<>>
    /\ Len(drafts) <= 32
    /\ batches' = Append(batches,
          [drafts |-> drafts, accountRoot |-> keys,
           commitmentRoot |-> IF Head(drafts).commitment.kind = "Transfer"
                              THEN SubmitTransferBatch ELSE SubmitMassMigrationBatch])
    /\ drafts' = <<>>
    /\ UNCHANGED <<keys, given, states, tree, txs>>

CommitmentsNext ==
    /\ Len(batches) < MaxBatches
    /\ \/ RegisterKey
       \/ NewList(FactoryLists)
       \/ drafts = <<>> /\ batches = <<>> /\ NewList(Drawn)
       \/ \E from \in Payers, to \in Payees : SignTransfer(from, to)
       \/ \E feeReceiver \in FeeReceivers :
             DraftTransfer(feeReceiver) \/ DraftMassMigration(feeReceiver)
       \/ Submit

CommitmentsSpec == CommitmentsInit /\ [][CommitmentsNext]_commitmentVars
-----------------------------------------------------------------------------
(* What the client keeps of a batch, and the proofs that it makes of it.   *)
BatchTree(list) == Client!merklize([i \in DOMAIN list |-> hash(list[i].commitment)])
WitnessOf(list, leafIndex) ==
    LET t == BatchTree(list) IN Client!witness(t, leafIndex, t.depth)

(* A proof with the whole body, and one with the root of the body.         *)
proof(list, leafIndex) ==
    [commitment |-> list[leafIndex + 1].commitment, pathToCommitment |-> leafIndex,
     witness |-> WitnessOf(list, leafIndex)]
proofCompressed(list, leafIndex) ==
    [commitment |-> toCompressedStruct(list[leafIndex + 1].commitment),
     pathToCommitment |-> leafIndex, witness |-> WitnessOf(list, leafIndex)]

checkInclusion(commitmentRoot, bodyHash, p) ==
    Contract!verify(commitmentRoot, toHash(p.commitment.stateRoot, bodyHash),
                    p.pathToCommitment, p.witness)
Opens(batch, leafIndex) ==
    LET p == proof(batch.drafts, leafIndex)
        body == p.commitment
        q == proofCompressed(batch.drafts, leafIndex)
    IN  /\ checkInclusion(batch.commitmentRoot,
                         IF body.kind = "Transfer" THEN toHashTransfer(body)
                         ELSE toHashMassMigration(body), p)
        /\ checkInclusion(batch.commitmentRoot, q.commitment.bodyRoot, q)

(* What the contract makes of the bytes of a commitment.                   *)
DecodedTxs(kind, bytes) ==
    [i \in 1 .. size(kind, bytes) |-> Decoded(kind, bytes, i - 1)]
(* A message has more than the bytes: a spoke, or the keys of both.        *)
MessageOf(kind, tx, nonce, more) ==
    CASE kind = "Transfer" -> transferMessageOf(tx, nonce)
      [] kind = "MassMigration" -> massMigrationMessageOf(tx, nonce, more[1])
      [] kind = "Create2Transfer" -> create2TransferMessageOf(tx, nonce, more[1], more[2])

(* Slip: the nonce is taken as it is in the tree.                          *)
CheckedMessagesAfter(c) ==
    LET list == DecodedTxs(c.kind, c.txs)
        more == IF c.kind = "MassMigration" THEN <<c.targetSpokeID>> ELSE <<>>
        state(i) == c.stateRoot[list[i].fromIndex]
    IN  [i \in DOMAIN list |-> <<state(i).pubkeyIndex,
                                MessageOf(c.kind, list[i], state(i).nonce, more)>>]

(* checkSignature(): the signature is good when it is of these messages by *)
(* the keys of these senders.                                              *)
CheckedMessages(c) ==
    LET list == DecodedTxs(c.kind, c.txs)
        more == IF c.kind = "MassMigration" THEN <<c.targetSpokeID>> ELSE <<>>
        state(i) == c.stateRoot[list[i].fromIndex]
    IN  [i \in DOMAIN list |-> <<state(i).pubkeyIndex,
                                MessageOf(c.kind, list[i], state(i).nonce - 1, more)>>]
=============================================================================
