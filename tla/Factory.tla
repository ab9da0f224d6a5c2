------------------------------- MODULE Factory ------------------------------
(***************************************************************************)
(* ts/factory.ts and the State of ts/state.ts: lists of states whose       *)
(* balance was cast to a decimal, and lists of transactions in which every *)
(* state pays a tenth of its balance, and a tenth of that as the fee.      *)
(* Arrays count from 0 and the lists of transactions from 1.               *)
(***************************************************************************)
EXTENDS TxCodec

(* A key pair is new for each state; it is told by the account it is for.  *)
StateNew(pubkeyIndex, tokenType, balance, nonce, stateID) ==
    [pubkeyIndex |-> pubkeyIndex, tokenType |-> tokenType, balance |-> balance,
     nonce |-> nonce, stateID |-> stateID, publicKey |-> pubkeyIndex]

(* What State.encode() and toStateLeaf() pack: neither id nor key.         *)
Leaf(state) ==
    [pubkeyIndex |-> state.pubkeyIndex, tokenType |-> state.tokenType,
     balance |-> state.balance, nonce |-> state.nonce]

buildList(numOfStates, initialStateID, initialAccID, tokenID, initialBalance, initialNonce) ==
    [i \in 0 .. numOfStates - 1 |->
        StateNew(initialAccID + i, tokenID, initialBalance, initialNonce + i,
                 initialStateID + i)]

Tenth(amount) == amount \div 10

(* Slip: the whole balance is paid, and the fee on top.                    *)
txTransferFactoryAll(states, n) ==
    [k \in 1 .. n |->
        LET senderIndex == k - 1
            sender == states[senderIndex]
            amount == sender.balance
        IN  TxTransfer(senderIndex, (senderIndex + 5) % n, amount, Tenth(amount),
                       sender.nonce)]
txTransferFactory(states, n) ==
    [k \in 1 .. n |->
        LET senderIndex == k - 1
            sender == states[senderIndex]
            amount == Tenth(sender.balance)
        IN  TxTransfer(senderIndex, (senderIndex + 5) % n, amount, Tenth(amount),
                       sender.nonce)]

(* The sender is looked up in the array by its id, which is its place only *)
(* in a list of states that begins with the id 0.                          *)
txCreate2TransferFactory(states, newStates, n) ==
    [k \in 1 .. n |->
        LET senderIndex == states[k - 1].stateID
            sender == states[senderIndex]
            receiver == newStates[k - 1]
            amount == Tenth(sender.balance)
        IN  TxCreate2Transfer(senderIndex, receiver.stateID, sender.publicKey,
                              receiver.publicKey, receiver.pubkeyIndex,
                              amount, Tenth(amount), sender.nonce)]

txMassMigrationFactory(states, n, spokeID) ==
    [k \in 1 .. n |->
        LET sender == states[k - 1]
            amount == Tenth(sender.balance)
        IN  TxMassMigration(k - 1, amount, spokeID, Tenth(amount), sender.nonce)]
=============================================================================
