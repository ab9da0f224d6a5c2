---------------------------- MODULE MCClientState ---------------------------
(* Instances of StateChain and the client small enough for TLC.           *)
EXTENDS Frontend

MCTokens == {1, 2}

(* A key with a state in each token, and another key.                      *)
FirstSubtree == (0 :> CreateState(1, 1, 5)) @@ (1 :> CreateState(2, 1, 1))
SecondSubtree == (2 :> CreateState(1, 2, 2))
MCSubtrees == {FirstSubtree, SecondSubtree}
MCFirstSubtree == {FirstSubtree}

Indices == 0 .. 3
Bodies(txLists, feeReceivers) == [txs : txLists, feeReceiver : feeReceivers]
UpToTwo(txs) == BoundedSeq(txs, 2)

Transfers(senders, receivers, amounts) ==
    [fromIndex : senders, toIndex : receivers, amount : amounts, fee : {0, 1}]
Create2Transfers(amounts) ==
    [fromIndex : {0, 2, 3}, toIndex : {1, 2, 3}, toAccID : {2}, amount : amounts,
     fee : {1}]
MassMigrationTxs(amounts) ==
    [fromIndex : {0, 1, 3}, amount : amounts, fee : {0, 1}]
FeeOnly == [fromIndex |-> 1, amount |-> 0, fee |-> 1]

(* Bodies that say what their transactions add up to, in the first token,  *)
(* and some that are wrong in the amount, the order or the token.          *)
Keys == <<2, 1, 2>> @@ (0 :> 1)
Withdrawn(txs) ==
    [i \in DOMAIN txs |-> CreateState(Keys[txs[i].fromIndex], 1, txs[i].amount)]
Claiming(txs, feeReceiver, tokenID, amount, root) ==
    [txs |-> txs, feeReceiver |-> feeReceiver, tokenID |-> tokenID,
     amount |-> amount, withdrawRoot |-> root]
Migrations(txLists, feeReceivers) ==
    UNION {{Claiming(txs, f, 1, TotalAmount(txs), Withdrawn(txs)),
            Claiming(txs, f, 1, TotalAmount(txs) + 1, Withdrawn(txs)),
            Claiming(txs, f, 1, TotalAmount(txs), Reverse(Withdrawn(txs))),
            Claiming(txs, f, 2, TotalAmount(txs), Withdrawn(txs))} :
              txs \in txLists, f \in feeReceivers}

(* Up to two transactions in every order: a sender that pays itself, has   *)
(* too little, is missing or pays nothing, a receiver that is missing or   *)
(* in another token, and as many kinds of fee receiver.                    *)
MCTransfers ==
    Bodies(UpToTwo(Transfers({0, 1, 3}, {0, 2}, {1}) \union
                   Transfers({0}, {1}, {0, 4})),
           {0, 2, 3})
MCCreate2Transfers == Bodies(UpToTwo(Create2Transfers({1})), {0, 3})
MCMigrations == Migrations(UpToTwo(MassMigrationTxs({1}) \union {FeeOnly}), {0, 3})
=============================================================================
