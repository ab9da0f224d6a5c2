----------------------------- MODULE StateChain -----------------------------
(***************************************************************************)
(* The state tree along a chain of commitments that process with the       *)
(* result Ok.  Rollup makes the chain and takes back its end; here is what *)
(* the data does on a chain that stands.  A dispute enforces the result of *)
(* Transfer and MassMigration commitments; none opens a Create2Transfer,   *)
(* for which this is what its contract would accept.                       *)
(***************************************************************************)
EXTENDS Transition

CONSTANTS
    NumLeaves,               \* of the state tree
    TokenTypes,              \* ids of registered tokens
    DepositSubtrees,         \* functions from indices to fresh states
    TransferBodies,          \* records of txs and feeReceiver
    Create2TransferBodies,   \* the same
    MassMigrationBodies,     \* with tokenID, amount and withdrawRoot too
    MaxDeposits,             \* bound: subtrees deposited
    MaxCommitments           \* bound: commitments on top of them

ASSUME NumLeavesAssumption == NumLeaves \in Nat
ASSUME TokenTypesAssumption == TokenTypes \subseteq Nat
ASSUME MaxDepositsAssumption == MaxDeposits \in Nat
ASSUME MaxCommitmentsAssumption == MaxCommitments \in Nat

UserState == [pubkeyIndex : Nat, tokenType : Nat, balance : Nat, nonce : Nat]
IsTree(states) ==
    /\ DOMAIN states \subseteq 0 .. NumLeaves - 1
    /\ states \in [DOMAIN states -> UserState]

(* What the contracts may be given: fresh states, and what is decoded from *)
(* bytes.  A state is created at an index of the tree.                     *)
ASSUME DepositsAssumption ==
    \A subtree \in DepositSubtrees : IsTree(subtree)
ASSUME TransfersAssumption ==
    \A body \in TransferBodies :
        body.txs \in Seq([fromIndex : Nat, toIndex : Nat, amount : Nat, fee : Nat])
ASSUME Create2TransfersAssumption ==
    \A body \in Create2TransferBodies :
        body.txs \in Seq([fromIndex : Nat, toIndex : 0 .. NumLeaves - 1, toAccID : Nat,
                          amount : Nat, fee : Nat])
ASSUME MassMigrationsAssumption ==
    \A body \in MassMigrationBodies :
        body.txs \in Seq([fromIndex : Nat, amount : Nat, fee : Nat])

VARIABLES
    tree,          \* the state tree after the last commitment
    subtrees,      \* history: the subtrees deposited, in order
    migrations,    \* history: the mass migrations, in order
    applied        \* history: for each commitment the messages signed for it

chainVars == <<tree, subtrees, migrations, applied>>

ChainInit ==
    /\ tree = <<>>
    /\ subtrees = <<>>
    /\ migrations = <<>>
    /\ applied = <<>>

(* submitDeposits() grafts a subtree where every leaf is shown vacant.     *)
GraftSubtree(subtree) ==
    /\ Len(subtrees) < MaxDeposits
    /\ DOMAIN subtree \intersect DOMAIN tree = {}
    /\ tree' = Merged(tree, subtree)
    /\ subtrees' = Append(subtrees, subtree)
    /\ UNCHANGED <<migrations, applied>>

Commit(step, kind, txs) ==
    /\ Len(applied) < MaxCommitments
    /\ IsOk(step)
    /\ tree' = step.tree
    /\ applied' = Append(applied, Messages(step.tree, kind, txs))

CommitTransfer(body) ==
    /\ Commit(ProcessTransferCommit(tree, body), "Transfer", body.txs)
    /\ UNCHANGED <<subtrees, migrations>>

CommitCreate2Transfer(body) ==
    /\ Commit(ProcessCreate2TransferCommit(tree, body), "Create2Transfer", body.txs)
    /\ UNCHANGED <<subtrees, migrations>>

CommitMassMigration(body) ==
    /\ Commit(ProcessMassMigrationCommit(tree, body), "MassMigration", body.txs)
    /\ migrations' = Append(migrations, body)
    /\ UNCHANGED subtrees

ChainNext ==
    \/ \E subtree \in DepositSubtrees : GraftSubtree(subtree)
    \/ \E body \in TransferBodies : CommitTransfer(body)
    \/ \E body \in Create2TransferBodies : CommitCreate2Transfer(body)
    \/ \E body \in MassMigrationBodies : CommitMassMigration(body)

ChainSpec == ChainInit /\ [][ChainNext]_chainVars
-----------------------------------------------------------------------------
(* What the states of one token hold, leaf by leaf.                        *)
Held(states, tokenType) ==
    [i \in 1 .. NumLeaves |->
        IF i - 1 \in DOMAIN states /\ states[i - 1].tokenType = tokenType
        THEN states[i - 1].balance ELSE 0]
BalanceIn(states, tokenType) == Total(Held(states, tokenType))

(* No commitment makes or destroys tokens: in each token the states hold   *)
(* what was deposited less what migrated away, whoever pays whom, a state  *)
(* that pays itself or receives its own fee included.                      *)
SupplyConserved ==
    \A tokenType \in TokenTypes :
        BalanceIn(tree, tokenType)
          + SumOf(LAMBDA body : IF body.tokenID = tokenType THEN body.amount ELSE 0,
                  migrations)
        = SumOf(LAMBDA subtree : BalanceIn(subtree, tokenType), subtrees)

(* processMassMigrationCommit() lets through only migrations whose amount  *)
(* covers their withdrawals: what ClaimsAreCovered relies on.              *)
MigrationsAreSound == \A i \in DOMAIN migrations : IsSound(migrations[i])

(* A state, once there, keeps its key and its token, and its balance falls *)
(* only in a commitment that spends a nonce of its own.                    *)
OwnersDecide ==
    [][\A index \in DOMAIN tree :
          /\ index \in DOMAIN tree'
          /\ tree'[index].pubkeyIndex = tree[index].pubkeyIndex
          /\ tree'[index].tokenType = tree[index].tokenType
          /\ tree'[index].balance < tree[index].balance
                => tree'[index].nonce > tree[index].nonce]_chainVars

(* The message signed for a transfer or a migration serves one commitment. *)
MessagesAreSpent ==
    \A i, j \in DOMAIN applied :
        i # j => {message \in applied[i] \intersect applied[j] :
                     message.kind # "Create2Transfer"} = {}
=============================================================================
