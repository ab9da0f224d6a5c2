----------------------------- MODULE Withdrawals ----------------------------
(***************************************************************************)
(* contracts/Vault.sol and contracts/WithdrawManager.sol with the rollup   *)
(* whose batches they read, the registries, and the ERC20 tokens they move.*)
(* A migration is a MassMigrationBody: the spoke, token and amount, the    *)
(* states whose tree has the withdrawRoot (a hash is free, so the root is  *)
(* the list of them), and the accountRoot, a function from key indices.    *)
(***************************************************************************)
EXTENDS RollupProperties, Registries, Transition

CONSTANTS
    Vault, WithdrawManager,    \* the two contracts, as holders of tokens
    TestToken,                 \* the token that is registered at first
    VaultFunds,                \* what the vault holds at first of each token
    SignedFor                  \* the accounts the owner of a key signed for

TokenHolders == {Vault} \union SpokeContracts \union Accounts

ASSUME HoldersAssumption ==
    /\ WithdrawManager \in SpokeContracts
    /\ Vault \notin SpokeContracts
    /\ TestToken \in TokenContracts
    /\ VaultFunds \in [TokenContracts -> Nat]

(* A body is decoded from calldata: its amounts are natural numbers.       *)
ASSUME BodiesAssumption ==
    \A migration \in Migrations \ {NoMigration} :
        /\ migration.amount \in Nat
        /\ migration.withdrawRoot \in
              Seq([pubkeyIndex : Nat, tokenType : Nat, balance : Nat])

VARIABLES
    balances,     \* balances[token][holder]
    allowance,    \* allowance[token][spoke]: what the spoke may draw
    processed,    \* withdrawRoot => accountRoot
    claimed,      \* the bits of bitmap that are set
    approvals     \* history: the commitments that requestApproval approved

withdrawVars == <<registryVars, balances, allowance, processed, claimed,
                  approvals>>

WithdrawInit ==
    /\ RegistryInit(TestToken, WithdrawManager)
    /\ balances = [token \in TokenContracts |->
                      [holder \in TokenHolders |->
                          IF holder = Vault THEN VaultFunds[token] ELSE 0]]
    /\ allowance = [token \in TokenContracts |->
                       [spoke \in SpokeContracts |-> 0]]
    /\ processed = <<>>
    /\ claimed = {}
    /\ approvals = {}

(* ERC20 transfer() and transferFrom(): revert when the balance is short.  *)
Transfer(token, from, to, amount) ==
    /\ balances[token][from] >= amount
    /\ LET paid == [balances EXCEPT ![token][from] = @ - amount]
       IN  balances' = [paid EXCEPT ![token][to] = @ + amount]

MigrationAt(batchID, i) == BatchOf(batchID).commitments[i].migration

(* What requestApproval() requires of the commitment at position i.        *)
ApprovableEarly(spoke, batchID, i) ==    \* slip: finality is not required
    /\ batchID \in LiveIDs
    /\ i \in DOMAIN BatchOf(batchID).commitments
    /\ MigrationAt(batchID, i) # NoMigration
    /\ IsSpoke(spoke, MigrationAt(batchID, i).targetSpokeID)
    /\ IsToken(MigrationAt(batchID, i).tokenID)

Approvable(spoke, batchID, i) ==
    /\ batchID \in LiveIDs
    /\ blockNumber >= BatchOf(batchID).finaliseOn
    /\ i \in DOMAIN BatchOf(batchID).commitments
    /\ MigrationAt(batchID, i) # NoMigration
    /\ IsSpoke(spoke, MigrationAt(batchID, i).targetSpokeID)
    /\ IsToken(MigrationAt(batchID, i).tokenID)

Approval(spoke, batchID, i) ==
    [spoke |-> spoke, batchID |-> batchID, position |-> i,
     commitment |-> BatchOf(batchID).commitments[i],
     condemned |-> batchID >= Accepted]
-----------------------------------------------------------------------------
(* requestApproval() by a spoke that draws later; approve() replaces what  *)
(* was allowed before.  WithdrawManager asks only from within              *)
(* processWithdrawCommitment().                                            *)
RequestApproval(spoke, batchID, i) ==
    /\ spoke # WithdrawManager
    /\ Approvable(spoke, batchID, i)
    /\ LET migration == MigrationAt(batchID, i)
       IN  allowance' = [allowance EXCEPT
                            ![TokenOf(migration.tokenID)][spoke] = migration.amount]
    /\ approvals' = approvals \union {Approval(spoke, batchID, i)}
    /\ UNCHANGED <<registryVars, balances, processed, claimed>>

(* A spoke outside this repository draws all that it is allowed.           *)
SpokeDraws(spoke, token) ==
    /\ spoke # WithdrawManager
    /\ allowance[token][spoke] > 0
    /\ Transfer(token, Vault, spoke, allowance[token][spoke])
    /\ allowance' = [allowance EXCEPT ![token][spoke] = 0]
    /\ UNCHANGED <<registryVars, processed, claimed, approvals>>

(* The manager asks for approval and draws the amount in one call.         *)
ProcessWithdrawCommitment(batchID, i) ==
    /\ Approvable(WithdrawManager, batchID, i)
    /\ LET migration == MigrationAt(batchID, i)
           token == TokenOf(migration.tokenID)
           root == migration.withdrawRoot
       IN  /\ processed' = [r \in DOMAIN processed \union {root} |->
                               IF r = root THEN migration.accountRoot
                                           ELSE processed[r]]
           /\ Transfer(token, Vault, WithdrawManager, migration.amount)
           /\ allowance' = [allowance EXCEPT ![token][WithdrawManager] = 0]
    /\ approvals' = approvals \union {Approval(WithdrawManager, batchID, i)}
    /\ UNCHANGED <<registryVars, claimed>>

IsClaimed(root, pubkeyIndex) == <<root, pubkeyIndex>> \in claimed

(* Slip: a claim of nothing in particular is marked.                       *)
ClaimTokensUnmarked(sender, root, i) ==
    /\ root \in DOMAIN processed
    /\ i \in DOMAIN root
    /\ ~IsClaimed(root, root[i].pubkeyIndex)
    /\ root[i].pubkeyIndex \in DOMAIN processed[root]
    /\ sender \in SignedFor[processed[root][root[i].pubkeyIndex]]
    /\ IsToken(root[i].tokenType)
    /\ claimed' = claimed
    /\ Transfer(TokenOf(root[i].tokenType), WithdrawManager, sender,
                root[i].balance)
    /\ UNCHANGED <<registryVars, allowance, processed, approvals>>

(* claimTokens() for the i-th state of the tree with this root.            *)
ClaimTokens(sender, root, i) ==
    /\ root \in DOMAIN processed
    /\ i \in DOMAIN root
    /\ ~IsClaimed(root, root[i].pubkeyIndex)
    /\ root[i].pubkeyIndex \in DOMAIN processed[root]
    /\ sender \in SignedFor[processed[root][root[i].pubkeyIndex]]
    /\ IsToken(root[i].tokenType)
    /\ claimed' = claimed \union {<<root, root[i].pubkeyIndex>>}
    /\ Transfer(TokenOf(root[i].tokenType), WithdrawManager, sender,
                root[i].balance)
    /\ UNCHANGED <<registryVars, allowance, processed, approvals>>
-----------------------------------------------------------------------------
Register ==
    /\ \/ \E spoke \in SpokeContracts : RegisterSpoke(spoke)
       \/ \E token \in TokenContracts : \/ RequestRegistration(token)
                                        \/ FinaliseRegistration(token)
    /\ UNCHANGED <<balances, allowance, processed, claimed, approvals>>

Positions == UNION {DOMAIN payload : payload \in Payloads}

Withdrawal ==
    \/ Register
    \/ \E batchID \in BatchIDs, i \in Positions :
          \/ \E spoke \in SpokeContracts : RequestApproval(spoke, batchID, i)
          \/ ProcessWithdrawCommitment(batchID, i)
    \/ \E spoke \in SpokeContracts, token \in TokenContracts :
          SpokeDraws(spoke, token)
    \/ \E sender \in Accounts, root \in DOMAIN processed :
          \E i \in DOMAIN root : ClaimTokens(sender, root, i)

WithdrawNext ==
    \/ Next /\ UNCHANGED withdrawVars
    \/ Withdrawal /\ UNCHANGED vars

WithdrawSpec == Init /\ WithdrawInit /\ [][WithdrawNext]_<<vars, withdrawVars>>
-----------------------------------------------------------------------------
(* A commitment that was approved when it was not condemned belongs to the *)
(* chain for ever: no rollback, of whatever batch and however it pauses,   *)
(* takes back a migration whose tokens have left the vault.                *)
Stands(approval) ==
    /\ approval.batchID < Accepted
    /\ approval.position \in DOMAIN BatchOf(approval.batchID).commitments
    /\ BatchOf(approval.batchID).commitments[approval.position]
          = approval.commitment

ApprovalsStand == \A approval \in approvals :
                     ~approval.condemned => Stands(approval)

(* "Vault: Batch shoould be finalised" (Vault.sol:55): the tokens of a     *)
(* migration leave the vault only for a batch that stays in the chain.     *)
ApprovedBatchesStand == \A approval \in approvals : Stands(approval)

(* What the manager owes in a token under a root: the states whose keys    *)
(* have not claimed.                                                       *)
OwedUnder(root, token) ==
    Total([i \in DOMAIN root |->
              IF /\ TokenOf(root[i].tokenType) = token
                 /\ ~IsClaimed(root, root[i].pubkeyIndex)
              THEN root[i].balance ELSE 0])

AllSound == \A approval \in approvals :
               approval.spoke = WithdrawManager => IsSound(approval.commitment.migration)

(* If all that the manager processed was sound, as MigrationsAreSound of   *)
(* StateChain says of what processes with Ok, then it can pay every claim  *)
(* it has not paid, whichever are made first, however often one commitment *)
(* or one withdraw root is processed, and whatever ids a token has.        *)
ClaimsAreCovered ==
    AllSound =>
        \A token \in TokenContracts, roots \in SetToSeqs(DOMAIN processed) :
            balances[token][WithdrawManager] >=
                SumOf(LAMBDA root : OwedUnder(root, token), roots)
=============================================================================
