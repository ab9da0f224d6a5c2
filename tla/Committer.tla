------------------------------ MODULE Committer -----------------------------
(***************************************************************************)
(* A committer on a new deployment: the script of scripts/deploy.ts runs,  *)
(* and then the committer, whose states are those of the genesis root that *)
(* the script was given, signs, drafts and submits.  It is followed when   *)
(* nobody else has called a contract before, so that its token and its     *)
(* spoke have the id 1.                                                    *)
(***************************************************************************)
EXTENDS CommitmentProperties, Deployment

committerVars == <<commitmentVars, deployVars>>

(* Bound: others make their calls before the committer begins.             *)
Deploying ==
    /\ keys = NumOfStates /\ txs = <<>> /\ drafts = <<>> /\ batches = <<>>
    /\ DeployNext
    /\ UNCHANGED commitmentVars

(* A key that is registered is one more account.                           *)
Committing ==
    /\ Deployed /\ outsiderCalls = 0 /\ genesisRoot \in GivenRoots
    /\ CommitmentsNext
    /\ accounts' = IF keys' = keys THEN accounts ELSE Append(accounts, OtherKey)
    /\ UNCHANGED <<registryVars, sent, pending, names, references, genesisRoot,
                   rollupOfVault, outsiderCalls>>

CommitterInit == CommitmentsInit /\ DeployInit
CommitterNext == Deploying \/ Committing

(* The script runs on, and what is sent is mined.                          *)
CommitterFairness ==
    /\ WF_committerVars(Send /\ UNCHANGED commitmentVars)
    /\ WF_committerVars(Mine /\ UNCHANGED commitmentVars)

CommitterSpec ==
    CommitterInit /\ [][CommitterNext]_committerVars /\ CommitterFairness
=============================================================================
