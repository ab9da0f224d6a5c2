-------------------------- MODULE WithdrawalProofs --------------------------
(***************************************************************************)
(* Machine-checked proofs about what leaves the vault.  An approval given  *)
(* while its batch is not condemned is never taken back: by the refinement *)
(* of Ledger such a batch is at a final position, and final positions      *)
(* stay.  And what the manager holds covers what it owes, since it draws   *)
(* for a root what the states of the root hold, and a claim of a key pays  *)
(* no more than it strikes off.                                            *)
(***************************************************************************)
EXTENDS Withdrawals, RollupProofs, LoopProofs

(* Where an approved commitment is in the ledger.                          *)
IsRecorded(approval) ==
    LET position == approval.batchID + 1
    IN  /\ position \in FinalPositions
        /\ approval.position \in DOMAIN AcceptedBatches[position].commitments
        /\ AcceptedBatches[position].commitments[approval.position]
              = approval.commitment

(* The strengthening of ApprovalsStand that is inductive.                  *)
ApprovalsRecorded ==
    \A approval \in approvals :
        /\ approval.batchID \in BatchIDs
        /\ ~approval.condemned => IsRecorded(approval)

(* No step of the rollup moves or changes what is at a final position.     *)
LEMMA FinalPositionsStay ==
    ASSUME ChainInv, ChainInv',
           Promise!LedgerNext \/ UNCHANGED <<AcceptedBatches, FinalPositions>>,
           NEW p \in FinalPositions
    PROVE  p \in FinalPositions' /\ AcceptedBatches'[p] = AcceptedBatches[p]
<1>1. /\ AcceptedBatches \in Seq(Batch) /\ AcceptedBatches' \in Seq(Batch)
      /\ p \in 1 .. Len(AcceptedBatches)
  <2>1. LedgerFacts /\ LedgerFacts'
    BY LedgerNow, LedgerAfter
  <2>2. AcceptedBatches \in Seq(Batch) /\ p \in 1 .. Len(AcceptedBatches)
    BY <2>1, PrefixFacts DEF LedgerFacts
  <2>3. AcceptedBatches' \in Seq(Batch)
    <3>1. /\ batches' \in Seq(Batch) /\ Accepted' \in 0 .. Len(batches')
          /\ AcceptedBatches' = SubSeq(batches', 1, Accepted')
      BY <2>1 DEF LedgerFacts
    <3> QED
      BY <3>1, PrefixFacts
  <2> QED
    BY <2>2, <2>3
<1>2. CASE Promise!Extend
  <2>1. /\ SubSeq(AcceptedBatches', 1, Len(AcceptedBatches)) = AcceptedBatches
        /\ Len(AcceptedBatches') = Len(AcceptedBatches) + 1
        /\ FinalPositions \subseteq FinalPositions'
    BY <1>2 DEF Promise!Extend
  <2>2. SubSeq(AcceptedBatches', 1, Len(AcceptedBatches))[p] = AcceptedBatches'[p]
    BY <1>1, <2>1, PrefixFacts
  <2> QED
    BY <2>1, <2>2
<1>3. CASE Promise!Condemn
  <2>1. PICK k \in 0 .. Len(AcceptedBatches) - 1 :
           /\ FinalPositions \subseteq 1 .. k
           /\ AcceptedBatches' = SubSeq(AcceptedBatches, 1, k)
    BY <1>3 DEF Promise!Condemn
  <2>2. FinalPositions' = FinalPositions
    BY <1>3 DEF Promise!Condemn
  <2>3. k \in 0 .. Len(AcceptedBatches) /\ p \in 1 .. k
    BY <1>1, <2>1
  <2>4. SubSeq(AcceptedBatches, 1, k)[p] = AcceptedBatches[p]
    BY <1>1, <2>3, PrefixFacts
  <2> QED
    BY <2>1, <2>2, <2>4
<1>4. CASE Promise!Finalise
  BY <1>4 DEF Promise!Finalise
<1>5. CASE UNCHANGED <<AcceptedBatches, FinalPositions>>
  BY <1>5
<1> QED
  BY <1>2, <1>3, <1>4, <1>5 DEF Promise!LedgerNext

LEMMA RollupKeepsApprovals ==
    ASSUME IInv, IInv', [Next]_vars, ApprovalsRecorded, UNCHANGED approvals
    PROVE  ApprovalsRecorded'
<1>1. ChainInv /\ ChainInv'
  BY DEF IInv
<1>2. Promise!LedgerNext \/ UNCHANGED <<AcceptedBatches, FinalPositions>>
  BY StepImplements
<1>3. ASSUME NEW approval \in approvals
      PROVE  /\ approval.batchID \in BatchIDs
             /\ ~approval.condemned => IsRecorded(approval)'
  <2>1. approval.batchID \in BatchIDs
        /\ (~approval.condemned => IsRecorded(approval))
    BY DEF ApprovalsRecorded
  <2>2. \A p \in FinalPositions :
           p \in FinalPositions' /\ AcceptedBatches'[p] = AcceptedBatches[p]
    BY <1>1, <1>2, FinalPositionsStay
  <2> QED
    BY <2>1, <2>2 DEF IsRecorded
<1> QED
  BY <1>3 DEF ApprovalsRecorded

(* A new approval is of a batch at a final position, or of a condemned one.*)
LEMMA NewApprovalIsRecorded ==
    ASSUME ChainInv, NEW spoke, NEW batchID \in BatchIDs, NEW i,
           Approvable(spoke, batchID, i)
    PROVE  LET approval == Approval(spoke, batchID, i)
           IN  /\ approval.batchID \in BatchIDs
               /\ ~approval.condemned => IsRecorded(approval)
<1> DEFINE approval == Approval(spoke, batchID, i)
<1>1. /\ approval.batchID = batchID /\ approval.position = i
      /\ approval.commitment = BatchOf(batchID).commitments[i]
      /\ approval.condemned = (batchID >= Accepted)
  BY DEF Approval
<1> HIDE DEF approval
<1>2. ASSUME ~(batchID >= Accepted) PROVE IsRecorded(approval)
  <2>1. /\ batches \in Seq(Batch) /\ Len(batches) \in Nat
        /\ Accepted \in 1 .. Len(batches)
        /\ AcceptedBatches = SubSeq(batches, 1, Accepted)
        /\ FinalPositions = {k \in 1 .. Accepted :
                                blockNumber >= batches[k].finaliseOn}
    BY LedgerNow DEF LedgerFacts
  <2>2. batchID \in Nat
    BY MaxBatchesAssumption DEF BatchIDs
  <2>3. batchID + 1 \in 1 .. Accepted
    BY <1>2, <2>1, <2>2
  <2>4. /\ blockNumber >= batches[batchID + 1].finaliseOn
        /\ i \in DOMAIN batches[batchID + 1].commitments
    BY DEF Approvable, BatchOf
  <2>5. AcceptedBatches[batchID + 1] = batches[batchID + 1]
    BY <2>1, <2>3, PrefixFacts
  <2> QED
    BY <1>1, <2>1, <2>3, <2>4, <2>5 DEF IsRecorded, BatchOf
<1> QED
  BY <1>1, <1>2 DEF approval

LEMMA WithdrawalKeepsApprovals ==
    ASSUME IInv, Withdrawal, UNCHANGED vars, ApprovalsRecorded
    PROVE  ApprovalsRecorded'
<1>1. ChainInv
  BY DEF IInv
<1>2. \/ UNCHANGED approvals
      \/ \E spoke \in SpokeContracts, batchID \in BatchIDs, i \in Positions :
            /\ Approvable(spoke, batchID, i)
            /\ approvals' = approvals \union {Approval(spoke, batchID, i)}
  <2>1. CASE \/ Register
             \/ \E spoke \in SpokeContracts, token \in TokenContracts :
                   SpokeDraws(spoke, token)
             \/ \E sender \in Accounts, root \in DOMAIN processed :
                   \E i \in DOMAIN root : ClaimTokens(sender, root, i)
    BY <2>1 DEF Register, SpokeDraws, ClaimTokens
  <2>2. ASSUME NEW batchID \in BatchIDs, NEW i, NEW spoke,
               RequestApproval(spoke, batchID, i)
        PROVE  /\ Approvable(spoke, batchID, i)
               /\ approvals' = approvals \union {Approval(spoke, batchID, i)}
    BY <2>2 DEF RequestApproval
  <2>3. ASSUME NEW batchID \in BatchIDs, NEW i,
               ProcessWithdrawCommitment(batchID, i)
        PROVE  /\ Approvable(WithdrawManager, batchID, i)
               /\ approvals' = approvals
                                 \union {Approval(WithdrawManager, batchID, i)}
    BY <2>3 DEF ProcessWithdrawCommitment
  <2>4. CASE \E batchID \in BatchIDs, i \in Positions :
                \/ \E spoke \in SpokeContracts : RequestApproval(spoke, batchID, i)
                \/ ProcessWithdrawCommitment(batchID, i)
    <3>1. PICK batchID \in BatchIDs, i \in Positions :
             \/ \E spoke \in SpokeContracts : RequestApproval(spoke, batchID, i)
             \/ ProcessWithdrawCommitment(batchID, i)
      BY <2>4
    <3>2. CASE ProcessWithdrawCommitment(batchID, i)
      BY <2>3, <3>2, HoldersAssumption
    <3>3. CASE \E spoke \in SpokeContracts : RequestApproval(spoke, batchID, i)
      BY <2>2, <3>3
    <3> QED
      BY <3>1, <3>2, <3>3
  <2> QED
    BY <2>1, <2>4 DEF Withdrawal
<1>3. \A approval \in approvals' :
         /\ approval.batchID \in BatchIDs
         /\ ~approval.condemned => IsRecorded(approval)
  <2>1. CASE UNCHANGED approvals
    BY <2>1 DEF ApprovalsRecorded
  <2>2. CASE \E spoke \in SpokeContracts, batchID \in BatchIDs, i \in Positions :
                /\ Approvable(spoke, batchID, i)
                /\ approvals' = approvals \union {Approval(spoke, batchID, i)}
    BY <1>1, <2>2, NewApprovalIsRecorded DEF ApprovalsRecorded
  <2> QED
    BY <1>2, <2>1, <2>2
<1>4. UNCHANGED <<AcceptedBatches, FinalPositions>>
  BY DEF vars, AcceptedBatches, FinalPositions, Accepted, NumBatches, IsFinal, BatchOf
<1> QED
  BY <1>3, <1>4 DEF ApprovalsRecorded, IsRecorded

LEMMA RecordedStand ==
    ASSUME ChainInv, ApprovalsRecorded
    PROVE  ApprovalsStand
<1>1. ASSUME NEW approval \in approvals, ~approval.condemned
      PROVE  Stands(approval)
  <2>1. IsRecorded(approval) /\ approval.batchID \in BatchIDs
    BY <1>1 DEF ApprovalsRecorded
  <2>2. /\ batches \in Seq(Batch) /\ Len(batches) \in Nat
        /\ Accepted \in 1 .. Len(batches)
        /\ AcceptedBatches = SubSeq(batches, 1, Accepted)
        /\ FinalPositions \subseteq 1 .. Accepted
    BY LedgerNow DEF LedgerFacts
  <2>3. approval.batchID \in Nat
    BY <2>1, MaxBatchesAssumption DEF BatchIDs
  <2>4. approval.batchID + 1 \in 1 .. Accepted
    BY <2>1, <2>2 DEF IsRecorded
  <2>5. AcceptedBatches[approval.batchID + 1] = batches[approval.batchID + 1]
    BY <2>2, <2>4, PrefixFacts
  <2> QED
    BY <2>1, <2>2, <2>3, <2>4, <2>5 DEF IsRecorded, Stands, BatchOf
<1> QED
  BY <1>1 DEF ApprovalsStand

(* A migration that was approved while its batch was not condemned stays   *)
(* in the chain: requestApproval() of Vault against every rollback.        *)
THEOREM ApprovalsAlwaysStand == WithdrawSpec => []ApprovalsStand
<1>1. Init /\ WithdrawInit => ApprovalsRecorded
  BY DEF WithdrawInit, ApprovalsRecorded
<1>2. WithdrawSpec => Spec
  <2>1. [WithdrawNext]_<<vars, withdrawVars>> => [Next]_vars
    BY DEF WithdrawNext
  <2> QED
    BY <2>1, PTL DEF WithdrawSpec, Spec
<1>3. ApprovalsRecorded /\ IInv /\ IInv' /\ [WithdrawNext]_<<vars, withdrawVars>>
        => ApprovalsRecorded'
  <2> SUFFICES ASSUME ApprovalsRecorded, IInv, IInv',
                      [WithdrawNext]_<<vars, withdrawVars>>
               PROVE  ApprovalsRecorded'
    OBVIOUS
  <2>1. CASE Next /\ UNCHANGED withdrawVars
    BY <2>1, RollupKeepsApprovals DEF withdrawVars
  <2>2. CASE Withdrawal /\ UNCHANGED vars
    BY <2>2, WithdrawalKeepsApprovals
  <2>3. CASE UNCHANGED <<vars, withdrawVars>>
    BY <2>3, RollupKeepsApprovals DEF withdrawVars
  <2> QED
    BY <2>1, <2>2, <2>3 DEF WithdrawNext
<1>4. IInv /\ ApprovalsRecorded => ApprovalsStand
  BY RecordedStand DEF IInv
<1> QED
  BY <1>1, <1>2, <1>3, <1>4, Invariant, PTL DEF WithdrawSpec
-----------------------------------------------------------------------------
(* Sums over sets of roots: n places, some of which list a root that no    *)
(* other place lists, and what is held covers any such list.               *)
Listing(roots, n, R) ==
    /\ DOMAIN roots \subseteq 1 .. n
    /\ \A k \in DOMAIN roots : roots[k] \in R
    /\ \A k, l \in DOMAIN roots : k # l => roots[k] # roots[l]
Listed(roots, n, w) ==
    [k \in 1 .. n |-> IF k \in DOMAIN roots THEN w[roots[k]] ELSE 0]
Covers(held, R, w) ==
    \A n \in Nat : \A roots : Listing(roots, n, R) => held >= Total(Listed(roots, n, w))

LEMMA ListedType ==
    ASSUME NEW n \in Nat, NEW roots, NEW R, NEW w \in [R -> Nat], Listing(roots, n, R)
    PROVE  /\ Listed(roots, n, w) \in [1 .. n -> Int]
           /\ \A k \in 1 .. n : Listed(roots, n, w)[k] =
                                    IF k \in DOMAIN roots THEN w[roots[k]] ELSE 0
           /\ Total(Listed(roots, n, w)) \in Int
<1>1. \A k \in DOMAIN roots : w[roots[k]] \in Nat
  BY DEF Listing
<1>2. Listed(roots, n, w) \in [1 .. n -> Int]
  BY <1>1 DEF Listed
<1> QED
  BY <1>2, TotalType DEF Listed

LEMMA CoversWithMore ==
    ASSUME NEW R, NEW w \in [R -> Nat], NEW held \in Int, NEW now \in Int, now >= held,
           Covers(held, R, w)
    PROVE  Covers(now, R, w)
<1> SUFFICES ASSUME NEW n \in Nat, NEW roots, Listing(roots, n, R)
             PROVE  now >= Total(Listed(roots, n, w))
  BY DEF Covers
<1>1. held >= Total(Listed(roots, n, w))
  BY DEF Covers
<1>2. Total(Listed(roots, n, w)) \in Int
  BY ListedType
<1> QED
  BY <1>1, <1>2

(* A root that is processed comes with what it owes.                       *)
LEMMA CoversOneMore ==
    ASSUME NEW R, NEW r, r \notin R, NEW w \in [R -> Nat],
           NEW x \in [R \union {r} -> Nat], \A root \in R : x[root] = w[root],
           NEW held \in Int, NEW now \in Int, now >= held + x[r], Covers(held, R, w)
    PROVE  Covers(now, R \union {r}, x)
<1> SUFFICES ASSUME NEW n \in Nat, NEW roots, Listing(roots, n, R \union {r})
             PROVE  now >= Total(Listed(roots, n, x))
  BY DEF Covers
<1> DEFINE all == Listed(roots, n, x)
<1>1. /\ all \in [1 .. n -> Int] /\ Total(all) \in Int
      /\ \A k \in 1 .. n : all[k] = IF k \in DOMAIN roots THEN x[roots[k]] ELSE 0
  BY ListedType
<1>2. /\ DOMAIN roots \subseteq 1 .. n
      /\ \A k \in DOMAIN roots : roots[k] \in R \union {r}
      /\ \A k, l \in DOMAIN roots : k # l => roots[k] # roots[l]
  BY DEF Listing
<1>3. x[r] \in Nat
  OBVIOUS
<1> HIDE DEF all
<1>4. CASE \E k \in DOMAIN roots : roots[k] = r
  <2>1. PICK k \in DOMAIN roots : roots[k] = r
    BY <1>4
  <2> DEFINE others == [l \in DOMAIN roots \ {k} |-> roots[l]]
             rest == Listed(others, n, w)
  <2>2. /\ DOMAIN others = DOMAIN roots \ {k}
        /\ \A l \in DOMAIN others : others[l] = roots[l] /\ roots[l] \in R
    BY <1>2, <2>1
  <2> HIDE DEF others
  <2>3. Listing(others, n, R)
    BY <1>2, <2>2 DEF Listing
  <2>4. /\ rest \in [1 .. n -> Int] /\ Total(rest) \in Int
        /\ \A l \in 1 .. n : rest[l] = IF l \in DOMAIN others THEN w[others[l]] ELSE 0
    BY <2>3, ListedType
  <2>5. held >= Total(rest)
    BY <2>3 DEF Covers
  <2> HIDE DEF rest
  <2>6. k \in 1 .. n /\ all[k] = x[r] /\ rest[k] = 0
    BY <1>1, <1>2, <2>1, <2>2, <2>4
  <2>7. \A l \in 1 .. n : l # k => all[l] = rest[l]
    BY <1>1, <2>2, <2>4
  <2>8. Total(all) = Total(rest) + all[k] - rest[k]
    <3>1. all \in [1 .. n -> Int] /\ rest \in [1 .. n -> Int] /\ k \in 1 .. n
      BY <1>1, <2>4, <2>6
    <3> QED
      BY ONLY n \in Nat, <2>7, <3>1, TotalChange
  <2> QED
    BY <1>1, <1>3, <2>4, <2>5, <2>6, <2>8 DEF all
<1>5. CASE ~ \E k \in DOMAIN roots : roots[k] = r
  <2>1. Listing(roots, n, R)
    BY <1>2, <1>5 DEF Listing
  <2>2. all = Listed(roots, n, w)
    BY <2>1, <1>2 DEF all, Listed, Listing
  <2>3. held >= Total(all)
    BY <2>1, <2>2 DEF Covers
  <2> QED
    BY <1>1, <1>3, <2>3 DEF all
<1> QED
  BY <1>4, <1>5

(* A claim takes what the root owes no longer.                             *)
LEMMA CoversClaim ==
    ASSUME NEW R, NEW r \in R, NEW w \in [R -> Nat], NEW x \in [R -> Nat],
           NEW c \in Nat, x[r] <= w[r] - c, \A root \in R : root # r => x[root] = w[root],
           NEW held \in Int, NEW now \in Int, now >= held - c, Covers(held, R, w)
    PROVE  Covers(now, R, x)
<1> SUFFICES ASSUME NEW n \in Nat, NEW roots, Listing(roots, n, R)
             PROVE  now >= Total(Listed(roots, n, x))
  BY DEF Covers
<1> DEFINE all == Listed(roots, n, x)
<1>1. /\ all \in [1 .. n -> Int] /\ Total(all) \in Int
      /\ \A k \in 1 .. n : all[k] = IF k \in DOMAIN roots THEN x[roots[k]] ELSE 0
  BY ListedType
<1>2. /\ DOMAIN roots \subseteq 1 .. n
      /\ \A k \in DOMAIN roots : roots[k] \in R
      /\ \A k, l \in DOMAIN roots : k # l => roots[k] # roots[l]
  BY DEF Listing
<1>3. x[r] \in Nat /\ w[r] \in Nat
  OBVIOUS
<1> HIDE DEF all
<1>4. CASE \E k \in DOMAIN roots : roots[k] = r
  <2>1. PICK k \in DOMAIN roots : roots[k] = r
    BY <1>4
  <2> DEFINE before == Listed(roots, n, w)
  <2>2. /\ before \in [1 .. n -> Int] /\ Total(before) \in Int
        /\ \A l \in 1 .. n : before[l] = IF l \in DOMAIN roots THEN w[roots[l]] ELSE 0
    BY ListedType
  <2>3. held >= Total(before)
    BY DEF Covers
  <2> HIDE DEF before
  <2>4. k \in 1 .. n /\ all[k] = x[r] /\ before[k] = w[r]
    BY <1>1, <1>2, <2>1, <2>2
  <2>5. \A l \in 1 .. n : l # k => all[l] = before[l]
    BY <1>1, <1>2, <2>1, <2>2
  <2>6. Total(all) = Total(before) + all[k] - before[k]
    <3>1. all \in [1 .. n -> Int] /\ before \in [1 .. n -> Int] /\ k \in 1 .. n
      BY <1>1, <2>2, <2>4
    <3> QED
      BY ONLY n \in Nat, <2>5, <3>1, TotalChange
  <2> QED
    BY <1>1, <1>3, <2>2, <2>3, <2>4, <2>6 DEF all
<1>5. CASE ~ \E k \in DOMAIN roots : roots[k] = r
  <2> DEFINE more == [k \in DOMAIN roots \union {n + 1} |->
                         IF k = n + 1 THEN r ELSE roots[k]]
             before == Listed(more, n + 1, w)
  <2>1. /\ DOMAIN more = DOMAIN roots \union {n + 1}
        /\ n + 1 \notin DOMAIN roots
        /\ more[n + 1] = r
        /\ \A k \in DOMAIN roots : more[k] = roots[k]
    BY <1>2
  <2> HIDE DEF more
  <2>2. Listing(more, n + 1, R)
    <3>1. DOMAIN more \subseteq 1 .. n + 1
      BY <1>2, <2>1
    <3>2. \A k \in DOMAIN more : more[k] \in R
      BY <1>2, <2>1
    <3>3. \A k, l \in DOMAIN more : k # l => more[k] # more[l]
      BY <1>2, <1>5, <2>1
    <3> QED
      BY <3>1, <3>2, <3>3 DEF Listing
  <2>3. /\ before \in [1 .. n + 1 -> Int]
        /\ \A k \in 1 .. n + 1 : before[k] = IF k \in DOMAIN more THEN w[more[k]] ELSE 0
    <3>1. n + 1 \in Nat /\ w \in [R -> Nat]
      OBVIOUS
    <3> QED
      BY ONLY <2>2, <3>1, ListedType
  <2>4. held >= Total(before)
    BY <2>2 DEF Covers
  <2> HIDE DEF before
  <2>5. before[n + 1] = w[r] /\ \A k \in 1 .. n : before[k] = all[k]
    <3>1. before[n + 1] = w[r]
      BY <2>1, <2>3
    <3>2. ASSUME NEW k \in 1 .. n PROVE before[k] = all[k]
      <4>1. k \in 1 .. n + 1 /\ k # n + 1
        OBVIOUS
      <4> QED
        BY <1>1, <1>2, <1>5, <2>1, <2>3, <4>1
    <3> QED
      BY <3>1, <3>2
  <2>6. Total(before) = Total(all) + before[n + 1]
    <3>1. all \in [1 .. n -> Int] /\ before \in [1 .. n + 1 -> Int]
      BY <1>1, <2>3
    <3> QED
      BY ONLY n \in Nat, <2>5, <3>1, TotalOneMore
  <2> QED
    BY <1>1, <1>3, <2>4, <2>5, <2>6 DEF all
<1> QED
  BY <1>4, <1>5
-----------------------------------------------------------------------------
(* What is owed under a root, place by place.                              *)
Withdrawn == [pubkeyIndex : Nat, tokenType : Nat, balance : Nat]
Unclaimed(root, token, tokens, marks) ==
    [i \in DOMAIN root |-> IF /\ tokens[root[i].tokenType] = token
                              /\ <<root, root[i].pubkeyIndex>> \notin marks
                           THEN root[i].balance ELSE 0]

LEMMA OwedIs ==
    \A root, token :
        OwedUnder(root, token) = Total(Unclaimed(root, token, registeredTokens, claimed))
BY DEF OwedUnder, Unclaimed, TokenOf, IsClaimed

LEMMA UnclaimedType ==
    ASSUME NEW root \in Seq(Withdrawn), NEW token, NEW tokens, NEW marks
    PROVE  /\ Len(root) \in Nat /\ DOMAIN root = 1 .. Len(root)
           /\ \A i \in 1 .. Len(root) : root[i] \in Withdrawn
           /\ Unclaimed(root, token, tokens, marks) \in [1 .. Len(root) -> Int]
           /\ \A i \in 1 .. Len(root) : Unclaimed(root, token, tokens, marks)[i] \in Nat
           /\ Total(Unclaimed(root, token, tokens, marks)) \in Nat
<1>1. /\ Len(root) \in Nat /\ DOMAIN root = 1 .. Len(root)
      /\ \A i \in 1 .. Len(root) : root[i] \in Withdrawn
  BY LenProperties
<1>2. \A i \in 1 .. Len(root) : root[i].balance \in Nat
  BY <1>1 DEF Withdrawn
<1>3. /\ Unclaimed(root, token, tokens, marks) \in [1 .. Len(root) -> Int]
      /\ \A i \in 1 .. Len(root) : Unclaimed(root, token, tokens, marks)[i] \in Nat
  BY <1>1, <1>2 DEF Unclaimed
<1> QED
  BY <1>1, <1>3, TotalIsNatural

(* Under a root of one token no more is owed than its states hold.         *)
LEMMA OwedAtMost ==
    ASSUME NEW root \in Seq(Withdrawn), NEW tokenID, NEW token, NEW tokens, NEW marks,
           \A i \in DOMAIN root : root[i].tokenType = tokenID
    PROVE  LET owed == Total(Unclaimed(root, token, tokens, marks))
               all == SumOf(LAMBDA state : state.balance, root)
           IN  /\ owed \in Nat /\ all \in Nat
               /\ owed <= all
               /\ tokens[tokenID] # token => owed = 0
<1> DEFINE n == Len(root)
           terms == Unclaimed(root, token, tokens, marks)
           amounts == [i \in 1 .. n |-> root[i].balance]
<1>1. /\ n \in Nat /\ DOMAIN root = 1 .. n
      /\ \A i \in 1 .. n : root[i] \in Withdrawn
      /\ terms \in [1 .. n -> Int] /\ Total(terms) \in Nat
  BY UnclaimedType
<1>2. \A i \in 1 .. n : root[i].balance \in Nat /\ root[i].tokenType = tokenID
  BY <1>1 DEF Withdrawn
<1>3. SumOf(LAMBDA state : state.balance, root) = Total(amounts)
  BY <1>1 DEF SumOf
<1>4. \A i \in 1 .. n :
         /\ terms[i] = IF /\ tokens[tokenID] = token
                          /\ <<root, root[i].pubkeyIndex>> \notin marks
                       THEN root[i].balance ELSE 0
         /\ amounts[i] = root[i].balance
  BY <1>1, <1>2 DEF Unclaimed
<1>5. amounts \in [1 .. n -> Int]
  BY <1>2
<1> HIDE DEF n, terms, amounts
<1>6. \A i \in 1 .. n : amounts[i] \in Nat /\ terms[i] <= amounts[i]
  <2>1. ASSUME NEW i \in 1 .. n PROVE amounts[i] \in Nat /\ terms[i] <= amounts[i]
    <3>1. /\ terms[i] = root[i].balance \/ terms[i] = 0
          /\ amounts[i] = root[i].balance
      BY <1>4
    <3>2. root[i].balance \in Nat
      BY <1>2
    <3> QED
      BY ONLY <3>1, <3>2
  <2> QED
    BY <2>1
<1>7. Total(amounts) \in Nat
  BY <1>1, <1>5, <1>6, TotalIsNatural
<1>8. Total(terms) <= Total(amounts)
  BY <1>1, <1>5, <1>6, TotalAtMost
<1>9. ASSUME tokens[tokenID] # token PROVE Total(terms) = 0
  <2>1. \A i \in 1 .. n : terms[i] = 0
    BY <1>4, <1>9
  <2> QED
    BY <1>1, <2>1, TotalZero
<1> QED
  BY <1>1, <1>3, <1>7, <1>8, <1>9 DEF terms

(* A claim lowers what is owed under its root by the balance it pays, and  *)
(* leaves all other roots alone.                                           *)
Paid(root, k, token, tokens) ==
    IF tokens[root[k].tokenType] = token THEN root[k].balance ELSE 0
Lowers(root, k, token, tokens, marks) ==
    LET after == marks \union {<<root, root[k].pubkeyIndex>>}
    IN  /\ Paid(root, k, token, tokens) \in Nat
        /\ Total(Unclaimed(root, token, tokens, after))
              <= Total(Unclaimed(root, token, tokens, marks))
                    - Paid(root, k, token, tokens)
        /\ \A other : other # root =>
              Unclaimed(other, token, tokens, after)
                 = Unclaimed(other, token, tokens, marks)

LEMMA ClaimLowers ==
    ASSUME NEW root \in Seq(Withdrawn), NEW k \in DOMAIN root, NEW token, NEW tokens,
           NEW marks, <<root, root[k].pubkeyIndex>> \notin marks
    PROVE  Lowers(root, k, token, tokens, marks)
<1> DEFINE n == Len(root)
           after == marks \union {<<root, root[k].pubkeyIndex>>}
           paid == Paid(root, k, token, tokens)
           v == Unclaimed(root, token, tokens, marks)
           w == Unclaimed(root, token, tokens, after)
           x == [v EXCEPT ![k] = 0]
<1>1. /\ n \in Nat /\ DOMAIN root = 1 .. n
      /\ \A i \in 1 .. n : root[i] \in Withdrawn
      /\ v \in [1 .. n -> Int] /\ Total(v) \in Nat /\ \A i \in 1 .. n : v[i] \in Nat
      /\ w \in [1 .. n -> Int] /\ Total(w) \in Nat
  BY UnclaimedType
<1>2. k \in 1 .. n
  BY <1>1
<1>3. paid \in Nat
  BY <1>1, <1>2 DEF Withdrawn, Paid
<1>4. v[k] = paid /\ w[k] = 0
  BY <1>1, <1>2 DEF Unclaimed, Paid
<1>5. \A i \in 1 .. n : w[i] = v[i] \/ w[i] = 0
  BY <1>1 DEF Unclaimed
<1>6. \A other : other # root =>
         Unclaimed(other, token, tokens, after) = Unclaimed(other, token, tokens, marks)
  <2>1. \A other, index : other # root =>
           (<<other, index>> \in after <=> <<other, index>> \in marks)
    OBVIOUS
  <2> HIDE DEF after
  <2> QED
    BY <2>1 DEF Unclaimed
<1> HIDE DEF n, after, paid, v, w
<1>7. /\ x \in [1 .. n -> Int] /\ x[k] = 0
      /\ \A i \in 1 .. n : i # k => x[i] = v[i]
  <2>1. v \in [1 .. n -> Int]
    BY <1>1
  <2> QED
    BY ONLY <1>2, <2>1
<1> HIDE DEF x
<1>8. Total(x) = Total(v) + x[k] - v[k]
  <2>1. n \in Nat /\ v \in [1 .. n -> Int]
    BY <1>1
  <2> QED
    BY ONLY <1>2, <1>7, <2>1, TotalChange
<1>9. \A i \in 1 .. n : w[i] <= x[i]
  <2>1. ASSUME NEW i \in 1 .. n PROVE w[i] <= x[i]
    <3>1. v[i] \in Nat /\ (w[i] = v[i] \/ w[i] = 0) /\ (i # k => x[i] = v[i])
      BY <1>1, <1>5, <1>7
    <3>2. CASE i = k
      BY <1>4, <1>7, <3>2
    <3>3. CASE i # k
      BY <3>1, <3>3
    <3> QED
      BY <3>2, <3>3
  <2> QED
    BY <2>1
<1>10. Total(w) <= Total(x)
  BY <1>1, <1>7, <1>9, TotalAtMost
<1>11. Total(w) <= Total(v) - paid
  BY <1>1, <1>3, <1>4, <1>7, <1>8, <1>10
<1> QED
  BY <1>3, <1>6, <1>11 DEF Lowers, after, paid, v, w
-----------------------------------------------------------------------------
(* The invariant.  What was processed was approved, with a registered id.  *)
IsApproved(given, tokens, root, migration) ==
    /\ \E approval \in given : /\ approval.spoke = WithdrawManager
                               /\ approval.commitment.migration = migration
    /\ migration \in Migrations \ {NoMigration}
    /\ migration.withdrawRoot = root
    /\ migration.tokenID \in DOMAIN tokens

WithdrawType ==
    /\ registeredTokens \in Seq(TokenContracts)
    /\ balances \in [TokenContracts -> [TokenHolders -> Int]]
    /\ allowance \in [TokenContracts -> [SpokeContracts -> Nat]]
    /\ IsFiniteSet(DOMAIN processed)
    /\ \A root \in DOMAIN processed :
          \E migration : IsApproved(approvals, registeredTokens, root, migration)

Owes(R, token, tokens, marks) ==
    [root \in R |-> Total(Unclaimed(root, token, tokens, marks))]

Covered ==
    AllSound => \A token \in TokenContracts :
                   Covers(balances[token][WithdrawManager], DOMAIN processed,
                          Owes(DOMAIN processed, token, registeredTokens, claimed))

ClaimsInv == WithdrawType /\ Covered

LEMMA ProcessedType ==
    ASSUME WithdrawType, NEW root \in DOMAIN processed
    PROVE  /\ root \in Seq(Withdrawn)
           /\ AllSound => \A i \in DOMAIN root : root[i].tokenType \in DOMAIN registeredTokens
<1>1. PICK migration : IsApproved(approvals, registeredTokens, root, migration)
  BY DEF WithdrawType
<1>2. root \in Seq(Withdrawn)
  BY <1>1, BodiesAssumption DEF IsApproved, Withdrawn
<1>3. AllSound => IsSound(migration)
  BY <1>1 DEF AllSound, IsApproved
<1> QED
  BY <1>1, <1>2, <1>3 DEF IsSound, IsApproved

LEMMA OwesType ==
    ASSUME NEW R, \A root \in R : root \in Seq(Withdrawn), NEW token, NEW tokens, NEW marks
    PROVE  Owes(R, token, tokens, marks) \in [R -> Nat]
<1>1. \A root \in R : Total(Unclaimed(root, token, tokens, marks)) \in Nat
  BY UnclaimedType
<1> QED
  BY <1>1 DEF Owes

(* Ids stay with their tokens, so that what is owed under a root changes   *)
(* only with what is claimed.                                              *)
LEMMA OwedStays ==
    ASSUME WithdrawType, AllSound, NEW root \in DOMAIN processed, NEW token, NEW marks,
           \A id \in DOMAIN registeredTokens : registeredTokens'[id] = registeredTokens[id]
    PROVE  Unclaimed(root, token, registeredTokens', marks)
              = Unclaimed(root, token, registeredTokens, marks)
<1>1. \A i \in DOMAIN root :
         registeredTokens'[root[i].tokenType] = registeredTokens[root[i].tokenType]
  BY ProcessedType
<1> QED
  BY <1>1 DEF Unclaimed

LEMMA ManagerHolds ==
    ASSUME WithdrawType, NEW token \in TokenContracts
    PROVE  balances[token][WithdrawManager] \in Int
BY HoldersAssumption DEF WithdrawType, TokenHolders

(* Steps at which the manager neither pays nor processes.                  *)
LEMMA OthersKeepClaims ==
    ASSUME ClaimsInv, registeredTokens' \in Seq(TokenContracts),
           \A id \in DOMAIN registeredTokens :
              id \in DOMAIN registeredTokens' /\ registeredTokens'[id] = registeredTokens[id],
           balances' \in [TokenContracts -> [TokenHolders -> Int]],
           allowance' \in [TokenContracts -> [SpokeContracts -> Nat]],
           \A token \in TokenContracts :
              balances'[token][WithdrawManager] = balances[token][WithdrawManager],
           processed' = processed, claimed' = claimed, approvals \subseteq approvals'
    PROVE  ClaimsInv'
<1>1. WithdrawType'
  <2>1. \A root, migration :
           IsApproved(approvals, registeredTokens, root, migration)
              => IsApproved(approvals', registeredTokens', root, migration)
    BY DEF IsApproved
  <2> QED
    BY <2>1 DEF WithdrawType, ClaimsInv
<1>2. ASSUME AllSound', NEW token \in TokenContracts
      PROVE  Covers(balances'[token][WithdrawManager], DOMAIN processed',
                    Owes(DOMAIN processed', token, registeredTokens', claimed'))
  <2>1. AllSound /\ WithdrawType
    BY <1>2 DEF AllSound, ClaimsInv
  <2>2. \A root \in DOMAIN processed :
           Unclaimed(root, token, registeredTokens', claimed)
              = Unclaimed(root, token, registeredTokens, claimed)
    BY <2>1, OwedStays
  <2>3. Owes(DOMAIN processed, token, registeredTokens', claimed)
           = Owes(DOMAIN processed, token, registeredTokens, claimed)
    BY <2>2 DEF Owes
  <2>4. Covers(balances[token][WithdrawManager], DOMAIN processed,
               Owes(DOMAIN processed, token, registeredTokens, claimed))
    BY <2>1 DEF Covered, ClaimsInv
  <2> QED
    BY <2>3, <2>4
<1> QED
  BY <1>1, <1>2 DEF ClaimsInv, Covered
-----------------------------------------------------------------------------
(* The steps of the withdrawals.                                           *)
LEMMA TransferMoves ==
    ASSUME WithdrawType, NEW token \in TokenContracts, NEW from \in TokenHolders,
           NEW to \in TokenHolders, NEW amount \in Nat, Transfer(token, from, to, amount)
    PROVE  /\ balances' \in [TokenContracts -> [TokenHolders -> Int]]
           /\ \A other \in TokenContracts :
                 other # token => balances'[other] = balances[other]
           /\ \A holder \in TokenHolders :
                 balances'[token][holder] =
                    balances[token][holder] - (IF holder = from THEN amount ELSE 0)
                                            + (IF holder = to THEN amount ELSE 0)
<1> DEFINE paid == [balances EXCEPT ![token][from] = @ - amount]
<1>1. balances \in [TokenContracts -> [TokenHolders -> Int]]
  BY DEF WithdrawType
<1>2. balances' = [paid EXCEPT ![token][to] = @ + amount]
  BY DEF Transfer
<1>3. \A holder \in TokenHolders : balances[token][holder] \in Int
  BY <1>1
<1>4. /\ paid \in [TokenContracts -> [TokenHolders -> Int]]
      /\ \A other \in TokenContracts : other # token => paid[other] = balances[other]
      /\ \A holder \in TokenHolders :
            paid[token][holder] =
               balances[token][holder] - (IF holder = from THEN amount ELSE 0)
  BY <1>1, <1>3
<1> HIDE DEF paid
<1>5. \A holder \in TokenHolders : paid[token][holder] \in Int
  BY <1>4
<1>6. /\ balances' \in [TokenContracts -> [TokenHolders -> Int]]
      /\ \A other \in TokenContracts : other # token => balances'[other] = paid[other]
      /\ \A holder \in TokenHolders :
            balances'[token][holder] =
               paid[token][holder] + (IF holder = to THEN amount ELSE 0)
  BY <1>2, <1>4, <1>5
<1> QED
  BY <1>4, <1>6

(* Everything that is approved is a body.                                  *)
LEMMA ApprovedBody ==
    ASSUME IInv, NEW batchID \in BatchIDs, NEW i, NEW spoke, Approvable(spoke, batchID, i)
    PROVE  /\ MigrationAt(batchID, i) \in Migrations \ {NoMigration}
           /\ MigrationAt(batchID, i).amount \in Nat
           /\ MigrationAt(batchID, i).withdrawRoot \in Seq(Withdrawn)
           /\ MigrationAt(batchID, i).tokenID \in DOMAIN registeredTokens
<1>1. /\ batches \in Seq(Batch) /\ Len(batches) \in Nat
      /\ Accepted \in 1 .. Len(batches)
  BY LedgerNow DEF LedgerFacts, IInv
<1>2. batchID \in LiveIDs /\ i \in DOMAIN BatchOf(batchID).commitments
  BY DEF Approvable
<1>3. batchID + 1 \in 1 .. Len(batches)
  <2>1. batchID \in 0 .. Len(batches) - 1
    BY <1>2 DEF LiveIDs, TopBatchID, NumBatches
  <2> QED
    BY <1>1, <2>1
<1>4. BatchOf(batchID) \in Batch
  BY <1>1, <1>3, ElementOfSeq DEF BatchOf
<1>5. BatchOf(batchID).commitments \in Seq(Commitment)
  BY <1>4 DEF Batch
<1>6. BatchOf(batchID).commitments[i] \in Commitment
  BY <1>2, <1>5, ElementOfSeq, LenProperties
<1>7. MigrationAt(batchID, i) \in Migrations
  BY <1>6 DEF Commitment, MigrationAt
<1> QED
  BY <1>7, BodiesAssumption DEF Approvable, IsToken, Withdrawn

(* What the manager draws covers what the root owes, new or not.           *)
LEMMA DrawCovers ==
    ASSUME NEW R, \A other \in R : other \in Seq(Withdrawn), NEW root \in Seq(Withdrawn),
           NEW migration, IsSound(migration), migration.withdrawRoot = root,
           migration.amount \in Nat,
           NEW token, NEW tokens, NEW marks, NEW held \in Int, NEW now \in Int,
           now = held + (IF token = tokens[migration.tokenID] THEN migration.amount ELSE 0),
           Covers(held, R, Owes(R, token, tokens, marks))
    PROVE  Covers(now, R \union {root}, Owes(R \union {root}, token, tokens, marks))
<1> DEFINE w == Owes(R, token, tokens, marks)
           x == Owes(R \union {root}, token, tokens, marks)
           owed == Total(Unclaimed(root, token, tokens, marks))
<1>1. w \in [R -> Nat] /\ x \in [R \union {root} -> Nat]
  BY OwesType
<1>2. x[root] = owed /\ \A other \in R : x[other] = w[other]
  BY DEF Owes
<1>3. /\ owed \in Nat /\ owed <= migration.amount
      /\ tokens[migration.tokenID] # token => owed = 0
  <2> DEFINE all == SumOf(LAMBDA state : state.balance, root)
  <2>1. PICK id : id = migration.tokenID
    OBVIOUS
  <2>2. all = migration.amount /\ \A k \in DOMAIN root : root[k].tokenType = id
    BY <2>1 DEF IsSound
  <2>3. /\ owed \in Nat /\ owed <= all
        /\ tokens[id] # token => owed = 0
    BY ONLY root \in Seq(Withdrawn), <2>2, OwedAtMost
  <2> HIDE DEF owed, all
  <2> QED
    BY <2>1, <2>2, <2>3
<1> HIDE DEF owed, w, x
<1>4. now >= held + x[root] /\ now >= held
  <2>1. CASE token = tokens[migration.tokenID]
    BY <1>2, <1>3, <2>1
  <2>2. CASE token # tokens[migration.tokenID]
    BY <1>2, <1>3, <2>2
  <2> QED
    BY <2>1, <2>2
<1>5. Covers(held, R, w)
  BY DEF w
<1>6. CASE root \in R
  <2>1. R \union {root} = R
    BY <1>6
  <2>2. x = w
    BY <2>1 DEF x, w
  <2>3. Covers(now, R, w)
    BY <1>1, <1>4, <1>5, CoversWithMore
  <2> QED
    BY <2>1, <2>2, <2>3 DEF x
<1>7. CASE root \notin R
  <2>1. Covers(now, R \union {root}, x)
    BY <1>1, <1>2, <1>4, <1>5, <1>7, CoversOneMore
  <2> QED
    BY <2>1 DEF x
<1> QED
  BY <1>6, <1>7

LEMMA ProcessKeepsClaims ==
    ASSUME IInv, ClaimsInv, NEW batchID \in BatchIDs, NEW i,
           ProcessWithdrawCommitment(batchID, i)
    PROVE  ClaimsInv'
<1>1. PICK migration : migration = MigrationAt(batchID, i)
  OBVIOUS
<1>2. PICK root : root = migration.withdrawRoot
  OBVIOUS
<1>3. PICK paidIn : paidIn = registeredTokens[migration.tokenID]
  OBVIOUS
<1>4. PICK approval : approval = Approval(WithdrawManager, batchID, i)
  OBVIOUS
<1>5. /\ migration \in Migrations \ {NoMigration}
      /\ migration.amount \in Nat
      /\ root \in Seq(Withdrawn)
      /\ migration.tokenID \in DOMAIN registeredTokens
  BY <1>1, <1>2, ApprovedBody DEF ProcessWithdrawCommitment
<1>6. /\ DOMAIN processed' = DOMAIN processed \union {root}
      /\ Transfer(paidIn, Vault, WithdrawManager, migration.amount)
      /\ allowance' = [allowance EXCEPT ![paidIn][WithdrawManager] = 0]
      /\ approvals' = approvals \union {approval}
      /\ registeredTokens' = registeredTokens /\ claimed' = claimed
  BY <1>1, <1>2, <1>3, <1>4 DEF ProcessWithdrawCommitment, registryVars, TokenOf
<1>7. approval.spoke = WithdrawManager /\ approval.commitment.migration = migration
  BY <1>1, <1>4 DEF Approval, MigrationAt
<1>8. WithdrawType
  BY DEF ClaimsInv
<1>9. paidIn \in TokenContracts
  BY <1>3, <1>5, <1>8, ElementOfSeq, LenProperties DEF WithdrawType
<1>10. /\ Vault \in TokenHolders /\ WithdrawManager \in TokenHolders
       /\ Vault # WithdrawManager /\ WithdrawManager \in SpokeContracts
  BY HoldersAssumption DEF TokenHolders
<1>11. /\ balances' \in [TokenContracts -> [TokenHolders -> Int]]
       /\ \A token \in TokenContracts :
             balances'[token][WithdrawManager] =
                balances[token][WithdrawManager]
                   + (IF token = paidIn THEN migration.amount ELSE 0)
  <2>1. /\ balances' \in [TokenContracts -> [TokenHolders -> Int]]
        /\ \A other \in TokenContracts :
              other # paidIn => balances'[other] = balances[other]
        /\ balances'[paidIn][WithdrawManager]
              = balances[paidIn][WithdrawManager] - 0 + migration.amount
    BY <1>5, <1>6, <1>8, <1>9, <1>10, TransferMoves
  <2>2. \A token \in TokenContracts : balances[token][WithdrawManager] \in Int
    BY <1>8, ManagerHolds
  <2> QED
    BY <1>5, <1>9, <2>1, <2>2
<1>12. allowance' \in [TokenContracts -> [SpokeContracts -> Nat]]
  BY <1>6, <1>8, <1>9, <1>10 DEF WithdrawType
<1>13. WithdrawType'
  <2>1. IsFiniteSet(DOMAIN processed')
    <3>1. IsFiniteSet(DOMAIN processed)
      BY <1>8 DEF WithdrawType
    <3>2. IsFiniteSet(DOMAIN processed \union {root})
      BY <3>1, FS_AddElement
    <3> QED
      BY <1>6, <3>2
  <2>2. \A other, body : IsApproved(approvals, registeredTokens, other, body)
                            => IsApproved(approvals', registeredTokens', other, body)
    BY <1>6 DEF IsApproved
  <2>3. IsApproved(approvals', registeredTokens', root, migration)
    BY <1>2, <1>5, <1>6, <1>7 DEF IsApproved
  <2>4. \A other \in DOMAIN processed' :
           \E body : IsApproved(approvals', registeredTokens', other, body)
    BY <1>6, <1>8, <2>2, <2>3 DEF WithdrawType
  <2>5. registeredTokens' \in Seq(TokenContracts)
    BY <1>6, <1>8 DEF WithdrawType
  <2> QED
    BY <1>11, <1>12, <2>1, <2>4, <2>5 DEF WithdrawType
<1>14. ASSUME AllSound', NEW token \in TokenContracts
       PROVE  Covers(balances'[token][WithdrawManager], DOMAIN processed',
                     Owes(DOMAIN processed', token, registeredTokens', claimed'))
  <2>1. AllSound /\ IsSound(migration)
    BY <1>6, <1>7, <1>14 DEF AllSound
  <2>2. \A other \in DOMAIN processed : other \in Seq(Withdrawn)
    BY <1>8, ProcessedType
  <2>3. balances[token][WithdrawManager] \in Int
    BY <1>8, ManagerHolds
  <2>4. balances'[token][WithdrawManager] \in Int
    BY <1>10, <1>11
  <2>5. Covers(balances[token][WithdrawManager], DOMAIN processed,
               Owes(DOMAIN processed, token, registeredTokens, claimed))
    BY <2>1 DEF ClaimsInv, Covered
  <2>6. balances'[token][WithdrawManager] =
           balances[token][WithdrawManager]
              + (IF token = registeredTokens[migration.tokenID]
                 THEN migration.amount ELSE 0)
    BY <1>3, <1>11
  <2>7. Covers(balances'[token][WithdrawManager], DOMAIN processed \union {root},
               Owes(DOMAIN processed \union {root}, token, registeredTokens, claimed))
    BY <1>2, <1>5, <2>1, <2>2, <2>3, <2>4, <2>5, <2>6, DrawCovers
  <2> QED
    BY <1>6, <2>7
<1> QED
  BY <1>13, <1>14 DEF ClaimsInv, Covered

LEMMA ClaimKeepsClaims ==
    ASSUME ClaimsInv, NEW sender \in Accounts, NEW root \in DOMAIN processed,
           NEW k \in DOMAIN root, ClaimTokens(sender, root, k)
    PROVE  ClaimsInv'
<1>1. PICK paidIn : paidIn = registeredTokens[root[k].tokenType]
  OBVIOUS
<1>2. PICK marks : marks = claimed
  OBVIOUS
<1>3. PICK amount : amount = root[k].balance
  OBVIOUS
<1>4. /\ <<root, root[k].pubkeyIndex>> \notin marks
      /\ root[k].tokenType \in DOMAIN registeredTokens
      /\ claimed' = marks \union {<<root, root[k].pubkeyIndex>>}
      /\ Transfer(paidIn, WithdrawManager, sender, amount)
      /\ registeredTokens' = registeredTokens /\ allowance' = allowance
      /\ processed' = processed /\ approvals' = approvals
  BY <1>1, <1>2, <1>3 DEF ClaimTokens, IsClaimed, IsToken, TokenOf, registryVars
<1>5. WithdrawType
  BY DEF ClaimsInv
<1>6. \A other \in DOMAIN processed : other \in Seq(Withdrawn)
  BY <1>5, ProcessedType
<1>7. amount \in Nat
  <2>1. root[k] \in Withdrawn
    BY <1>6, UnclaimedType
  <2> QED
    BY <1>3, <2>1 DEF Withdrawn
<1>8. paidIn \in TokenContracts
  BY <1>1, <1>4, <1>5, ElementOfSeq, LenProperties DEF WithdrawType
<1>9. WithdrawManager \in TokenHolders /\ sender \in TokenHolders
  BY HoldersAssumption DEF TokenHolders
<1>10. /\ balances' \in [TokenContracts -> [TokenHolders -> Int]]
       /\ \A token \in TokenContracts :
             balances'[token][WithdrawManager] >=
                balances[token][WithdrawManager]
                   - (IF token = paidIn THEN amount ELSE 0)
  <2>1. /\ balances' \in [TokenContracts -> [TokenHolders -> Int]]
        /\ \A other \in TokenContracts :
              other # paidIn => balances'[other] = balances[other]
        /\ balances'[paidIn][WithdrawManager]
              = balances[paidIn][WithdrawManager] - amount
                   + (IF WithdrawManager = sender THEN amount ELSE 0)
    BY <1>4, <1>5, <1>7, <1>8, <1>9, TransferMoves
  <2>2. \A token \in TokenContracts : balances[token][WithdrawManager] \in Int
    BY <1>5, ManagerHolds
  <2> QED
    BY <1>7, <1>8, <2>1, <2>2
<1>11. WithdrawType'
  <2>1. IsFiniteSet(DOMAIN processed) /\ registeredTokens \in Seq(TokenContracts)
    BY <1>5 DEF WithdrawType
  <2>2. \A other \in DOMAIN processed :
           \E body : IsApproved(approvals, registeredTokens, other, body)
    BY <1>5 DEF WithdrawType
  <2>3. allowance \in [TokenContracts -> [SpokeContracts -> Nat]]
    BY <1>5 DEF WithdrawType
  <2> QED
    BY <1>4, <1>10, <2>1, <2>2, <2>3 DEF WithdrawType
<1>12. ASSUME AllSound', NEW token \in TokenContracts
       PROVE  Covers(balances'[token][WithdrawManager], DOMAIN processed,
                     Owes(DOMAIN processed, token, registeredTokens, claimed'))
  <2> DEFINE R == DOMAIN processed
             w == Owes(R, token, registeredTokens, marks)
             x == Owes(R, token, registeredTokens, claimed')
             paid == Paid(root, k, token, registeredTokens)
             held == balances[token][WithdrawManager]
             now == balances'[token][WithdrawManager]
  <2>1. AllSound
    BY <1>4, <1>12 DEF AllSound
  <2>2. w \in [R -> Nat] /\ x \in [R -> Nat]
    BY <1>6, OwesType
  <2>3. /\ paid \in Nat
        /\ Total(Unclaimed(root, token, registeredTokens, claimed'))
              <= Total(Unclaimed(root, token, registeredTokens, marks)) - paid
        /\ \A other : other # root =>
              Unclaimed(other, token, registeredTokens, claimed')
                 = Unclaimed(other, token, registeredTokens, marks)
    <3>1. Lowers(root, k, token, registeredTokens, marks)
      BY <1>4, <1>6, ClaimLowers
    <3>2. claimed' = marks \union {<<root, root[k].pubkeyIndex>>}
      BY <1>4
    <3> QED
      BY <3>1, <3>2 DEF Lowers
  <2>4. /\ \A other \in R :
              /\ x[other] = Total(Unclaimed(other, token, registeredTokens, claimed'))
              /\ w[other] = Total(Unclaimed(other, token, registeredTokens, marks))
        /\ root \in R
    BY DEF Owes
  <2>5. Covers(held, R, w)
    BY <1>2, <2>1 DEF ClaimsInv, Covered
  <2>6. held \in Int /\ now \in Int
    BY <1>5, <1>9, <1>10, ManagerHolds
  <2>7. now >= held - paid
    BY <1>1, <1>3, <1>10 DEF Paid
  <2> HIDE DEF R, w, x, paid, held, now
  <2>8. x[root] <= w[root] - paid /\ \A other \in R : other # root => x[other] = w[other]
    BY <2>3, <2>4
  <2>9. Covers(now, R, x)
    BY <2>2, <2>3, <2>4, <2>5, <2>6, <2>7, <2>8, CoversClaim
  <2> QED
    BY <2>9 DEF now, x, R
<1> QED
  BY <1>4, <1>11, <1>12 DEF ClaimsInv, Covered

LEMMA RollupKeepsClaims ==
    ASSUME ClaimsInv, UNCHANGED withdrawVars
    PROVE  ClaimsInv'
<1>1. /\ registeredTokens' = registeredTokens /\ balances' = balances
      /\ allowance' = allowance /\ processed' = processed
      /\ claimed' = claimed /\ approvals' = approvals
  BY DEF withdrawVars, registryVars
<1>2. /\ registeredTokens \in Seq(TokenContracts)
      /\ balances \in [TokenContracts -> [TokenHolders -> Int]]
      /\ allowance \in [TokenContracts -> [SpokeContracts -> Nat]]
  BY DEF ClaimsInv, WithdrawType
<1> QED
  BY <1>1, <1>2, OthersKeepClaims

LEMMA RegisterKeepsClaims ==
    ASSUME ClaimsInv, Register
    PROVE  ClaimsInv'
<1>1. /\ balances' = balances /\ allowance' = allowance /\ processed' = processed
      /\ claimed' = claimed /\ approvals' = approvals
  BY DEF Register
<1>2. /\ registeredTokens \in Seq(TokenContracts)
      /\ balances \in [TokenContracts -> [TokenHolders -> Int]]
      /\ allowance \in [TokenContracts -> [SpokeContracts -> Nat]]
  BY DEF ClaimsInv, WithdrawType
<1>3. \/ registeredTokens' = registeredTokens
      \/ \E token \in TokenContracts : registeredTokens' = Append(registeredTokens, token)
  BY DEF Register, RegisterSpoke, RequestRegistration, FinaliseRegistration
<1>4. /\ registeredTokens' \in Seq(TokenContracts)
      /\ \A id \in DOMAIN registeredTokens :
            id \in DOMAIN registeredTokens' /\ registeredTokens'[id] = registeredTokens[id]
  <2>1. CASE registeredTokens' = registeredTokens
    BY <1>2, <2>1
  <2>2. ASSUME NEW token \in TokenContracts,
               registeredTokens' = Append(registeredTokens, token)
        PROVE  /\ registeredTokens' \in Seq(TokenContracts)
               /\ \A id \in DOMAIN registeredTokens :
                     /\ id \in DOMAIN registeredTokens'
                     /\ registeredTokens'[id] = registeredTokens[id]
    BY <1>2, <2>2, AppendProperties, LenProperties
  <2> QED
    BY <1>3, <2>1, <2>2
<1> QED
  BY <1>1, <1>2, <1>4, OthersKeepClaims

LEMMA RequestKeepsClaims ==
    ASSUME IInv, ClaimsInv, NEW spoke \in SpokeContracts, NEW batchID \in BatchIDs, NEW i,
           RequestApproval(spoke, batchID, i)
    PROVE  ClaimsInv'
<1>1. /\ registeredTokens \in Seq(TokenContracts)
      /\ balances \in [TokenContracts -> [TokenHolders -> Int]]
      /\ allowance \in [TokenContracts -> [SpokeContracts -> Nat]]
  BY DEF ClaimsInv, WithdrawType
<1>2. /\ MigrationAt(batchID, i).amount \in Nat
      /\ MigrationAt(batchID, i).tokenID \in DOMAIN registeredTokens
  BY ApprovedBody DEF RequestApproval
<1>3. TokenOf(MigrationAt(batchID, i).tokenID) \in TokenContracts
  BY <1>1, <1>2, ElementOfSeq, LenProperties DEF TokenOf
<1>4. allowance' \in [TokenContracts -> [SpokeContracts -> Nat]]
  BY <1>1, <1>2, <1>3 DEF RequestApproval
<1>5. /\ registeredTokens' = registeredTokens /\ balances' = balances
      /\ processed' = processed /\ claimed' = claimed /\ approvals \subseteq approvals'
  BY DEF RequestApproval, registryVars
<1> QED
  BY <1>1, <1>4, <1>5, OthersKeepClaims

LEMMA DrawKeepsClaims ==
    ASSUME ClaimsInv, NEW spoke \in SpokeContracts, NEW token \in TokenContracts,
           SpokeDraws(spoke, token)
    PROVE  ClaimsInv'
<1>1. WithdrawType
  BY DEF ClaimsInv
<1>2. /\ registeredTokens \in Seq(TokenContracts)
      /\ allowance \in [TokenContracts -> [SpokeContracts -> Nat]]
      /\ allowance[token][spoke] \in Nat
  BY <1>1 DEF WithdrawType
<1>3. /\ Vault \in TokenHolders /\ spoke \in TokenHolders /\ WithdrawManager \in TokenHolders
      /\ Vault # WithdrawManager /\ spoke # WithdrawManager
  BY HoldersAssumption DEF TokenHolders, SpokeDraws
<1>4. /\ balances' \in [TokenContracts -> [TokenHolders -> Int]]
      /\ \A other \in TokenContracts : other # token => balances'[other] = balances[other]
      /\ balances'[token][WithdrawManager] = balances[token][WithdrawManager] - 0 + 0
  BY <1>1, <1>2, <1>3, TransferMoves DEF SpokeDraws
<1>5. \A other \in TokenContracts :
         balances'[other][WithdrawManager] = balances[other][WithdrawManager]
  BY <1>1, <1>4, ManagerHolds
<1>6. /\ registeredTokens' = registeredTokens /\ processed' = processed
      /\ claimed' = claimed /\ approvals' = approvals
  BY DEF SpokeDraws, registryVars
<1>7. allowance' \in [TokenContracts -> [SpokeContracts -> Nat]]
  BY <1>2 DEF SpokeDraws
<1> QED
  BY <1>2, <1>4, <1>5, <1>6, <1>7, OthersKeepClaims

LEMMA WithdrawalKeepsClaims ==
    ASSUME IInv, ClaimsInv, Withdrawal
    PROVE  ClaimsInv'
<1>1. CASE Register
  BY <1>1, RegisterKeepsClaims
<1>2. CASE \E batchID \in BatchIDs, i \in Positions :
              \/ \E spoke \in SpokeContracts : RequestApproval(spoke, batchID, i)
              \/ ProcessWithdrawCommitment(batchID, i)
  BY <1>2, RequestKeepsClaims, ProcessKeepsClaims
<1>3. CASE \E spoke \in SpokeContracts, token \in TokenContracts : SpokeDraws(spoke, token)
  BY <1>3, DrawKeepsClaims
<1>4. CASE \E sender \in Accounts, root \in DOMAIN processed :
              \E i \in DOMAIN root : ClaimTokens(sender, root, i)
  BY <1>4, ClaimKeepsClaims
<1> QED
  BY <1>1, <1>2, <1>3, <1>4 DEF Withdrawal

LEMMA CoveredClaims ==
    ASSUME ClaimsInv
    PROVE  ClaimsAreCovered
<1> SUFFICES ASSUME AllSound, NEW token \in TokenContracts,
                    NEW roots \in SetToSeqs(DOMAIN processed)
             PROVE  balances[token][WithdrawManager] >=
                       SumOf(LAMBDA root : OwedUnder(root, token), roots)
  BY DEF ClaimsAreCovered
<1> DEFINE n == Cardinality(DOMAIN processed)
           w == Owes(DOMAIN processed, token, registeredTokens, claimed)
<1>1. n \in Nat
  BY FS_CardinalityType DEF ClaimsInv, WithdrawType
<1>2. /\ roots \in [1 .. n -> DOMAIN processed]
      /\ \A k, l \in 1 .. n : k # l => roots[k] # roots[l]
  BY DEF SetToSeqs
<1> HIDE DEF n
<1>3. DOMAIN roots = 1 .. n
  BY <1>2
<1>4. Listing(roots, n, DOMAIN processed)
  BY <1>2, <1>3 DEF Listing
<1>5. balances[token][WithdrawManager] >= Total(Listed(roots, n, w))
  BY <1>1, <1>4 DEF ClaimsInv, Covered, Covers
<1>6. \A k \in 1 .. n : w[roots[k]] = OwedUnder(roots[k], token)
  BY <1>2, OwedIs DEF Owes
<1>7. Listed(roots, n, w) = [k \in DOMAIN roots |-> OwedUnder(roots[k], token)]
  BY <1>3, <1>6 DEF Listed
<1>8. SumOf(LAMBDA root : OwedUnder(root, token), roots)
         = Total([k \in DOMAIN roots |-> OwedUnder(roots[k], token)])
  BY DEF SumOf
<1> QED
  BY <1>5, <1>7, <1>8

LEMMA InitClaims ==
    ASSUME WithdrawInit
    PROVE  ClaimsInv
<1>1. DOMAIN processed = {} /\ registeredTokens = <<TestToken>>
  BY DEF WithdrawInit, RegistryInit
<1>2. WithdrawType
  <2>1. registeredTokens \in Seq(TokenContracts)
    BY <1>1, HoldersAssumption
  <2>2. balances \in [TokenContracts -> [TokenHolders -> Int]]
    BY HoldersAssumption DEF WithdrawInit
  <2>3. allowance \in [TokenContracts -> [SpokeContracts -> Nat]]
    BY DEF WithdrawInit
  <2>4. IsFiniteSet(DOMAIN processed)
    BY <1>1, FS_EmptySet
  <2> QED
    BY <1>1, <2>1, <2>2, <2>3, <2>4 DEF WithdrawType
<1>3. ASSUME NEW token \in TokenContracts, NEW w
      PROVE  Covers(balances[token][WithdrawManager], {}, w)
  <2>1. balances[token][WithdrawManager] = 0
    BY HoldersAssumption DEF WithdrawInit, TokenHolders
  <2> SUFFICES ASSUME NEW n \in Nat, NEW roots, Listing(roots, n, {})
               PROVE  0 >= Total(Listed(roots, n, w))
    BY <2>1 DEF Covers
  <2>2. DOMAIN roots = {}
    BY DEF Listing
  <2>3. /\ Listed(roots, n, w) \in [1 .. n -> Int]
        /\ \A k \in 1 .. n : Listed(roots, n, w)[k] = 0
    BY <2>2 DEF Listed
  <2>4. Total(Listed(roots, n, w)) = 0
    BY <2>3, TotalZero
  <2> QED
    BY <2>4
<1> QED
  BY <1>1, <1>2, <1>3 DEF ClaimsInv, Covered

(* The manager can pay every claim it has not paid, whatever is processed, *)
(* claimed, registered or rolled back: processWithdrawCommitment() against *)
(* claimTokens().                                                          *)
THEOREM ClaimsAlwaysCovered == WithdrawSpec => []ClaimsAreCovered
<1>1. Init /\ WithdrawInit => ClaimsInv
  BY InitClaims
<1>2. WithdrawSpec => Spec
  <2>1. [WithdrawNext]_<<vars, withdrawVars>> => [Next]_vars
    BY DEF WithdrawNext
  <2> QED
    BY <2>1, PTL DEF WithdrawSpec, Spec
<1>3. ClaimsInv /\ IInv /\ [WithdrawNext]_<<vars, withdrawVars>> => ClaimsInv'
  BY RollupKeepsClaims, WithdrawalKeepsClaims DEF WithdrawNext
<1>4. ClaimsInv => ClaimsAreCovered
  BY CoveredClaims
<1> QED
  BY <1>1, <1>2, <1>3, <1>4, Invariant, PTL DEF WithdrawSpec
=============================================================================
