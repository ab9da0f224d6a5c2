-------------------------- MODULE StateChainProofs --------------------------
(***************************************************************************)
(* Theorems of StateChain: what commitments do to the states, for every    *)
(* tree, every set of bodies and chains of every length; and of the two    *)
(* that foretell it, the client's StateTree (ClientState) and what a user  *)
(* asks before signing (Frontend); and of the proofs that the client makes *)
(* of a commitment for a dispute (StateProofs).                            *)
(***************************************************************************)
EXTENDS Frontend, LoopProofs

Indices == 0 .. NumLeaves - 1
Trees == UNION {[held -> UserState] : held \in SUBSET Indices}
Results == {"Ok", "InvalidTokenAmount", "NotEnoughTokenBalance", "BadFromTokenType",
            "BadToTokenType", "Reverts"}
Steps == [result : Results, tree : Trees]

(* A state with another balance and another nonce.                         *)
With(s, balance, nonce) == [s EXCEPT !.balance = balance, !.nonce = nonce]

(* What no commitment undoes: see OwnersDecide.                            *)
Kept(before, after) ==
    \A index \in DOMAIN before :
       /\ index \in DOMAIN after
       /\ after[index].pubkeyIndex = before[index].pubkeyIndex
       /\ after[index].tokenType = before[index].tokenType
       /\ after[index].nonce >= before[index].nonce
       /\ after[index].balance < before[index].balance
             => after[index].nonce > before[index].nonce

(* The tree at which the sum of the states of one token has grown by d,    *)
(* and that of every other token is what it was.                           *)
Grown(before, after, token, d) ==
    /\ BalanceIn(after, token) = BalanceIn(before, token) + d
    /\ \A other : other # token => BalanceIn(after, other) = BalanceIn(before, other)

(* The sender at index has spent a nonce, and it is not new.               *)
Paid(before, after, index) ==
    /\ index \in DOMAIN before
    /\ index \in DOMAIN after
    /\ after[index].nonce > before[index].nonce
-----------------------------------------------------------------------------
LEMMA TreesAre == \A t : IsTree(t) <=> t \in Trees
BY DEF IsTree, Trees, Indices

LEMMA TreeType ==
    ASSUME NEW t \in Trees
    PROVE  /\ DOMAIN t \subseteq Indices
           /\ t \in [DOMAIN t -> UserState]
           /\ \A i \in DOMAIN t : t[i] \in UserState
BY DEF Trees

(* Writing the state of an index gives a tree again.                       *)
LEMMA StateWritten ==
    ASSUME NEW t \in Trees, NEW index \in DOMAIN t, NEW state \in UserState
    PROVE  [t EXCEPT ![index] = state] \in Trees
<1>1. [t EXCEPT ![index] = state] \in [DOMAIN t -> UserState]
  BY TreeType
<1> QED
  BY <1>1, TreeType DEF Trees

LEMMA KeptIsTransitive ==
    ASSUME NEW a \in Trees, NEW b \in Trees, NEW c \in Trees, Kept(a, b), Kept(b, c)
    PROVE  Kept(a, c)
<1> SUFFICES ASSUME NEW index \in DOMAIN a
             PROVE  /\ index \in DOMAIN c
                    /\ c[index].pubkeyIndex = a[index].pubkeyIndex
                    /\ c[index].tokenType = a[index].tokenType
                    /\ c[index].nonce >= a[index].nonce
                    /\ c[index].balance < a[index].balance
                          => c[index].nonce > a[index].nonce
  BY DEF Kept
<1>1. index \in DOMAIN b /\ index \in DOMAIN c
  BY DEF Kept
<1>2. a[index] \in UserState /\ b[index] \in UserState /\ c[index] \in UserState
  BY <1>1, TreeType
<1> QED
  BY <1>1, <1>2 DEF Kept, UserState

LEMMA HeldType ==
    ASSUME NEW t \in Trees, NEW token
    PROVE  Held(t, token) \in [1 .. NumLeaves -> Int]
BY TreeType DEF Held, UserState

(* One state that is written changes the sums by what its balance changes. *)
LEMMA WrittenBalance ==
    ASSUME NEW t \in Trees, NEW index \in DOMAIN t, NEW state \in UserState,
           state.tokenType = t[index].tokenType
    PROVE  Grown(t, [t EXCEPT ![index] = state], state.tokenType,
                 state.balance - t[index].balance)
<1> DEFINE after == [t EXCEPT ![index] = state]
<1>1. /\ after \in Trees
      /\ DOMAIN after = DOMAIN t
      /\ after[index] = state
      /\ \A i \in DOMAIN t : i # index => after[i] = t[i]
  BY StateWritten, TreeType
<1> HIDE DEF after
<1>2. index + 1 \in 1 .. NumLeaves /\ index \in Int
  BY TreeType, NumLeavesAssumption DEF Indices
<1>3. \A token : /\ Held(t, token) \in [1 .. NumLeaves -> Int]
                 /\ Held(after, token) \in [1 .. NumLeaves -> Int]
  BY <1>1, HeldType
<1>4. \A token : \A i \in 1 .. NumLeaves :
         i # index + 1 => Held(after, token)[i] = Held(t, token)[i]
  BY <1>1, <1>2 DEF Held
<1>5. \A token : BalanceIn(after, token)
         = BalanceIn(t, token) + Held(after, token)[index + 1] - Held(t, token)[index + 1]
  BY <1>2, <1>3, <1>4, NumLeavesAssumption, TotalChange DEF BalanceIn
<1>6. \A token : BalanceIn(t, token) \in Int
  BY <1>3, NumLeavesAssumption, TotalType DEF BalanceIn
<1>7. \A token : /\ Held(after, token)[index + 1]
                       = IF state.tokenType = token THEN state.balance ELSE 0
                 /\ Held(t, token)[index + 1]
                       = IF state.tokenType = token THEN t[index].balance ELSE 0
  BY <1>1, <1>2 DEF Held
<1>8. t[index].balance \in Nat /\ state.balance \in Nat
  BY TreeType DEF UserState
<1>9. BalanceIn(after, state.tokenType)
         = BalanceIn(t, state.tokenType) + state.balance - t[index].balance
  BY <1>5, <1>6, <1>7, <1>8
<1>10. \A other : other # state.tokenType => BalanceIn(after, other) = BalanceIn(t, other)
  BY <1>5, <1>6, <1>7
<1>11. Grown(t, after, state.tokenType, state.balance - t[index].balance)
  BY <1>6, <1>8, <1>9, <1>10 DEF Grown
<1> QED
  BY <1>11 DEF after

LEMMA BalanceType ==
    ASSUME NEW t \in Trees, NEW token
    PROVE  BalanceIn(t, token) \in Int
BY HeldType, TotalType, NumLeavesAssumption DEF BalanceIn

LEMMA GrownTwice ==
    ASSUME NEW a \in Trees, NEW b \in Trees, NEW c \in Trees, NEW token,
           NEW d \in Int, NEW e \in Int, Grown(a, b, token, d), Grown(b, c, token, e)
    PROVE  Grown(a, c, token, d + e)
BY BalanceType DEF Grown
-----------------------------------------------------------------------------
LEMMA OkStep ==
    ASSUME NEW t \in Trees
    PROVE  /\ Ended("Ok", t) \in Steps
           /\ Ended("Ok", t).tree = t
           /\ IsOk(Ended("Ok", t))
BY DEF Ended, Steps, IsOk, Results

LEMMA FailedStep ==
    ASSUME NEW t \in Trees, NEW result \in Results \ {"Ok"}
    PROVE  Ended(result, t) \in Steps /\ ~IsOk(Ended(result, t))
BY DEF Ended, Steps, IsOk

LEMMA StateWith ==
    ASSUME NEW s \in UserState, NEW balance \in Nat, NEW nonce \in Nat
    PROVE  /\ With(s, balance, nonce) \in UserState
           /\ With(s, balance, nonce).pubkeyIndex = s.pubkeyIndex
           /\ With(s, balance, nonce).tokenType = s.tokenType
           /\ With(s, balance, nonce).balance = balance
           /\ With(s, balance, nonce).nonce = nonce
BY DEF UserState, With

LEMMA BalanceWith ==
    ASSUME NEW s \in UserState, NEW balance \in Nat
    PROVE  [s EXCEPT !.balance = balance] = With(s, balance, s.nonce)
BY DEF UserState, With

(* The three steps of processing, each as a whole.                         *)
LEMMA SenderStep ==
    ASSUME NEW t \in Trees, NEW index, NEW token, NEW amount \in Nat, NEW fee \in Nat
    PROVE  LET step == ProcessSender(t, index, token, amount, fee)
           IN  /\ step \in Steps
               /\ IsOk(step) => /\ Kept(t, step.tree)
                                /\ DOMAIN step.tree = DOMAIN t
                                /\ Paid(t, step.tree, index)
                                /\ Grown(t, step.tree, token, -(amount + fee))
<1> DEFINE step == ProcessSender(t, index, token, amount, fee)
<1>1. CASE index \notin DOMAIN t
  <2>1. step = Ended("Reverts", t)
    BY <1>1 DEF ProcessSender, Reverts
  <2> HIDE DEF step
  <2>2. step \in Steps /\ ~IsOk(step)
    BY <2>1, FailedStep DEF Results
  <2> QED
    BY <2>2 DEF step
<1>2. CASE index \in DOMAIN t
  <2> DEFINE result == SenderResult(t[index], token, amount, fee)
  <2>1. t[index] \in UserState
    BY <1>2, TreeType
  <2>2. result \in Results
    BY <2>1 DEF SenderResult, Results, UserState
  <2>3. CASE result # "Ok"
    <3>1. step = Ended(result, t)
      BY <1>2, <2>3 DEF ProcessSender
    <3> HIDE DEF step, result
    <3>2. step \in Steps /\ ~IsOk(step)
      BY <2>2, <2>3, <3>1, FailedStep
    <3> QED
      BY <3>2 DEF step
  <2>4. CASE result = "Ok"
    <3> DEFINE balance == t[index].balance - (amount + fee)
               nonce == t[index].nonce + 1
               state == With(t[index], balance, nonce)
               after == [t EXCEPT ![index] = state]
    <3>1. step = Ended("Ok", after)
      BY <1>2, <2>4 DEF ProcessSender, With
    <3>2. amount + fee <= t[index].balance /\ t[index].tokenType = token
      BY <2>1, <2>4 DEF SenderResult, UserState
    <3>3. /\ balance \in Nat /\ nonce \in Nat
          /\ balance - t[index].balance = -(amount + fee)
          /\ nonce > t[index].nonce
      BY <2>1, <3>2 DEF UserState
    <3> HIDE DEF step, balance, nonce, result
    <3>4. /\ state \in UserState
          /\ state.pubkeyIndex = t[index].pubkeyIndex
          /\ state.tokenType = token
          /\ state.balance = balance
          /\ state.nonce = nonce
      <4>1. t[index].tokenType = token /\ balance \in Nat /\ nonce \in Nat
        BY ONLY <3>2, <3>3
      <4>2. /\ state \in UserState
            /\ state.pubkeyIndex = t[index].pubkeyIndex
            /\ state.tokenType = t[index].tokenType
            /\ state.balance = balance
            /\ state.nonce = nonce
        BY ONLY <2>1, <4>1 DEF With, UserState
      <4> QED
        BY ONLY <4>1, <4>2
    <3> HIDE DEF state
    <3>5. /\ after \in Trees /\ DOMAIN after = DOMAIN t /\ after[index] = state
          /\ \A i \in DOMAIN t : i # index => after[i] = t[i]
      BY <1>2, <3>4, StateWritten, TreeType
    <3>6. Grown(t, after, token, balance - t[index].balance)
      BY <1>2, <3>2, <3>4, WrittenBalance
    <3> HIDE DEF after
    <3>7. Kept(t, after) /\ Paid(t, after, index)
      <4>1. \A i \in DOMAIN t : t[i] \in UserState
        BY TreeType
      <4> QED
        BY <1>2, <3>2, <3>3, <3>4, <3>5, <4>1 DEF Kept, Paid, UserState
    <3>8. step \in Steps /\ step.tree = after
      BY <3>1, <3>5, OkStep
    <3>9. Grown(t, after, token, -(amount + fee))
      BY <3>3, <3>6
    <3> QED
      BY <3>5, <3>7, <3>8, <3>9 DEF step
  <2> QED
    BY <2>3, <2>4
<1> QED
  BY <1>1, <1>2

LEMMA ReceiverStep ==
    ASSUME NEW t \in Trees, NEW index, NEW token, NEW amount \in Nat
    PROVE  LET step == ProcessReceiver(t, index, token, amount)
           IN  /\ step \in Steps
               /\ IsOk(step) => /\ Kept(t, step.tree)
                                /\ DOMAIN step.tree = DOMAIN t
                                /\ \A i \in DOMAIN t : step.tree[i].nonce = t[i].nonce
                                /\ Grown(t, step.tree, token, amount)
<1> DEFINE step == ProcessReceiver(t, index, token, amount)
<1>1. CASE index \notin DOMAIN t
  <2>1. step = Ended("Reverts", t)
    BY <1>1 DEF ProcessReceiver, Reverts
  <2> HIDE DEF step
  <2>2. step \in Steps /\ ~IsOk(step)
    BY <2>1, FailedStep DEF Results
  <2> QED
    BY <2>2 DEF step
<1>2. CASE index \in DOMAIN t /\ t[index].tokenType # token
  <2>1. step = Ended("BadToTokenType", t)
    BY <1>2 DEF ProcessReceiver
  <2> HIDE DEF step
  <2>2. step \in Steps /\ ~IsOk(step)
    BY <2>1, FailedStep DEF Results
  <2> QED
    BY <2>2 DEF step
<1>3. CASE index \in DOMAIN t /\ t[index].tokenType = token
  <2> DEFINE balance == t[index].balance + amount
             state == With(t[index], balance, t[index].nonce)
             after == [t EXCEPT ![index] = state]
  <2>1. t[index] \in UserState
    BY <1>3, TreeType
  <2>2. step = Ended("Ok", after)
    <3>1. [t[index] EXCEPT !.balance = balance] = state
      BY <2>1, BalanceWith DEF UserState
    <3>2. step = Ended("Ok", [t EXCEPT ![index] = [t[index] EXCEPT !.balance = balance]])
      BY <1>3 DEF ProcessReceiver
    <3> QED
      BY <3>1, <3>2
  <2>3. /\ balance \in Nat /\ t[index].nonce \in Nat
        /\ balance - t[index].balance = amount
        /\ balance >= t[index].balance
    BY <2>1 DEF UserState
  <2> HIDE DEF step, balance
  <2>4. /\ state \in UserState
        /\ state.pubkeyIndex = t[index].pubkeyIndex
        /\ state.tokenType = token
        /\ state.balance = balance
        /\ state.nonce = t[index].nonce
    <3> DEFINE nonce == t[index].nonce
    <3>1. balance \in Nat /\ nonce \in Nat
      BY <2>3
    <3> HIDE DEF nonce, state
    <3>2. /\ With(t[index], balance, nonce) \in UserState
          /\ With(t[index], balance, nonce).pubkeyIndex = t[index].pubkeyIndex
          /\ With(t[index], balance, nonce).tokenType = t[index].tokenType
          /\ With(t[index], balance, nonce).balance = balance
          /\ With(t[index], balance, nonce).nonce = nonce
      BY <2>1, <3>1, StateWith
    <3> QED
      BY <1>3, <3>2 DEF nonce, state
  <2> HIDE DEF state
  <2>5. /\ after \in Trees /\ DOMAIN after = DOMAIN t /\ after[index] = state
        /\ \A i \in DOMAIN t : i # index => after[i] = t[i]
    BY <1>3, <2>4, StateWritten, TreeType
  <2>6. Grown(t, after, token, balance - t[index].balance)
    BY <1>3, <2>4, WrittenBalance
  <2> HIDE DEF after
  <2>7. Kept(t, after)
    <3>1. \A i \in DOMAIN t : t[i] \in UserState
      BY TreeType
    <3> QED
      BY <1>3, <2>3, <2>4, <2>5, <3>1 DEF Kept, UserState
  <2>8. \A i \in DOMAIN t : after[i].nonce = t[i].nonce
    BY <2>4, <2>5
  <2>9. step \in Steps /\ step.tree = after
    BY <2>2, <2>5, OkStep
  <2>10. Grown(t, after, token, amount)
    BY <2>3, <2>6
  <2> QED
    BY <2>5, <2>7, <2>8, <2>9, <2>10 DEF step
<1> QED
  BY <1>1, <1>2, <1>3

(* A tree with one state more.                                             *)
LEMMA NewReceiverStep ==
    ASSUME NEW t \in Trees, NEW index \in Indices, NEW state \in UserState, state.nonce = 0
    PROVE  LET step == ProcessNewReceiver(t, index, state)
           IN  /\ step \in Steps
               /\ IsOk(step) => /\ Kept(t, step.tree)
                                /\ DOMAIN step.tree = DOMAIN t \union {index}
                                /\ index \notin DOMAIN t
                                /\ \A i \in DOMAIN t : step.tree[i] = t[i]
                                /\ Grown(t, step.tree, state.tokenType, state.balance)
<1> DEFINE step == ProcessNewReceiver(t, index, state)
           after == Merged(t, [i \in {index} |-> state])
<1>1. CASE index \in DOMAIN t
  <2>1. step = Ended("Reverts", t)
    BY <1>1 DEF ProcessNewReceiver, Reverts
  <2> HIDE DEF step
  <2>2. step \in Steps /\ ~IsOk(step)
    BY <2>1, FailedStep DEF Results
  <2> QED
    BY <2>2 DEF step
<1>2. CASE index \notin DOMAIN t
  <2>1. step = Ended("Ok", after)
    BY <1>2 DEF ProcessNewReceiver
  <2>2. /\ DOMAIN after = DOMAIN t \union {index}
        /\ after[index] = state
        /\ \A i \in DOMAIN t : after[i] = t[i]
        /\ after = [i \in DOMAIN after |-> after[i]]
    BY <1>2 DEF Merged
  <2> HIDE DEF after, step
  <2>3. after \in [DOMAIN after -> UserState] /\ DOMAIN after \in SUBSET Indices
    <3>1. \A i \in DOMAIN t : t[i] \in UserState
      BY TreeType
    <3>2. \A i \in DOMAIN after : after[i] \in UserState
      BY <2>2, <3>1
    <3>3. DOMAIN t \subseteq Indices
      BY TreeType
    <3> QED
      BY <2>2, <3>2, <3>3
  <2>4. after \in Trees
    BY <2>3 DEF Trees
  <2>5. step \in Steps /\ step.tree = after
    BY <2>1, <2>4, OkStep
  <2>6. Kept(t, after)
    <3>1. \A i \in DOMAIN t : t[i] \in UserState
      BY TreeType
    <3> QED
      BY <2>2, <3>1 DEF Kept, UserState
  <2>7. index + 1 \in 1 .. NumLeaves /\ index \in Int
    BY NumLeavesAssumption DEF Indices
  <2>8. \A token : /\ Held(t, token) \in [1 .. NumLeaves -> Int]
                   /\ Held(after, token) \in [1 .. NumLeaves -> Int]
    BY <2>4, HeldType
  <2>9. \A token : \A i \in 1 .. NumLeaves :
           i # index + 1 => Held(after, token)[i] = Held(t, token)[i]
    BY <2>2, <2>7 DEF Held
  <2>10. ASSUME NEW token
         PROVE  BalanceIn(after, token)
           = BalanceIn(t, token) + Held(after, token)[index + 1] - Held(t, token)[index + 1]
    <3> DEFINE v == Held(t, token)
               x == Held(after, token)
               k == index + 1
    <3>1. /\ v \in [1 .. NumLeaves -> Int] /\ x \in [1 .. NumLeaves -> Int]
          /\ k \in 1 .. NumLeaves
          /\ \A i \in 1 .. NumLeaves : i # k => x[i] = v[i]
      BY <2>7, <2>8, <2>9
    <3> HIDE DEF v, x, k
    <3>2. Total(x) = Total(v) + x[k] - v[k]
      BY <3>1, NumLeavesAssumption, TotalChange
    <3> QED
      BY <3>2 DEF v, x, k, BalanceIn
  <2>11. \A token : /\ Held(after, token)[index + 1]
                         = IF state.tokenType = token THEN state.balance ELSE 0
                    /\ Held(t, token)[index + 1] = 0
    BY <1>2, <2>2, <2>7 DEF Held
  <2>12. state.balance \in Nat
    BY DEF UserState
  <2>13. \A token : BalanceIn(t, token) \in Int
    BY BalanceType
  <2>14. BalanceIn(after, state.tokenType) = BalanceIn(t, state.tokenType) + state.balance
    BY <2>10, <2>11, <2>12, <2>13
  <2>15. \A other : other # state.tokenType => BalanceIn(after, other) = BalanceIn(t, other)
    BY <2>10, <2>11, <2>13
  <2>16. Grown(t, after, state.tokenType, state.balance)
    BY <2>14, <2>15 DEF Grown
  <2> QED
    BY <1>2, <2>2, <2>5, <2>6, <2>16 DEF step
<1> QED
  BY <1>1, <1>2
-----------------------------------------------------------------------------
(* A transaction, processed as a whole.                                    *)
LEMMA TransferStep ==
    ASSUME NEW t \in Trees, NEW token,
           NEW tx \in [fromIndex : Nat, toIndex : Nat, amount : Nat, fee : Nat]
    PROVE  LET step == ProcessTransfer(t, tx, token)
           IN  /\ step \in Steps
               /\ IsOk(step) => /\ Kept(t, step.tree)
                                /\ DOMAIN step.tree = DOMAIN t
                                /\ Paid(t, step.tree, tx.fromIndex)
                                /\ Grown(t, step.tree, token, -tx.fee)
<1> DEFINE step == ProcessTransfer(t, tx, token)
           sent == ProcessSender(t, tx.fromIndex, token, tx.amount, tx.fee)
           paid == ProcessReceiver(sent.tree, tx.toIndex, token, tx.amount)
<1>1. step = IF IsOk(sent) THEN paid ELSE sent
  BY DEF ProcessTransfer, Then
<1>2. tx.amount \in Nat /\ tx.fee \in Nat
  OBVIOUS
<1>3. /\ sent \in Steps
      /\ IsOk(sent) => /\ Kept(t, sent.tree)
                       /\ DOMAIN sent.tree = DOMAIN t
                       /\ Paid(t, sent.tree, tx.fromIndex)
                       /\ Grown(t, sent.tree, token, -(tx.amount + tx.fee))
  BY <1>2, SenderStep
<1> HIDE DEF sent
<1>4. sent.tree \in Trees
  BY <1>3 DEF Steps
<1>5. /\ paid \in Steps
      /\ IsOk(paid) => /\ Kept(sent.tree, paid.tree)
                       /\ DOMAIN paid.tree = DOMAIN sent.tree
                       /\ \A i \in DOMAIN sent.tree : paid.tree[i].nonce = sent.tree[i].nonce
                       /\ Grown(sent.tree, paid.tree, token, tx.amount)
  BY <1>2, <1>4, ReceiverStep
<1> HIDE DEF paid, step
<1>6. CASE ~IsOk(sent)
  BY <1>1, <1>3, <1>6 DEF step
<1>7. CASE IsOk(sent)
  <2>1. step = paid /\ step \in Steps
    BY <1>1, <1>5, <1>7
  <2>2. ASSUME IsOk(paid)
        PROVE  /\ Kept(t, paid.tree)
               /\ DOMAIN paid.tree = DOMAIN t
               /\ Paid(t, paid.tree, tx.fromIndex)
               /\ Grown(t, paid.tree, token, -tx.fee)
    <3>1. paid.tree \in Trees
      BY <1>5 DEF Steps
    <3>2. Kept(t, paid.tree)
      BY <1>3, <1>4, <1>5, <1>7, <2>2, <3>1, KeptIsTransitive
    <3>3. DOMAIN paid.tree = DOMAIN t /\ Paid(t, paid.tree, tx.fromIndex)
      BY <1>3, <1>5, <1>7, <2>2 DEF Paid
    <3>4. Grown(t, paid.tree, token, -(tx.amount + tx.fee) + tx.amount)
      <4>1. -(tx.amount + tx.fee) \in Int /\ tx.amount \in Int
        BY <1>2
      <4> QED
        BY <1>3, <1>4, <1>5, <1>7, <2>2, <3>1, <4>1, GrownTwice
    <3>5. -(tx.amount + tx.fee) + tx.amount = -tx.fee
      BY <1>2
    <3> QED
      BY <3>2, <3>3, <3>4, <3>5
  <2> QED
    BY <2>1, <2>2 DEF step
<1> QED
  BY <1>6, <1>7

LEMMA Create2TransferStep ==
    ASSUME NEW t \in Trees, NEW token,
           NEW tx \in [fromIndex : Nat, toIndex : 0 .. NumLeaves - 1, toAccID : Nat,
                       amount : Nat, fee : Nat]
    PROVE  LET step == ProcessCreate2Transfer(t, tx, token)
           IN  /\ step \in Steps
               /\ IsOk(step) => /\ Kept(t, step.tree)
                                /\ Grown(t, step.tree, token, -tx.fee)
<1> DEFINE step == ProcessCreate2Transfer(t, tx, token)
           sent == ProcessSender(t, tx.fromIndex, token, tx.amount, tx.fee)
           state == CreateState(tx.toAccID, token, tx.amount)
           made == ProcessNewReceiver(sent.tree, tx.toIndex, state)
<1>1. step = IF IsOk(sent) THEN made ELSE sent
  BY DEF ProcessCreate2Transfer, Then
<1>2. /\ tx.amount \in Nat /\ tx.fee \in Nat /\ tx.toAccID \in Nat
      /\ tx.toIndex \in Indices
  BY DEF Indices
<1>3. /\ sent \in Steps
      /\ IsOk(sent) => /\ Kept(t, sent.tree)
                       /\ DOMAIN sent.tree = DOMAIN t
                       /\ Paid(t, sent.tree, tx.fromIndex)
                       /\ Grown(t, sent.tree, token, -(tx.amount + tx.fee))
  BY <1>2, SenderStep
<1>4. IsOk(sent) => token \in Nat
  <2> SUFFICES ASSUME IsOk(sent) PROVE token \in Nat
    OBVIOUS
  <2>1. tx.fromIndex \in DOMAIN t
    BY <1>3 DEF Paid
  <2>2. t[tx.fromIndex] \in UserState
    BY <2>1, TreeType
  <2>3. SenderResult(t[tx.fromIndex], token, tx.amount, tx.fee) = "Ok"
    BY <2>1 DEF ProcessSender, Ended, IsOk
  <2>4. t[tx.fromIndex].tokenType = token
    BY <2>3 DEF SenderResult
  <2> QED
    BY <2>2, <2>4 DEF UserState
<1> HIDE DEF sent
<1>5. sent.tree \in Trees
  BY <1>3 DEF Steps
<1>6. ASSUME IsOk(sent)
      PROVE  /\ state \in UserState /\ state.nonce = 0
             /\ state.tokenType = token /\ state.balance = tx.amount
  BY <1>2, <1>4, <1>6 DEF CreateState, UserState
<1> HIDE DEF state
<1>7. ASSUME IsOk(sent)
      PROVE  /\ made \in Steps
             /\ IsOk(made) => /\ Kept(sent.tree, made.tree)
                              /\ Grown(sent.tree, made.tree, state.tokenType, state.balance)
  BY <1>2, <1>5, <1>6, <1>7, NewReceiverStep
<1> HIDE DEF made, step
<1>8. CASE ~IsOk(sent)
  BY <1>1, <1>3, <1>8 DEF step
<1>9. CASE IsOk(sent)
  <2>1. step = made /\ step \in Steps
    BY <1>1, <1>7, <1>9
  <2>2. ASSUME IsOk(made)
        PROVE  Kept(t, made.tree) /\ Grown(t, made.tree, token, -tx.fee)
    <3>1. made.tree \in Trees
      BY <1>7, <1>9 DEF Steps
    <3>2. Kept(t, made.tree)
      BY <1>3, <1>5, <1>7, <1>9, <2>2, <3>1, KeptIsTransitive
    <3>3. Grown(sent.tree, made.tree, token, tx.amount)
      BY <1>6, <1>7, <1>9, <2>2
    <3>4. Grown(t, made.tree, token, -(tx.amount + tx.fee) + tx.amount)
      <4>1. -(tx.amount + tx.fee) \in Int /\ tx.amount \in Int
        BY <1>2
      <4> QED
        BY <1>3, <1>5, <1>9, <3>1, <3>3, <4>1, GrownTwice
    <3>5. -(tx.amount + tx.fee) + tx.amount = -tx.fee
      BY <1>2
    <3> QED
      BY <3>2, <3>4, <3>5
  <2> QED
    BY <2>1, <2>2 DEF step
<1> QED
  BY <1>8, <1>9
-----------------------------------------------------------------------------
(* The loop over the transactions: process[i] is what the i-th does to a   *)
(* tree, and loop[i] is the step after i of them.                          *)
Each(process, n) ==
    [i \in 1 .. n |-> [step \in Steps |->
        IF IsOk(step) THEN process[i][step.tree] ELSE step]]

LEMMA EachType ==
    ASSUME NEW n \in Nat, NEW process \in [1 .. n -> [Trees -> Steps]]
    PROVE  /\ Each(process, n) \in [1 .. n -> [Steps -> Steps]]
           /\ \A i \in 1 .. n, step \in Steps :
                 Each(process, n)[i][step]
                    = IF IsOk(step) THEN process[i][step.tree] ELSE step
<1>1. \A step \in Steps : step.tree \in Trees
  BY DEF Steps
<1> QED
  BY <1>1 DEF Each

(* What a loop keeps and what it takes from the states.                    *)
Keeps(process, n, token, out) ==
    \A i \in 1 .. n, c \in Trees : IsOk(process[i][c]) =>
        /\ Kept(c, process[i][c].tree)
        /\ Grown(c, process[i][c].tree, token, -out[i])

LEMMA LoopKeeps ==
    ASSUME NEW n \in Nat, NEW process \in [1 .. n -> [Trees -> Steps]], NEW t \in Trees,
           NEW token, NEW out \in [1 .. n -> Int], NEW loop,
           Runs(loop, n, Steps, Ended("Ok", t), Each(process, n)),
           Keeps(process, n, token, out)
    PROVE  /\ loop[n] \in Steps
           /\ IsOk(loop[n]) => /\ Kept(t, loop[n].tree)
                               /\ Grown(t, loop[n].tree, token, -Total(out))
<1>1. PICK u : AddsUp(u, n, out) /\ Total(out) = u[n]
  BY TotalSums
<1>2. u \in [0 .. n -> Int] /\ u[0] = 0 /\ \A i \in 1 .. n : u[i] = u[i - 1] + out[i]
  BY <1>1 DEF AddsUp
<1>3. /\ loop \in [0 .. n -> Steps] /\ loop[0] = Ended("Ok", t)
      /\ \A i \in 1 .. n : loop[i] = IF IsOk(loop[i - 1])
                                    THEN process[i][loop[i - 1].tree] ELSE loop[i - 1]
  <2>1. \A i \in 1 .. n : loop[i - 1] \in Steps /\ loop[i] = Each(process, n)[i][loop[i - 1]]
    BY DEF Runs
  <2> QED
    BY <2>1, EachType DEF Runs
<1> DEFINE Holds(i) == IsOk(loop[i]) => /\ Kept(t, loop[i].tree)
                                        /\ Grown(t, loop[i].tree, token, -u[i])
           T == {i \in 0 .. n : Holds(i)}
<1>4. 0 \in T
  <2>1. loop[0].tree = t
    BY <1>3, OkStep
  <2>2. Kept(t, t)
    <3>1. \A i \in DOMAIN t : t[i] \in UserState
      BY TreeType
    <3> QED
      BY <3>1 DEF Kept, UserState
  <2>3. Grown(t, t, token, -u[0])
    <3>1. BalanceIn(t, token) \in Int /\ u[0] = 0
      BY <1>2, BalanceType
    <3> QED
      BY <3>1 DEF Grown
  <2> QED
    BY <2>1, <2>2, <2>3
<1>5. ASSUME NEW i \in 1 .. n, i - 1 \in T PROVE i \in T
  <2> DEFINE c == loop[i - 1].tree
             d == process[i][c].tree
  <2>1. i - 1 \in 0 .. n /\ loop[i - 1] \in Steps
    BY <1>3
  <2>2. CASE ~IsOk(loop[i - 1])
    <3>1. loop[i] = loop[i - 1]
      BY <1>3, <2>2
    <3> QED
      BY <2>2, <3>1
  <2>3. CASE IsOk(loop[i - 1])
    <3>1. loop[i] = process[i][c] /\ c \in Trees
      BY <1>3, <2>1, <2>3 DEF Steps
    <3>2. Kept(t, c) /\ Grown(t, c, token, -u[i - 1])
      BY <1>5, <2>3
    <3>3. ASSUME IsOk(loop[i])
          PROVE  Kept(t, d) /\ Grown(t, d, token, -u[i])
      <4>1. Kept(c, d) /\ Grown(c, d, token, -out[i])
        BY <3>1, <3>3 DEF Keeps
      <4>2. d \in Trees
        BY <3>1 DEF Steps
      <4>3. /\ -u[i - 1] \in Int /\ -out[i] \in Int
            /\ -u[i - 1] + -out[i] = -u[i]
        <5>1. u[i - 1] \in Int /\ out[i] \in Int /\ u[i] = u[i - 1] + out[i]
          BY ONLY <1>2, <2>1, i \in 1 .. n, n \in Nat, out \in [1 .. n -> Int]
        <5> QED
          BY ONLY <5>1
      <4> HIDE DEF c, d
      <4>4. Kept(t, d)
        BY <3>1, <3>2, <4>1, <4>2, KeptIsTransitive
      <4>5. Grown(t, d, token, -u[i - 1] + -out[i])
        BY <3>1, <3>2, <4>1, <4>2, <4>3, GrownTwice
      <4> QED
        BY <4>3, <4>4, <4>5
    <3> QED
      BY <3>1, <3>3
  <2> QED
    BY <2>2, <2>3
<1> HIDE DEF T
<1>6. n \in T
  <2>1. 0 .. n \subseteq T
    BY <1>4, <1>5, LoopInduction
  <2> QED
    BY <2>1
<1> QED
  BY <1>1, <1>3, <1>6 DEF T

(* Every sender of the loop has paid when it ends.                         *)
Pays(process, n, from) ==
    \A i \in 1 .. n, c \in Trees : IsOk(process[i][c]) =>
        /\ Kept(c, process[i][c].tree)
        /\ DOMAIN process[i][c].tree = DOMAIN c
        /\ Paid(c, process[i][c].tree, from[i])

LEMMA LoopPays ==
    ASSUME NEW n \in Nat, NEW process \in [1 .. n -> [Trees -> Steps]], NEW t \in Trees,
           NEW from, NEW loop,
           Runs(loop, n, Steps, Ended("Ok", t), Each(process, n)),
           Pays(process, n, from)
    PROVE  IsOk(loop[n]) => /\ DOMAIN loop[n].tree = DOMAIN t
                            /\ \A i \in 1 .. n : Paid(t, loop[n].tree, from[i])
<1>1. /\ loop \in [0 .. n -> Steps] /\ loop[0] = Ended("Ok", t)
      /\ \A i \in 1 .. n : loop[i] = IF IsOk(loop[i - 1])
                                    THEN process[i][loop[i - 1].tree] ELSE loop[i - 1]
  <2>1. \A i \in 1 .. n : loop[i - 1] \in Steps /\ loop[i] = Each(process, n)[i][loop[i - 1]]
    BY DEF Runs
  <2> QED
    BY <2>1, EachType DEF Runs
<1> DEFINE Holds(i) == IsOk(loop[i]) => /\ Kept(t, loop[i].tree)
                                        /\ DOMAIN loop[i].tree = DOMAIN t
                                        /\ \A j \in 1 .. i : Paid(t, loop[i].tree, from[j])
           T == {i \in 0 .. n : Holds(i)}
<1>2. 0 \in T
  <2>1. loop[0].tree = t
    BY <1>1, OkStep
  <2>2. Kept(t, t)
    <3>1. \A i \in DOMAIN t : t[i] \in UserState
      BY TreeType
    <3> QED
      BY <3>1 DEF Kept, UserState
  <2> QED
    BY <2>1, <2>2
<1>3. ASSUME NEW i \in 1 .. n, i - 1 \in T PROVE i \in T
  <2> DEFINE c == loop[i - 1].tree
             d == process[i][c].tree
  <2>1. i - 1 \in 0 .. n /\ loop[i - 1] \in Steps
    BY <1>1
  <2>2. CASE ~IsOk(loop[i - 1])
    <3>1. loop[i] = loop[i - 1]
      BY <1>1, <2>2
    <3> QED
      BY <2>2, <3>1
  <2>3. CASE IsOk(loop[i - 1])
    <3>1. loop[i] = process[i][c] /\ c \in Trees
      BY <1>1, <2>1, <2>3 DEF Steps
    <3>2. /\ Kept(t, c) /\ DOMAIN c = DOMAIN t
          /\ \A j \in 1 .. i - 1 : Paid(t, c, from[j])
      BY <1>3, <2>3
    <3>3. ASSUME IsOk(loop[i])
          PROVE  /\ Kept(t, d) /\ DOMAIN d = DOMAIN t
                 /\ \A j \in 1 .. i : Paid(t, d, from[j])
      <4>1. Kept(c, d) /\ DOMAIN d = DOMAIN c /\ Paid(c, d, from[i])
        BY <3>1, <3>3 DEF Pays
      <4>2. d \in Trees
        BY <3>1 DEF Steps
      <4> HIDE DEF c, d
      <4>3. \A k \in DOMAIN t : t[k] \in UserState /\ c[k] \in UserState /\ d[k] \in UserState
        BY <3>1, <3>2, <4>1, <4>2, TreeType
      <4>4. Kept(t, d)
        BY <3>1, <3>2, <4>1, <4>2, KeptIsTransitive
      <4>5. ASSUME NEW j \in 1 .. i - 1 PROVE Paid(t, d, from[j])
        <5>1. Paid(t, c, from[j])
          BY <3>2
        <5> QED
          BY <4>1, <4>3, <5>1 DEF Paid, Kept, UserState
      <4>6. Paid(t, d, from[i])
        BY <3>2, <4>1, <4>3 DEF Paid, Kept, UserState
      <4>7. \A j \in 1 .. i : j \in 1 .. i - 1 \/ j = i
        OBVIOUS
      <4> QED
        BY <3>2, <4>1, <4>4, <4>5, <4>6, <4>7
    <3> QED
      BY <3>1, <3>3
  <2> QED
    BY <2>2, <2>3
<1> HIDE DEF T
<1>4. n \in T
  <2>1. 0 .. n \subseteq T
    BY <1>2, <1>3, LoopInduction
  <2> QED
    BY <2>1
<1> QED
  BY <1>4 DEF T
-----------------------------------------------------------------------------
(* The loops of the three contracts.                                       *)
TransferTx == [fromIndex : Nat, toIndex : Nat, amount : Nat, fee : Nat]
Create2TransferTx == [fromIndex : Nat, toIndex : 0 .. NumLeaves - 1, toAccID : Nat,
                      amount : Nat, fee : Nat]
MassMigrationTx == [fromIndex : Nat, amount : Nat, fee : Nat]

Transfers(t, txs, token) ==
    ForEach(LAMBDA current, tx : ProcessTransfer(current, tx, token), t, txs)
Create2Transfers(t, txs, token) ==
    ForEach(LAMBDA current, tx : ProcessCreate2Transfer(current, tx, token), t, txs)
Senders(t, txs, token) ==
    ForEach(LAMBDA current, tx : ProcessSender(current, tx.fromIndex, token,
                                               tx.amount, tx.fee), t, txs)

LEMMA FeesAre ==
    ASSUME NEW txs, NEW n \in Nat, DOMAIN txs = 1 .. n,
           \A i \in 1 .. n : txs[i].fee \in Nat
    PROVE  /\ [i \in 1 .. n |-> txs[i].fee] \in [1 .. n -> Int]
           /\ Fees(txs) = Total([i \in 1 .. n |-> txs[i].fee])
BY DEF Fees, SumOf

(* The loop of Transfers is the iteration of what each transaction does. *)
LEMMA TransferRuns ==
    ASSUME NEW t \in Trees, NEW token, NEW txs \in Seq(TransferTx), NEW n \in Nat, n = Len(txs),
           NEW process,
           process = [i \in 1 .. n |-> [c \in Trees |->
                        ProcessTransfer(c, txs[i], token)]]
    PROVE  /\ process \in [1 .. n -> [Trees -> Steps]]
           /\ \E loop : /\ Runs(loop, n, Steps, Ended("Ok", t), Each(process, n))
                        /\ Transfers(t, txs, token) = loop[n]
<1> DEFINE Body(h, i) == IF i = 0 THEN Ended("Ok", t)
                         ELSE IF IsOk(h[i - 1])
                              THEN ProcessTransfer(h[i - 1].tree, txs[i], token)
                              ELSE h[i - 1]
           after == CHOOSE h : h = [i \in 0 .. n |-> Body(h, i)]
<1>1. \A i \in 1 .. n : txs[i] \in TransferTx
  BY LenProperties
<1>2. Transfers(t, txs, token) = after[n]
  BY DEF ForEach, Then, Transfers
<1>3. \A i \in 1 .. n, c \in Trees :
         /\ process[i][c] = ProcessTransfer(c, txs[i], token)
         /\ process[i][c] \in Steps
  BY <1>1, TransferStep DEF TransferTx
<1>4. process \in [1 .. n -> [Trees -> Steps]]
  BY <1>3
<1> DEFINE f == Each(process, n)
<1>5. /\ f \in [1 .. n -> [Steps -> Steps]]
      /\ \A i \in 1 .. n, step \in Steps : f[i][step] =
             IF IsOk(step) THEN ProcessTransfer(step.tree, txs[i], token) ELSE step
  <2>1. \A step \in Steps : step.tree \in Trees
    BY DEF Steps
  <2>2. /\ Each(process, n) \in [1 .. n -> [Steps -> Steps]]
        /\ \A i \in 1 .. n, step \in Steps :
              Each(process, n)[i][step]
                 = IF IsOk(step) THEN process[i][step.tree] ELSE step
    BY <1>4, EachType
  <2> HIDE DEF f
  <2>3. \A i \in 1 .. n, step \in Steps :
           process[i][step.tree] = ProcessTransfer(step.tree, txs[i], token)
    BY <1>3, <2>1
  <2> QED
    BY <2>2, <2>3 DEF f
<1>6. Ended("Ok", t) \in Steps
  BY OkStep
<1> HIDE DEF f
<1>7. PICK loop : Runs(loop, n, Steps, Ended("Ok", t), f)
  BY <1>1, <1>5, <1>6, Iterates
<1>8. loop = [i \in 0 .. n |-> Body(loop, i)]
  <2>1. \A i \in 1 .. n : loop[i - 1] \in Steps
    BY <1>1, <1>7 DEF Runs
  <2>2. \A i \in 0 .. n : loop[i] = Body(loop, i)
    BY <1>1, <1>5, <1>7, <2>1 DEF Runs
  <2> HIDE DEF Body
  <2> QED
    BY <1>7, <2>2 DEF Runs
<1>9. after = [i \in 0 .. n |-> Body(after, i)]
  <2> HIDE DEF Body
  <2> QED
    BY <1>8
<1> HIDE DEF after
<1>10. after[n] = loop[n]
  <2>1. after[0] = Ended("Ok", t)
    BY <1>1, <1>9
  <2>2. \A i \in 1 .. n : after[i - 1] \in Steps => after[i] = f[i][after[i - 1]]
    <3>1. \A i \in 1 .. n : after[i] = Body(after, i)
      <4> HIDE DEF Body
      <4> QED
        BY <1>9
    <3> QED
      BY <1>5, <3>1
  <2>3. Follows(after, n, Steps, Ended("Ok", t), f)
    BY <2>1, <2>2 DEF Follows
  <2> HIDE DEF Body
  <2> QED
    BY <1>1, <1>7, <2>3, SameLoop
<1> HIDE DEF Body
<1> QED
  BY <1>2, <1>4, <1>7, <1>10 DEF f

LEMMA TransferLoop ==
    ASSUME NEW t \in Trees, NEW token, NEW txs \in Seq(TransferTx)
    PROVE  LET end == Transfers(t, txs, token)
           IN  /\ end \in Steps
               /\ IsOk(end) => /\ Kept(t, end.tree)
                               /\ Grown(t, end.tree, token, -Fees(txs))
                               /\ DOMAIN end.tree = DOMAIN t
                               /\ \A i \in DOMAIN txs : Paid(t, end.tree, txs[i].fromIndex)
<1> DEFINE n == Len(txs)
           end == Transfers(t, txs, token)
           process == [i \in 1 .. n |-> [c \in Trees |-> ProcessTransfer(c, txs[i], token)]]
<1>1. n \in Nat /\ DOMAIN txs = 1 .. n /\ \A i \in 1 .. n : txs[i] \in TransferTx
  BY LenProperties
<1>2. \A i \in 1 .. n, c \in Trees :
         /\ process[i][c] = ProcessTransfer(c, txs[i], token)
         /\ process[i][c] \in Steps
         /\ IsOk(process[i][c]) => /\ Kept(c, process[i][c].tree)
                                   /\ DOMAIN process[i][c].tree = DOMAIN c
                                   /\ Paid(c, process[i][c].tree, txs[i].fromIndex)
                                   /\ Grown(c, process[i][c].tree, token, -txs[i].fee)
  BY <1>1, TransferStep DEF TransferTx
<1>3. /\ process \in [1 .. n -> [Trees -> Steps]]
      /\ \E loop : /\ Runs(loop, n, Steps, Ended("Ok", t), Each(process, n))
                   /\ end = loop[n]
  BY <1>1, TransferRuns
<1> HIDE DEF end, process, n
<1>4. PICK loop : Runs(loop, n, Steps, Ended("Ok", t), Each(process, n)) /\ end = loop[n]
  BY <1>3
<1> DEFINE out == [i \in 1 .. n |-> txs[i].fee]
           from == [i \in 1 .. n |-> txs[i].fromIndex]
<1>5. out \in [1 .. n -> Int] /\ Fees(txs) = Total(out)
  <2>1. \A i \in 1 .. n : txs[i].fee \in Nat
    BY <1>1 DEF TransferTx
  <2> QED
    BY <1>1, <2>1, FeesAre
<1>6. \A i \in 1 .. n : out[i] = txs[i].fee /\ from[i] = txs[i].fromIndex
  OBVIOUS
<1> HIDE DEF out, from
<1>7. /\ loop[n] \in Steps
      /\ IsOk(loop[n]) => /\ Kept(t, loop[n].tree)
                          /\ Grown(t, loop[n].tree, token, -Total(out))
  <2>1. Keeps(process, n, token, out)
    BY <1>2, <1>6 DEF Keeps
  <2> QED
    BY <1>1, <1>3, <1>4, <1>5, <2>1, LoopKeeps
<1>8. IsOk(loop[n]) => /\ DOMAIN loop[n].tree = DOMAIN t
                       /\ \A i \in 1 .. n : Paid(t, loop[n].tree, from[i])
  <2>1. Pays(process, n, from)
    BY <1>2, <1>6 DEF Pays
  <2> QED
    BY <1>1, <1>3, <1>4, <2>1, LoopPays
<1>9. /\ end \in Steps
      /\ IsOk(end) => Kept(t, end.tree) /\ Grown(t, end.tree, token, -(Fees(txs)))
  BY <1>4, <1>5, <1>7
<1>10. ASSUME IsOk(end)
       PROVE  /\ DOMAIN end.tree = DOMAIN t
              /\ \A i \in DOMAIN txs : Paid(t, end.tree, txs[i].fromIndex)
  BY <1>1, <1>4, <1>6, <1>8, <1>10
<1> QED
  BY <1>9, <1>10 DEF end

(* The loop of Create2Transfers is the iteration of what each transaction does.*)
LEMMA Create2TransferRuns ==
    ASSUME NEW t \in Trees, NEW token, NEW txs \in Seq(Create2TransferTx), NEW n \in Nat, n = Len(txs),
           NEW process,
           process = [i \in 1 .. n |-> [c \in Trees |->
                        ProcessCreate2Transfer(c, txs[i], token)]]
    PROVE  /\ process \in [1 .. n -> [Trees -> Steps]]
           /\ \E loop : /\ Runs(loop, n, Steps, Ended("Ok", t), Each(process, n))
                        /\ Create2Transfers(t, txs, token) = loop[n]
<1> DEFINE Body(h, i) == IF i = 0 THEN Ended("Ok", t)
                         ELSE IF IsOk(h[i - 1])
                              THEN ProcessCreate2Transfer(h[i - 1].tree, txs[i], token)
                              ELSE h[i - 1]
           after == CHOOSE h : h = [i \in 0 .. n |-> Body(h, i)]
<1>1. \A i \in 1 .. n : txs[i] \in Create2TransferTx
  BY LenProperties
<1>2. Create2Transfers(t, txs, token) = after[n]
  BY DEF ForEach, Then, Create2Transfers
<1>3. \A i \in 1 .. n, c \in Trees :
         /\ process[i][c] = ProcessCreate2Transfer(c, txs[i], token)
         /\ process[i][c] \in Steps
  BY <1>1, Create2TransferStep DEF Create2TransferTx
<1>4. process \in [1 .. n -> [Trees -> Steps]]
  BY <1>3
<1> DEFINE f == Each(process, n)
<1>5. /\ f \in [1 .. n -> [Steps -> Steps]]
      /\ \A i \in 1 .. n, step \in Steps : f[i][step] =
             IF IsOk(step) THEN ProcessCreate2Transfer(step.tree, txs[i], token) ELSE step
  <2>1. \A step \in Steps : step.tree \in Trees
    BY DEF Steps
  <2>2. /\ Each(process, n) \in [1 .. n -> [Steps -> Steps]]
        /\ \A i \in 1 .. n, step \in Steps :
              Each(process, n)[i][step]
                 = IF IsOk(step) THEN process[i][step.tree] ELSE step
    BY <1>4, EachType
  <2> HIDE DEF f
  <2>3. \A i \in 1 .. n, step \in Steps :
           process[i][step.tree] = ProcessCreate2Transfer(step.tree, txs[i], token)
    BY <1>3, <2>1
  <2> QED
    BY <2>2, <2>3 DEF f
<1>6. Ended("Ok", t) \in Steps
  BY OkStep
<1> HIDE DEF f
<1>7. PICK loop : Runs(loop, n, Steps, Ended("Ok", t), f)
  BY <1>1, <1>5, <1>6, Iterates
<1>8. loop = [i \in 0 .. n |-> Body(loop, i)]
  <2>1. \A i \in 1 .. n : loop[i - 1] \in Steps
    BY <1>1, <1>7 DEF Runs
  <2>2. \A i \in 0 .. n : loop[i] = Body(loop, i)
    BY <1>1, <1>5, <1>7, <2>1 DEF Runs
  <2> HIDE DEF Body
  <2> QED
    BY <1>7, <2>2 DEF Runs
<1>9. after = [i \in 0 .. n |-> Body(after, i)]
  <2> HIDE DEF Body
  <2> QED
    BY <1>8
<1> HIDE DEF after
<1>10. after[n] = loop[n]
  <2>1. after[0] = Ended("Ok", t)
    BY <1>1, <1>9
  <2>2. \A i \in 1 .. n : after[i - 1] \in Steps => after[i] = f[i][after[i - 1]]
    <3>1. \A i \in 1 .. n : after[i] = Body(after, i)
      <4> HIDE DEF Body
      <4> QED
        BY <1>9
    <3> QED
      BY <1>5, <3>1
  <2>3. Follows(after, n, Steps, Ended("Ok", t), f)
    BY <2>1, <2>2 DEF Follows
  <2> HIDE DEF Body
  <2> QED
    BY <1>1, <1>7, <2>3, SameLoop
<1> HIDE DEF Body
<1> QED
  BY <1>2, <1>4, <1>7, <1>10 DEF f

LEMMA Create2TransferLoop ==
    ASSUME NEW t \in Trees, NEW token, NEW txs \in Seq(Create2TransferTx)
    PROVE  LET end == Create2Transfers(t, txs, token)
           IN  /\ end \in Steps
               /\ IsOk(end) => /\ Kept(t, end.tree)
                               /\ Grown(t, end.tree, token, -Fees(txs))
<1> DEFINE n == Len(txs)
           end == Create2Transfers(t, txs, token)
           process == [i \in 1 .. n |->
                         [c \in Trees |-> ProcessCreate2Transfer(c, txs[i], token)]]
<1>1. n \in Nat /\ DOMAIN txs = 1 .. n /\ \A i \in 1 .. n : txs[i] \in Create2TransferTx
  BY LenProperties
<1>2. \A i \in 1 .. n, c \in Trees :
         /\ process[i][c] = ProcessCreate2Transfer(c, txs[i], token)
         /\ process[i][c] \in Steps
         /\ IsOk(process[i][c]) => /\ Kept(c, process[i][c].tree)
                                   /\ Grown(c, process[i][c].tree, token, -txs[i].fee)
  BY <1>1, Create2TransferStep DEF Create2TransferTx
<1>3. /\ process \in [1 .. n -> [Trees -> Steps]]
      /\ \E loop : /\ Runs(loop, n, Steps, Ended("Ok", t), Each(process, n))
                   /\ end = loop[n]
  BY <1>1, Create2TransferRuns
<1> HIDE DEF end, process, n
<1>4. PICK loop : Runs(loop, n, Steps, Ended("Ok", t), Each(process, n)) /\ end = loop[n]
  BY <1>3
<1> DEFINE out == [i \in 1 .. n |-> txs[i].fee]
<1>5. out \in [1 .. n -> Int] /\ Fees(txs) = Total(out)
  <2>1. \A i \in 1 .. n : txs[i].fee \in Nat
    BY <1>1 DEF Create2TransferTx
  <2> QED
    BY <1>1, <2>1, FeesAre
<1>6. \A i \in 1 .. n : out[i] = txs[i].fee
  OBVIOUS
<1> HIDE DEF out
<1>7. /\ loop[n] \in Steps
      /\ IsOk(loop[n]) => /\ Kept(t, loop[n].tree)
                          /\ Grown(t, loop[n].tree, token, -Total(out))
  <2>1. Keeps(process, n, token, out)
    BY <1>2, <1>6 DEF Keeps
  <2> QED
    BY <1>1, <1>3, <1>4, <1>5, <2>1, LoopKeeps
<1>9. /\ end \in Steps
      /\ IsOk(end) => Kept(t, end.tree) /\ Grown(t, end.tree, token, -(Fees(txs)))
  BY <1>4, <1>5, <1>7
<1> QED
  BY <1>9 DEF end

(* The loop of Senders is the iteration of what each transaction does.   *)
LEMMA SenderRuns ==
    ASSUME NEW t \in Trees, NEW token, NEW txs \in Seq(MassMigrationTx), NEW n \in Nat, n = Len(txs),
           NEW process,
           process = [i \in 1 .. n |-> [c \in Trees |->
                        ProcessSender(c, txs[i].fromIndex, token,
                                      txs[i].amount, txs[i].fee)]]
    PROVE  /\ process \in [1 .. n -> [Trees -> Steps]]
           /\ \E loop : /\ Runs(loop, n, Steps, Ended("Ok", t), Each(process, n))
                        /\ Senders(t, txs, token) = loop[n]
<1> DEFINE Body(h, i) == IF i = 0 THEN Ended("Ok", t)
                         ELSE IF IsOk(h[i - 1])
                              THEN ProcessSender(h[i - 1].tree, txs[i].fromIndex, token,
                                                 txs[i].amount, txs[i].fee)
                              ELSE h[i - 1]
           after == CHOOSE h : h = [i \in 0 .. n |-> Body(h, i)]
<1>1. \A i \in 1 .. n : txs[i] \in MassMigrationTx
  BY LenProperties
<1>2. Senders(t, txs, token) = after[n]
  BY DEF ForEach, Then, Senders
<1>3. \A i \in 1 .. n, c \in Trees :
         /\ process[i][c] = ProcessSender(c, txs[i].fromIndex, token,
                                          txs[i].amount, txs[i].fee)
         /\ process[i][c] \in Steps
  <2>1. ASSUME NEW i \in 1 .. n
        PROVE  txs[i].fromIndex \in Nat /\ txs[i].amount \in Nat /\ txs[i].fee \in Nat
    BY <1>1 DEF MassMigrationTx
  <2>2. \A i \in 1 .. n, c \in Trees :
           process[i][c] = ProcessSender(c, txs[i].fromIndex, token,
                                         txs[i].amount, txs[i].fee)
    OBVIOUS
  <2> QED
    BY <2>1, <2>2, SenderStep
<1>4. process \in [1 .. n -> [Trees -> Steps]]
  BY <1>3
<1> DEFINE f == Each(process, n)
<1>5. /\ f \in [1 .. n -> [Steps -> Steps]]
      /\ \A i \in 1 .. n, step \in Steps : f[i][step] =
             IF IsOk(step)
             THEN ProcessSender(step.tree, txs[i].fromIndex, token,
                                txs[i].amount, txs[i].fee)
             ELSE step
  <2>1. \A step \in Steps : step.tree \in Trees
    BY DEF Steps
  <2>2. /\ Each(process, n) \in [1 .. n -> [Steps -> Steps]]
        /\ \A i \in 1 .. n, step \in Steps :
              Each(process, n)[i][step]
                 = IF IsOk(step) THEN process[i][step.tree] ELSE step
    BY <1>4, EachType
  <2> HIDE DEF f
  <2>3. \A i \in 1 .. n, step \in Steps :
           process[i][step.tree] = ProcessSender(step.tree, txs[i].fromIndex, token,
                                                 txs[i].amount, txs[i].fee)
    BY <1>3, <2>1
  <2> QED
    BY <2>2, <2>3 DEF f
<1>6. Ended("Ok", t) \in Steps
  BY OkStep
<1> HIDE DEF f
<1>7. PICK loop : Runs(loop, n, Steps, Ended("Ok", t), f)
  BY <1>1, <1>5, <1>6, Iterates
<1>8. loop = [i \in 0 .. n |-> Body(loop, i)]
  <2>1. \A i \in 1 .. n : loop[i - 1] \in Steps
    BY <1>1, <1>7 DEF Runs
  <2>2. \A i \in 0 .. n : loop[i] = Body(loop, i)
    BY <1>1, <1>5, <1>7, <2>1 DEF Runs
  <2> HIDE DEF Body
  <2> QED
    BY <1>7, <2>2 DEF Runs
<1>9. after = [i \in 0 .. n |-> Body(after, i)]
  <2> HIDE DEF Body
  <2> QED
    BY <1>8
<1> HIDE DEF after
<1>10. after[n] = loop[n]
  <2>1. after[0] = Ended("Ok", t)
    BY <1>1, <1>9
  <2>2. \A i \in 1 .. n : after[i - 1] \in Steps => after[i] = f[i][after[i - 1]]
    <3>1. \A i \in 1 .. n : after[i] = Body(after, i)
      <4> HIDE DEF Body
      <4> QED
        BY <1>9
    <3> QED
      BY <1>5, <3>1
  <2>3. Follows(after, n, Steps, Ended("Ok", t), f)
    BY <2>1, <2>2 DEF Follows
  <2> HIDE DEF Body
  <2> QED
    BY <1>1, <1>7, <2>3, SameLoop
<1> HIDE DEF Body
<1> QED
  BY <1>2, <1>4, <1>7, <1>10 DEF f

LEMMA SenderLoop ==
    ASSUME NEW t \in Trees, NEW token, NEW txs \in Seq(MassMigrationTx)
    PROVE  LET end == Senders(t, txs, token)
           IN  /\ end \in Steps
               /\ IsOk(end) => /\ Kept(t, end.tree)
                               /\ Grown(t, end.tree, token, -(TotalAmount(txs) + Fees(txs)))
                               /\ DOMAIN end.tree = DOMAIN t
                               /\ \A i \in DOMAIN txs : Paid(t, end.tree, txs[i].fromIndex)
<1> DEFINE n == Len(txs)
           end == Senders(t, txs, token)
           process == [i \in 1 .. n |-> [c \in Trees |->
                         ProcessSender(c, txs[i].fromIndex, token,
                                       txs[i].amount, txs[i].fee)]]
<1>1. n \in Nat /\ DOMAIN txs = 1 .. n /\ \A i \in 1 .. n : txs[i] \in MassMigrationTx
  BY LenProperties
<1>2. \A i \in 1 .. n, c \in Trees :
         /\ process[i][c] = ProcessSender(c, txs[i].fromIndex, token,
                                          txs[i].amount, txs[i].fee)
         /\ process[i][c] \in Steps
         /\ IsOk(process[i][c]) => /\ Kept(c, process[i][c].tree)
                                   /\ DOMAIN process[i][c].tree = DOMAIN c
                                   /\ Paid(c, process[i][c].tree, txs[i].fromIndex)
                                   /\ Grown(c, process[i][c].tree, token,
                                            -(txs[i].amount + txs[i].fee))
  <2>1. ASSUME NEW i \in 1 .. n
        PROVE  txs[i].fromIndex \in Nat /\ txs[i].amount \in Nat /\ txs[i].fee \in Nat
    BY <1>1 DEF MassMigrationTx
  <2>2. \A i \in 1 .. n, c \in Trees :
           process[i][c] = ProcessSender(c, txs[i].fromIndex, token,
                                         txs[i].amount, txs[i].fee)
    OBVIOUS
  <2> HIDE DEF process, n
  <2> QED
    BY <2>1, <2>2, SenderStep
<1>3. /\ process \in [1 .. n -> [Trees -> Steps]]
      /\ \E loop : /\ Runs(loop, n, Steps, Ended("Ok", t), Each(process, n))
                   /\ end = loop[n]
  BY <1>1, SenderRuns
<1> HIDE DEF end, process, n
<1>4. PICK loop : Runs(loop, n, Steps, Ended("Ok", t), Each(process, n)) /\ end = loop[n]
  BY <1>3
<1> DEFINE out == [i \in 1 .. n |-> txs[i].amount + txs[i].fee]
           from == [i \in 1 .. n |-> txs[i].fromIndex]
<1>5. out \in [1 .. n -> Int] /\ TotalAmount(txs) + Fees(txs) = Total(out)
  <2>1. \A i \in 1 .. n : txs[i].fee \in Nat /\ txs[i].amount \in Nat
    BY <1>1 DEF MassMigrationTx
  <2> DEFINE fees == [i \in 1 .. n |-> txs[i].fee]
             amounts == [i \in 1 .. n |-> txs[i].amount]
  <2>2. /\ fees \in [1 .. n -> Int] /\ amounts \in [1 .. n -> Int]
        /\ out \in [1 .. n -> Int] /\ \A i \in 1 .. n : out[i] = amounts[i] + fees[i]
    BY <2>1
  <2>3. Fees(txs) = Total(fees)
    BY <1>1, <2>1, FeesAre
  <2>4. TotalAmount(txs) = Total(amounts)
    BY <1>1 DEF TotalAmount, SumOf
  <2> HIDE DEF out, fees, amounts
  <2>5. Total(out) = Total(amounts) + Total(fees)
    <3>1. Adds(out, amounts, fees, n)
      BY <2>2 DEF Adds
    <3> QED
      BY <1>1, <3>1, TotalPlus
  <2>6. Total(amounts) \in Int /\ Total(fees) \in Int
    BY <1>1, <2>2, TotalType
  <2> QED
    BY <2>2, <2>3, <2>4, <2>5, <2>6
<1>6. \A i \in 1 .. n : out[i] = txs[i].amount + txs[i].fee /\ from[i] = txs[i].fromIndex
  OBVIOUS
<1> HIDE DEF out, from
<1>7. /\ loop[n] \in Steps
      /\ IsOk(loop[n]) => /\ Kept(t, loop[n].tree)
                          /\ Grown(t, loop[n].tree, token, -Total(out))
  <2>1. Keeps(process, n, token, out)
    BY <1>2, <1>6 DEF Keeps
  <2> QED
    BY <1>1, <1>3, <1>4, <1>5, <2>1, LoopKeeps
<1>8. IsOk(loop[n]) => /\ DOMAIN loop[n].tree = DOMAIN t
                       /\ \A i \in 1 .. n : Paid(t, loop[n].tree, from[i])
  <2>1. Pays(process, n, from)
    BY <1>2, <1>6 DEF Pays
  <2> QED
    BY <1>1, <1>3, <1>4, <2>1, LoopPays
<1>9. /\ end \in Steps
      /\ IsOk(end) => Kept(t, end.tree) /\ Grown(t, end.tree, token, -(TotalAmount(txs) + Fees(txs)))
  BY <1>4, <1>5, <1>7
<1>10. ASSUME IsOk(end)
       PROVE  /\ DOMAIN end.tree = DOMAIN t
              /\ \A i \in DOMAIN txs : Paid(t, end.tree, txs[i].fromIndex)
  BY <1>1, <1>4, <1>6, <1>8, <1>10
<1> QED
  BY <1>9, <1>10 DEF end
-----------------------------------------------------------------------------
(* The commitments.                                                        *)
LEMMA FeesType ==
    ASSUME NEW S, NEW txs \in Seq(S), \A tx \in S : tx.fee \in Nat
    PROVE  Fees(txs) \in Nat
<1> DEFINE n == Len(txs)
           v == [i \in 1 .. n |-> txs[i].fee]
<1>1. n \in Nat /\ DOMAIN txs = 1 .. n /\ \A i \in 1 .. n : txs[i] \in S
  BY LenProperties
<1>2. \A i \in 1 .. n : txs[i].fee \in Nat
  BY <1>1
<1> HIDE DEF n
<1>3. v \in [1 .. n -> Int] /\ Fees(txs) = Total(v)
  BY <1>1, <1>2, FeesAre
<1>4. \A i \in 1 .. n : v[i] \in Nat
  BY <1>2
<1> HIDE DEF v
<1> QED
  BY <1>1, <1>3, <1>4, TotalIsNatural

LEMMA TransferCommit ==
    ASSUME NEW t \in Trees, NEW body \in TransferBodies,
           IsOk(ProcessTransferCommit(t, body))
    PROVE  LET after == ProcessTransferCommit(t, body).tree
           IN  /\ after \in Trees
               /\ Kept(t, after)
               /\ \A i \in DOMAIN body.txs : Paid(t, after, body.txs[i].fromIndex)
               /\ \A token : BalanceIn(after, token) = BalanceIn(t, token)
<1> DEFINE token == TokenTypeOf(t, body.txs, body.feeReceiver)
           loop == Transfers(t, body.txs, token)
           fee == ProcessReceiver(loop.tree, body.feeReceiver, token, Fees(body.txs))
           step == ProcessTransferCommit(t, body)
<1>1. step = IF IsOk(loop) THEN fee ELSE loop
  BY DEF ProcessTransferCommit, Then, Transfers
<1>2. body.txs \in Seq(TransferTx)
  BY TransfersAssumption DEF TransferTx
<1>3. Fees(body.txs) \in Nat
  <2>1. \A tx \in TransferTx : tx.fee \in Nat
    BY DEF TransferTx
  <2> QED
    BY <1>2, <2>1, FeesType
<1> HIDE DEF token
<1>4. /\ loop \in Steps
      /\ IsOk(loop) => /\ Kept(t, loop.tree)
                       /\ Grown(t, loop.tree, token, -Fees(body.txs))
                       /\ DOMAIN loop.tree = DOMAIN t
                       /\ \A i \in DOMAIN body.txs : Paid(t, loop.tree, body.txs[i].fromIndex)
  BY <1>2, TransferLoop
<1> HIDE DEF loop
<1>5. loop.tree \in Trees
  BY <1>4 DEF Steps
<1>6. /\ fee \in Steps
      /\ IsOk(fee) => /\ Kept(loop.tree, fee.tree)
                      /\ DOMAIN fee.tree = DOMAIN loop.tree
                      /\ \A i \in DOMAIN loop.tree : fee.tree[i].nonce = loop.tree[i].nonce
                      /\ Grown(loop.tree, fee.tree, token, Fees(body.txs))
  BY <1>3, <1>5, ReceiverStep
<1> HIDE DEF fee
<1>7. IsOk(loop) /\ IsOk(fee) /\ step = fee
  BY <1>1
<1> HIDE DEF step
<1>8. fee.tree \in Trees
  BY <1>6 DEF Steps
<1>9. Kept(t, fee.tree)
  BY <1>4, <1>5, <1>6, <1>7, <1>8, KeptIsTransitive
<1>10. \A i \in DOMAIN body.txs : Paid(t, fee.tree, body.txs[i].fromIndex)
  BY <1>4, <1>6, <1>7 DEF Paid
<1>11. \A other : BalanceIn(fee.tree, other) = BalanceIn(t, other)
  <2>1. -Fees(body.txs) \in Int /\ Fees(body.txs) \in Int
    BY <1>3
  <2>2. Grown(t, fee.tree, token, -Fees(body.txs) + Fees(body.txs))
    BY <1>4, <1>5, <1>6, <1>7, <1>8, <2>1, GrownTwice
  <2>3. BalanceIn(t, token) \in Int
    BY BalanceType
  <2> QED
    BY <1>3, <2>2, <2>3 DEF Grown
<1> QED
  BY <1>7, <1>8, <1>9, <1>10, <1>11 DEF step

LEMMA Create2TransferCommit ==
    ASSUME NEW t \in Trees, NEW body \in Create2TransferBodies,
           IsOk(ProcessCreate2TransferCommit(t, body))
    PROVE  LET after == ProcessCreate2TransferCommit(t, body).tree
           IN  /\ after \in Trees
               /\ Kept(t, after)
               /\ \A token : BalanceIn(after, token) = BalanceIn(t, token)
<1> DEFINE token == TokenTypeOf(t, body.txs, body.feeReceiver)
           loop == Create2Transfers(t, body.txs, token)
           fee == ProcessReceiver(loop.tree, body.feeReceiver, token, Fees(body.txs))
           step == ProcessCreate2TransferCommit(t, body)
<1>1. step = IF IsOk(loop) THEN fee ELSE loop
  BY DEF ProcessCreate2TransferCommit, Then, Create2Transfers
<1>2. body.txs \in Seq(Create2TransferTx)
  BY Create2TransfersAssumption DEF Create2TransferTx
<1>3. Fees(body.txs) \in Nat
  <2>1. \A tx \in Create2TransferTx : tx.fee \in Nat
    BY DEF Create2TransferTx
  <2> QED
    BY <1>2, <2>1, FeesType
<1> HIDE DEF token
<1>4. /\ loop \in Steps
      /\ IsOk(loop) => /\ Kept(t, loop.tree)
                       /\ Grown(t, loop.tree, token, -Fees(body.txs))
  BY <1>2, Create2TransferLoop
<1> HIDE DEF loop
<1>5. loop.tree \in Trees
  BY <1>4 DEF Steps
<1>6. /\ fee \in Steps
      /\ IsOk(fee) => /\ Kept(loop.tree, fee.tree)
                      /\ Grown(loop.tree, fee.tree, token, Fees(body.txs))
  BY <1>3, <1>5, ReceiverStep
<1> HIDE DEF fee
<1>7. IsOk(loop) /\ IsOk(fee) /\ step = fee
  BY <1>1
<1> HIDE DEF step
<1>8. fee.tree \in Trees
  BY <1>6 DEF Steps
<1>9. Kept(t, fee.tree)
  BY <1>4, <1>5, <1>6, <1>7, <1>8, KeptIsTransitive
<1>10. \A other : BalanceIn(fee.tree, other) = BalanceIn(t, other)
  <2>1. -Fees(body.txs) \in Int /\ Fees(body.txs) \in Int
    BY <1>3
  <2>2. Grown(t, fee.tree, token, -Fees(body.txs) + Fees(body.txs))
    BY <1>4, <1>5, <1>6, <1>7, <1>8, <2>1, GrownTwice
  <2>3. BalanceIn(t, token) \in Int
    BY BalanceType
  <2> QED
    BY <1>3, <2>2, <2>3 DEF Grown
<1> QED
  BY <1>7, <1>8, <1>9, <1>10 DEF step

(* What leaves the states of one token with a mass migration.              *)
Leaves(body, token) == IF body.tokenID = token THEN body.amount ELSE 0

LEMMA MassMigrationCommit ==
    ASSUME NEW t \in Trees, NEW body \in MassMigrationBodies,
           IsOk(ProcessMassMigrationCommit(t, body))
    PROVE  LET after == ProcessMassMigrationCommit(t, body).tree
           IN  /\ after \in Trees
               /\ Kept(t, after)
               /\ \A i \in DOMAIN body.txs : Paid(t, after, body.txs[i].fromIndex)
               /\ \A token : BalanceIn(after, token)
                               = BalanceIn(t, token) - Leaves(body, token)
               /\ MigrationResult(t, body) = "Ok"
               /\ body.amount \in Int
<1> DEFINE token == body.tokenID
           loop == Senders(t, body.txs, token)
           fee == ProcessReceiver(loop.tree, body.feeReceiver, token, Fees(body.txs))
           step == ProcessMassMigrationCommit(t, body)
           withFee == IF IsOk(loop) THEN fee ELSE loop
<1>1. step = IF IsOk(withFee) THEN Ended(MigrationResult(t, body), withFee.tree)
             ELSE withFee
  BY DEF ProcessMassMigrationCommit, Then, Senders
<1>2. body.txs \in Seq(MassMigrationTx)
  BY MassMigrationsAssumption DEF MassMigrationTx
<1>3. Fees(body.txs) \in Nat /\ TotalAmount(body.txs) \in Int
  <2>1. Fees(body.txs) \in Nat
    <3>1. \A tx \in MassMigrationTx : tx.fee \in Nat
      BY DEF MassMigrationTx
    <3> QED
      BY <1>2, <3>1, FeesType
  <2> DEFINE n == Len(body.txs)
             v == [i \in 1 .. n |-> body.txs[i].amount]
  <2>2. /\ n \in Nat /\ DOMAIN body.txs = 1 .. n
        /\ \A i \in 1 .. n : body.txs[i] \in MassMigrationTx
    BY <1>2, LenProperties
  <2> HIDE DEF n
  <2>3. v \in [1 .. n -> Int]
    BY <2>2 DEF MassMigrationTx
  <2>4. TotalAmount(body.txs) = Total(v)
    BY <2>2 DEF TotalAmount, SumOf
  <2> HIDE DEF v
  <2> QED
    BY <2>1, <2>2, <2>3, <2>4, TotalType
<1> HIDE DEF token
<1>4. /\ loop \in Steps
      /\ IsOk(loop) =>
            /\ Kept(t, loop.tree)
            /\ Grown(t, loop.tree, token, -(TotalAmount(body.txs) + Fees(body.txs)))
            /\ DOMAIN loop.tree = DOMAIN t
            /\ \A i \in DOMAIN body.txs : Paid(t, loop.tree, body.txs[i].fromIndex)
  BY <1>2, SenderLoop
<1> HIDE DEF loop
<1>5. loop.tree \in Trees
  BY <1>4 DEF Steps
<1>6. /\ fee \in Steps
      /\ IsOk(fee) => /\ Kept(loop.tree, fee.tree)
                      /\ DOMAIN fee.tree = DOMAIN loop.tree
                      /\ \A i \in DOMAIN loop.tree : fee.tree[i].nonce = loop.tree[i].nonce
                      /\ Grown(loop.tree, fee.tree, token, Fees(body.txs))
  BY <1>3, <1>5, ReceiverStep
<1> HIDE DEF fee
<1>7. /\ IsOk(loop) /\ IsOk(fee)
      /\ step.tree = fee.tree
      /\ MigrationResult(t, body) = "Ok"
  BY <1>1 DEF Ended, IsOk
<1> HIDE DEF step, withFee
<1>8. fee.tree \in Trees
  BY <1>6 DEF Steps
<1>9. Kept(t, fee.tree)
  BY <1>4, <1>5, <1>6, <1>7, <1>8, KeptIsTransitive
<1>10. \A i \in DOMAIN body.txs : Paid(t, fee.tree, body.txs[i].fromIndex)
  BY <1>4, <1>6, <1>7 DEF Paid
<1>11. body.amount = TotalAmount(body.txs)
  BY <1>7 DEF MigrationResult
<1>12. ASSUME NEW other
       PROVE  BalanceIn(fee.tree, other) = BalanceIn(t, other) - Leaves(body, other)
  <2> DEFINE fees == Fees(body.txs)
             amounts == TotalAmount(body.txs)
  <2>1. /\ -(amounts + fees) \in Int /\ fees \in Int
        /\ -(amounts + fees) + fees = -amounts
    BY <1>3
  <2>2. Grown(t, fee.tree, token, -(amounts + fees) + fees)
    <3> HIDE DEF fees, amounts
    <3>1. /\ Grown(t, loop.tree, token, -(amounts + fees))
          /\ Grown(loop.tree, fee.tree, token, fees)
      BY <1>4, <1>6, <1>7 DEF fees, amounts
    <3> QED
      BY <1>5, <1>8, <2>1, <3>1, GrownTwice
  <2>3. BalanceIn(t, other) \in Int
    BY BalanceType
  <2> QED
    BY <1>3, <1>11, <2>1, <2>2, <2>3 DEF Grown, Leaves, token
<1> QED
  BY <1>3, <1>7, <1>8, <1>9, <1>10, <1>11, <1>12 DEF step
-----------------------------------------------------------------------------
(* The histories.                                                          *)
Migrated(bodies, token) == Total([i \in DOMAIN bodies |-> Leaves(bodies[i], token)])
Deposited(trees, token) == Total([i \in DOMAIN trees |-> BalanceIn(trees[i], token)])

LEMMA Appended ==
    ASSUME NEW S, NEW s \in Seq(S), NEW e
    PROVE  /\ Len(s) \in Nat /\ DOMAIN s = 1 .. Len(s)
           /\ \A i \in 1 .. Len(s) : s[i] \in S
           /\ Append(s, e) \in Seq(S \union {e})
           /\ DOMAIN Append(s, e) = 1 .. Len(s) + 1
           /\ \A i \in 1 .. Len(s) : Append(s, e)[i] = s[i]
           /\ Append(s, e)[Len(s) + 1] = e
<1>1. s \in Seq(S \union {e}) /\ e \in S \union {e}
  BY SeqMonotonic
<1> QED
  BY <1>1, LenProperties

LEMMA MigratedAppend ==
    ASSUME NEW S, NEW bodies \in Seq(S), NEW body, NEW token,
           \A i \in DOMAIN bodies : bodies[i].amount \in Int, body.amount \in Int
    PROVE  /\ Migrated(bodies, token) \in Int
           /\ Leaves(body, token) \in Int
           /\ Migrated(Append(bodies, body), token)
                 = Migrated(bodies, token) + Leaves(body, token)
<1> DEFINE n == Len(bodies)
           v == [i \in 1 .. n |-> Leaves(bodies[i], token)]
           x == [i \in 1 .. n + 1 |-> Leaves(Append(bodies, body)[i], token)]
<1>1. /\ n \in Nat /\ DOMAIN bodies = 1 .. n
      /\ DOMAIN Append(bodies, body) = 1 .. n + 1
      /\ \A i \in 1 .. n : Append(bodies, body)[i] = bodies[i]
      /\ Append(bodies, body)[n + 1] = body
  BY Appended
<1> HIDE DEF n
<1>2. /\ Migrated(bodies, token) = Total(v)
      /\ Migrated(Append(bodies, body), token) = Total(x)
  BY <1>1 DEF Migrated
<1>3. /\ v \in [1 .. n -> Int] /\ x \in [1 .. n + 1 -> Int]
      /\ \A i \in 1 .. n : x[i] = v[i]
      /\ x[n + 1] = Leaves(body, token)
      /\ Leaves(body, token) \in Int
  <2>1. Leaves(body, token) \in Int
    BY DEF Leaves
  <2>2. \A i \in 1 .. n : Leaves(bodies[i], token) \in Int
    BY <1>1 DEF Leaves
  <2>3. \A i \in 1 .. n + 1 : i \in 1 .. n \/ i = n + 1
    BY <1>1
  <2> QED
    BY <1>1, <2>1, <2>2, <2>3
<1> HIDE DEF v, x
<1> QED
  BY <1>1, <1>2, <1>3, TotalOneMore, TotalType

LEMMA MigratedType ==
    ASSUME NEW S, NEW bodies \in Seq(S), NEW token,
           \A i \in DOMAIN bodies : bodies[i].amount \in Int
    PROVE  Migrated(bodies, token) \in Int
<1>1. [amount |-> 0].amount \in Int
  OBVIOUS
<1> QED
  BY <1>1, MigratedAppend

LEMMA DepositedAppend ==
    ASSUME NEW trees \in Seq(Trees), NEW t \in Trees, NEW token
    PROVE  /\ Deposited(trees, token) \in Int
           /\ Deposited(Append(trees, t), token)
                 = Deposited(trees, token) + BalanceIn(t, token)
<1> DEFINE n == Len(trees)
           v == [i \in 1 .. n |-> BalanceIn(trees[i], token)]
           x == [i \in 1 .. n + 1 |-> BalanceIn(Append(trees, t)[i], token)]
<1>1. /\ n \in Nat /\ DOMAIN trees = 1 .. n
      /\ \A i \in 1 .. n : trees[i] \in Trees
      /\ DOMAIN Append(trees, t) = 1 .. n + 1
      /\ \A i \in 1 .. n : Append(trees, t)[i] = trees[i]
      /\ Append(trees, t)[n + 1] = t
  BY Appended
<1> HIDE DEF n
<1>2. /\ Deposited(trees, token) = Total(v)
      /\ Deposited(Append(trees, t), token) = Total(x)
  BY <1>1 DEF Deposited
<1>3. /\ v \in [1 .. n -> Int] /\ x \in [1 .. n + 1 -> Int]
      /\ \A i \in 1 .. n : x[i] = v[i]
      /\ x[n + 1] = BalanceIn(t, token)
  <2>1. BalanceIn(t, token) \in Int /\ \A i \in 1 .. n : BalanceIn(trees[i], token) \in Int
    BY <1>1, BalanceType
  <2>2. \A i \in 1 .. n + 1 : i \in 1 .. n \/ i = n + 1
    BY <1>1
  <2> QED
    BY <1>1, <2>1, <2>2
<1> HIDE DEF v, x
<1> QED
  BY <1>1, <1>2, <1>3, TotalOneMore, TotalType

(* Two trees that share no index, as one.                                  *)
LEMMA MergedTrees ==
    ASSUME NEW a \in Trees, NEW b \in Trees, DOMAIN b \intersect DOMAIN a = {}
    PROVE  /\ Merged(a, b) \in Trees
           /\ Kept(a, Merged(a, b))
           /\ \A i \in DOMAIN a : i \in DOMAIN Merged(a, b) /\ Merged(a, b)[i] = a[i]
           /\ \A token : BalanceIn(Merged(a, b), token)
                           = BalanceIn(a, token) + BalanceIn(b, token)
<1> DEFINE c == Merged(a, b)
<1>1. /\ DOMAIN c = DOMAIN a \union DOMAIN b
      /\ \A i \in DOMAIN a : c[i] = a[i]
      /\ \A i \in DOMAIN b : c[i] = b[i]
      /\ c = [i \in DOMAIN c |-> c[i]]
  BY DEF Merged
<1> HIDE DEF c
<1>2. /\ \A i \in DOMAIN a : a[i] \in UserState
      /\ \A i \in DOMAIN b : b[i] \in UserState
      /\ DOMAIN a \subseteq Indices /\ DOMAIN b \subseteq Indices
  BY TreeType
<1>3. c \in Trees
  <2>1. c \in [DOMAIN c -> UserState] /\ DOMAIN c \in SUBSET Indices
    BY <1>1, <1>2
  <2> QED
    BY <2>1 DEF Trees
<1>4. Kept(a, c)
  BY <1>1, <1>2 DEF Kept, UserState
<1>5. ASSUME NEW token PROVE BalanceIn(c, token) = BalanceIn(a, token) + BalanceIn(b, token)
  <2> DEFINE v == Held(a, token)
             w == Held(b, token)
             x == Held(c, token)
  <2>1. /\ v \in [1 .. NumLeaves -> Int] /\ w \in [1 .. NumLeaves -> Int]
        /\ x \in [1 .. NumLeaves -> Int]
    BY <1>3, HeldType
  <2>2. ASSUME NEW i \in 1 .. NumLeaves PROVE x[i] = v[i] + w[i]
    <3>1. CASE i - 1 \in DOMAIN a
      <4>1. i - 1 \notin DOMAIN b /\ i - 1 \in DOMAIN c /\ c[i - 1] = a[i - 1]
        BY <1>1, <3>1
      <4>2. a[i - 1].balance \in Nat
        BY <1>2, <3>1 DEF UserState
      <4> QED
        BY <3>1, <4>1, <4>2 DEF Held
    <3>2. CASE i - 1 \in DOMAIN b
      <4>1. i - 1 \notin DOMAIN a /\ i - 1 \in DOMAIN c /\ c[i - 1] = b[i - 1]
        BY <1>1, <3>2
      <4>2. b[i - 1].balance \in Nat
        BY <1>2, <3>2 DEF UserState
      <4> QED
        BY <3>2, <4>1, <4>2 DEF Held
    <3>3. CASE i - 1 \notin DOMAIN a /\ i - 1 \notin DOMAIN b
      BY <1>1, <3>3 DEF Held
    <3> QED
      BY <3>1, <3>2, <3>3
  <2> HIDE DEF v, w, x
  <2>3. Total(x) = Total(v) + Total(w)
    <3>1. Adds(x, v, w, NumLeaves)
      BY <2>1, <2>2 DEF Adds
    <3> QED
      BY <3>1, NumLeavesAssumption, TotalPlus
  <2> QED
    BY <2>3 DEF v, w, x, BalanceIn
<1> QED
  BY <1>1, <1>3, <1>4, <1>5 DEF c
-----------------------------------------------------------------------------
(* The invariant.                                                          *)
ChainType ==
    /\ tree \in Trees
    /\ subtrees \in Seq(DepositSubtrees)
    /\ migrations \in Seq(MassMigrationBodies)
    /\ applied \in Seq({applied[i] : i \in DOMAIN applied})
    /\ \A i \in DOMAIN migrations : migrations[i].amount \in Int

(* What makes MessagesAreSpent inductive: the nonce of a message that was  *)
(* applied is below the one that its sender has now.                       *)
NoncesArePast ==
    \A i \in DOMAIN applied : \A message \in applied[i] :
        message.kind # "Create2Transfer" =>
            /\ message.text.fromIndex \in DOMAIN tree
            /\ message.nonce < tree[message.text.fromIndex].nonce
            /\ message.nonce \in Int

ChainInv ==
    /\ ChainType
    /\ MigrationsAreSound
    /\ SupplyConserved
    /\ NoncesArePast
    /\ MessagesAreSpent

LEMMA DepositsAreTrees == DepositSubtrees \subseteq Trees
BY DepositsAssumption, TreesAre

LEMMA SupplyIs ==
    SupplyConserved <=>
        \A token \in TokenTypes :
            BalanceIn(tree, token) + Migrated(migrations, token) = Deposited(subtrees, token)
BY DEF SupplyConserved, SumOf, Migrated, Deposited, Leaves

LEMMA ChainInitial == ChainInit => ChainInv
<1> SUFFICES ASSUME ChainInit PROVE ChainInv
  OBVIOUS
<1>1. /\ DOMAIN tree = {} /\ DOMAIN subtrees = {}
      /\ DOMAIN migrations = {} /\ DOMAIN applied = {}
      /\ subtrees \in Seq(DepositSubtrees)
      /\ migrations \in Seq(MassMigrationBodies)
      /\ applied \in Seq({applied[i] : i \in DOMAIN applied})
  BY EmptySeq DEF ChainInit
<1>2. tree \in Trees
  <2>1. tree \in [{} -> UserState] /\ {} \in SUBSET Indices
    BY <1>1 DEF ChainInit
  <2> QED
    BY <2>1 DEF Trees
<1>3. ASSUME NEW token
      PROVE  BalanceIn(tree, token) + Migrated(migrations, token) = Deposited(subtrees, token)
  <2>1. Held(tree, token) \in [1 .. NumLeaves -> Int]
        /\ \A i \in 1 .. NumLeaves : Held(tree, token)[i] = 0
    BY <1>1, <1>2, HeldType DEF Held
  <2>2. BalanceIn(tree, token) = 0
    BY <2>1, NumLeavesAssumption, TotalZero DEF BalanceIn
  <2> DEFINE v == [i \in DOMAIN migrations |-> Leaves(migrations[i], token)]
             w == [i \in DOMAIN subtrees |-> BalanceIn(subtrees[i], token)]
  <2>3. /\ v \in [1 .. 0 -> Int] /\ w \in [1 .. 0 -> Int]
        /\ \A i \in 1 .. 0 : v[i] = 0 /\ w[i] = 0
    BY <1>1
  <2>4. Migrated(migrations, token) = Total(v) /\ Deposited(subtrees, token) = Total(w)
    BY DEF Migrated, Deposited
  <2> HIDE DEF v, w
  <2>5. Total(v) = 0 /\ Total(w) = 0
    BY <2>3, TotalZero
  <2> QED
    BY <2>2, <2>4, <2>5
<1>4. SupplyConserved
  BY <1>3, SupplyIs
<1> QED
  BY <1>1, <1>2, <1>4 DEF ChainInv, ChainType, MigrationsAreSound, NoncesArePast,
                          MessagesAreSpent
-----------------------------------------------------------------------------
(* What the messages of a commitment say of the trees around it.           *)
LEMMA NewMessages ==
    ASSUME NEW before \in Trees, NEW after \in Trees, NEW kind, NEW txs,
           kind # "Create2Transfer" =>
               \A i \in DOMAIN txs : Paid(before, after, txs[i].fromIndex)
    PROVE  \A message \in Messages(after, kind, txs) :
               message.kind # "Create2Transfer" =>
                   /\ message.text.fromIndex \in DOMAIN before
                   /\ message.text.fromIndex \in DOMAIN after
                   /\ message.nonce >= before[message.text.fromIndex].nonce
                   /\ message.nonce < after[message.text.fromIndex].nonce
                   /\ message.nonce \in Int
<1> SUFFICES ASSUME NEW i \in DOMAIN txs,
                    NEW message, message = Message(after, kind, txs[i]),
                    message.kind # "Create2Transfer"
             PROVE  /\ message.text.fromIndex \in DOMAIN before
                    /\ message.text.fromIndex \in DOMAIN after
                    /\ message.nonce >= before[message.text.fromIndex].nonce
                    /\ message.nonce < after[message.text.fromIndex].nonce
                    /\ message.nonce \in Int
  BY DEF Messages
<1> DEFINE from == txs[i].fromIndex
<1>1. kind # "Create2Transfer"
  BY DEF Message
<1>2. message.text = txs[i] /\ message.nonce = after[from].nonce - 1
  BY <1>1 DEF Message
<1>3. Paid(before, after, from)
  BY <1>1
<1>4. before[from] \in UserState /\ after[from] \in UserState
  BY <1>3, TreeType DEF Paid
<1> QED
  BY <1>2, <1>3, <1>4 DEF Paid, UserState

(* What every commitment does to the messages.                             *)
LEMMA CommitMessages ==
    ASSUME ChainInv, NEW step, NEW kind, NEW txs, Commit(step, kind, txs),
           step.tree \in Trees, Kept(tree, step.tree),
           kind # "Create2Transfer" =>
               \A i \in DOMAIN txs : Paid(tree, step.tree, txs[i].fromIndex)
    PROVE  /\ applied' \in Seq({applied'[i] : i \in DOMAIN applied'})
           /\ NoncesArePast'
           /\ MessagesAreSpent'
<1> DEFINE new == Messages(step.tree, kind, txs)
           n == Len(applied)
<1>1. tree' = step.tree /\ applied' = Append(applied, new)
  BY DEF Commit
<1>2. /\ n \in Nat /\ DOMAIN applied = 1 .. n /\ DOMAIN applied' = 1 .. n + 1
      /\ \A i \in 1 .. n : applied'[i] = applied[i]
      /\ applied'[n + 1] = new
      /\ applied' \in Seq({applied[i] : i \in DOMAIN applied} \union {new})
  BY <1>1, Appended DEF ChainInv, ChainType
<1>3. tree \in Trees /\ tree' \in Trees /\ Kept(tree, tree')
  BY <1>1 DEF ChainInv, ChainType
<1>4. \A message \in new : message.kind # "Create2Transfer" =>
         /\ message.text.fromIndex \in DOMAIN tree
         /\ message.text.fromIndex \in DOMAIN tree'
         /\ message.nonce >= tree[message.text.fromIndex].nonce
         /\ message.nonce < tree'[message.text.fromIndex].nonce
         /\ message.nonce \in Int
  BY <1>1, <1>3, NewMessages
<1> HIDE DEF new, n
<1>5. \A i \in 1 .. n + 1 : i \in 1 .. n \/ i = n + 1
  BY <1>2
<1>6. applied' \in Seq({applied'[i] : i \in DOMAIN applied'})
  <2>1. {applied[i] : i \in DOMAIN applied} \union {new}
           \subseteq {applied'[i] : i \in DOMAIN applied'}
    <3>1. n + 1 \in 1 .. n + 1 /\ 1 .. n \subseteq 1 .. n + 1
      BY <1>2
    <3> QED
      BY <1>2, <3>1
  <2> QED
    BY <1>2, <2>1, SeqMonotonic
<1>7. NoncesArePast'
  <2> SUFFICES ASSUME NEW i \in 1 .. n + 1, NEW message \in applied'[i],
                      message.kind # "Create2Transfer"
               PROVE  /\ message.text.fromIndex \in DOMAIN tree'
                      /\ message.nonce < tree'[message.text.fromIndex].nonce
                      /\ message.nonce \in Int
    BY <1>2 DEF NoncesArePast
  <2>1. CASE i = n + 1
    BY <1>2, <1>4, <2>1
  <2>2. CASE i \in 1 .. n
    <3> DEFINE from == message.text.fromIndex
    <3>1. from \in DOMAIN tree /\ message.nonce < tree[from].nonce
      BY <1>2, <2>2 DEF ChainInv, NoncesArePast
    <3>2. from \in DOMAIN tree' /\ tree'[from].nonce >= tree[from].nonce
      BY <1>3, <3>1 DEF Kept
    <3>3. tree[from] \in UserState /\ tree'[from] \in UserState
      BY <1>3, <3>1, <3>2, TreeType
    <3>4. message.nonce \in Int
      BY <1>2, <2>2 DEF ChainInv, NoncesArePast
    <3> QED
      BY <3>1, <3>2, <3>3, <3>4 DEF UserState
  <2> QED
    BY <1>5, <2>1, <2>2
<1>8. MessagesAreSpent'
  <2>1. ASSUME NEW i \in 1 .. n, NEW message \in applied[i], message \in new
        PROVE  message.kind = "Create2Transfer"
    <3> SUFFICES ASSUME message.kind # "Create2Transfer" PROVE FALSE
      OBVIOUS
    <3> DEFINE from == message.text.fromIndex
    <3>1. from \in DOMAIN tree /\ message.nonce < tree[from].nonce
      BY <1>2, <2>1 DEF ChainInv, NoncesArePast
    <3>2. message.nonce >= tree[from].nonce /\ message.nonce \in Int
      BY <1>4, <2>1
    <3>3. tree[from] \in UserState
      BY <1>3, <3>1, TreeType
    <3> QED
      BY <3>1, <3>2, <3>3 DEF UserState
  <2>2. ASSUME NEW i \in 1 .. n + 1, NEW j \in 1 .. n + 1, i # j,
               NEW message \in applied'[i] \intersect applied'[j]
        PROVE  message.kind = "Create2Transfer"
    <3>1. CASE i = n + 1
      BY <1>2, <1>5, <2>1, <2>2, <3>1
    <3>2. CASE j = n + 1
      BY <1>2, <1>5, <2>1, <2>2, <3>2
    <3>3. CASE i \in 1 .. n /\ j \in 1 .. n
      BY <1>2, <2>2, <3>3 DEF ChainInv, MessagesAreSpent
    <3> QED
      BY <1>5, <3>1, <3>2, <3>3
  <2> QED
    BY <1>2, <2>2 DEF MessagesAreSpent
<1> QED
  BY <1>6, <1>7, <1>8
-----------------------------------------------------------------------------
(* The steps.                                                              *)
LEMMA GraftKeeps ==
    ASSUME ChainInv, NEW subtree \in DepositSubtrees, GraftSubtree(subtree)
    PROVE  ChainInv' /\ Kept(tree, tree')
<1>1. /\ tree \in Trees /\ subtree \in Trees
      /\ DOMAIN subtree \intersect DOMAIN tree = {}
      /\ tree' = Merged(tree, subtree)
      /\ subtrees' = Append(subtrees, subtree)
      /\ migrations' = migrations /\ applied' = applied
  BY DepositsAreTrees DEF ChainInv, ChainType, GraftSubtree
<1>2. /\ tree' \in Trees /\ Kept(tree, tree')
      /\ \A i \in DOMAIN tree : i \in DOMAIN tree' /\ tree'[i] = tree[i]
      /\ \A token : BalanceIn(tree', token)
                      = BalanceIn(tree, token) + BalanceIn(subtree, token)
  BY <1>1, MergedTrees
<1>3. ChainType'
  <2>1. subtrees' \in Seq(DepositSubtrees)
    BY <1>1, AppendProperties DEF ChainInv, ChainType
  <2> QED
    BY <1>1, <1>2, <2>1 DEF ChainInv, ChainType
<1>4. SupplyConserved'
  <2>1. subtrees \in Seq(Trees)
    BY DepositsAreTrees, SeqMonotonic DEF ChainInv, ChainType
  <2>2. ASSUME NEW token \in TokenTypes
        PROVE  BalanceIn(tree', token) + Migrated(migrations', token)
                 = Deposited(subtrees', token)
    <3>1. BalanceIn(tree, token) + Migrated(migrations, token) = Deposited(subtrees, token)
      BY SupplyIs DEF ChainInv
    <3>2. Deposited(subtrees', token) = Deposited(subtrees, token) + BalanceIn(subtree, token)
      BY <1>1, <2>1, DepositedAppend
    <3>3. /\ BalanceIn(tree, token) \in Int /\ BalanceIn(subtree, token) \in Int
      BY <1>1, BalanceType
    <3>4. Migrated(migrations, token) \in Int
      BY MigratedType DEF ChainInv, ChainType
    <3> QED
      BY <1>1, <1>2, <3>1, <3>2, <3>3, <3>4
  <2> QED
    BY <2>2 DEF SupplyConserved, SumOf, Migrated, Deposited, Leaves
<1>5. MigrationsAreSound' /\ MessagesAreSpent'
  BY <1>1 DEF ChainInv, MigrationsAreSound, MessagesAreSpent
<1>6. NoncesArePast'
  BY <1>1, <1>2 DEF ChainInv, NoncesArePast
<1> QED
  BY <1>2, <1>3, <1>4, <1>5, <1>6 DEF ChainInv

(* A commitment without withdrawals.                                       *)
LEMMA PaymentKeeps ==
    ASSUME ChainInv, NEW step, NEW kind, NEW txs, Commit(step, kind, txs),
           UNCHANGED <<subtrees, migrations>>,
           step.tree \in Trees, Kept(tree, step.tree),
           kind # "Create2Transfer" =>
               \A i \in DOMAIN txs : Paid(tree, step.tree, txs[i].fromIndex),
           \A token : BalanceIn(step.tree, token) = BalanceIn(tree, token)
    PROVE  ChainInv' /\ Kept(tree, tree')
<1>1. tree' = step.tree
  BY DEF Commit
<1>2. /\ applied' \in Seq({applied'[i] : i \in DOMAIN applied'})
      /\ NoncesArePast'
      /\ MessagesAreSpent'
  BY CommitMessages
<1>3. ChainType'
  BY <1>1, <1>2 DEF ChainInv, ChainType
<1>4. SupplyConserved'
  <2>1. \A token \in TokenTypes :
           BalanceIn(tree', token) + Migrated(migrations', token) = Deposited(subtrees', token)
    BY <1>1, SupplyIs DEF ChainInv
  <2> QED
    BY <2>1 DEF SupplyConserved, SumOf, Migrated, Deposited, Leaves
<1>5. MigrationsAreSound'
  BY DEF ChainInv, MigrationsAreSound
<1> QED
  BY <1>1, <1>2, <1>3, <1>4, <1>5 DEF ChainInv

LEMMA TransferKeeps ==
    ASSUME ChainInv, NEW body \in TransferBodies, CommitTransfer(body)
    PROVE  ChainInv' /\ Kept(tree, tree')
<1> DEFINE step == ProcessTransferCommit(tree, body)
<1>1. /\ Commit(step, "Transfer", body.txs) /\ UNCHANGED <<subtrees, migrations>>
      /\ IsOk(step) /\ tree \in Trees
  BY DEF CommitTransfer, Commit, ChainInv, ChainType
<1>2. /\ step.tree \in Trees
      /\ Kept(tree, step.tree)
      /\ \A i \in DOMAIN body.txs : Paid(tree, step.tree, body.txs[i].fromIndex)
      /\ \A token : BalanceIn(step.tree, token) = BalanceIn(tree, token)
  BY <1>1, TransferCommit
<1> HIDE DEF step
<1> QED
  BY <1>1, <1>2, PaymentKeeps

LEMMA Create2TransferKeeps ==
    ASSUME ChainInv, NEW body \in Create2TransferBodies, CommitCreate2Transfer(body)
    PROVE  ChainInv' /\ Kept(tree, tree')
<1> DEFINE step == ProcessCreate2TransferCommit(tree, body)
<1>1. /\ Commit(step, "Create2Transfer", body.txs) /\ UNCHANGED <<subtrees, migrations>>
      /\ IsOk(step) /\ tree \in Trees
  BY DEF CommitCreate2Transfer, Commit, ChainInv, ChainType
<1>2. /\ step.tree \in Trees
      /\ Kept(tree, step.tree)
      /\ \A token : BalanceIn(step.tree, token) = BalanceIn(tree, token)
  BY <1>1, Create2TransferCommit
<1> HIDE DEF step
<1> QED
  BY <1>1, <1>2, PaymentKeeps

(* processMassMigrationCommit() compares the sums and the leaves.          *)
LEMMA ResultOkIsSound ==
    ASSUME NEW t, NEW body, MigrationResult(t, body) = "Ok"
    PROVE  IsSound(body)
<1>1. body.amount = TotalAmount(body.txs) /\ body.withdrawRoot = WithdrawLeaves(t, body)
  BY DEF MigrationResult
<1>2. /\ DOMAIN body.withdrawRoot = DOMAIN body.txs
      /\ \A i \in DOMAIN body.txs :
            /\ body.withdrawRoot[i].balance = body.txs[i].amount
            /\ body.withdrawRoot[i].tokenType = body.tokenID
  BY <1>1 DEF WithdrawLeaves, CreateState
<1>3. [i \in DOMAIN body.withdrawRoot |-> body.withdrawRoot[i].balance]
        = [i \in DOMAIN body.txs |-> body.txs[i].amount]
  BY <1>2
<1> QED
  BY <1>1, <1>2, <1>3 DEF IsSound, TotalAmount, SumOf

LEMMA MassMigrationKeeps ==
    ASSUME ChainInv, NEW body \in MassMigrationBodies, CommitMassMigration(body)
    PROVE  ChainInv' /\ Kept(tree, tree')
<1> DEFINE step == ProcessMassMigrationCommit(tree, body)
<1>1. /\ Commit(step, "MassMigration", body.txs)
      /\ migrations' = Append(migrations, body) /\ subtrees' = subtrees
      /\ IsOk(step) /\ tree \in Trees /\ tree' = step.tree
  BY DEF CommitMassMigration, Commit, ChainInv, ChainType
<1>2. /\ step.tree \in Trees
      /\ Kept(tree, step.tree)
      /\ \A i \in DOMAIN body.txs : Paid(tree, step.tree, body.txs[i].fromIndex)
      /\ \A token : BalanceIn(step.tree, token)
                      = BalanceIn(tree, token) - Leaves(body, token)
      /\ MigrationResult(tree, body) = "Ok"
      /\ body.amount \in Int
  BY <1>1, MassMigrationCommit
<1> HIDE DEF step
<1>3. /\ applied' \in Seq({applied'[i] : i \in DOMAIN applied'})
      /\ NoncesArePast'
      /\ MessagesAreSpent'
  BY <1>1, <1>2, CommitMessages
<1> DEFINE n == Len(migrations)
<1>4. /\ n \in Nat /\ DOMAIN migrations = 1 .. n /\ DOMAIN migrations' = 1 .. n + 1
      /\ \A i \in 1 .. n : migrations'[i] = migrations[i]
      /\ migrations'[n + 1] = body
      /\ migrations' \in Seq(MassMigrationBodies)
  BY <1>1, Appended, AppendProperties DEF ChainInv, ChainType
<1> HIDE DEF n
<1>5. \A i \in 1 .. n + 1 : i \in 1 .. n \/ i = n + 1
  BY <1>4
<1>6. ChainType'
  <2>1. \A i \in 1 .. n + 1 : migrations'[i].amount \in Int
    BY <1>2, <1>4, <1>5 DEF ChainInv, ChainType
  <2> QED
    BY <1>1, <1>2, <1>3, <1>4, <2>1 DEF ChainInv, ChainType
<1>7. MigrationsAreSound'
  <2>1. IsSound(body)
    BY <1>2, ResultOkIsSound
  <2>2. \A i \in 1 .. n + 1 : IsSound(migrations'[i])
    BY <1>4, <1>5, <2>1 DEF ChainInv, MigrationsAreSound
  <2> QED
    BY <1>4, <2>2 DEF MigrationsAreSound
<1>8. SupplyConserved'
  <2>1. ASSUME NEW token \in TokenTypes
        PROVE  BalanceIn(tree', token) + Migrated(migrations', token)
                 = Deposited(subtrees', token)
    <3>1. BalanceIn(tree, token) + Migrated(migrations, token) = Deposited(subtrees, token)
      BY SupplyIs DEF ChainInv
    <3>2. /\ Migrated(migrations, token) \in Int
          /\ Leaves(body, token) \in Int
          /\ Migrated(migrations', token) = Migrated(migrations, token) + Leaves(body, token)
      BY <1>1, <1>2, MigratedAppend DEF ChainInv, ChainType
    <3>3. BalanceIn(tree, token) \in Int
      BY <1>1, BalanceType
    <3> QED
      BY <1>1, <1>2, <3>1, <3>2, <3>3
  <2> QED
    BY <2>1 DEF SupplyConserved, SumOf, Migrated, Deposited, Leaves
<1> QED
  BY <1>1, <1>2, <1>3, <1>6, <1>7, <1>8 DEF ChainInv

LEMMA ChainStep ==
    ASSUME ChainInv, [ChainNext]_chainVars
    PROVE  ChainInv' /\ Kept(tree, tree')
<1>1. CASE UNCHANGED chainVars
  <2>1. /\ tree' = tree /\ subtrees' = subtrees
        /\ migrations' = migrations /\ applied' = applied
    BY <1>1 DEF chainVars
  <2>2. \A i \in DOMAIN tree : tree[i] \in UserState
    BY TreeType DEF ChainInv, ChainType
  <2>3. Kept(tree, tree')
    BY <2>1, <2>2 DEF Kept, UserState
  <2>4. ChainInv'
    <3>1. ChainType' /\ MigrationsAreSound'
      BY <2>1 DEF ChainInv, ChainType, MigrationsAreSound
    <3>2. SupplyConserved'
      BY <2>1, SupplyIs DEF ChainInv, SupplyConserved, SumOf, Migrated, Deposited, Leaves
    <3>3. NoncesArePast' /\ MessagesAreSpent'
      BY <2>1 DEF ChainInv, NoncesArePast, MessagesAreSpent
    <3> QED
      BY <3>1, <3>2, <3>3 DEF ChainInv
  <2> QED
    BY <2>3, <2>4
<1>2. CASE ChainNext
  BY <1>2, GraftKeeps, TransferKeeps, Create2TransferKeeps, MassMigrationKeeps DEF ChainNext
<1> QED
  BY <1>1, <1>2

LEMMA ChainInvariant == ChainSpec => []ChainInv
<1>1. ChainInv /\ [ChainNext]_chainVars => ChainInv'
  BY ChainStep
<1> QED
  BY ChainInitial, <1>1, PTL DEF ChainSpec
-----------------------------------------------------------------------------
(* The client's loops (ClientState) beside those of the contracts.         *)

(* The intermediate results of a loop of the client.                       *)
ClientRuns(left, n, t, apply) ==
    /\ left[0] = Left("safe", t)
    /\ \A i \in 1 .. n :
          /\ ~IsSafe(left[i - 1]) => left[i] = left[i - 1]
          /\ IsSafe(left[i - 1]) /\ left[i - 1].tree \in Trees
                => left[i] = apply[i][left[i - 1].tree]

(* What ApplyTxs computes for transfers, with its intermediate results.    *)
LEMMA ClientTransfersRun ==
    ASSUME NEW t, NEW txs, NEW n \in Nat, Len(txs) = n, NEW apply,
           apply = [i \in 1 .. n |-> [c \in Trees |-> ApplyTxTransfer(c, txs[i])]]
    PROVE  \E left : /\ ClientRuns(left, n, t, apply)
                     /\ ApplyTxs(ApplyTxTransfer, t, txs) = left[n]
<1> DEFINE Start == Left("safe", t)
           Turn(u, i) == IF IsSafe(u[i - 1]) THEN ApplyTxTransfer(u[i - 1].tree, txs[i])
                         ELSE u[i - 1]
           Body(u, i) == IF i = 0 THEN Start ELSE Turn(u, i)
           T == {m \in 0 .. n : \E u : u = [i \in 0 .. m |-> Body(u, i)]}
<1>1. 0 \in T
  <2> DEFINE u == [i \in 0 .. 0 |-> Start]
  <2>1. u = [i \in 0 .. 0 |-> Body(u, i)]
    OBVIOUS
  <2> HIDE DEF u, Body
  <2> QED
    BY <2>1
<1>2. ASSUME NEW k \in 1 .. n, k - 1 \in T PROVE k \in T
  <2>1. PICK u : u = [i \in 0 .. k - 1 |-> Body(u, i)]
    BY <1>2
  <2> DEFINE v == [i \in 0 .. k |-> IF i < k THEN u[i] ELSE Turn(u, k)]
  <2>2. \A i \in 0 .. k : v[i] = Body(v, i)
    <3>1. \A i \in 0 .. k - 1 : u[i] = Body(u, i)
      <4> HIDE DEF Body
      <4> QED
        BY <2>1
    <3> HIDE DEF Start, Turn
    <3>2. \A i \in 0 .. k - 1 : v[i] = u[i]
      OBVIOUS
    <3>3. v[k] = Turn(u, k)
      OBVIOUS
    <3> HIDE DEF v
    <3>4. \A i \in 1 .. k : Turn(v, i) = Turn(u, i)
      BY <3>2 DEF Turn
    <3> QED
      BY <3>1, <3>2, <3>3, <3>4
  <2>3. v = [i \in 0 .. k |-> Body(v, i)]
    <3> HIDE DEF Body
    <3> QED
      BY <2>2
  <2> HIDE DEF v, Body
  <2> QED
    BY <2>3
<1>3. n \in T
  <2>1. \A k \in 1 .. n : k - 1 \in T => k \in T
    BY <1>2
  <2> HIDE DEF T
  <2>2. 0 .. n \subseteq T
    BY <1>1, <2>1, LoopInduction
  <2> QED
    BY <2>2
<1> DEFINE left == CHOOSE u : u = [i \in 0 .. n |-> Body(u, i)]
<1>4. ApplyTxs(ApplyTxTransfer, t, txs) = left[n]
  BY DEF ApplyTxs
<1>5. left = [i \in 0 .. n |-> Body(left, i)]
  <2>1. \E u : u = [i \in 0 .. n |-> Body(u, i)]
    BY <1>3
  <2> HIDE DEF Body
  <2> QED
    BY <2>1
<1> HIDE DEF left
<1>6. \A i \in 0 .. n : left[i] = Body(left, i)
  <2> HIDE DEF Body
  <2> QED
    BY <1>5
<1>7. left[0] = Start /\ \A i \in 1 .. n : left[i] = Turn(left, i)
  <2> HIDE DEF Start, Turn
  <2> QED
    BY <1>6
<1>8. \A i \in 1 .. n, c \in Trees : apply[i][c] = ApplyTxTransfer(c, txs[i])
  OBVIOUS
<1>9. ClientRuns(left, n, t, apply)
  BY <1>7, <1>8 DEF ClientRuns
<1> QED
  BY <1>4, <1>9

(* The same for transfers to new states.                                   *)
LEMMA ClientCreate2TransfersRun ==
    ASSUME NEW t, NEW txs, NEW n \in Nat, Len(txs) = n, NEW apply,
           apply = [i \in 1 .. n |-> [c \in Trees |-> ApplyTxCreate2Transfer(c, txs[i])]]
    PROVE  \E left : /\ ClientRuns(left, n, t, apply)
                     /\ ApplyTxs(ApplyTxCreate2Transfer, t, txs) = left[n]
<1> DEFINE Start == Left("safe", t)
           Turn(u, i) == IF IsSafe(u[i - 1]) THEN ApplyTxCreate2Transfer(u[i - 1].tree, txs[i])
                         ELSE u[i - 1]
           Body(u, i) == IF i = 0 THEN Start ELSE Turn(u, i)
           T == {m \in 0 .. n : \E u : u = [i \in 0 .. m |-> Body(u, i)]}
<1>1. 0 \in T
  <2> DEFINE u == [i \in 0 .. 0 |-> Start]
  <2>1. u = [i \in 0 .. 0 |-> Body(u, i)]
    OBVIOUS
  <2> HIDE DEF u, Body
  <2> QED
    BY <2>1
<1>2. ASSUME NEW k \in 1 .. n, k - 1 \in T PROVE k \in T
  <2>1. PICK u : u = [i \in 0 .. k - 1 |-> Body(u, i)]
    BY <1>2
  <2> DEFINE v == [i \in 0 .. k |-> IF i < k THEN u[i] ELSE Turn(u, k)]
  <2>2. \A i \in 0 .. k : v[i] = Body(v, i)
    <3>1. \A i \in 0 .. k - 1 : u[i] = Body(u, i)
      <4> HIDE DEF Body
      <4> QED
        BY <2>1
    <3> HIDE DEF Start, Turn
    <3>2. \A i \in 0 .. k - 1 : v[i] = u[i]
      OBVIOUS
    <3>3. v[k] = Turn(u, k)
      OBVIOUS
    <3> HIDE DEF v
    <3>4. \A i \in 1 .. k : Turn(v, i) = Turn(u, i)
      BY <3>2 DEF Turn
    <3> QED
      BY <3>1, <3>2, <3>3, <3>4
  <2>3. v = [i \in 0 .. k |-> Body(v, i)]
    <3> HIDE DEF Body
    <3> QED
      BY <2>2
  <2> HIDE DEF v, Body
  <2> QED
    BY <2>3
<1>3. n \in T
  <2>1. \A k \in 1 .. n : k - 1 \in T => k \in T
    BY <1>2
  <2> HIDE DEF T
  <2>2. 0 .. n \subseteq T
    BY <1>1, <2>1, LoopInduction
  <2> QED
    BY <2>2
<1> DEFINE left == CHOOSE u : u = [i \in 0 .. n |-> Body(u, i)]
<1>4. ApplyTxs(ApplyTxCreate2Transfer, t, txs) = left[n]
  BY DEF ApplyTxs
<1>5. left = [i \in 0 .. n |-> Body(left, i)]
  <2>1. \E u : u = [i \in 0 .. n |-> Body(u, i)]
    BY <1>3
  <2> HIDE DEF Body
  <2> QED
    BY <2>1
<1> HIDE DEF left
<1>6. \A i \in 0 .. n : left[i] = Body(left, i)
  <2> HIDE DEF Body
  <2> QED
    BY <1>5
<1>7. left[0] = Start /\ \A i \in 1 .. n : left[i] = Turn(left, i)
  <2> HIDE DEF Start, Turn
  <2> QED
    BY <1>6
<1>8. \A i \in 1 .. n, c \in Trees : apply[i][c] = ApplyTxCreate2Transfer(c, txs[i])
  OBVIOUS
<1>9. ClientRuns(left, n, t, apply)
  BY <1>7, <1>8 DEF ClientRuns
<1> QED
  BY <1>4, <1>9

(* The same for mass migrations.                                           *)
LEMMA ClientMassMigrationsRun ==
    ASSUME NEW t, NEW txs, NEW n \in Nat, Len(txs) = n, NEW apply,
           apply = [i \in 1 .. n |-> [c \in Trees |-> ApplyMassMigration(c, txs[i])]]
    PROVE  \E left : /\ ClientRuns(left, n, t, apply)
                     /\ ApplyTxs(ApplyMassMigration, t, txs) = left[n]
<1> DEFINE Start == Left("safe", t)
           Turn(u, i) == IF IsSafe(u[i - 1]) THEN ApplyMassMigration(u[i - 1].tree, txs[i])
                         ELSE u[i - 1]
           Body(u, i) == IF i = 0 THEN Start ELSE Turn(u, i)
           T == {m \in 0 .. n : \E u : u = [i \in 0 .. m |-> Body(u, i)]}
<1>1. 0 \in T
  <2> DEFINE u == [i \in 0 .. 0 |-> Start]
  <2>1. u = [i \in 0 .. 0 |-> Body(u, i)]
    OBVIOUS
  <2> HIDE DEF u, Body
  <2> QED
    BY <2>1
<1>2. ASSUME NEW k \in 1 .. n, k - 1 \in T PROVE k \in T
  <2>1. PICK u : u = [i \in 0 .. k - 1 |-> Body(u, i)]
    BY <1>2
  <2> DEFINE v == [i \in 0 .. k |-> IF i < k THEN u[i] ELSE Turn(u, k)]
  <2>2. \A i \in 0 .. k : v[i] = Body(v, i)
    <3>1. \A i \in 0 .. k - 1 : u[i] = Body(u, i)
      <4> HIDE DEF Body
      <4> QED
        BY <2>1
    <3> HIDE DEF Start, Turn
    <3>2. \A i \in 0 .. k - 1 : v[i] = u[i]
      OBVIOUS
    <3>3. v[k] = Turn(u, k)
      OBVIOUS
    <3> HIDE DEF v
    <3>4. \A i \in 1 .. k : Turn(v, i) = Turn(u, i)
      BY <3>2 DEF Turn
    <3> QED
      BY <3>1, <3>2, <3>3, <3>4
  <2>3. v = [i \in 0 .. k |-> Body(v, i)]
    <3> HIDE DEF Body
    <3> QED
      BY <2>2
  <2> HIDE DEF v, Body
  <2> QED
    BY <2>3
<1>3. n \in T
  <2>1. \A k \in 1 .. n : k - 1 \in T => k \in T
    BY <1>2
  <2> HIDE DEF T
  <2>2. 0 .. n \subseteq T
    BY <1>1, <2>1, LoopInduction
  <2> QED
    BY <2>2
<1> DEFINE left == CHOOSE u : u = [i \in 0 .. n |-> Body(u, i)]
<1>4. ApplyTxs(ApplyMassMigration, t, txs) = left[n]
  BY DEF ApplyTxs
<1>5. left = [i \in 0 .. n |-> Body(left, i)]
  <2>1. \E u : u = [i \in 0 .. n |-> Body(u, i)]
    BY <1>3
  <2> HIDE DEF Body
  <2> QED
    BY <2>1
<1> HIDE DEF left
<1>6. \A i \in 0 .. n : left[i] = Body(left, i)
  <2> HIDE DEF Body
  <2> QED
    BY <1>5
<1>7. left[0] = Start /\ \A i \in 1 .. n : left[i] = Turn(left, i)
  <2> HIDE DEF Start, Turn
  <2> QED
    BY <1>6
<1>8. \A i \in 1 .. n, c \in Trees : apply[i][c] = ApplyMassMigration(c, txs[i])
  OBVIOUS
<1>9. ClientRuns(left, n, t, apply)
  BY <1>7, <1>8 DEF ClientRuns
<1> QED
  BY <1>4, <1>9

(* Whoever is safe in the end was safe after the first transaction.        *)
LEMMA SafeFromTheFirst ==
    ASSUME NEW n \in Nat, n >= 1, NEW left, IsSafe(left[n]),
           NEW t, NEW apply, ClientRuns(left, n, t, apply)
    PROVE  IsSafe(left[1])
<1> SUFFICES ASSUME ~IsSafe(left[1]) PROVE FALSE
  OBVIOUS
<1> DEFINE T == {i \in 0 .. n : i >= 1 => ~IsSafe(left[i])}
<1>1. 0 \in T
  OBVIOUS
<1>2. ASSUME NEW i \in 1 .. n, i - 1 \in T PROVE i \in T
  <2>1. CASE i = 1
    BY <2>1
  <2>2. CASE i > 1
    <3>1. ~IsSafe(left[i - 1]) /\ left[i] = left[i - 1]
      BY <1>2, <2>2 DEF ClientRuns
    <3> QED
      BY <3>1
  <2> QED
    BY <2>1, <2>2
<1>3. 0 .. n \subseteq T
  <2> HIDE DEF T
  <2> QED
    BY <1>1, <1>2, LoopInduction
<1> QED
  BY <1>3

(* A contract and the client agree on the trees of C, but for transactions *)
(* out of U, which the contract alone refuses.                             *)
AgreeOn(process, apply, n, U, C) ==
    \A i \in 1 .. n, c \in C :
        /\ IsOk(process[i][c]) <=> IsSafe(apply[i][c]) /\ i \in U
        /\ IsOk(process[i][c]) => /\ process[i][c].tree \in C
                                  /\ apply[i][c].tree = process[i][c].tree

(* If they agree on each transaction, then so do their loops.              *)
LEMMA LoopsAgree ==
    ASSUME NEW n \in Nat, NEW process \in [1 .. n -> [Trees -> Steps]], NEW t \in Trees,
           NEW loop, Runs(loop, n, Steps, Ended("Ok", t), Each(process, n)),
           NEW left, NEW apply, ClientRuns(left, n, t, apply),
           NEW U, NEW C \in SUBSET Trees, t \in C, AgreeOn(process, apply, n, U, C)
    PROVE  /\ IsOk(loop[n]) <=> IsSafe(left[n]) /\ 1 .. n \subseteq U
           /\ IsOk(loop[n]) => loop[n].tree \in C /\ left[n].tree = loop[n].tree
<1>1. /\ loop \in [0 .. n -> Steps] /\ loop[0] = Ended("Ok", t)
      /\ \A i \in 1 .. n : loop[i] = IF IsOk(loop[i - 1])
                                    THEN process[i][loop[i - 1].tree] ELSE loop[i - 1]
  <2>1. ASSUME NEW i \in 1 .. n
        PROVE  loop[i] = IF IsOk(loop[i - 1]) THEN process[i][loop[i - 1].tree]
                         ELSE loop[i - 1]
    <3>1. loop[i - 1] \in Steps /\ loop[i] = Each(process, n)[i][loop[i - 1]]
      BY DEF Runs
    <3> QED
      BY <3>1, EachType
  <2> QED
    BY <2>1 DEF Runs
<1> DEFINE Good(i) == /\ IsOk(loop[i]) <=> IsSafe(left[i]) /\ 1 .. i \subseteq U
                      /\ IsOk(loop[i]) => /\ loop[i].tree \in C
                                          /\ left[i].tree = loop[i].tree
           T == {i \in 0 .. n : Good(i)}
<1>2. 0 \in T
  <2>1. IsOk(loop[0]) /\ loop[0].tree = t
    BY <1>1, OkStep
  <2>2. IsSafe(left[0]) /\ left[0].tree = t
    BY DEF Left, IsSafe, ClientRuns
  <2>3. 1 .. 0 \subseteq U
    OBVIOUS
  <2> QED
    BY <2>1, <2>2, <2>3
<1>3. ASSUME NEW i \in 1 .. n, i - 1 \in T PROVE i \in T
  <2>1. Good(i - 1)
    BY <1>3
  <2>2. 1 .. i \subseteq U <=> 1 .. i - 1 \subseteq U /\ i \in U
    <3>1. 1 .. i = (1 .. i - 1) \union {i}
      OBVIOUS
    <3> QED
      BY <3>1
  <2>3. CASE ~IsOk(loop[i - 1])
    <3>1. ~IsOk(loop[i])
      BY <1>1, <2>3
    <3>2. ~IsSafe(left[i - 1]) => ~IsSafe(left[i])
      BY DEF ClientRuns
    <3>3. ~(IsSafe(left[i]) /\ 1 .. i \subseteq U)
      BY <2>1, <2>2, <2>3, <3>2
    <3> QED
      BY <3>1, <3>3
  <2>4. CASE IsOk(loop[i - 1])
    <3> DEFINE c == loop[i - 1].tree
    <3>1. c \in C /\ c \in Trees /\ left[i - 1].tree = c /\ IsSafe(left[i - 1])
          /\ 1 .. i - 1 \subseteq U
      BY <2>1, <2>4
    <3>2. loop[i] = process[i][c] /\ left[i] = apply[i][c]
      BY <1>1, <2>4, <3>1 DEF ClientRuns
    <3> HIDE DEF c
    <3>3. /\ IsOk(loop[i]) <=> IsSafe(left[i]) /\ i \in U
          /\ IsOk(loop[i]) => loop[i].tree \in C /\ left[i].tree = loop[i].tree
      BY <3>1, <3>2 DEF AgreeOn
    <3>4. IsOk(loop[i]) <=> IsSafe(left[i]) /\ 1 .. i \subseteq U
      BY <2>2, <3>1, <3>3
    <3> QED
      BY <3>3, <3>4
  <2> QED
    BY <2>3, <2>4
<1>4. 0 .. n \subseteq T
  <2>1. \A i \in 1 .. n : i - 1 \in T => i \in T
    BY <1>3
  <2> HIDE DEF T
  <2> QED
    BY <1>2, <2>1, LoopInduction
<1> QED
  BY <1>4

(* The trees that a commitment in one token can make of t: the states keep *)
(* their tokens, and new ones have that of the commitment.                 *)
GrownFrom(t, token) ==
    {c \in Trees :
        /\ DOMAIN t \subseteq DOMAIN c
        /\ \A i \in DOMAIN t : c[i].tokenType = t[i].tokenType
        /\ \A i \in DOMAIN c : i \notin DOMAIN t => c[i].tokenType = token}

(* What IsUniform says of the indices that are used.                       *)
InToken(t, index, token) == index \in DOMAIN t => t[index].tokenType = token

(* In such a tree a state has the token if it had it in t or is new.       *)
LEMMA GrownToken ==
    ASSUME NEW t, NEW token, NEW c \in GrownFrom(t, token), NEW index \in DOMAIN c
    PROVE  c[index].tokenType = token <=> InToken(t, index, token)
BY DEF GrownFrom, InToken

(* A step that creates no state makes such a tree of such a tree.          *)
LEMMA GrownOn ==
    ASSUME NEW t, NEW token, NEW c \in GrownFrom(t, token), NEW d \in Trees,
           Kept(c, d), DOMAIN d = DOMAIN c
    PROVE  d \in GrownFrom(t, token)
BY DEF GrownFrom, Kept

(* What a sender pays.                                                     *)
Debited(c, index, total) == [c EXCEPT ![index].balance = @ - total,
                                      ![index].nonce = @ + 1]

SentFrom(t, token, c, index, amount, fee, step) ==
    /\ IsOk(step) <=> /\ index \in DOMAIN c
                      /\ c[index].balance >= amount + fee
                      /\ amount > 0
                      /\ InToken(t, index, token)
    /\ IsOk(step) => /\ step.tree = Debited(c, index, amount + fee)
                     /\ step.tree \in GrownFrom(t, token)
                     /\ Kept(c, step.tree) /\ DOMAIN step.tree = DOMAIN c
                     /\ c[index].tokenType = token

(* What the contracts make of a sender, in the client's terms.             *)
LEMMA SenderAgrees ==
    ASSUME NEW t \in Trees, NEW token, NEW c \in GrownFrom(t, token),
           NEW index, NEW amount \in Nat, NEW fee \in Nat
    PROVE  SentFrom(t, token, c, index, amount, fee,
                    ProcessSender(c, index, token, amount, fee))
<1> DEFINE step == ProcessSender(c, index, token, amount, fee)
           paid == [c EXCEPT ![index].balance = @ - (amount + fee),
                             ![index].nonce = @ + 1]
<1>0. c \in Trees
  BY DEF GrownFrom
<1>1. CASE index \notin DOMAIN c
  <2>1. step = Ended("Reverts", c)
    BY <1>1 DEF ProcessSender, Reverts
  <2>2. ~IsOk(step)
    BY <2>1 DEF Ended, IsOk
  <2> QED
    BY <1>1, <2>2 DEF SentFrom
<1>2. CASE index \in DOMAIN c
  <2>1. c[index].balance \in Nat
    BY <1>0, <1>2, TreeType DEF UserState
  <2> DEFINE result == SenderResult(c[index], token, amount, fee)
  <2>2. step = Ended(result, IF result # "Ok" THEN c ELSE paid)
    BY <1>2 DEF ProcessSender
  <2>3. result = "Ok" <=> /\ amount > 0 /\ c[index].balance >= amount + fee
                          /\ c[index].tokenType = token
    BY <2>1 DEF SenderResult
  <2>4. c[index].tokenType = token <=> InToken(t, index, token)
    BY <1>2, GrownToken
  <2> HIDE DEF result, paid
  <2>5. IsOk(step) <=> result = "Ok"
    BY <2>2 DEF Ended, IsOk
  <2>6. IsOk(step) => step.tree = paid
    BY <2>2, <2>5 DEF Ended
  <2>7. /\ step \in Steps
        /\ IsOk(step) => Kept(c, step.tree) /\ DOMAIN step.tree = DOMAIN c
    BY <1>0, SenderStep
  <2> HIDE DEF step
  <2>8. IsOk(step) => step.tree \in GrownFrom(t, token)
    BY <2>7, GrownOn DEF Steps
  <2>9. /\ IsOk(step) <=> /\ index \in DOMAIN c /\ c[index].balance >= amount + fee
                          /\ amount > 0 /\ InToken(t, index, token)
        /\ IsOk(step) => c[index].tokenType = token
    BY <1>2, <2>3, <2>4, <2>5
  <2> QED
    BY <2>6, <2>7, <2>8, <2>9 DEF step, paid, Debited, SentFrom
<1> QED
  BY <1>1, <1>2

(* One transaction, by the contract and by the client.                     *)
Uniform(t, tx, token) == tx.amount > 0 /\ InToken(t, tx.fromIndex, token)

(* A mass migration.                                                       *)
LEMMA MassMigrationAgrees ==
    ASSUME NEW t \in Trees, NEW token, NEW c \in GrownFrom(t, token),
           NEW tx \in MassMigrationTx
    PROVE  LET step == ProcessSender(c, tx.fromIndex, token, tx.amount, tx.fee)
               left == ApplyMassMigration(c, tx)
           IN  /\ IsOk(step) <=> IsSafe(left) /\ Uniform(t, tx, token)
               /\ IsOk(step) => step.tree \in GrownFrom(t, token) /\ left.tree = step.tree
<1> DEFINE step == ProcessSender(c, tx.fromIndex, token, tx.amount, tx.fee)
           left == ApplyMassMigration(c, tx)
<1>1. tx.amount \in Nat /\ tx.fee \in Nat
  BY DEF MassMigrationTx
<1> HIDE DEF left
<1>2. /\ IsOk(step) <=> /\ tx.fromIndex \in DOMAIN c
                        /\ c[tx.fromIndex].balance >= tx.amount + tx.fee
                        /\ tx.amount > 0
                        /\ InToken(t, tx.fromIndex, token)
      /\ IsOk(step) => step.tree = Pay(c, tx) /\ step.tree \in GrownFrom(t, token)
  <2>1. Pay(c, tx) = Debited(c, tx.fromIndex, tx.amount + tx.fee)
    BY DEF Pay, Debited
  <2>2. SentFrom(t, token, c, tx.fromIndex, tx.amount, tx.fee, step)
    BY <1>1, SenderAgrees
  <2> QED
    BY <2>1, <2>2 DEF SentFrom
<1>3. /\ IsSafe(left) <=> /\ tx.fromIndex \in DOMAIN c
                          /\ c[tx.fromIndex].balance >= tx.amount + tx.fee
      /\ IsSafe(left) => left.tree = Pay(c, tx)
  BY DEF ApplyMassMigration, Left, IsSafe, CanPay, left
<1> HIDE DEF step
<1>4. IsOk(step) <=> IsSafe(left) /\ Uniform(t, tx, token)
  BY <1>2, <1>3 DEF Uniform
<1> QED
  BY <1>2, <1>3, <1>4 DEF step, left

(* A transfer.                                                             *)
LEMMA TransferAgrees ==
    ASSUME NEW t \in Trees, NEW token, NEW c \in GrownFrom(t, token), NEW tx \in TransferTx
    PROVE  LET step == ProcessTransfer(c, tx, token)
               left == ApplyTxTransfer(c, tx)
           IN  /\ IsOk(step) <=> IsSafe(left) /\ Uniform(t, tx, token)
               /\ IsOk(step) => step.tree \in GrownFrom(t, token) /\ left.tree = step.tree
<1> DEFINE step == ProcessTransfer(c, tx, token)
           left == ApplyTxTransfer(c, tx)
           sent == ProcessSender(c, tx.fromIndex, token, tx.amount, tx.fee)
           paid == ProcessReceiver(sent.tree, tx.toIndex, token, tx.amount)
<1>1. tx.amount \in Nat /\ tx.fee \in Nat
  BY DEF TransferTx
<1>2. /\ IsOk(sent) <=> /\ tx.fromIndex \in DOMAIN c
                        /\ c[tx.fromIndex].balance >= tx.amount + tx.fee
                        /\ tx.amount > 0
                        /\ InToken(t, tx.fromIndex, token)
      /\ IsOk(sent) => /\ sent.tree = Pay(c, tx) /\ sent.tree \in GrownFrom(t, token)
                       /\ Kept(c, sent.tree) /\ DOMAIN sent.tree = DOMAIN c
                       /\ c[tx.fromIndex].tokenType = token
  <2>1. Pay(c, tx) = Debited(c, tx.fromIndex, tx.amount + tx.fee)
    BY DEF Pay, Debited
  <2>2. SentFrom(t, token, c, tx.fromIndex, tx.amount, tx.fee, sent)
    BY <1>1, SenderAgrees
  <2> QED
    BY <2>1, <2>2 DEF SentFrom
<1>3. step = IF IsOk(sent) THEN paid ELSE sent
  BY DEF ProcessTransfer, Then
<1>4. /\ IsSafe(left) <=> /\ tx.fromIndex \in DOMAIN c /\ tx.toIndex \in DOMAIN c
                          /\ c[tx.fromIndex].balance >= tx.amount + tx.fee
                          /\ c[tx.fromIndex].tokenType = c[tx.toIndex].tokenType
      /\ IsSafe(left) => left.tree = [Pay(c, tx) EXCEPT ![tx.toIndex].balance = @ + tx.amount]
  BY DEF ApplyTxTransfer, Left, IsSafe, CanPay
<1>5. /\ IsOk(paid) <=> /\ tx.toIndex \in DOMAIN sent.tree
                        /\ sent.tree[tx.toIndex].tokenType = token
      /\ IsOk(paid) => paid.tree = [sent.tree EXCEPT ![tx.toIndex].balance = @ + tx.amount]
  BY DEF ProcessReceiver, Ended, IsOk, Reverts
<1>6. IsOk(sent) => /\ paid \in Steps
                    /\ IsOk(paid) => /\ Kept(sent.tree, paid.tree)
                                     /\ DOMAIN paid.tree = DOMAIN sent.tree
  <2>1. IsOk(sent) => sent.tree \in Trees
    BY <1>2 DEF GrownFrom
  <2> HIDE DEF sent, paid
  <2> QED
    BY <1>1, <2>1, ReceiverStep DEF paid
<1> HIDE DEF step, left, sent, paid
<1>7. CASE ~IsOk(sent)
  <2>1. ~IsOk(step)
    BY <1>3, <1>7
  <2>2. ~(IsSafe(left) /\ Uniform(t, tx, token))
    BY <1>2, <1>4, <1>7 DEF Uniform
  <2> QED
    BY <2>1, <2>2 DEF step, left
<1>8. CASE IsOk(sent)
  <2>1. step = paid
    BY <1>3, <1>8
  <2>2. tx.toIndex \in DOMAIN c => sent.tree[tx.toIndex].tokenType = c[tx.toIndex].tokenType
    BY <1>2, <1>8 DEF Kept
  <2>3. IsOk(step) <=> IsSafe(left) /\ Uniform(t, tx, token)
    BY <1>2, <1>4, <1>5, <1>8, <2>1, <2>2 DEF Uniform
  <2>4. IsOk(step) => left.tree = step.tree
    BY <1>2, <1>4, <1>5, <1>8, <2>1, <2>3
  <2>5. IsOk(step) => step.tree \in GrownFrom(t, token)
    BY <1>2, <1>6, <1>8, <2>1, GrownOn DEF Steps
  <2> QED
    BY <2>3, <2>4, <2>5 DEF step, left
<1> QED
  BY <1>7, <1>8

(* A transfer to a new state, which has the token of its sender.           *)
LEMMA Create2TransferAgrees ==
    ASSUME NEW t \in Trees, NEW token, NEW c \in GrownFrom(t, token),
           NEW tx \in Create2TransferTx
    PROVE  LET step == ProcessCreate2Transfer(c, tx, token)
               left == ApplyTxCreate2Transfer(c, tx)
           IN  /\ IsOk(step) <=> IsSafe(left) /\ Uniform(t, tx, token)
               /\ IsOk(step) => step.tree \in GrownFrom(t, token) /\ left.tree = step.tree
<1> DEFINE step == ProcessCreate2Transfer(c, tx, token)
           left == ApplyTxCreate2Transfer(c, tx)
           sent == ProcessSender(c, tx.fromIndex, token, tx.amount, tx.fee)
           state == CreateState(tx.toAccID, token, tx.amount)
           made == ProcessNewReceiver(sent.tree, tx.toIndex, state)
           grown == Merged(sent.tree, [i \in {tx.toIndex} |-> state])
<1>1. tx.amount \in Nat /\ tx.fee \in Nat
  BY DEF Create2TransferTx
<1>2. /\ IsOk(sent) <=> /\ tx.fromIndex \in DOMAIN c
                        /\ c[tx.fromIndex].balance >= tx.amount + tx.fee
                        /\ tx.amount > 0
                        /\ InToken(t, tx.fromIndex, token)
      /\ IsOk(sent) => /\ sent.tree = Pay(c, tx) /\ sent.tree \in GrownFrom(t, token)
                       /\ DOMAIN sent.tree = DOMAIN c
                       /\ c[tx.fromIndex].tokenType = token
  <2>1. Pay(c, tx) = Debited(c, tx.fromIndex, tx.amount + tx.fee)
    BY DEF Pay, Debited
  <2>2. SentFrom(t, token, c, tx.fromIndex, tx.amount, tx.fee, sent)
    BY <1>1, SenderAgrees
  <2> QED
    BY <2>1, <2>2 DEF SentFrom
<1>3. step = IF IsOk(sent) THEN made ELSE sent
  BY DEF ProcessCreate2Transfer, Then
<1>4. /\ IsSafe(left) <=> /\ tx.fromIndex \in DOMAIN c /\ tx.toIndex \notin DOMAIN c
                          /\ c[tx.fromIndex].balance >= tx.amount + tx.fee
      /\ IsSafe(left) => left.tree =
            Merged(Pay(c, tx), [i \in {tx.toIndex} |->
                       CreateState(tx.toAccID, c[tx.fromIndex].tokenType, tx.amount)])
  BY DEF ApplyTxCreate2Transfer, Left, IsSafe, CanPay
<1>5. /\ IsOk(made) <=> tx.toIndex \notin DOMAIN sent.tree
      /\ IsOk(made) => made.tree = grown
  BY DEF ProcessNewReceiver, Ended, IsOk, Reverts
<1>6. step \in Steps
  <2>1. c \in Trees
    BY DEF GrownFrom
  <2> QED
    BY <2>1, Create2TransferStep DEF Create2TransferTx
<1>7. IsOk(sent) /\ tx.toIndex \notin DOMAIN sent.tree /\ grown \in Trees
         => grown \in GrownFrom(t, token)
  <2> HIDE DEF sent
  <2>1. state.tokenType = token
    BY DEF CreateState
  <2> HIDE DEF state
  <2>2. /\ DOMAIN grown = DOMAIN sent.tree \union {tx.toIndex}
        /\ \A i \in DOMAIN sent.tree : grown[i] = sent.tree[i]
        /\ tx.toIndex \notin DOMAIN sent.tree => grown[tx.toIndex] = state
    BY DEF Merged
  <2> HIDE DEF grown
  <2> QED
    BY <1>2, <2>1, <2>2 DEF GrownFrom
<1> HIDE DEF step, left, sent, made, grown
<1>8. CASE ~IsOk(sent)
  <2>1. ~IsOk(step)
    BY <1>3, <1>8
  <2>2. ~(IsSafe(left) /\ Uniform(t, tx, token))
    BY <1>2, <1>4, <1>8 DEF Uniform
  <2> QED
    BY <2>1, <2>2 DEF step, left
<1>9. CASE IsOk(sent)
  <2>1. step = made
    BY <1>3, <1>9
  <2>2. IsOk(step) <=> IsSafe(left) /\ Uniform(t, tx, token)
    BY <1>2, <1>4, <1>5, <1>9, <2>1 DEF Uniform
  <2>3. IsOk(step) => left.tree = step.tree
    BY <1>2, <1>4, <1>5, <1>9, <2>1, <2>2 DEF grown
  <2>4. IsOk(step) => step.tree \in GrownFrom(t, token)
    BY <1>5, <1>6, <1>7, <1>9, <2>1 DEF Steps
  <2> QED
    BY <2>2, <2>3, <2>4 DEF step, left
<1> QED
  BY <1>8, <1>9

(* The fees, by the contract and by the client.                            *)
LEMMA FeeAgrees ==
    ASSUME NEW t, NEW token, NEW c \in GrownFrom(t, token), NEW fees, NEW index
    PROVE  LET step == ProcessReceiver(c, index, token, fees)
               left == ApplyFee(c, fees, index)
           IN  /\ IsOk(step) <=> IsSafe(left) /\ InToken(t, index, token)
               /\ IsOk(step) => left.tree = step.tree
<1>1. CASE index \notin DOMAIN c
  BY <1>1 DEF ProcessReceiver, ApplyFee, Reverts, Ended, Left, IsOk, IsSafe
<1>2. CASE index \in DOMAIN c
  <2>1. c[index].tokenType = token <=> InToken(t, index, token)
    BY <1>2, GrownToken
  <2> QED
    BY <1>2, <2>1 DEF ProcessReceiver, ApplyFee, Ended, Left, IsOk, IsSafe
<1> QED
  BY <1>1, <1>2

(* The transactions of a commitment of transfers.                          *)
LEMMA TransferLoopAgrees ==
    ASSUME NEW t \in Trees, NEW token, NEW txs \in Seq(TransferTx), Len(txs) >= 1
    PROVE  LET step == Transfers(t, txs, token)
               left == ApplyTxs(ApplyTxTransfer, t, txs)
           IN  /\ IsOk(step) <=> /\ IsSafe(left)
                                 /\ \A i \in DOMAIN txs : Uniform(t, txs[i], token)
               /\ IsOk(step) => step.tree \in GrownFrom(t, token) /\ left.tree = step.tree
               /\ IsSafe(left) => Head(txs).fromIndex \in DOMAIN t
<1> DEFINE n == Len(txs)
           end == Transfers(t, txs, token)
           mine == ApplyTxs(ApplyTxTransfer, t, txs)
           process == [i \in 1 .. n |-> [c \in Trees |->
                         ProcessTransfer(c, txs[i], token)]]
           apply == [i \in 1 .. n |-> [c \in Trees |-> ApplyTxTransfer(c, txs[i])]]
           U == {i \in 1 .. n : Uniform(t, txs[i], token)}
           C == GrownFrom(t, token)
<1>1. n \in Nat /\ n >= 1 /\ DOMAIN txs = 1 .. n
  BY LenProperties
<1>2. \A i \in 1 .. n : txs[i] \in TransferTx
  BY <1>1
<1>3. /\ process \in [1 .. n -> [Trees -> Steps]]
      /\ \E loop : /\ Runs(loop, n, Steps, Ended("Ok", t), Each(process, n))
                   /\ end = loop[n]
  BY <1>1, TransferRuns
<1>4. \E left : ClientRuns(left, n, t, apply) /\ mine = left[n]
  BY <1>1, ClientTransfersRun
<1>5. \A i \in 1 .. n, c \in Trees :
         /\ process[i][c] = ProcessTransfer(c, txs[i], token)
         /\ apply[i][c] = ApplyTxTransfer(c, txs[i])
  BY <1>1
<1>6. C \in SUBSET Trees /\ t \in C
  BY DEF GrownFrom
<1>7. \A i \in 1 .. n : i \in U <=> Uniform(t, txs[i], token)
  BY <1>1
<1>8. 1 .. n \subseteq U <=> \A i \in DOMAIN txs : Uniform(t, txs[i], token)
  BY <1>1, <1>7
<1>9. Head(txs) = txs[1]
  BY <1>1
<1> HIDE DEF process, apply, U, C, n, end, mine
<1>10. PICK loop : Runs(loop, n, Steps, Ended("Ok", t), Each(process, n)) /\ end = loop[n]
  BY <1>3
<1>11. PICK left : ClientRuns(left, n, t, apply) /\ mine = left[n]
  BY <1>4
<1>12. AgreeOn(process, apply, n, U, C)
  <2> SUFFICES ASSUME NEW i \in 1 .. n, NEW c \in C
               PROVE  /\ IsOk(process[i][c]) <=> IsSafe(apply[i][c]) /\ i \in U
                      /\ IsOk(process[i][c]) =>
                            /\ process[i][c].tree \in C
                            /\ apply[i][c].tree = process[i][c].tree
    BY DEF AgreeOn
  <2>1. c \in Trees
    BY <1>6
  <2>2. txs[i] \in TransferTx
    BY <1>2
  <2>3. c \in GrownFrom(t, token)
    BY DEF C
  <2>4. LET step == ProcessTransfer(c, txs[i], token)
            left_ == ApplyTxTransfer(c, txs[i])
        IN  /\ IsOk(step) <=> IsSafe(left_) /\ Uniform(t, txs[i], token)
            /\ IsOk(step) => step.tree \in C /\ left_.tree = step.tree
    BY <2>2, <2>3, TransferAgrees DEF C
  <2> QED
    BY <1>5, <1>7, <2>1, <2>4
<1>13. /\ IsOk(loop[n]) <=> IsSafe(left[n]) /\ 1 .. n \subseteq U
       /\ IsOk(loop[n]) => loop[n].tree \in C /\ left[n].tree = loop[n].tree
  BY <1>1, <1>3, <1>6, <1>10, <1>11, <1>12, LoopsAgree
<1>14. ASSUME IsSafe(left[n]) PROVE Head(txs).fromIndex \in DOMAIN t
  <2>1. IsSafe(left[1])
    BY <1>1, <1>11, <1>14, SafeFromTheFirst
  <2>2. left[1] = apply[1][t]
    BY <1>1, <1>11 DEF ClientRuns, Left, IsSafe
  <2>3. apply[1][t] = ApplyTxTransfer(t, txs[1])
    BY <1>1, <1>5
  <2>4. txs[1].fromIndex \in DOMAIN t
    BY <2>1, <2>2, <2>3 DEF ApplyTxTransfer, Left, IsSafe
  <2> QED
    BY <1>9, <2>4
<1> QED
  BY <1>8, <1>10, <1>11, <1>13, <1>14 DEF C, end, mine

(* The transactions of a commitment of transfers to new states.            *)
LEMMA Create2TransferLoopAgrees ==
    ASSUME NEW t \in Trees, NEW token, NEW txs \in Seq(Create2TransferTx), Len(txs) >= 1
    PROVE  LET step == Create2Transfers(t, txs, token)
               left == ApplyTxs(ApplyTxCreate2Transfer, t, txs)
           IN  /\ IsOk(step) <=> /\ IsSafe(left)
                                 /\ \A i \in DOMAIN txs : Uniform(t, txs[i], token)
               /\ IsOk(step) => step.tree \in GrownFrom(t, token) /\ left.tree = step.tree
               /\ IsSafe(left) => Head(txs).fromIndex \in DOMAIN t
<1> DEFINE n == Len(txs)
           end == Create2Transfers(t, txs, token)
           mine == ApplyTxs(ApplyTxCreate2Transfer, t, txs)
           process == [i \in 1 .. n |-> [c \in Trees |->
                         ProcessCreate2Transfer(c, txs[i], token)]]
           apply == [i \in 1 .. n |-> [c \in Trees |-> ApplyTxCreate2Transfer(c, txs[i])]]
           U == {i \in 1 .. n : Uniform(t, txs[i], token)}
           C == GrownFrom(t, token)
<1>1. n \in Nat /\ n >= 1 /\ DOMAIN txs = 1 .. n
  BY LenProperties
<1>2. \A i \in 1 .. n : txs[i] \in Create2TransferTx
  BY <1>1
<1>3. /\ process \in [1 .. n -> [Trees -> Steps]]
      /\ \E loop : /\ Runs(loop, n, Steps, Ended("Ok", t), Each(process, n))
                   /\ end = loop[n]
  BY <1>1, Create2TransferRuns
<1>4. \E left : ClientRuns(left, n, t, apply) /\ mine = left[n]
  BY <1>1, ClientCreate2TransfersRun
<1>5. \A i \in 1 .. n, c \in Trees :
         /\ process[i][c] = ProcessCreate2Transfer(c, txs[i], token)
         /\ apply[i][c] = ApplyTxCreate2Transfer(c, txs[i])
  BY <1>1
<1>6. C \in SUBSET Trees /\ t \in C
  BY DEF GrownFrom
<1>7. \A i \in 1 .. n : i \in U <=> Uniform(t, txs[i], token)
  BY <1>1
<1>8. 1 .. n \subseteq U <=> \A i \in DOMAIN txs : Uniform(t, txs[i], token)
  BY <1>1, <1>7
<1>9. Head(txs) = txs[1]
  BY <1>1
<1> HIDE DEF process, apply, U, C, n, end, mine
<1>10. PICK loop : Runs(loop, n, Steps, Ended("Ok", t), Each(process, n)) /\ end = loop[n]
  BY <1>3
<1>11. PICK left : ClientRuns(left, n, t, apply) /\ mine = left[n]
  BY <1>4
<1>12. AgreeOn(process, apply, n, U, C)
  <2> SUFFICES ASSUME NEW i \in 1 .. n, NEW c \in C
               PROVE  /\ IsOk(process[i][c]) <=> IsSafe(apply[i][c]) /\ i \in U
                      /\ IsOk(process[i][c]) =>
                            /\ process[i][c].tree \in C
                            /\ apply[i][c].tree = process[i][c].tree
    BY DEF AgreeOn
  <2>1. c \in Trees
    BY <1>6
  <2>2. txs[i] \in Create2TransferTx
    BY <1>2
  <2>3. c \in GrownFrom(t, token)
    BY DEF C
  <2>4. LET step == ProcessCreate2Transfer(c, txs[i], token)
            left_ == ApplyTxCreate2Transfer(c, txs[i])
        IN  /\ IsOk(step) <=> IsSafe(left_) /\ Uniform(t, txs[i], token)
            /\ IsOk(step) => step.tree \in C /\ left_.tree = step.tree
    BY <2>2, <2>3, Create2TransferAgrees DEF C
  <2> QED
    BY <1>5, <1>7, <2>1, <2>4
<1>13. /\ IsOk(loop[n]) <=> IsSafe(left[n]) /\ 1 .. n \subseteq U
       /\ IsOk(loop[n]) => loop[n].tree \in C /\ left[n].tree = loop[n].tree
  BY <1>1, <1>3, <1>6, <1>10, <1>11, <1>12, LoopsAgree
<1>14. ASSUME IsSafe(left[n]) PROVE Head(txs).fromIndex \in DOMAIN t
  <2>1. IsSafe(left[1])
    BY <1>1, <1>11, <1>14, SafeFromTheFirst
  <2>2. left[1] = apply[1][t]
    BY <1>1, <1>11 DEF ClientRuns, Left, IsSafe
  <2>3. apply[1][t] = ApplyTxCreate2Transfer(t, txs[1])
    BY <1>1, <1>5
  <2>4. txs[1].fromIndex \in DOMAIN t
    BY <2>1, <2>2, <2>3 DEF ApplyTxCreate2Transfer, Left, IsSafe
  <2> QED
    BY <1>9, <2>4
<1> QED
  BY <1>8, <1>10, <1>11, <1>13, <1>14 DEF C, end, mine

(* The transactions of a mass migration.                                   *)
LEMMA MassMigrationLoopAgrees ==
    ASSUME NEW t \in Trees, NEW token, NEW txs \in Seq(MassMigrationTx), Len(txs) >= 1
    PROVE  LET step == Senders(t, txs, token)
               left == ApplyTxs(ApplyMassMigration, t, txs)
           IN  /\ IsOk(step) <=> /\ IsSafe(left)
                                 /\ \A i \in DOMAIN txs : Uniform(t, txs[i], token)
               /\ IsOk(step) => step.tree \in GrownFrom(t, token) /\ left.tree = step.tree
               /\ IsSafe(left) => Head(txs).fromIndex \in DOMAIN t
<1> DEFINE n == Len(txs)
           end == Senders(t, txs, token)
           mine == ApplyTxs(ApplyMassMigration, t, txs)
           process == [i \in 1 .. n |-> [c \in Trees |->
                         ProcessSender(c, txs[i].fromIndex, token,
                                       txs[i].amount, txs[i].fee)]]
           apply == [i \in 1 .. n |-> [c \in Trees |-> ApplyMassMigration(c, txs[i])]]
           U == {i \in 1 .. n : Uniform(t, txs[i], token)}
           C == GrownFrom(t, token)
<1>1. n \in Nat /\ n >= 1 /\ DOMAIN txs = 1 .. n
  BY LenProperties
<1>2. \A i \in 1 .. n : txs[i] \in MassMigrationTx
  BY <1>1
<1>3. /\ process \in [1 .. n -> [Trees -> Steps]]
      /\ \E loop : /\ Runs(loop, n, Steps, Ended("Ok", t), Each(process, n))
                   /\ end = loop[n]
  BY <1>1, SenderRuns
<1>4. \E left : ClientRuns(left, n, t, apply) /\ mine = left[n]
  BY <1>1, ClientMassMigrationsRun
<1>5. \A i \in 1 .. n, c \in Trees :
         /\ process[i][c] = ProcessSender(c, txs[i].fromIndex, token,
                              txs[i].amount, txs[i].fee)
         /\ apply[i][c] = ApplyMassMigration(c, txs[i])
  BY <1>1
<1>6. C \in SUBSET Trees /\ t \in C
  BY DEF GrownFrom
<1>7. \A i \in 1 .. n : i \in U <=> Uniform(t, txs[i], token)
  BY <1>1
<1>8. 1 .. n \subseteq U <=> \A i \in DOMAIN txs : Uniform(t, txs[i], token)
  BY <1>1, <1>7
<1>9. Head(txs) = txs[1]
  BY <1>1
<1> HIDE DEF process, apply, U, C, n, end, mine
<1>10. PICK loop : Runs(loop, n, Steps, Ended("Ok", t), Each(process, n)) /\ end = loop[n]
  BY <1>3
<1>11. PICK left : ClientRuns(left, n, t, apply) /\ mine = left[n]
  BY <1>4
<1>12. AgreeOn(process, apply, n, U, C)
  <2> SUFFICES ASSUME NEW i \in 1 .. n, NEW c \in C
               PROVE  /\ IsOk(process[i][c]) <=> IsSafe(apply[i][c]) /\ i \in U
                      /\ IsOk(process[i][c]) =>
                            /\ process[i][c].tree \in C
                            /\ apply[i][c].tree = process[i][c].tree
    BY DEF AgreeOn
  <2>1. c \in Trees
    BY <1>6
  <2>2. txs[i] \in MassMigrationTx
    BY <1>2
  <2>3. c \in GrownFrom(t, token)
    BY DEF C
  <2>4. LET step == ProcessSender(c, txs[i].fromIndex, token, txs[i].amount, txs[i].fee)
            left_ == ApplyMassMigration(c, txs[i])
        IN  /\ IsOk(step) <=> IsSafe(left_) /\ Uniform(t, txs[i], token)
            /\ IsOk(step) => step.tree \in C /\ left_.tree = step.tree
    BY <2>2, <2>3, MassMigrationAgrees DEF C
  <2> QED
    BY <1>5, <1>7, <2>1, <2>4
<1>13. /\ IsOk(loop[n]) <=> IsSafe(left[n]) /\ 1 .. n \subseteq U
       /\ IsOk(loop[n]) => loop[n].tree \in C /\ left[n].tree = loop[n].tree
  BY <1>1, <1>3, <1>6, <1>10, <1>11, <1>12, LoopsAgree
<1>14. ASSUME IsSafe(left[n]) PROVE Head(txs).fromIndex \in DOMAIN t
  <2>1. IsSafe(left[1])
    BY <1>1, <1>11, <1>14, SafeFromTheFirst
  <2>2. left[1] = apply[1][t]
    BY <1>1, <1>11 DEF ClientRuns, Left, IsSafe
  <2>3. apply[1][t] = ApplyMassMigration(t, txs[1])
    BY <1>1, <1>5
  <2>4. txs[1].fromIndex \in DOMAIN t
    BY <2>1, <2>2, <2>3 DEF ApplyMassMigration, Left, IsSafe
  <2> QED
    BY <1>9, <2>4
<1> QED
  BY <1>8, <1>10, <1>11, <1>13, <1>14 DEF C, end, mine

(* ClientAgrees for a commitment of transfers, with its fees.              *)
LEMMA TransferCommitAgrees ==
    ASSUME NEW t \in Trees, NEW body \in TransferBodies
    PROVE  LET contract == ProcessTransferCommit(t, body)
           IN  /\ IsOk(contract) /\ body.txs # <<>> <=>
                    /\ AllSafe(ApplyTxTransfer, t, body)
                    /\ IsUniform(t, body, FirstToken(t, body))
               /\ IsOk(contract) /\ body.txs # <<>> =>
                    contract.tree = ApplyTransferBatch(t, body).tree
<1> DEFINE token == TokenTypeOf(t, body.txs, body.feeReceiver)
           fees == Fees(body.txs)
           loop == Transfers(t, body.txs, token)
           fee == ProcessReceiver(loop.tree, body.feeReceiver, token, fees)
           step == ProcessTransferCommit(t, body)
           left == ApplyTxs(ApplyTxTransfer, t, body.txs)
           paid == ApplyFee(left.tree, fees, body.feeReceiver)
           batch == ApplyTransferBatch(t, body)
<1>1. CASE body.txs = <<>>
  BY <1>1 DEF AllSafe
<1>2. CASE body.txs # <<>>
  <2>1. body.txs \in Seq(TransferTx) /\ Len(body.txs) >= 1
    <3>1. body.txs \in Seq(TransferTx)
      BY TransfersAssumption DEF TransferTx
    <3> QED
      BY <1>2, <3>1, LenProperties, EmptySeq
  <2>2. step = IF IsOk(loop) THEN fee ELSE loop
    BY DEF ProcessTransferCommit, Then, Transfers
  <2>3. AllSafe(ApplyTxTransfer, t, body) <=> IsSafe(left) /\ IsSafe(batch)
    BY <1>2 DEF AllSafe, ApplyTransferBatch
  <2>4. IsSafe(left) => batch = paid
    BY <1>2 DEF ApplyTransferBatch, ApplyBatch, IsSafe
  <2> HIDE DEF step, batch, paid, left, fee, loop, token, fees
  <2>5. Head(body.txs).fromIndex \in DOMAIN t => token = FirstToken(t, body)
    BY <1>2 DEF token, TokenTypeOf, FirstToken
  <2>6. /\ IsOk(loop) <=> /\ IsSafe(left)
                          /\ \A i \in DOMAIN body.txs : Uniform(t, body.txs[i], token)
        /\ IsOk(loop) => loop.tree \in GrownFrom(t, token) /\ left.tree = loop.tree
        /\ IsSafe(left) => Head(body.txs).fromIndex \in DOMAIN t
    BY <2>1, TransferLoopAgrees DEF loop, left
  <2>7. IsUniform(t, body, token) <=>
           /\ \A i \in DOMAIN body.txs : Uniform(t, body.txs[i], token)
           /\ InToken(t, body.feeReceiver, token)
    BY DEF IsUniform, Uniform, InToken
  <2>8. IsOk(loop) => /\ IsOk(fee) <=> IsSafe(paid) /\ InToken(t, body.feeReceiver, token)
                      /\ IsOk(fee) => paid.tree = fee.tree
    BY <2>6, FeeAgrees DEF fee, paid
  <2>9. /\ IsOk(step) <=> IsOk(loop) /\ IsOk(fee)
        /\ IsOk(step) => step.tree = fee.tree
    BY <2>2
  <2>10. IsOk(step) <=> IsSafe(left) /\ IsSafe(batch) /\ IsUniform(t, body, token)
    BY <2>4, <2>6, <2>7, <2>8, <2>9
  <2>11. IsOk(step) => step.tree = batch.tree
    BY <2>4, <2>6, <2>8, <2>9
  <2>12. IsOk(step) <=> /\ IsSafe(left) /\ IsSafe(batch)
                        /\ IsUniform(t, body, FirstToken(t, body))
    BY <2>5, <2>6, <2>10
  <2> QED
    BY <1>2, <2>3, <2>11, <2>12 DEF step, batch
<1> QED
  BY <1>1, <1>2

(* ClientAgrees for a commitment of transfers to new states.               *)
LEMMA Create2TransferCommitAgrees ==
    ASSUME NEW t \in Trees, NEW body \in Create2TransferBodies
    PROVE  LET contract == ProcessCreate2TransferCommit(t, body)
           IN  /\ IsOk(contract) /\ body.txs # <<>> <=>
                    /\ AllSafe(ApplyTxCreate2Transfer, t, body)
                    /\ IsUniform(t, body, FirstToken(t, body))
               /\ IsOk(contract) /\ body.txs # <<>> =>
                    contract.tree = ApplyCreate2TransferBatch(t, body).tree
<1> DEFINE token == TokenTypeOf(t, body.txs, body.feeReceiver)
           fees == Fees(body.txs)
           loop == Create2Transfers(t, body.txs, token)
           fee == ProcessReceiver(loop.tree, body.feeReceiver, token, fees)
           step == ProcessCreate2TransferCommit(t, body)
           left == ApplyTxs(ApplyTxCreate2Transfer, t, body.txs)
           paid == ApplyFee(left.tree, fees, body.feeReceiver)
           batch == ApplyCreate2TransferBatch(t, body)
<1>1. CASE body.txs = <<>>
  BY <1>1 DEF AllSafe
<1>2. CASE body.txs # <<>>
  <2>1. body.txs \in Seq(Create2TransferTx) /\ Len(body.txs) >= 1
    <3>1. body.txs \in Seq(Create2TransferTx)
      BY Create2TransfersAssumption DEF Create2TransferTx
    <3> QED
      BY <1>2, <3>1, LenProperties, EmptySeq
  <2>2. step = IF IsOk(loop) THEN fee ELSE loop
    BY DEF ProcessCreate2TransferCommit, Then, Create2Transfers
  <2>3. AllSafe(ApplyTxCreate2Transfer, t, body) <=> IsSafe(left) /\ IsSafe(batch)
    BY <1>2 DEF AllSafe, ApplyCreate2TransferBatch
  <2>4. IsSafe(left) => batch = paid
    BY <1>2 DEF ApplyCreate2TransferBatch, ApplyBatch, IsSafe
  <2> HIDE DEF step, batch, paid, left, fee, loop, token, fees
  <2>5. Head(body.txs).fromIndex \in DOMAIN t => token = FirstToken(t, body)
    BY <1>2 DEF token, TokenTypeOf, FirstToken
  <2>6. /\ IsOk(loop) <=> /\ IsSafe(left)
                          /\ \A i \in DOMAIN body.txs : Uniform(t, body.txs[i], token)
        /\ IsOk(loop) => loop.tree \in GrownFrom(t, token) /\ left.tree = loop.tree
        /\ IsSafe(left) => Head(body.txs).fromIndex \in DOMAIN t
    BY <2>1, Create2TransferLoopAgrees DEF loop, left
  <2>7. IsUniform(t, body, token) <=>
           /\ \A i \in DOMAIN body.txs : Uniform(t, body.txs[i], token)
           /\ InToken(t, body.feeReceiver, token)
    BY DEF IsUniform, Uniform, InToken
  <2>8. IsOk(loop) => /\ IsOk(fee) <=> IsSafe(paid) /\ InToken(t, body.feeReceiver, token)
                      /\ IsOk(fee) => paid.tree = fee.tree
    BY <2>6, FeeAgrees DEF fee, paid
  <2>9. /\ IsOk(step) <=> IsOk(loop) /\ IsOk(fee)
        /\ IsOk(step) => step.tree = fee.tree
    BY <2>2
  <2>10. IsOk(step) <=> IsSafe(left) /\ IsSafe(batch) /\ IsUniform(t, body, token)
    BY <2>4, <2>6, <2>7, <2>8, <2>9
  <2>11. IsOk(step) => step.tree = batch.tree
    BY <2>4, <2>6, <2>8, <2>9
  <2>12. IsOk(step) <=> /\ IsSafe(left) /\ IsSafe(batch)
                        /\ IsUniform(t, body, FirstToken(t, body))
    BY <2>5, <2>6, <2>10
  <2> QED
    BY <1>2, <2>3, <2>11, <2>12 DEF step, batch
<1> QED
  BY <1>1, <1>2

(* ClientAgrees for a mass migration.                                      *)
LEMMA MassMigrationCommitAgrees ==
    ASSUME NEW t \in Trees, NEW body \in MassMigrationBodies
    PROVE  LET contract == ProcessMassMigrationCommit(t, body)
           IN  /\ IsOk(contract) /\ body.txs # <<>> <=>
                    /\ AllSafe(ApplyMassMigration, t, body)
                    /\ IsUniform(t, body, body.tokenID)
                    /\ MigrationResult(t, body) = "Ok"
               /\ IsOk(contract) /\ body.txs # <<>> =>
                    contract.tree = ApplyMassMigrationBatch(t, body).tree
<1> DEFINE token == body.tokenID
           fees == Fees(body.txs)
           loop == Senders(t, body.txs, token)
           fee == ProcessReceiver(loop.tree, body.feeReceiver, token, fees)
           step == ProcessMassMigrationCommit(t, body)
           left == ApplyTxs(ApplyMassMigration, t, body.txs)
           paid == ApplyFee(left.tree, fees, body.feeReceiver)
           batch == ApplyMassMigrationBatch(t, body)
<1>1. CASE body.txs = <<>>
  BY <1>1 DEF AllSafe
<1>2. CASE body.txs # <<>>
  <2>1. body.txs \in Seq(MassMigrationTx) /\ Len(body.txs) >= 1
    <3>1. body.txs \in Seq(MassMigrationTx)
      BY MassMigrationsAssumption DEF MassMigrationTx
    <3> QED
      BY <1>2, <3>1, LenProperties, EmptySeq
  <2>2. step = IF IsOk(loop)
               THEN IF IsOk(fee) THEN Ended(MigrationResult(t, body), fee.tree) ELSE fee
               ELSE loop
    BY DEF ProcessMassMigrationCommit, Then, Senders
  <2>3. AllSafe(ApplyMassMigration, t, body) <=> IsSafe(left) /\ IsSafe(batch)
    BY <1>2 DEF AllSafe, ApplyMassMigrationBatch
  <2>4. IsSafe(left) => batch = paid
    BY <1>2 DEF ApplyMassMigrationBatch, ApplyBatch, IsSafe
  <2> HIDE DEF step, batch, paid, left, fee, loop, token, fees
  <2>5. token = body.tokenID
    BY DEF token
  <2>6. /\ IsOk(loop) <=> /\ IsSafe(left)
                          /\ \A i \in DOMAIN body.txs : Uniform(t, body.txs[i], token)
        /\ IsOk(loop) => loop.tree \in GrownFrom(t, token) /\ left.tree = loop.tree
        /\ IsSafe(left) => Head(body.txs).fromIndex \in DOMAIN t
    BY <2>1, MassMigrationLoopAgrees DEF loop, left
  <2>7. IsUniform(t, body, token) <=>
           /\ \A i \in DOMAIN body.txs : Uniform(t, body.txs[i], token)
           /\ InToken(t, body.feeReceiver, token)
    BY DEF IsUniform, Uniform, InToken
  <2>8. IsOk(loop) => /\ IsOk(fee) <=> IsSafe(paid) /\ InToken(t, body.feeReceiver, token)
                      /\ IsOk(fee) => paid.tree = fee.tree
    BY <2>6, FeeAgrees DEF fee, paid
  <2>9. /\ IsOk(step) <=> IsOk(loop) /\ IsOk(fee) /\ MigrationResult(t, body) = "Ok"
        /\ IsOk(step) => step.tree = fee.tree
    BY <2>2 DEF Ended, IsOk
  <2>10. IsOk(step) <=> /\ IsSafe(left) /\ IsSafe(batch) /\ IsUniform(t, body, token)
                        /\ MigrationResult(t, body) = "Ok"
    BY <2>4, <2>6, <2>7, <2>8, <2>9
  <2>11. IsOk(step) => step.tree = batch.tree
    BY <2>4, <2>6, <2>8, <2>9
  <2> QED
    BY <1>2, <2>3, <2>5, <2>10, <2>11 DEF step, batch
<1> QED
  BY <1>1, <1>2

(* ClientAgrees of every state of ChainInv.                                *)
LEMMA ClientsTreeAgrees == ChainInv => ClientAgrees
<1> SUFFICES ASSUME ChainInv PROVE ClientAgrees
  OBVIOUS
<1>1. tree \in Trees
  BY DEF ChainInv, ChainType
<1> QED
  BY <1>1, TransferCommitAgrees, Create2TransferCommitAgrees, MassMigrationCommitAgrees
     DEF ClientAgrees
-----------------------------------------------------------------------------
(* What is answered before signing (Frontend), beside the contracts.       *)

(* What a sender's answer says of the tree.                                *)
AnswersFor(t, index, step, paid) ==
    /\ paid.result = step.result
    /\ IsOk(step) => /\ step.tree = [t EXCEPT ![index] = paid.state]
                     /\ paid.state \in UserState
                     /\ paid.state.tokenType = t[index].tokenType

(* validateAndApplySender() answers what processSender() does.             *)
LEMMA SenderAnswered ==
    ASSUME NEW t \in Trees, NEW index \in DOMAIN t, NEW amount \in Nat, NEW fee \in Nat
    PROVE  AnswersFor(t, index,
                      ProcessSender(t, index, t[index].tokenType, amount, fee),
                      validateAndApplySender(t[index], amount, fee))
<1> DEFINE token == t[index].tokenType
           result == SenderResult(t[index], token, amount, fee)
           step == ProcessSender(t, index, token, amount, fee)
           paid == validateAndApplySender(t[index], amount, fee)
           state == [t[index] EXCEPT !.balance = @ - (amount + fee), !.nonce = @ + 1]
<1>1. t[index] \in UserState
  BY TreeType
<1>2. step = Ended(result, IF result # "Ok" THEN t ELSE [t EXCEPT ![index] = state])
  BY <1>1 DEF ProcessSender
<1>3. paid.result = result /\ (result = "Ok" => paid.state = state)
  BY DEF validateAndApplySender
<1>4. ASSUME result = "Ok" PROVE state \in UserState /\ state.tokenType = token
  <2> DEFINE b == t[index].balance - (amount + fee)
             n == t[index].nonce + 1
  <2>1. b \in Nat /\ n \in Nat
    BY <1>1, <1>4 DEF SenderResult, UserState
  <2>2. state = [t[index] EXCEPT !.balance = b, !.nonce = n]
    OBVIOUS
  <2> HIDE DEF b, n, state, result
  <2> QED
    BY <1>1, <2>1, <2>2 DEF UserState
<1> HIDE DEF result, step, paid, state
<1>5. step.result = result /\ (result = "Ok" => step.tree = [t EXCEPT ![index] = state])
  BY <1>2 DEF Ended
<1> QED
  BY <1>3, <1>4, <1>5 DEF AnswersFor, IsOk, step, paid

(* FrontendAgrees for a transfer.                                          *)
LEMMA TransferAnswered ==
    ASSUME NEW t \in Trees, NEW tx \in TransferTx, tx.fromIndex \in DOMAIN t,
           tx.toIndex \in DOMAIN t
    PROVE  LET sender == t[tx.fromIndex]
               answer == validateAndApplyTransfer(sender, t[tx.toIndex], tx)
               step == ProcessTransfer(t, tx, sender.tokenType)
               after == step.tree[tx.toIndex]
           IN  /\ answer.result = step.result
               /\ IsOk(step) =>
                     IF tx.fromIndex = tx.toIndex
                     THEN answer.newReceiver = [after EXCEPT
                             !.balance = @ + tx.amount + tx.fee, !.nonce = @ - 1]
                     ELSE /\ answer.newSender = step.tree[tx.fromIndex]
                          /\ answer.newReceiver = after
<1> DEFINE sender == t[tx.fromIndex]
           receiver == t[tx.toIndex]
           token == sender.tokenType
           answer == validateAndApplyTransfer(sender, receiver, tx)
           step == ProcessTransfer(t, tx, token)
           sent == ProcessSender(t, tx.fromIndex, token, tx.amount, tx.fee)
           paid == validateAndApplySender(sender, tx.amount, tx.fee)
           given == [receiver EXCEPT !.balance = @ + tx.amount]
<1>1. tx.amount \in Nat /\ tx.fee \in Nat
  BY DEF TransferTx
<1>2. AnswersFor(t, tx.fromIndex, sent, paid)
  BY <1>1, SenderAnswered
<1>3. step = IF IsOk(sent) THEN ProcessReceiver(sent.tree, tx.toIndex, token, tx.amount)
             ELSE sent
  BY DEF ProcessTransfer, Then
<1>4. answer = IF paid.result # "Ok" THEN Answer(sender, <<>>, paid.result)
               ELSE IF receiver.tokenType # token
               THEN Answer(paid.state, receiver, "BadToTokenType")
               ELSE Answer(paid.state, given, "Ok")
  BY DEF validateAndApplyTransfer
<1>5. IsOk(sent) => paid.state = [sender EXCEPT !.balance = @ - (tx.amount + tx.fee),
                                                !.nonce = @ + 1]
  BY <1>2 DEF validateAndApplySender, AnswersFor, IsOk
<1>6. sender \in UserState /\ receiver \in UserState
  BY TreeType
<1> HIDE DEF answer, step, sent, paid
<1>7. CASE ~IsOk(sent)
  BY <1>2, <1>3, <1>4, <1>7 DEF AnswersFor, Answer, IsOk, answer, step
<1>8. CASE IsOk(sent)
  <2>1. /\ paid.result = "Ok" /\ sent.tree = [t EXCEPT ![tx.fromIndex] = paid.state]
        /\ paid.state \in UserState /\ paid.state.tokenType = token
    BY <1>2, <1>8 DEF AnswersFor, IsOk
  <2>2. step = IF receiver.tokenType # token THEN Ended("BadToTokenType", sent.tree)
               ELSE Ended("Ok", [sent.tree EXCEPT ![tx.toIndex].balance = @ + tx.amount])
    <3>1. tx.toIndex \in DOMAIN sent.tree
      BY <2>1
    <3>2. sent.tree[tx.toIndex].tokenType = receiver.tokenType
      BY <2>1
    <3> QED
      BY <1>3, <1>8, <3>1, <3>2 DEF ProcessReceiver
  <2>3. CASE receiver.tokenType # token
    BY <1>4, <2>1, <2>2, <2>3 DEF Answer, Ended, IsOk, answer, step
  <2>4. CASE receiver.tokenType = token
    <3>1. answer.result = "Ok" /\ answer.newSender = paid.state /\ answer.newReceiver = given
      BY <1>4, <2>1, <2>4 DEF Answer
    <3>2. /\ step.result = "Ok"
          /\ step.tree = [sent.tree EXCEPT ![tx.toIndex].balance = @ + tx.amount]
      BY <2>2, <2>4 DEF Ended
    <3>3. CASE tx.fromIndex # tx.toIndex
      <4>1. step.tree[tx.fromIndex] = paid.state /\ step.tree[tx.toIndex] = given
        BY <2>1, <3>2, <3>3
      <4> QED
        BY <3>1, <3>2, <3>3, <4>1 DEF answer, step
    <3>4. CASE tx.fromIndex = tx.toIndex
      <4> DEFINE after == step.tree[tx.toIndex]
      <4>1. after = [paid.state EXCEPT !.balance = @ + tx.amount]
        BY <2>1, <3>2, <3>4
      <4>2. paid.state = [sender EXCEPT !.balance = @ - (tx.amount + tx.fee),
                                        !.nonce = @ + 1]
        BY <1>5, <1>8
      <4>3. given = [sender EXCEPT !.balance = @ + tx.amount]
        BY <3>4
      <4> HIDE DEF after, given
      <4>4. given = [after EXCEPT !.balance = @ + tx.amount + tx.fee, !.nonce = @ - 1]
        <5> DEFINE b == sender.balance - (tx.amount + tx.fee)
                   n == sender.nonce + 1
        <5>1. sender.balance \in Nat /\ sender.nonce \in Nat
          BY <1>6 DEF UserState
        <5>2. b + tx.amount + tx.amount + tx.fee = sender.balance + tx.amount
              /\ n - 1 = sender.nonce
          BY <1>1, <5>1
        <5>3. paid.state = [sender EXCEPT !.balance = b, !.nonce = n]
          BY <4>2
        <5> HIDE DEF b, n
        <5>4. [after EXCEPT !.balance = @ + tx.amount + tx.fee, !.nonce = @ - 1]
                 = [sender EXCEPT !.balance = b + tx.amount + tx.amount + tx.fee,
                                  !.nonce = n - 1]
          BY <1>6, <4>1, <5>3 DEF UserState
        <5> QED
          BY <1>6, <4>3, <5>2, <5>4 DEF UserState
      <4> QED
        BY <3>1, <3>2, <3>4, <4>4 DEF answer, step, after
    <3> QED
      BY <3>3, <3>4
  <2> QED
    BY <2>3, <2>4
<1> QED
  BY <1>7, <1>8

(* FrontendAgrees for a mass migration.                                    *)
LEMMA MassMigrationAnswered ==
    ASSUME NEW t \in Trees, NEW tx \in MassMigrationTx, tx.fromIndex \in DOMAIN t
    PROVE  LET sender == t[tx.fromIndex]
               answer == validateAndApplyMassMigration(sender, tx)
               step == ProcessSender(t, tx.fromIndex, sender.tokenType,
                                     tx.amount, tx.fee)
           IN  /\ answer.result = step.result
               /\ IsOk(step) =>
                     /\ answer.newSender = step.tree[tx.fromIndex]
                     /\ <<answer.newReceiver>> =
                           WithdrawLeaves(t, [txs |-> <<tx>>,
                                              tokenID |-> sender.tokenType])
<1> DEFINE sender == t[tx.fromIndex]
           token == sender.tokenType
           answer == validateAndApplyMassMigration(sender, tx)
           sent == ProcessSender(t, tx.fromIndex, token, tx.amount, tx.fee)
           paid == validateAndApplySender(sender, tx.amount, tx.fee)
           given == CreateState(sender.pubkeyIndex, token, tx.amount)
           body == [txs |-> <<tx>>, tokenID |-> token]
<1>1. tx.amount \in Nat /\ tx.fee \in Nat
  BY DEF MassMigrationTx
<1>2. AnswersFor(t, tx.fromIndex, sent, paid)
  BY <1>1, SenderAnswered
<1>3. answer = IF paid.result # "Ok" THEN Answer(sender, <<>>, paid.result)
               ELSE Answer(paid.state, given, "Ok")
  BY DEF validateAndApplyMassMigration, Creating
<1>4. WithdrawLeaves(t, body) = <<given>>
  <2>1. DOMAIN body.txs = {1} /\ body.txs[1] = tx /\ body.tokenID = token
    OBVIOUS
  <2> HIDE DEF body
  <2>2. WithdrawLeaves(t, body) = [i \in {1} |-> given]
    BY <2>1 DEF WithdrawLeaves
  <2> HIDE DEF given
  <2>3. [i \in {1} |-> given] = <<given>>
    OBVIOUS
  <2> QED
    BY <2>2, <2>3
<1> HIDE DEF answer, sent, paid, given, body
<1>5. CASE ~IsOk(sent)
  BY <1>2, <1>3, <1>5 DEF AnswersFor, Answer, IsOk, answer, sent
<1>6. CASE IsOk(sent)
  <2>1. paid.result = "Ok" /\ sent.tree[tx.fromIndex] = paid.state /\ sent.result = "Ok"
    BY <1>2, <1>6 DEF AnswersFor, IsOk
  <2>2. answer.result = "Ok" /\ answer.newSender = paid.state /\ answer.newReceiver = given
    BY <1>3, <2>1 DEF Answer
  <2> QED
    BY <1>4, <2>1, <2>2 DEF answer, sent, body
<1> QED
  BY <1>5, <1>6

(* FrontendAgrees for a transfer to a new state.                           *)
LEMMA Create2TransferAnswered ==
    ASSUME NEW t \in Trees, NEW tx \in Create2TransferTx, tx.fromIndex \in DOMAIN t,
           tx.toIndex \notin DOMAIN t
    PROVE  LET sender == t[tx.fromIndex]
               answer == validateAndApplyCreate2Transfer(sender, tx)
               step == ProcessCreate2Transfer(t, tx, sender.tokenType)
           IN  /\ answer.result = step.result
               /\ IsOk(step) => /\ answer.newSender = step.tree[tx.fromIndex]
                                /\ answer.newReceiver = step.tree[tx.toIndex]
<1> DEFINE sender == t[tx.fromIndex]
           token == sender.tokenType
           answer == validateAndApplyCreate2Transfer(sender, tx)
           step == ProcessCreate2Transfer(t, tx, token)
           sent == ProcessSender(t, tx.fromIndex, token, tx.amount, tx.fee)
           paid == validateAndApplySender(sender, tx.amount, tx.fee)
           given == CreateState(tx.toAccID, token, tx.amount)
<1>1. tx.amount \in Nat /\ tx.fee \in Nat
  BY DEF Create2TransferTx
<1>2. AnswersFor(t, tx.fromIndex, sent, paid)
  BY <1>1, SenderAnswered
<1>3. answer = IF paid.result # "Ok" THEN Answer(sender, <<>>, paid.result)
               ELSE Answer(paid.state, given, "Ok")
  BY DEF validateAndApplyCreate2Transfer, Creating
<1>4. step = IF IsOk(sent) THEN ProcessNewReceiver(sent.tree, tx.toIndex, given) ELSE sent
  BY DEF ProcessCreate2Transfer, Then
<1> HIDE DEF answer, step, sent, paid, given
<1>5. CASE ~IsOk(sent)
  BY <1>2, <1>3, <1>4, <1>5 DEF AnswersFor, Answer, IsOk, answer, step
<1>6. CASE IsOk(sent)
  <2>1. /\ paid.result = "Ok" /\ sent.tree[tx.fromIndex] = paid.state
        /\ DOMAIN sent.tree = DOMAIN t
    BY <1>2, <1>6 DEF AnswersFor, IsOk
  <2>2. answer.result = "Ok" /\ answer.newSender = paid.state /\ answer.newReceiver = given
    BY <1>3, <2>1 DEF Answer
  <2>3. step = Ended("Ok", Merged(sent.tree, [i \in {tx.toIndex} |-> given]))
    BY <1>4, <1>6, <2>1 DEF ProcessNewReceiver
  <2>4. /\ step.result = "Ok" /\ step.tree[tx.fromIndex] = paid.state
        /\ step.tree[tx.toIndex] = given
    BY <2>1, <2>3 DEF Ended, Merged
  <2> QED
    BY <2>2, <2>4 DEF answer, step
<1> QED
  BY <1>5, <1>6

(* FrontendAgrees of every state of ChainInv.                              *)
LEMMA FrontendsStatesAgree == ChainInv => FrontendAgrees
<1> SUFFICES ASSUME ChainInv PROVE FrontendAgrees
  OBVIOUS
<1>1. tree \in Trees
  BY DEF ChainInv, ChainType
<1>2. \A tx \in Asked(TransferBodies) : tx \in TransferTx /\ tx.fromIndex \in DOMAIN tree
  <2>1. ASSUME NEW body \in TransferBodies, NEW i \in DOMAIN body.txs
        PROVE  body.txs[i] \in TransferTx
    <3>1. body.txs \in Seq(TransferTx)
      BY TransfersAssumption DEF TransferTx
    <3> QED
      BY <3>1, LenProperties
  <2> QED
    BY <2>1 DEF Asked
<1>3. \A tx \in Asked(Create2TransferBodies) :
         tx \in Create2TransferTx /\ tx.fromIndex \in DOMAIN tree
  <2>1. ASSUME NEW body \in Create2TransferBodies, NEW i \in DOMAIN body.txs
        PROVE  body.txs[i] \in Create2TransferTx
    <3>1. body.txs \in Seq(Create2TransferTx)
      BY Create2TransfersAssumption DEF Create2TransferTx
    <3> QED
      BY <3>1, LenProperties
  <2> QED
    BY <2>1 DEF Asked
<1>4. \A tx \in Asked(MassMigrationBodies) :
         tx \in MassMigrationTx /\ tx.fromIndex \in DOMAIN tree
  <2>1. ASSUME NEW body \in MassMigrationBodies, NEW i \in DOMAIN body.txs
        PROVE  body.txs[i] \in MassMigrationTx
    <3>1. body.txs \in Seq(MassMigrationTx)
      BY MassMigrationsAssumption DEF MassMigrationTx
    <3> QED
      BY <3>1, LenProperties
  <2> QED
    BY <2>1 DEF Asked
<1> QED
  BY <1>1, <1>2, <1>3, <1>4, TransferAnswered, Create2TransferAnswered,
     MassMigrationAnswered DEF FrontendAgrees
-----------------------------------------------------------------------------
(* The lemmas about trees, for the client's tree of states and the roots   *)
(* of it that the contracts know (StateProofs).                            *)
StateTrees == INSTANCE TreeProofs WITH Zero <- ZERO_BYTES32

LEMMA SameStateTrees ==
    /\ StateTrees!TwoTo = TwoTo
    /\ \A d : Merkle!New(d) = StateTrees!New(d)
    /\ \A t, index, leaf : Merkle!updateSingle(t, index, leaf) = StateTrees!updateSingle(t, index, leaf)
    /\ \A t, index, d : Merkle!witness(t, index, d) = StateTrees!witness(t, index, d)
    /\ \A t : Merkle!root(t) = StateTrees!root(t)
    /\ \A top, leaf, path, beside :
          Contract!verify(top, leaf, path, beside) <=> StateTrees!verify(top, leaf, path, beside)
<1>1. StateTrees!TwoTo = TwoTo /\ Merkle!TwoTo = TwoTo
  BY DEF StateTrees!TwoTo, Merkle!TwoTo, TwoTo
<1>2. \A d : Merkle!New(d) = StateTrees!New(d)
  BY DEF Merkle!New, StateTrees!New, Merkle!zeros, StateTrees!zeros, Merkle!hash2, StateTrees!hash2
<1>3. \A t, offset, len : Merkle!ascend(t, offset, len) = StateTrees!ascend(t, offset, len)
  BY DEF Merkle!ascend, StateTrees!ascend, Merkle!updateCouples, StateTrees!updateCouples,
      Merkle!hash2, StateTrees!hash2, Merkle!Put, StateTrees!Put, Merkle!Widened,
      StateTrees!Widened, Merkle!getNode, StateTrees!getNode
<1>4. \A t, index, leaf : Merkle!updateSingle(t, index, leaf) = StateTrees!updateSingle(t, index, leaf)
  BY <1>1, <1>3 DEF Merkle!updateSingle, StateTrees!updateSingle, Merkle!Put, StateTrees!Put
<1>5. \A t, index, d : Merkle!witness(t, index, d) = StateTrees!witness(t, index, d)
  BY DEF Merkle!witness, StateTrees!witness, Merkle!Sibling, StateTrees!Sibling, Merkle!getNode,
      StateTrees!getNode, Merkle!Shifted, StateTrees!Shifted
<1>6. \A t : Merkle!root(t) = StateTrees!root(t)
  BY DEF Merkle!root, StateTrees!root, Merkle!getNode, StateTrees!getNode
<1>7. \A top, leaf, path, beside :
          Contract!verify(top, leaf, path, beside) <=> StateTrees!verify(top, leaf, path, beside)
  BY DEF Contract!verify, StateTrees!verify, Contract!computeRoot, StateTrees!computeRoot,
      Contract!Hash, StateTrees!Hash, Contract!IsSet, StateTrees!IsSet, Contract!Shifted,
      StateTrees!Shifted
<1> QED
  BY <1>1, <1>2, <1>4, <1>5, <1>6, <1>7

(* The leaf of an index, and a client whose tree is that of its states c.  *)
LeafOf(c, index) == IF index \in DOMAIN c THEN toStateLeaf(c[index]) ELSE ZERO_BYTES32

HasLeaves(t, c) ==
    /\ StateTrees!AllHashed(STATE_DEPTH, t)
    /\ \A x \in Nat : StateTrees!getNode(t, STATE_DEPTH, x) = LeafOf(c, x)
Mirrors(client, c) == client.states = c /\ HasLeaves(client.stateTree, c)

LEMMA DepthType ==
    /\ STATE_DEPTH \in Nat /\ STATE_DEPTH \in 1 .. STATE_DEPTH /\ 1 \in 1 .. STATE_DEPTH
    /\ StateTrees!TwoTo[STATE_DEPTH] = NumLeaves /\ NumLeaves \in Nat
    /\ Indices \subseteq Nat /\ \A index \in Indices : index < NumLeaves
<1>1. StateTrees!TwoTo[STATE_DEPTH] = NumLeaves
  BY StateProofsAssumption, SameStateTrees
<1> QED
  BY <1>1, StateProofsAssumption, NumLeavesAssumption DEF Indices

(* No leaf of a state is vacant or a node of a placeholder.                *)
LEMMA LeavesAre ==
    /\ \A s \in UserState : toStateLeaf(s) # ZERO_BYTES32 /\ toStateLeaf(s) # HashZero
    /\ \A c \in Trees, x \in Nat : LeafOf(c, x) # HashZero
    /\ EMPTY_STATE \in UserState
<1>1. ASSUME NEW s \in UserState
      PROVE  toStateLeaf(s) # ZERO_BYTES32 /\ toStateLeaf(s) # HashZero
  <2>1. toStateLeaf(s) \in Seq(Nat)
    BY DEF UserState, toStateLeaf
  <2> QED
    BY <2>1, LeavesAssumption
<1>2. ASSUME NEW c \in Trees, NEW x \in Nat PROVE LeafOf(c, x) # HashZero
  BY <1>1, TreeType, LeavesAssumption DEF LeafOf
<1>3. EMPTY_STATE \in UserState
  BY DEF EMPTY_STATE, CreateState, UserState
<1> QED
  BY <1>1, <1>2, <1>3

(* The states with one written.                                            *)
LEMMA ReplacedIs ==
    ASSUME NEW c \in Trees, NEW index \in Indices, NEW state \in UserState
    PROVE  /\ Replaced(c, index, state) \in Trees
           /\ \A x : x # index => LeafOf(Replaced(c, index, state), x) = LeafOf(c, x)
           /\ LeafOf(Replaced(c, index, state), index) = toStateLeaf(state)
           /\ index \in DOMAIN c => Replaced(c, index, state) = [c EXCEPT ![index] = state]
<1> DEFINE d == Replaced(c, index, state)
<1>2. /\ DOMAIN d = DOMAIN c \union {index} /\ d[index] = state
      /\ \A x \in DOMAIN c : x # index => d[x] = c[x]
      /\ d = [x \in DOMAIN d |-> d[x]]
  BY DEF Replaced
<1> HIDE DEF d
<1>3. d \in Trees
  <2>1. DOMAIN d \in SUBSET Indices /\ \A x \in DOMAIN d : d[x] \in UserState
    BY <1>2, TreeType
  <2>2. d \in [DOMAIN d -> UserState]
    BY <1>2, <2>1
  <2> QED
    BY <2>1, <2>2 DEF Trees
<1>4. /\ \A x : x # index => LeafOf(d, x) = LeafOf(c, x)
      /\ LeafOf(d, index) = toStateLeaf(state)
  BY <1>2 DEF LeafOf
<1>5. index \in DOMAIN c => d = [c EXCEPT ![index] = state]
  <2> SUFFICES ASSUME index \in DOMAIN c PROVE d = [c EXCEPT ![index] = state]
    OBVIOUS
  <2>1. c \in [DOMAIN c -> UserState]
    BY TreeType
  <2> QED
    BY <1>2, <2>1
<1> QED
  BY <1>3, <1>4, <1>5 DEF d

(* A client that writes a state mirrors the states with that one.          *)
LEMMA WrittenMirrors ==
    ASSUME NEW c \in Trees, NEW client, Mirrors(client, c), NEW index \in Indices,
           NEW state \in UserState
    PROVE  Mirrors(Written(client, index, state), Replaced(c, index, state))
<1> DEFINE t == client.stateTree
           leaf == toStateLeaf(state)
           r == StateTrees!updateSingle(t, index, leaf)
           d == Replaced(c, index, state)
<1>1. index \in Nat /\ index < StateTrees!TwoTo[STATE_DEPTH] /\ STATE_DEPTH \in Nat
  BY DepthType
<1>2. StateTrees!AllHashed(STATE_DEPTH, t)
  BY DEF Mirrors, HasLeaves
<1> HIDE DEF leaf
<1>3. /\ StateTrees!AllHashed(STATE_DEPTH, r)
      /\ \A x \in Nat : StateTrees!getNode(r, STATE_DEPTH, x) =
            IF x = index THEN leaf ELSE StateTrees!getNode(t, STATE_DEPTH, x)
  BY ONLY <1>1, <1>2, StateTrees!updateSingleIs
<1>4. \A x \in Nat : LeafOf(d, x) = IF x = index THEN leaf ELSE LeafOf(c, x)
  BY ReplacedIs DEF leaf
<1>5. HasLeaves(r, d)
  BY <1>3, <1>4 DEF HasLeaves, Mirrors
<1>6. /\ Written(client, index, state).states = d
      /\ Written(client, index, state).stateTree = r
  BY SameStateTrees, ReplacedIs DEF Written, Mirrors, leaf
<1> QED
  BY <1>5, <1>6 DEF Mirrors

(* Two clients with the same leaves but one take the same witness of it,   *)
(* and with the same leaves they have the same root.                       *)
LEMMA WitnessIs ==
    ASSUME NEW a, NEW c, Mirrors(a, c), NEW b, NEW d, Mirrors(b, d), NEW index \in Indices,
           \A x \in Nat : x # index => LeafOf(c, x) = LeafOf(d, x)
    PROVE  getStateWitness(a, index) = getStateWitness(b, index)
<1>1. index \in Nat /\ STATE_DEPTH \in Nat
  BY DepthType
<1> DEFINE t == a.stateTree
           s == b.stateTree
           D == STATE_DEPTH
<1>2. /\ StateTrees!AllHashed(D, t) /\ StateTrees!AllHashed(D, s)
      /\ \A x \in Nat : x # index => StateTrees!getNode(t, D, x) = StateTrees!getNode(s, D, x)
  BY DEF Mirrors, HasLeaves
<1>3. StateTrees!witness(t, index, D) = StateTrees!witness(s, index, D)
  <2> HIDE DEF t, s
  <2> QED
    BY ONLY <1>1, <1>2, StateTrees!SiblingsStay
<1> QED
  BY <1>3, SameStateTrees DEF getStateWitness

LEMMA MirrorsRoot ==
    ASSUME NEW a, NEW b, NEW c, Mirrors(a, c), Mirrors(b, c)
    PROVE  Merkle!root(a.stateTree) = Merkle!root(b.stateTree)
<1> DEFINE t == a.stateTree
           s == b.stateTree
           D == STATE_DEPTH
<1>1. StateTrees!AllHashed(D, t) /\ StateTrees!AllHashed(D, s) /\ D \in Nat
  BY DepthType DEF Mirrors, HasLeaves
<1>2. StateTrees!SameLeaves(D, t, s)
  BY DEF Mirrors, HasLeaves, StateTrees!SameLeaves
<1> HIDE DEF t, s
<1>3. StateTrees!root(t) = StateTrees!root(s)
  BY ONLY <1>1, <1>2, StateTrees!SameLeavesSameRoot
<1> QED
  BY <1>3, SameStateTrees DEF t, s

(* createStateBulk() makes a client that mirrors the states.               *)
BulkAfter(u, c, i) ==
    IF i = 0 THEN [states |-> <<>>, stateTree |-> Merkle!New(STATE_DEPTH)]
    ELSE IF i - 1 \in DOMAIN c THEN Written(u[i - 1], i - 1, c[i - 1])
    ELSE u[i - 1]

LEMMA BulkRuns ==
    ASSUME NEW c
    PROVE  \E u : /\ \A i \in 0 .. NumLeaves : u[i] = BulkAfter(u, c, i)
                  /\ createStateBulk(c) = u[NumLeaves]
<1> DEFINE BulkUpTo(u, m) == u = [i \in 0 .. m |-> BulkAfter(u, c, i)]
           T == {m \in 0 .. NumLeaves : \E u : BulkUpTo(u, m)}
<1>0. NumLeaves \in Nat
  BY NumLeavesAssumption
<1>1. 0 \in T
  <2> DEFINE start == BulkAfter(0, c, 0)
             u == [i \in 0 .. 0 |-> start]
  <2>1. BulkAfter(u, c, 0) = start
    BY DEF BulkAfter
  <2>2. BulkUpTo(u, 0)
    <3> HIDE DEF start
    <3> QED
      BY <2>1
  <2> HIDE DEF BulkUpTo, u
  <2> QED
    BY <1>0, <2>2
<1>2. ASSUME NEW k \in 1 .. NumLeaves, k - 1 \in T PROVE k \in T
  <2>1. PICK u : BulkUpTo(u, k - 1)
    BY <1>2
  <2> DEFINE v == [i \in 0 .. k |-> IF i < k THEN u[i] ELSE BulkAfter(u, c, k)]
  <2>2. \A i \in 0 .. k : v[i] = BulkAfter(v, c, i)
    <3>1. \A i \in 0 .. k - 1 : u[i] = BulkAfter(u, c, i)
      BY <2>1
    <3>2. \A i \in 0 .. k - 1 : v[i] = u[i]
      OBVIOUS
    <3>3. v[k] = BulkAfter(u, c, k)
      OBVIOUS
    <3> HIDE DEF v
    <3>4. \A i \in 0 .. k : BulkAfter(v, c, i) = BulkAfter(u, c, i)
      <4>1. \A i \in 0 .. k : i = 0 \/ v[i - 1] = u[i - 1]
        BY <3>2
      <4> QED
        BY <4>1 DEF BulkAfter
    <3> QED
      BY <3>1, <3>2, <3>3, <3>4
  <2>3. BulkUpTo(v, k)
    <3> HIDE DEF v
    <3>1. v = [i \in 0 .. k |-> v[i]]
      BY DEF v
    <3> QED
      BY <2>2, <3>1
  <2> HIDE DEF v, BulkUpTo
  <2> QED
    BY <2>3
<1>3. NumLeaves \in T
  <2> HIDE DEF T
  <2> QED
    BY <1>0, <1>1, <1>2, LoopInduction
<1> DEFINE u == CHOOSE u : BulkUpTo(u, NumLeaves)
<1>4. createStateBulk(c) = u[NumLeaves]
  BY DEF createStateBulk, BulkAfter
<1>5. BulkUpTo(u, NumLeaves)
  <2> HIDE DEF BulkUpTo
  <2> QED
    BY <1>3
<1> HIDE DEF u
<1>6. \A i \in 0 .. NumLeaves : u[i] = BulkAfter(u, c, i)
  BY <1>5
<1> QED
  BY <1>4, <1>6

LEMMA BulkMirrors ==
    ASSUME NEW c \in Trees
    PROVE  Mirrors(createStateBulk(c), c)
<1> DEFINE n == NumLeaves
           First(i) == [x \in {y \in DOMAIN c : y < i} |-> c[x]]
<1>0. n \in Nat
  BY NumLeavesAssumption
<1>1. PICK u : /\ \A i \in 0 .. n : u[i] = BulkAfter(u, c, i)
               /\ createStateBulk(c) = u[n]
  BY BulkRuns
<1>2. DOMAIN c \subseteq 0 .. n - 1 /\ c = [x \in DOMAIN c |-> c[x]]
  BY TreeType DEF Indices
<1>3. \A i \in 0 .. n : First(i) \in Trees
  <2> SUFFICES ASSUME NEW i \in 0 .. n PROVE First(i) \in Trees
    OBVIOUS
  <2>1. First(i) \in [DOMAIN First(i) -> UserState] /\ DOMAIN First(i) \in SUBSET Indices
    BY TreeType
  <2> HIDE DEF First
  <2> QED
    BY <2>1 DEF Trees
<1>4. /\ DOMAIN First(0) = {} /\ First(n) = c
      /\ \A i \in 1 .. n : i - 1 \notin DOMAIN c => First(i) = First(i - 1)
  <2>1. \A x \in DOMAIN c : x < n /\ ~(x < 0)
    BY <1>0, <1>2
  <2>2. {y \in DOMAIN c : y < n} = DOMAIN c /\ {y \in DOMAIN c : y < 0} = {}
    BY <2>1
  <2>3. ASSUME NEW i \in 1 .. n, i - 1 \notin DOMAIN c
        PROVE  {y \in DOMAIN c : y < i} = {y \in DOMAIN c : y < i - 1}
    BY <1>0, <1>2, <2>3
  <2> QED
    BY <1>2, <2>2, <2>3
<1>5. ASSUME NEW i \in 1 .. n, i - 1 \in DOMAIN c
      PROVE  First(i) = Replaced(First(i - 1), i - 1, c[i - 1])
  <2>1. {y \in DOMAIN c : y < i} = {y \in DOMAIN c : y < i - 1} \union {i - 1}
    BY <1>0, <1>2, <1>5
  <2>2. \A x \in {y \in DOMAIN c : y < i - 1} : x # i - 1
    BY <1>0, <1>2
  <2> QED
    BY <2>1, <2>2 DEF Replaced
<1> HIDE DEF First
<1> DEFINE T == {i \in 0 .. n : Mirrors(u[i], First(i))}
<1>6. 0 \in T
  <2> DEFINE t == Merkle!New(STATE_DEPTH)
  <2>1. u[0] = [states |-> <<>>, stateTree |-> t]
    BY <1>0, <1>1 DEF BulkAfter
  <2>2. t = StateTrees!New(STATE_DEPTH)
    BY SameStateTrees
  <2> HIDE DEF t
  <2>3. StateTrees!AllHashed(STATE_DEPTH, t)
    BY <2>2, DepthType, StateTrees!NewIsHashed
  <2>4. \A x \in Nat : StateTrees!getNode(t, STATE_DEPTH, x) = ZERO_BYTES32
    BY <2>2, DepthType, StateTrees!NewIsHashed
  <2>5. \A x \in Nat : LeafOf(First(0), x) = ZERO_BYTES32
    BY <1>4 DEF LeafOf
  <2>6. First(0) = <<>>
    <3>1. First(0) = [x \in {} |-> c[x]]
      <4>1. {y \in DOMAIN c : y < 0} = {}
        BY <1>4 DEF First
      <4> QED
        BY <4>1 DEF First
    <3>2. <<>> = [x \in {} |-> c[x]]
      OBVIOUS
    <3> QED
      BY <3>1, <3>2
  <2> QED
    BY <1>0, <2>1, <2>3, <2>4, <2>5, <2>6 DEF Mirrors, HasLeaves
<1>7. ASSUME NEW i \in 1 .. n, i - 1 \in T PROVE i \in T
  <2>1. u[i] = BulkAfter(u, c, i) /\ i # 0 /\ i \in 0 .. n /\ i - 1 \in 0 .. n
    BY <1>0, <1>1
  <2>2. CASE i - 1 \notin DOMAIN c
    <3>1. u[i] = u[i - 1]
      BY <2>1, <2>2 DEF BulkAfter
    <3> QED
      BY <1>4, <1>7, <2>1, <2>2, <3>1
  <2>3. CASE i - 1 \in DOMAIN c
    <3>1. u[i] = Written(u[i - 1], i - 1, c[i - 1])
      BY <2>1, <2>3 DEF BulkAfter
    <3>2. i - 1 \in Indices /\ c[i - 1] \in UserState
      BY <2>3, TreeType
    <3>3. Mirrors(u[i], Replaced(First(i - 1), i - 1, c[i - 1]))
      BY <1>3, <1>7, <2>1, <3>1, <3>2, WrittenMirrors
    <3> QED
      BY <1>5, <2>1, <2>3, <3>3
  <2> QED
    BY <2>2, <2>3
<1>8. 0 .. n \subseteq T
  <2> HIDE DEF T
  <2> QED
    BY <1>0, <1>6, <1>7, LoopInduction
<1>9. n \in T
  BY <1>0, <1>8
<1> QED
  BY <1>1, <1>4, <1>9

(* The root of the states is that of any client that mirrors them.         *)
LEMMA RootIs ==
    ASSUME NEW c \in Trees, NEW client, Mirrors(client, c)
    PROVE  Merkle!root(client.stateTree) = RootOf(c)
BY BulkMirrors, MirrorsRoot DEF RootOf
-----------------------------------------------------------------------------
(* The client's proof of an index opens the leaf that is there, and leads  *)
(* to the root that the states have when only that one changes.            *)
LEMMA ProofOpens ==
    ASSUME NEW c \in Trees, NEW client, Mirrors(client, c), NEW index \in Indices,
           NEW proof, proof.witness = getStateWitness(client, index), NEW leaf
    PROVE  Opens(RootOf(c), leaf, index, proof) <=> leaf = LeafOf(c, index)
<1> DEFINE t == client.stateTree
           D == STATE_DEPTH
<1>1. /\ index \in Nat /\ index < StateTrees!TwoTo[D] /\ D \in Nat /\ D \in 1 .. D
  BY DepthType
<1>2. /\ StateTrees!AllHashed(D, t)
      /\ StateTrees!getNode(t, D, index) = LeafOf(c, index)
  BY <1>1 DEF Mirrors, HasLeaves
<1>3. Merkle!root(t) = RootOf(c)
  BY RootIs
<1> HIDE DEF t
<1>4. StateTrees!verify(StateTrees!root(t), leaf, index, StateTrees!witness(t, index, D))
         <=> leaf = StateTrees!getNode(t, D, index)
  BY ONLY <1>1, <1>2, StateTrees!WitnessesAreTaken
<1> QED
  BY <1>2, <1>3, <1>4, SameStateTrees DEF Opens, getStateWitness, t

LEMMA ProofLeads ==
    ASSUME NEW c \in Trees, NEW client, Mirrors(client, c), NEW index \in Indices,
           NEW proof, proof.witness = getStateWitness(client, index), NEW d \in Trees,
           \A x \in Nat : x # index => LeafOf(c, x) = LeafOf(d, x)
    PROVE  Contract!computeRoot(LeafOf(d, index), index, proof.witness) = RootOf(d)
<1> DEFINE other == createStateBulk(d)
<1>1. Mirrors(other, d)
  BY BulkMirrors
<1> HIDE DEF other
<1>2. proof.witness = getStateWitness(other, index)
  BY <1>1, WitnessIs
<1>3. Opens(RootOf(d), LeafOf(d, index), index, proof)
  BY <1>1, <1>2, ProofOpens
<1> QED
  BY <1>3 DEF Opens, Contract!verify

(* Whatever opens at an index is the leaf that is there, and a placeholder *)
(* opens nothing.                                                          *)
LEMMA NothingElseOpens ==
    ASSUME NEW c \in Trees, NEW index \in Indices, NEW leaf, NEW proof,
           Len(proof.witness) = STATE_DEPTH, Opens(RootOf(c), leaf, index, proof)
    PROVE  leaf = LeafOf(c, index) /\ proof.witness # PLACEHOLDER_PROOF_WITNESS
<1> DEFINE t == createStateBulk(c).stateTree
           D == STATE_DEPTH
           beside == proof.witness
           own == StateTrees!witness(t, index, D)
<1>1. /\ index \in Nat /\ index < StateTrees!TwoTo[D] /\ D \in Nat /\ 1 \in 1 .. D
  BY DepthType
<1>2. /\ StateTrees!AllHashed(D, t)
      /\ \A x \in Nat : StateTrees!getNode(t, D, x) = LeafOf(c, x)
  BY BulkMirrors DEF Mirrors, HasLeaves
<1>3. StateTrees!verify(StateTrees!root(t), leaf, index, beside)
  BY SameStateTrees DEF Opens, RootOf
<1> HIDE DEF t, beside
<1>4. Len(beside) = D
  BY DEF beside
<1>5. /\ leaf = StateTrees!getNode(t, D, index)
      /\ \A i \in 1 .. D : beside[i] = own[i]
  BY ONLY <1>1, <1>2, <1>3, <1>4, StateTrees!OpensOnlyThere
<1>6. beside[1] # HashZero
  <2> DEFINE x == StateTrees!Sibling(StateTrees!Shifted(index, 0))
  <2>1. own[1] = StateTrees!getNode(t, D - 1 + 1, StateTrees!Sibling(StateTrees!Shifted(index, 1 - 1)))
    BY <1>1 DEF StateTrees!witness
  <2>2. D - 1 + 1 = D /\ 1 - 1 = 0
    BY <1>1
  <2>3. StateTrees!Shifted(index, 0) = index
    BY <1>1, StateTrees!ShiftedIs
  <2>4. x \in Nat
    BY <1>1, <2>3 DEF StateTrees!Sibling
  <2>5. own[1] = LeafOf(c, x)
    BY <1>2, <2>1, <2>2, <2>4
  <2> QED
    BY <1>1, <1>5, <2>4, <2>5, LeavesAre
<1>7. PLACEHOLDER_PROOF_WITNESS[1] = HashZero
  BY <1>1 DEF PLACEHOLDER_PROOF_WITNESS
<1> QED
  BY <1>1, <1>2, <1>5, <1>6, <1>7 DEF beside

LEMMA WitnessLength ==
    /\ \A client, index : Len(getStateWitness(client, index)) = STATE_DEPTH
    /\ Len(PLACEHOLDER_PROOF_WITNESS) = STATE_DEPTH
<1>1. STATE_DEPTH \in Nat
  BY DepthType
<1>2. Len(PLACEHOLDER_PROOF_WITNESS) = STATE_DEPTH
  BY <1>1 DEF PLACEHOLDER_PROOF_WITNESS
<1>3. ASSUME NEW client, NEW index PROVE Len(getStateWitness(client, index)) = STATE_DEPTH
  <2> DEFINE node(i) == Merkle!getNode(client.stateTree, STATE_DEPTH - i + 1,
                                       Merkle!Sibling(Merkle!Shifted(index, i - 1)))
  <2>1. getStateWitness(client, index) = [i \in 1 .. STATE_DEPTH |-> node(i)]
    BY DEF getStateWitness, Merkle!witness
  <2> HIDE DEF node
  <2> QED
    BY <1>1, <2>1
<1> QED
  BY <1>2, <1>3
-----------------------------------------------------------------------------
(* What the contracts make of the proofs of a client that mirrors the      *)
(* states c: the end of a step in terms of the roots.                      *)
Served(step) == Ended(step.result, RootOf(step.tree))

LEMMA ServedIs ==
    /\ \A c : Served(Reverts(c)) = Reverts(RootOf(c))
    /\ \A result, c : Served(Ended(result, c)) = Ended(result, RootOf(c))
    /\ \A step : /\ IsOk(Served(step)) <=> IsOk(step)
                 /\ Served(step).tree = RootOf(step.tree)
                 /\ Served(step).result = step.result
BY DEF Served, Ended, Reverts, IsOk

(* The proof of a state in its tree, and what is no proof.                 *)
Proves(proof, client, c, index) ==
    /\ index \in DOMAIN c
    /\ proof = StateProof(c[index], getStateWitness(client, index))
ProvesNothing(proof, c, index) ==
    /\ proof.state = EMPTY_STATE /\ Len(proof.witness) = STATE_DEPTH
    /\ index \notin DOMAIN c \/ proof.witness = PLACEHOLDER_PROOF_WITNESS

LEMMA StateOpens ==
    ASSUME NEW c \in Trees, NEW client, Mirrors(client, c), NEW index \in Indices,
           NEW proof, Proves(proof, client, c, index)
    PROVE  /\ Opens(RootOf(c), toStateLeaf(proof.state), index, proof)
           /\ \A s \in UserState :
                 NewRoot(s, index, proof) = Served(Ended("Ok", Replaced(c, index, s)))
<1>1. /\ proof.state = c[index] /\ proof.witness = getStateWitness(client, index)
      /\ index \in DOMAIN c
  BY DEF Proves, StateProof
<1>2. Opens(RootOf(c), toStateLeaf(proof.state), index, proof)
  BY <1>1, ProofOpens DEF LeafOf
<1>3. ASSUME NEW s \in UserState
      PROVE  NewRoot(s, index, proof) = Served(Ended("Ok", Replaced(c, index, s)))
  <2> DEFINE d == Replaced(c, index, s)
  <2>1. /\ d \in Trees /\ LeafOf(d, index) = toStateLeaf(s)
        /\ \A x \in Nat : x # index => LeafOf(c, x) = LeafOf(d, x)
    BY ReplacedIs
  <2> HIDE DEF d
  <2>2. Contract!computeRoot(LeafOf(d, index), index, proof.witness) = RootOf(d)
    BY <1>1, <2>1, ProofLeads
  <2> QED
    BY <2>1, <2>2, ServedIs DEF NewRoot, d
<1> QED
  BY <1>2, <1>3

LEMMA NothingOpens ==
    ASSUME NEW c \in Trees, NEW index \in Indices, NEW proof, ProvesNothing(proof, c, index)
    PROVE  ~Opens(RootOf(c), toStateLeaf(proof.state), index, proof)
<1> SUFFICES ASSUME Opens(RootOf(c), toStateLeaf(proof.state), index, proof) PROVE FALSE
  OBVIOUS
<1>1. /\ toStateLeaf(proof.state) = LeafOf(c, index)
      /\ proof.witness # PLACEHOLDER_PROOF_WITNESS
  BY NothingElseOpens DEF ProvesNothing
<1>2. toStateLeaf(proof.state) # ZERO_BYTES32
  BY LeavesAre DEF ProvesNothing
<1> QED
  BY <1>1, <1>2 DEF ProvesNothing, LeafOf

(* The sender,                                                             *)
LEMMA SenderServed ==
    ASSUME NEW c \in Trees, NEW client, Mirrors(client, c), NEW index \in Indices,
           NEW token, NEW amount \in Nat, NEW fee \in Nat, NEW proof
    PROVE  /\ Proves(proof, client, c, index) =>
                 processSender(RootOf(c), index, token, amount, fee, proof)
                    = Served(ProcessSender(c, index, token, amount, fee))
           /\ ProvesNothing(proof, c, index) =>
                 processSender(RootOf(c), index, token, amount, fee, proof)
                    = Reverts(RootOf(c))
<1>1. ASSUME ProvesNothing(proof, c, index)
      PROVE  processSender(RootOf(c), index, token, amount, fee, proof) = Reverts(RootOf(c))
  BY <1>1, NothingOpens DEF processSender
<1>2. ASSUME Proves(proof, client, c, index)
      PROVE  processSender(RootOf(c), index, token, amount, fee, proof)
                = Served(ProcessSender(c, index, token, amount, fee))
  <2> DEFINE s == c[index]
             result == SenderResult(s, token, amount, fee)
             paid == [s EXCEPT !.balance = @ - (amount + fee), !.nonce = @ + 1]
             d == [c EXCEPT ![index].balance = @ - (amount + fee), ![index].nonce = @ + 1]
  <2>1. index \in DOMAIN c /\ proof.state = s /\ s \in UserState
    BY <1>2, TreeType DEF Proves, StateProof
  <2>2. Opens(RootOf(c), toStateLeaf(s), index, proof)
    BY <1>2, <2>1, StateOpens
  <2>3. processSender(RootOf(c), index, token, amount, fee, proof) =
            IF result # "Ok" THEN Ended(result, RootOf(c)) ELSE NewRoot(paid, index, proof)
    BY <2>1, <2>2 DEF processSender
  <2>4. ProcessSender(c, index, token, amount, fee) =
            Ended(result, IF result # "Ok" THEN c ELSE d)
    BY <2>1 DEF ProcessSender
  <2>5. result = "Ok" => s.balance >= amount + fee
    BY <2>1 DEF SenderResult, UserState
  <2> HIDE DEF result
  <2>6. CASE result # "Ok"
    BY <2>3, <2>4, <2>6, ServedIs
  <2>7. CASE result = "Ok"
    <3>1. paid \in UserState
      <4>1. s.balance - (amount + fee) \in Nat /\ s.nonce + 1 \in Nat
        BY <2>1, <2>5, <2>7 DEF UserState
      <4>2. paid = With(s, s.balance - (amount + fee), s.nonce + 1)
        BY <2>1 DEF With, UserState
      <4> HIDE DEF s, paid
      <4> QED
        BY <2>1, <4>1, <4>2, StateWith
    <3>2. d = [c EXCEPT ![index] = paid]
      BY <2>1
    <3> HIDE DEF d, paid
    <3>3. d = Replaced(c, index, paid)
      BY <2>1, <3>1, <3>2, ReplacedIs
    <3>4. NewRoot(paid, index, proof) = Served(Ended("Ok", d))
      BY <1>2, <3>1, <3>3, StateOpens
    <3> QED
      BY <2>3, <2>4, <2>7, <3>4
  <2> QED
    BY <2>6, <2>7
<1> QED
  BY <1>1, <1>2

(* the receiver, and a receiver who is new.                                *)
LEMMA ReceiverServed ==
    ASSUME NEW c \in Trees, NEW client, Mirrors(client, c), NEW index \in Indices,
           NEW token, NEW amount \in Nat, NEW proof
    PROVE  /\ Proves(proof, client, c, index) =>
                 processReceiver(RootOf(c), index, token, amount, proof)
                    = Served(ProcessReceiver(c, index, token, amount))
           /\ ProvesNothing(proof, c, index) =>
                 processReceiver(RootOf(c), index, token, amount, proof)
                    = Reverts(RootOf(c))
<1>1. ASSUME ProvesNothing(proof, c, index)
      PROVE  processReceiver(RootOf(c), index, token, amount, proof) = Reverts(RootOf(c))
  BY <1>1, NothingOpens DEF processReceiver
<1>2. ASSUME Proves(proof, client, c, index)
      PROVE  processReceiver(RootOf(c), index, token, amount, proof)
                = Served(ProcessReceiver(c, index, token, amount))
  <2> DEFINE s == c[index]
             paid == [s EXCEPT !.balance = @ + amount]
             d == [c EXCEPT ![index].balance = @ + amount]
  <2>1. index \in DOMAIN c /\ proof.state = s /\ s \in UserState
    BY <1>2, TreeType DEF Proves, StateProof
  <2>2. Opens(RootOf(c), toStateLeaf(s), index, proof)
    BY <1>2, <2>1, StateOpens
  <2>3. processReceiver(RootOf(c), index, token, amount, proof) =
            IF s.tokenType # token THEN Ended("BadToTokenType", RootOf(c))
            ELSE NewRoot(paid, index, proof)
    BY <2>1, <2>2 DEF processReceiver
  <2>4. ProcessReceiver(c, index, token, amount) =
            IF s.tokenType # token THEN Ended("BadToTokenType", c) ELSE Ended("Ok", d)
    BY <2>1 DEF ProcessReceiver
  <2>5. paid \in UserState
    BY <2>1 DEF UserState
  <2>6. d = [c EXCEPT ![index] = paid]
    BY <2>1
  <2> HIDE DEF d, paid
  <2>7. d = Replaced(c, index, paid)
    BY <2>1, <2>5, <2>6, ReplacedIs
  <2>8. NewRoot(paid, index, proof) = Served(Ended("Ok", d))
    BY <1>2, <2>5, <2>7, StateOpens
  <2> QED
    BY <2>3, <2>4, <2>8, ServedIs
<1> QED
  BY <1>1, <1>2

LEMMA NewReceiverServed ==
    ASSUME NEW c \in Trees, NEW client, Mirrors(client, c), NEW tx, NEW index \in Indices,
           tx.toIndex = index, index \notin DOMAIN c, NEW token,
           NEW state \in UserState, state = CreateState(tx.toAccID, token, tx.amount),
           NEW proof, proof.witness = getStateWitness(client, index)
    PROVE  processCreate2TransferReceiver(RootOf(c), tx, token, proof)
              = Served(ProcessNewReceiver(c, index, state))
<1> DEFINE d == Replaced(c, index, state)
<1>1. Opens(RootOf(c), ZERO_BYTES32, index, proof)
  BY ProofOpens DEF LeafOf
<1>2. processCreate2TransferReceiver(RootOf(c), tx, token, proof) = NewRoot(state, index, proof)
  BY <1>1 DEF processCreate2TransferReceiver
<1>3. /\ d \in Trees /\ LeafOf(d, index) = toStateLeaf(state)
      /\ \A x \in Nat : x # index => LeafOf(c, x) = LeafOf(d, x)
  BY ReplacedIs
<1>4. Merged(c, [i \in {index} |-> state]) = d
  BY DEF Merged, Replaced
<1> HIDE DEF d
<1>5. Contract!computeRoot(LeafOf(d, index), index, proof.witness) = RootOf(d)
  BY <1>3, ProofLeads
<1>6. ProcessNewReceiver(c, index, state) = Ended("Ok", d)
  BY <1>4 DEF ProcessNewReceiver
<1>7. NewRoot(state, index, proof) = Ended("Ok", RootOf(d))
  BY <1>3, <1>5 DEF NewRoot
<1> QED
  BY <1>2, <1>6, <1>7, ServedIs
-----------------------------------------------------------------------------
(* One transaction.  What its sender does to the states c,                 *)
IsPayment(tx) == tx.fromIndex \in Indices /\ tx.amount \in Nat /\ tx.fee \in Nat
Sent(c, tx, token) == ProcessSender(c, tx.fromIndex, token, tx.amount, tx.fee)

LEMMA SentIs ==
    ASSUME NEW c \in Trees, NEW tx, IsPayment(tx), NEW token
    PROVE  LET sent == Sent(c, tx, token)
           IN  /\ sent.result # "BadToTokenType"
               /\ IsOk(sent) => /\ tx.fromIndex \in DOMAIN c /\ CanPay(c, tx)
                                /\ c[tx.fromIndex].tokenType = token
                                /\ sent.tree = Pay(c, tx)
               /\ tx.fromIndex \notin DOMAIN c => sent = Reverts(c)
               /\ tx.fromIndex \in DOMAIN c =>
                     IF CanPay(c, tx) THEN sent.result # "NotEnoughTokenBalance"
                     ELSE sent.result \in {"InvalidTokenAmount", "NotEnoughTokenBalance"}
<1> DEFINE index == tx.fromIndex
           s == c[index]
           result == SenderResult(s, token, tx.amount, tx.fee)
           sent == Sent(c, tx, token)
<1>1. CASE index \notin DOMAIN c
  <2>1. sent = Reverts(c)
    BY <1>1 DEF ProcessSender, Sent
  <2> HIDE DEF sent
  <2> QED
    BY <1>1, <2>1 DEF Reverts, Ended, IsOk, sent
<1>2. CASE index \in DOMAIN c
  <2>1. s \in UserState
    BY <1>2, TreeType
  <2>2. sent = Ended(result, IF result # "Ok" THEN c ELSE Pay(c, tx))
    BY <1>2 DEF ProcessSender, Sent, Pay
  <2>3. /\ result # "BadToTokenType"
        /\ result = "Ok" => s.balance >= tx.amount + tx.fee /\ s.tokenType = token
        /\ IF s.balance >= tx.amount + tx.fee THEN result # "NotEnoughTokenBalance"
           ELSE result \in {"InvalidTokenAmount", "NotEnoughTokenBalance"}
    BY <2>1 DEF SenderResult, IsPayment, UserState
  <2> HIDE DEF result, sent
  <2> QED
    BY <1>2, <2>2, <2>3 DEF Ended, IsOk, CanPay, sent
<1> QED
  BY <1>1, <1>2

(* and what the client makes of it.                                        *)
LEMMA PaidMirrors ==
    ASSUME NEW c \in Trees, NEW client, Mirrors(client, c), NEW tx, IsPayment(tx),
           tx.fromIndex \in DOMAIN c
    PROVE  /\ Proves(SenderProof(client, tx), client, c, tx.fromIndex)
           /\ CanPay(c, tx) => /\ Pay(c, tx) \in Trees
                               /\ DOMAIN Pay(c, tx) = DOMAIN c
                               /\ \A x \in DOMAIN c : Pay(c, tx)[x].tokenType = c[x].tokenType
                               /\ Mirrors(SenderPaid(client, tx), Pay(c, tx))
<1>1. Proves(SenderProof(client, tx), client, c, tx.fromIndex)
  BY DEF Proves, SenderProof, Mirrors
<1> DEFINE index == tx.fromIndex
           s == c[index]
           d == Pay(c, tx)
           paid == With(s, s.balance - (tx.amount + tx.fee), s.nonce + 1)
<1>2. ASSUME CanPay(c, tx)
      PROVE  /\ d \in Trees /\ DOMAIN d = DOMAIN c
             /\ \A x \in DOMAIN c : d[x].tokenType = c[x].tokenType
             /\ Mirrors(SenderPaid(client, tx), d)
  <2>1. s \in UserState
    BY TreeType
  <2>2. s.balance - (tx.amount + tx.fee) \in Nat /\ s.nonce + 1 \in Nat
    BY <1>2, <2>1 DEF IsPayment, CanPay, UserState
  <2>3. d = [c EXCEPT ![index] = paid]
    BY <2>1 DEF Pay, With
  <2>4. paid \in UserState /\ paid.tokenType = s.tokenType
    <3> HIDE DEF s
    <3>1. PICK balance, nonce : /\ balance = s.balance - (tx.amount + tx.fee)
                                /\ nonce = s.nonce + 1
      OBVIOUS
    <3>2. balance \in Nat /\ nonce \in Nat /\ paid = With(s, balance, nonce)
      BY <2>2, <3>1
    <3> HIDE DEF paid
    <3> QED
      BY ONLY <2>1, <3>2, StateWith
  <2> HIDE DEF paid, d
  <2>5. d = Replaced(c, index, paid) /\ d \in Trees
    BY <2>3, <2>4, ReplacedIs DEF IsPayment
  <2>6. DOMAIN d = DOMAIN c /\ d[index] = paid /\ \A x \in DOMAIN c : x # index => d[x] = c[x]
    BY <2>5 DEF Replaced
  <2>7. SenderPaid(client, tx) = Written(client, index, paid)
    BY <2>6 DEF SenderPaid, Mirrors, d
  <2>8. Mirrors(SenderPaid(client, tx), d)
    BY <2>4, <2>5, <2>7, WrittenMirrors DEF IsPayment
  <2> QED
    BY <2>4, <2>5, <2>6, <2>8
<1> QED
  BY <1>1, <1>2 DEF d

(* The proofs of a transaction are in their place among those of a batch.  *)
PerTx(kind) == IF kind = "MassMigration" THEN 1 ELSE 2
InPlace(kind, proofs, i, own) ==
    IF kind = "MassMigration" THEN proofs[i] = own[1]
    ELSE proofs[2 * i - 1] = own[1] /\ proofs[2 * i] = own[2]

(* The faults that the client cannot prove, because what it is not sure of *)
(* it leaves to placeholders.                                              *)
Unproved(kind) ==
    CASE kind = "Transfer" -> {"BadToTokenType"}
      [] kind = "Create2Transfer" -> {}
      [] kind = "MassMigration" -> {"NotEnoughTokenBalance"}
Excused(kind) ==
    IF kind = "MassMigration" THEN {"NotEnoughTokenBalance", "InvalidTokenAmount"}
    ELSE Unproved(kind)

Answered(kind, left, step, served) ==
    \/ step.result \notin Unproved(kind) /\ served = Served(step)
    \/ ~IsSafe(left) /\ served.result = "Reverts" /\ step.result \in Excused(kind)

(* What is to be shown of a transaction: the contracts answer with its     *)
(* proofs what they answer on the states, and after a good one the client  *)
(* mirrors the states again.                                               *)
TxServes(kind, client, c, tx, token, step, left) ==
    LET made == applyTx(kind, client, tx)
    IN  /\ Len(made.proofs) = PerTx(kind)
        /\ IsOk(step) => IsSafe(left) /\ left.tree = step.tree
        /\ left.status # "throws" =>
              /\ IsSafe(left) => made.safe = TRUE /\ Mirrors(made.client, left.tree)
              /\ \A proofs, i : InPlace(kind, proofs, i, made.proofs) =>
                    Answered(kind, left, step, processTx(kind, RootOf(c), tx, token, proofs, i))

LEMMA KindsAre ==
    /\ \A client, tx : /\ applyTx("Transfer", client, tx) = applyTxTransfer(client, tx)
                       /\ applyTx("Create2Transfer", client, tx) = applyTxCreate2Transfer(client, tx)
                       /\ applyTx("MassMigration", client, tx) = applyMassMigration(client, tx)
    /\ \A root, tx, token, proofs, i :
          /\ processTx("Transfer", root, tx, token, proofs, i) =
                processTransferTx(root, tx, token, proofs[2 * i - 1], proofs[2 * i])
          /\ processTx("Create2Transfer", root, tx, token, proofs, i) =
                processCreate2TransferTx(root, tx, token, proofs[2 * i - 1], proofs[2 * i])
          /\ processTx("MassMigration", root, tx, token, proofs, i) =
                processSender(root, tx.fromIndex, token, tx.amount, tx.fee, proofs[i])
    /\ Unproved("Transfer") = {"BadToTokenType"} /\ Unproved("Create2Transfer") = {}
    /\ Unproved("MassMigration") = {"NotEnoughTokenBalance"}
    /\ Excused("Transfer") = {"BadToTokenType"}
    /\ Excused("MassMigration") = {"NotEnoughTokenBalance", "InvalidTokenAmount"}
    /\ PerTx("Transfer") = 2 /\ PerTx("Create2Transfer") = 2 /\ PerTx("MassMigration") = 1
    /\ \A proofs, i, own :
          /\ InPlace("Transfer", proofs, i, own) <=> proofs[2 * i - 1] = own[1] /\ proofs[2 * i] = own[2]
          /\ InPlace("Create2Transfer", proofs, i, own)
                <=> proofs[2 * i - 1] = own[1] /\ proofs[2 * i] = own[2]
          /\ InPlace("MassMigration", proofs, i, own) <=> proofs[i] = own[1]
<1>1. \A client, tx : /\ applyTx("Transfer", client, tx) = applyTxTransfer(client, tx)
                      /\ applyTx("Create2Transfer", client, tx) = applyTxCreate2Transfer(client, tx)
                      /\ applyTx("MassMigration", client, tx) = applyMassMigration(client, tx)
  BY DEF applyTx
<1>2. \A root, tx, token, proofs, i :
          /\ processTx("Transfer", root, tx, token, proofs, i) =
                processTransferTx(root, tx, token, proofs[2 * i - 1], proofs[2 * i])
          /\ processTx("Create2Transfer", root, tx, token, proofs, i) =
                processCreate2TransferTx(root, tx, token, proofs[2 * i - 1], proofs[2 * i])
          /\ processTx("MassMigration", root, tx, token, proofs, i) =
                processSender(root, tx.fromIndex, token, tx.amount, tx.fee, proofs[i])
  BY DEF processTx
<1>3. /\ Unproved("Transfer") = {"BadToTokenType"} /\ Unproved("Create2Transfer") = {}
      /\ Unproved("MassMigration") = {"NotEnoughTokenBalance"}
  BY DEF Unproved
<1>4. /\ Excused("Transfer") = {"BadToTokenType"}
      /\ Excused("MassMigration") = {"NotEnoughTokenBalance", "InvalidTokenAmount"}
      /\ PerTx("Transfer") = 2 /\ PerTx("Create2Transfer") = 2 /\ PerTx("MassMigration") = 1
  BY <1>3 DEF Excused, PerTx
<1>5. \A proofs, i, own :
          /\ InPlace("Transfer", proofs, i, own) <=> proofs[2 * i - 1] = own[1] /\ proofs[2 * i] = own[2]
          /\ InPlace("Create2Transfer", proofs, i, own)
                <=> proofs[2 * i - 1] = own[1] /\ proofs[2 * i] = own[2]
          /\ InPlace("MassMigration", proofs, i, own) <=> proofs[i] = own[1]
  BY DEF InPlace
<1> QED
  BY <1>1, <1>2, <1>3, <1>4, <1>5

LEMMA SelfGrown == \A token : \A c \in Trees : c \in GrownFrom(c, token)
BY DEF GrownFrom

(* A mass migration.                                                       *)
LEMMA MassMigrationServes ==
    ASSUME NEW c \in Trees, NEW client, Mirrors(client, c), NEW tx \in MassMigrationTx,
           IsPayment(tx), NEW token
    PROVE  TxServes("MassMigration", client, c, tx, token, Sent(c, tx, token),
                    ApplyMassMigration(c, tx))
<1> DEFINE kind == "MassMigration"
           step == Sent(c, tx, token)
           left == ApplyMassMigration(c, tx)
           made == applyTx(kind, client, tx)
<1>1. made = IF CanPay(c, tx) THEN Made(SenderPaid(client, tx), <<SenderProof(client, tx)>>, TRUE)
             ELSE Made(client, <<Placeholder>>, FALSE)
  BY KindsAre DEF applyMassMigration, Mirrors
<1>2. made.proofs = IF CanPay(c, tx) THEN <<SenderProof(client, tx)>> ELSE <<Placeholder>>
  BY <1>1 DEF Made
<1>3. Len(made.proofs) = 1 /\ made.proofs[1] = IF CanPay(c, tx) THEN SenderProof(client, tx)
                                               ELSE Placeholder
  BY <1>2
<1>4. IsOk(step) => IsSafe(left) /\ left.tree = step.tree
  BY SelfGrown, MassMigrationAgrees DEF Sent
<1>5. /\ left.status # "throws" => tx.fromIndex \in DOMAIN c
      /\ tx.fromIndex \in DOMAIN c => /\ IsSafe(left) <=> CanPay(c, tx)
                                      /\ IsSafe(left) => left.tree = Pay(c, tx)
  BY DEF ApplyMassMigration, Left, IsSafe
<1> HIDE DEF left, made
<1>6. ASSUME tx.fromIndex \in DOMAIN c, IsSafe(left)
      PROVE  made.safe = TRUE /\ Mirrors(made.client, left.tree)
  <2>1. made = Made(SenderPaid(client, tx), <<SenderProof(client, tx)>>, TRUE)
    BY <1>1, <1>5, <1>6
  <2>2. made.safe = TRUE /\ made.client = SenderPaid(client, tx)
    BY <2>1 DEF Made
  <2> QED
    BY <1>5, <1>6, <2>2, PaidMirrors
<1>7. ASSUME tx.fromIndex \in DOMAIN c, NEW proofs, NEW i, InPlace(kind, proofs, i, made.proofs)
      PROVE  Answered(kind, left, step, processTx(kind, RootOf(c), tx, token, proofs, i))
  <2> DEFINE proof == made.proofs[1]
             served == processTx(kind, RootOf(c), tx, token, proofs, i)
  <2>1. served = processSender(RootOf(c), tx.fromIndex, token, tx.amount, tx.fee, proof)
    BY <1>7, KindsAre
  <2> HIDE DEF served
  <2>2. CASE CanPay(c, tx)
    <3>1. Proves(proof, client, c, tx.fromIndex)
      BY <1>3, <1>7, <2>2, PaidMirrors
    <3> HIDE DEF proof
    <3>2. served = Served(step)
      BY <2>1, <3>1, SenderServed DEF Sent, IsPayment
    <3>3. step.result # "NotEnoughTokenBalance"
      BY <1>7, <2>2, SentIs
    <3> QED
      BY <3>2, <3>3, KindsAre DEF Answered, served
  <2>3. CASE ~CanPay(c, tx)
    <3>1. ProvesNothing(proof, c, tx.fromIndex)
      BY <1>3, <2>3, WitnessLength DEF ProvesNothing, Placeholder, StateProof
    <3> HIDE DEF proof
    <3>2. served = Reverts(RootOf(c))
      BY <2>1, <3>1, SenderServed DEF IsPayment
    <3>3. served.result = "Reverts"
      BY <3>2 DEF Reverts, Ended
    <3>4. ~IsSafe(left) /\ step.result \in {"InvalidTokenAmount", "NotEnoughTokenBalance"}
      BY <1>5, <1>7, <2>3, SentIs
    <3> QED
      BY <3>3, <3>4, KindsAre DEF Answered, served
  <2> QED
    BY <2>2, <2>3
<1> HIDE DEF step
<1>8. Len(made.proofs) = PerTx(kind)
  BY <1>3, KindsAre
<1> QED
  BY <1>4, <1>5, <1>6, <1>7, <1>8 DEF TxServes, made, step, left

(* A transfer: its sender, and then its receiver in the states after.      *)
LEMMA TransferTxServed ==
    ASSUME NEW c \in Trees, NEW client, Mirrors(client, c), NEW tx, IsPayment(tx), NEW token,
           NEW from, NEW to
    PROVE  /\ ProvesNothing(from, c, tx.fromIndex) =>
                 processTransferTx(RootOf(c), tx, token, from, to) = Reverts(RootOf(c))
           /\ Proves(from, client, c, tx.fromIndex) =>
                 processTransferTx(RootOf(c), tx, token, from, to) =
                    IF ~IsOk(Sent(c, tx, token)) THEN Served(Sent(c, tx, token))
                    ELSE processReceiver(RootOf(Pay(c, tx)), tx.toIndex, token, tx.amount, to)
<1> DEFINE sent == Sent(c, tx, token)
           s == processSender(RootOf(c), tx.fromIndex, token, tx.amount, tx.fee, from)
           served == processTransferTx(RootOf(c), tx, token, from, to)
<1>1. served = IF IsOk(s) THEN processReceiver(s.tree, tx.toIndex, token, tx.amount, to) ELSE s
  BY DEF processTransferTx, Then
<1>2. ProvesNothing(from, c, tx.fromIndex) => s = Reverts(RootOf(c))
  BY SenderServed DEF IsPayment
<1>3. Proves(from, client, c, tx.fromIndex) => s = Served(sent)
  BY SenderServed DEF IsPayment, Sent
<1>4. ~IsOk(Reverts(RootOf(c)))
  BY DEF Reverts, Ended, IsOk
<1> HIDE DEF s, served
<1>5. IsOk(sent) => sent.tree = Pay(c, tx)
  BY SentIs
<1> HIDE DEF sent
<1> QED
  BY <1>1, <1>2, <1>3, <1>4, <1>5, ServedIs DEF sent, served

LEMMA TransferServes ==
    ASSUME NEW c \in Trees, NEW client, Mirrors(client, c), NEW tx \in TransferTx,
           IsPayment(tx), tx.toIndex \in Indices, NEW token
    PROVE  TxServes("Transfer", client, c, tx, token, ProcessTransfer(c, tx, token),
                    ApplyTxTransfer(c, tx))
<1> DEFINE kind == "Transfer"
           index == tx.fromIndex
           to == tx.toIndex
           sent == Sent(c, tx, token)
           d == Pay(c, tx)
           step == ProcessTransfer(c, tx, token)
           left == ApplyTxTransfer(c, tx)
           made == applyTx(kind, client, tx)
           served(p, q) == processTransferTx(RootOf(c), tx, token, p, q)
           Agreed == /\ index \in DOMAIN c /\ to \in DOMAIN c /\ CanPay(c, tx)
                     /\ c[index].tokenType = c[to].tokenType
<1>0. tx.amount \in Nat /\ client.states = c /\ index \in Indices /\ to \in Indices
  BY DEF IsPayment, Mirrors
<1>1. made = applyTxTransfer(client, tx)
  BY KindsAre
<1>2. step = IF IsOk(sent) THEN ProcessReceiver(sent.tree, to, token, tx.amount) ELSE sent
  BY DEF ProcessTransfer, Then, Sent
<1>3. /\ sent.result # "BadToTokenType"
      /\ IsOk(sent) => /\ index \in DOMAIN c /\ CanPay(c, tx)
                       /\ c[index].tokenType = token /\ sent.tree = d
      /\ index \notin DOMAIN c => sent = Reverts(c)
  BY SentIs
<1>4. index \in DOMAIN c =>
          /\ Proves(SenderProof(client, tx), client, c, index)
          /\ CanPay(c, tx) => /\ d \in Trees /\ DOMAIN d = DOMAIN c
                              /\ \A x \in DOMAIN c : d[x].tokenType = c[x].tokenType
                              /\ Mirrors(SenderPaid(client, tx), d)
  BY PaidMirrors
<1>5. IsOk(step) => IsSafe(left) /\ left.tree = step.tree
  BY SelfGrown, TransferAgrees
<1>6. /\ IsSafe(left) <=> Agreed
      /\ IsSafe(left) => left.tree = [d EXCEPT ![to].balance = @ + tx.amount]
  BY DEF ApplyTxTransfer, Left, IsSafe
<1>7. \A p, q : /\ ProvesNothing(p, c, index) => served(p, q) = Reverts(RootOf(c))
                /\ Proves(p, client, c, index) =>
                      served(p, q) = IF ~IsOk(sent) THEN Served(sent)
                                     ELSE processReceiver(RootOf(d), to, token, tx.amount, q)
  BY TransferTxServed
<1>8. "Reverts" # "BadToTokenType" /\ Reverts(c).result = "Reverts" /\ ~IsOk(Reverts(c))
      /\ Reverts(RootOf(c)) = Served(Reverts(c))
  BY ServedIs DEF Reverts, Ended, IsOk
<1> HIDE DEF sent, d, step, left, made, served
<1> DEFINE Result(p, q) == Answered(kind, left, step, served(p, q))
           Good(p, q) == step.result # "BadToTokenType" /\ served(p, q) = Served(step)
<1>9. \A p, q : Good(p, q) => Result(p, q)
  BY KindsAre DEF Answered
<1> DEFINE Safe == IsSafe(left) => made.safe = TRUE /\ Mirrors(made.client, left.tree)
           Done == /\ \E p, q : made.proofs = <<p, q>> /\ Result(p, q)
                   /\ Safe
<1> HIDE DEF Result
(* A sender who is missing.                                                *)
<1>10. ASSUME index \notin DOMAIN c PROVE Done
  <2> DEFINE p == StateProof(EMPTY_STATE, getStateWitness(client, index))
  <2>1. made = Made(client, <<p, Placeholder>>, FALSE)
    BY <1>0, <1>1, <1>10 DEF applyTxTransfer
  <2>2. ProvesNothing(p, c, index)
    BY <1>10, WitnessLength DEF ProvesNothing, StateProof
  <2> HIDE DEF p
  <2>3. made.proofs = <<p, Placeholder>>
    BY <2>1 DEF Made
  <2>4. step = Reverts(c)
    BY <1>2, <1>3, <1>8, <1>10
  <2>5. Good(p, Placeholder)
    BY <1>7, <1>8, <2>2, <2>4
  <2>6. Safe
    BY <1>6, <1>10
  <2> QED
    BY <1>9, <2>3, <2>5, <2>6
(* A receiver who is missing, and is so too when the sender has paid.      *)
<1>11. ASSUME index \in DOMAIN c, to \notin DOMAIN c PROVE Done
  <2> DEFINE p == SenderProof(client, tx)
             q == StateProof(EMPTY_STATE, getStateWitness(client, to))
  <2>1. made = Made(client, <<p, q>>, FALSE)
    BY <1>0, <1>1, <1>11 DEF applyTxTransfer
  <2>2. Len(q.witness) = STATE_DEPTH /\ q.state = EMPTY_STATE
    BY WitnessLength DEF StateProof
  <2>3. Proves(p, client, c, index)
    BY <1>4, <1>11
  <2> HIDE DEF p, q
  <2>4. made.proofs = <<p, q>>
    BY <2>1 DEF Made
  <2>5. ASSUME ~IsOk(sent) PROVE Good(p, q)
    BY <1>2, <1>3, <1>7, <2>3, <2>5
  <2>6. ASSUME IsOk(sent) PROVE Good(p, q)
    <3>1. /\ d \in Trees /\ to \notin DOMAIN d /\ Mirrors(SenderPaid(client, tx), d)
          /\ sent.tree = d
      BY <1>3, <1>4, <1>11, <2>6
    <3>2. step = Reverts(d)
      BY <1>2, <2>6, <3>1 DEF ProcessReceiver
    <3>3. ProvesNothing(q, d, to)
      BY <2>2, <3>1 DEF ProvesNothing
    <3>4. served(p, q) = processReceiver(RootOf(d), to, token, tx.amount, q)
      BY <1>7, <2>3, <2>6
    <3>5. processReceiver(RootOf(d), to, token, tx.amount, q) = Reverts(RootOf(d))
      BY <1>0, <3>1, <3>3, ReceiverServed
    <3> QED
      BY <3>2, <3>4, <3>5, ServedIs DEF Reverts, Ended
  <2>7. Good(p, q)
    BY <2>5, <2>6
  <2>8. Safe
    BY <1>6, <1>11
  <2> QED
    BY <1>9, <2>4, <2>7, <2>8
(* Two who agree, and the sender can pay.                                  *)
<1>12. ASSUME Agreed PROVE Done
  <2> DEFINE paid == SenderPaid(client, tx)
             receiver == d[to]
             after == [receiver EXCEPT !.balance = @ + tx.amount]
             p == SenderProof(client, tx)
             q == StateProof(receiver, getStateWitness(paid, to))
  <2>1. /\ d \in Trees /\ to \in DOMAIN d /\ Mirrors(paid, d)
        /\ d[to].tokenType = c[index].tokenType
    BY <1>4, <1>12
  <2>2. receiver \in UserState
    BY <2>1, TreeType
  <2>3. paid.states = d
    BY <2>1 DEF Mirrors
  <2>4. made = Made(Written(paid, to, after), <<p, q>>, TRUE)
    BY <1>0, <1>1, <1>12, <2>3 DEF applyTxTransfer, TransferProofs
  <2>5. Proves(p, client, c, index) /\ Proves(q, paid, d, to)
    BY <1>4, <1>12, <2>1 DEF Proves
  <2> HIDE DEF paid, p, q
  <2>6. made.proofs = <<p, q>> /\ made.safe = TRUE /\ made.client = Written(paid, to, after)
    BY <2>4 DEF Made
  <2>7. after \in UserState
    BY <1>0, <2>2 DEF UserState
  <2>8. [d EXCEPT ![to].balance = @ + tx.amount] = [d EXCEPT ![to] = after]
    BY <2>1
  <2> HIDE DEF receiver, after
  <2>9. Safe
    <3>1. left.tree = Replaced(d, to, after)
      BY <1>0, <1>6, <1>12, <2>1, <2>7, <2>8, ReplacedIs
    <3>2. Mirrors(Written(paid, to, after), Replaced(d, to, after))
      BY <1>0, <2>1, <2>7, WrittenMirrors
    <3> QED
      BY <2>6, <3>1, <3>2
  <2>10. ASSUME ~IsOk(sent) PROVE Good(p, q)
    BY <1>2, <1>3, <1>7, <2>5, <2>10
  <2>11. ASSUME IsOk(sent) PROVE Good(p, q)
    <3>1. step = ProcessReceiver(d, to, token, tx.amount)
      BY <1>2, <1>3, <2>11
    <3>2. served(p, q) = Served(step)
      BY <1>0, <1>7, <2>1, <2>5, <2>11, <3>1, ReceiverServed
    <3>3. step.result = "Ok"
      BY <1>3, <2>1, <2>11, <3>1 DEF ProcessReceiver, Ended
    <3> QED
      BY <3>2, <3>3
  <2>12. Good(p, q)
    BY <2>10, <2>11
  <2> QED
    BY <1>9, <2>6, <2>9, <2>12
(* Two who do not agree: the receiver is a placeholder.                    *)
<1>13. ASSUME index \in DOMAIN c, to \in DOMAIN c, ~Agreed PROVE Done
  <2> DEFINE p == SenderProof(client, tx)
             q == Placeholder
  <2>1. made = Made(client, <<p, q>>, FALSE)
    BY <1>0, <1>1, <1>13 DEF applyTxTransfer
  <2>2. ProvesNothing(q, d, to)
    BY WitnessLength DEF Placeholder, ProvesNothing, StateProof
  <2>3. Proves(p, client, c, index)
    BY <1>4, <1>13
  <2> HIDE DEF p, q
  <2>4. made.proofs = <<p, q>>
    BY <2>1 DEF Made
  <2>5. ~IsSafe(left)
    BY <1>6, <1>13
  <2>6. ASSUME ~IsOk(sent) PROVE Result(p, q)
    <3>1. Good(p, q)
      BY <1>2, <1>3, <1>7, <2>3, <2>6
    <3> QED
      BY <1>9, <3>1
  <2>7. ASSUME IsOk(sent) PROVE Result(p, q)
    <3>1. /\ d \in Trees /\ to \in DOMAIN d /\ Mirrors(SenderPaid(client, tx), d)
          /\ sent.tree = d /\ d[to].tokenType # token
      BY <1>3, <1>4, <1>13, <2>7
    <3>2. step.result = "BadToTokenType"
      BY <1>2, <2>7, <3>1 DEF ProcessReceiver, Ended
    <3>3. served(p, q) = Reverts(RootOf(d))
      BY <1>0, <1>7, <2>2, <2>3, <2>7, <3>1, ReceiverServed
    <3>4. served(p, q).result = "Reverts"
      BY <3>3 DEF Reverts, Ended
    <3> QED
      BY <2>5, <3>2, <3>4, KindsAre DEF Answered, Result
  <2>8. Safe
    BY <2>5
  <2> QED
    BY <2>4, <2>6, <2>7, <2>8
<1>14. Done
  BY <1>10, <1>11, <1>12, <1>13
<1>15. PICK p, q : made.proofs = <<p, q>> /\ Result(p, q)
  BY <1>14
<1>16. Len(made.proofs) = PerTx(kind) /\ made.proofs[1] = p /\ made.proofs[2] = q
  BY <1>15, KindsAre
<1>17. ASSUME NEW proofs, NEW i, InPlace(kind, proofs, i, made.proofs)
       PROVE  Answered(kind, left, step, processTx(kind, RootOf(c), tx, token, proofs, i))
  <2>1. processTx(kind, RootOf(c), tx, token, proofs, i) = served(p, q)
    BY <1>16, <1>17, KindsAre DEF served
  <2> QED
    BY <1>15, <2>1 DEF Result
<1>18. Safe
  BY <1>14
<1> QED
  BY <1>5, <1>16, <1>17, <1>18 DEF TxServes, made, step, left

(* A transfer to a new state.                                              *)
LEMMA Create2TransferServes ==
    ASSUME NEW c \in Trees, NEW client, Mirrors(client, c), NEW tx \in Create2TransferTx,
           IsPayment(tx), NEW token
    PROVE  TxServes("Create2Transfer", client, c, tx, token,
                    ProcessCreate2Transfer(c, tx, token), ApplyTxCreate2Transfer(c, tx))
<1> DEFINE kind == "Create2Transfer"
           index == tx.fromIndex
           to == tx.toIndex
           sent == Sent(c, tx, token)
           d == Pay(c, tx)
           step == ProcessCreate2Transfer(c, tx, token)
           left == ApplyTxCreate2Transfer(c, tx)
           made == applyTx(kind, client, tx)
           p == SenderProof(client, tx)
           s == processSender(RootOf(c), index, token, tx.amount, tx.fee, p)
           served(q) == processCreate2TransferTx(RootOf(c), tx, token, p, q)
           receiver == CreateState(tx.toAccID, c[index].tokenType, tx.amount)
           paid == SenderPaid(client, tx)
           created == Written(paid, to, receiver)
           r == StateProof(receiver, getStateWitness(created, to))
<1>0. /\ tx.amount \in Nat /\ tx.toAccID \in Nat /\ client.states = c
      /\ index \in Indices /\ to \in Indices
  BY DEF IsPayment, Mirrors, Create2TransferTx, Indices
<1>1. made = IF ~CanPay(c, tx) THEN Made(client, <<p, Placeholder>>, FALSE)
             ELSE Made(created, <<p, r>>, TRUE)
  BY <1>0, KindsAre DEF applyTxCreate2Transfer
<1>2. step = IF IsOk(sent) THEN ProcessNewReceiver(sent.tree, to,
                                    CreateState(tx.toAccID, token, tx.amount))
             ELSE sent
  BY DEF ProcessCreate2Transfer, Then, Sent
<1>3. IsOk(sent) => /\ index \in DOMAIN c /\ CanPay(c, tx)
                    /\ c[index].tokenType = token /\ sent.tree = d
  BY SentIs
<1>4. index \in DOMAIN c =>
          /\ Proves(p, client, c, index) /\ p.state = c[index]
          /\ CanPay(c, tx) => d \in Trees /\ DOMAIN d = DOMAIN c /\ Mirrors(paid, d)
  BY <1>0, PaidMirrors DEF SenderProof, StateProof
<1>5. IsOk(step) => IsSafe(left) /\ left.tree = step.tree
  BY SelfGrown, Create2TransferAgrees
<1>6. left.status # "throws" =>
          /\ index \in DOMAIN c
          /\ CanPay(c, tx) => to \notin DOMAIN c /\ left.tree = Merged(d, [i \in {to} |-> receiver])
          /\ IsSafe(left) <=> CanPay(c, tx)
  BY DEF ApplyTxCreate2Transfer, Left, IsSafe
<1>7. /\ index \in DOMAIN c => s = Served(sent)
      /\ \A q : served(q) = IF IsOk(s)
                            THEN processCreate2TransferReceiver(s.tree, tx, p.state.tokenType, q)
                            ELSE s
  BY <1>4, SenderServed DEF processCreate2TransferTx, Then, Sent, IsPayment
<1>8. receiver \in UserState \/ index \notin DOMAIN c
  <2>1. index \in DOMAIN c => c[index].tokenType \in Nat
    BY TreeType DEF UserState
  <2> QED
    BY <1>0, <2>1 DEF CreateState, UserState
<1>9. c[index].tokenType = token => receiver = CreateState(tx.toAccID, token, tx.amount)
  OBVIOUS
<1> HIDE DEF sent, d, step, left, made, served, s, p, receiver, paid, created, r
<1>10. Len(made.proofs) = PerTx(kind)
  <2>1. \E q : made.proofs = <<p, q>>
    BY <1>1 DEF Made
  <2> QED
    BY <2>1, KindsAre
<1>11. ASSUME left.status # "throws", CanPay(c, tx)
       PROVE  /\ Mirrors(created, left.tree) /\ to \notin DOMAIN d
              /\ getStateWitness(created, to) = getStateWitness(paid, to)
  <2>1. index \in DOMAIN c /\ d \in Trees /\ to \notin DOMAIN d /\ Mirrors(paid, d)
        /\ receiver \in UserState /\ left.tree = Merged(d, [i \in {to} |-> receiver])
    BY <1>4, <1>6, <1>8, <1>11
  <2>2. left.tree = Replaced(d, to, receiver)
    BY <2>1 DEF Merged, Replaced
  <2>3. Mirrors(created, Replaced(d, to, receiver))
    BY <1>0, <2>1, WrittenMirrors DEF created
  <2>4. \A x \in Nat : x # to => LeafOf(Replaced(d, to, receiver), x) = LeafOf(d, x)
    BY <1>0, <2>1, ReplacedIs
  <2>5. getStateWitness(created, to) = getStateWitness(paid, to)
    BY <1>0, <2>1, <2>3, <2>4, WitnessIs
  <2> QED
    BY <2>1, <2>2, <2>3, <2>5
<1>12. ASSUME left.status # "throws", IsSafe(left)
       PROVE  made.safe = TRUE /\ Mirrors(made.client, left.tree)
  <2>1. CanPay(c, tx)
    BY <1>6, <1>12
  <2>2. made.safe = TRUE /\ made.client = created
    BY <1>1, <2>1 DEF Made
  <2> QED
    BY <1>11, <1>12, <2>1, <2>2
<1>13. ASSUME left.status # "throws", NEW proofs, NEW i, InPlace(kind, proofs, i, made.proofs)
       PROVE  Answered(kind, left, step, processTx(kind, RootOf(c), tx, token, proofs, i))
  <2>1. PICK q : made.proofs = <<p, q>> /\ (CanPay(c, tx) => q = r)
    BY <1>1 DEF Made
  <2>2. processTx(kind, RootOf(c), tx, token, proofs, i) = served(q)
    <3>1. made.proofs[1] = p /\ made.proofs[2] = q
      BY <2>1
    <3> QED
      BY <1>13, <3>1, KindsAre DEF served
  <2>3. index \in DOMAIN c /\ s = Served(sent)
    BY <1>6, <1>7, <1>13
  <2>4. ASSUME ~IsOk(sent) PROVE served(q) = Served(step)
    BY <1>2, <1>7, <2>3, <2>4, ServedIs
  <2>5. ASSUME IsOk(sent) PROVE served(q) = Served(step)
    <3>1. /\ CanPay(c, tx) /\ sent.tree = d /\ c[index].tokenType = token /\ q = r
          /\ d \in Trees /\ Mirrors(paid, d)
      BY <1>3, <1>4, <2>1, <2>3, <2>5
    <3>2. to \notin DOMAIN d /\ q.witness = getStateWitness(paid, to)
      BY <1>11, <1>13, <3>1 DEF StateProof, r
    <3>3. /\ receiver = CreateState(tx.toAccID, token, tx.amount)
          /\ receiver \in UserState
      BY <1>8, <1>9, <2>3, <3>1
    <3>4. processCreate2TransferReceiver(RootOf(d), tx, token, q)
             = Served(ProcessNewReceiver(d, to, receiver))
      BY <1>0, <3>1, <3>2, <3>3, NewReceiverServed
    <3>5. served(q) = processCreate2TransferReceiver(RootOf(d), tx, token, q)
      BY <1>4, <1>7, <2>3, <2>5, <3>1, ServedIs
    <3> QED
      BY <1>2, <2>5, <3>1, <3>3, <3>4, <3>5
  <2>6. served(q) = Served(step)
    BY <2>4, <2>5
  <2> QED
    BY <2>2, <2>6, KindsAre DEF Answered
<1> QED
  BY <1>5, <1>10, <1>12, <1>13 DEF TxServes, made, step, left
-----------------------------------------------------------------------------
(* The proofs of a batch: those of its transactions one after the other,   *)
(* and that of the fee.                                                    *)
Kinds == {"Transfer", "Create2Transfer", "MassMigration"}
IsList(list) == \E S : list \in Seq(S)
Begins(a, b) == Len(a) <= Len(b) /\ \A k \in 1 .. Len(a) : b[k] = a[k]

Joins(ab, a, b) ==
    /\ IsList(ab) /\ Len(a) \in Nat /\ Len(b) \in Nat
    /\ Len(ab) = Len(a) + Len(b)
    /\ \A k \in 1 .. Len(a) : ab[k] = a[k]
    /\ \A k \in 1 .. Len(b) : ab[Len(a) + k] = b[k]
    /\ Begins(a, ab)

LEMMA ListsJoin ==
    ASSUME NEW a, IsList(a), NEW b, IsList(b)
    PROVE  Joins(a \o b, a, b)
<1>1. PICK S : a \in Seq(S)
  BY DEF IsList
<1>2. PICK T : b \in Seq(T)
  BY DEF IsList
<1> DEFINE U == S \union T
<1>3. a \in Seq(U) /\ b \in Seq(U)
  <2>1. /\ a \in [1 .. Len(a) -> S] /\ Len(a) \in Nat
        /\ b \in [1 .. Len(b) -> T] /\ Len(b) \in Nat
    BY <1>1, <1>2
  <2>2. a \in [1 .. Len(a) -> U] /\ b \in [1 .. Len(b) -> U]
    BY <2>1
  <2> HIDE DEF U
  <2> QED
    BY <2>1, <2>2
<1> HIDE DEF U
<1>4. /\ a \o b \in Seq(U) /\ Len(a) \in Nat /\ Len(b) \in Nat
      /\ Len(a \o b) = Len(a) + Len(b)
      /\ \A k \in 1 .. Len(a) : (a \o b)[k] = a[k]
      /\ \A k \in 1 .. Len(b) : (a \o b)[Len(a) + k] = b[k]
  BY <1>3
<1> QED
  BY <1>4 DEF IsList, Begins, Joins

LEMMA BeginsOn ==
    ASSUME NEW a, NEW b, NEW c, Begins(a, b), Begins(b, c), Len(a) \in Nat, Len(b) \in Nat,
           Len(c) \in Nat
    PROVE  Begins(a, c)
BY DEF Begins

(* What a method returns.                                                  *)
LEMMA MadeIs ==
    ASSUME NEW kind \in Kinds, NEW client, NEW tx
    PROVE  LET made == applyTx(kind, client, tx)
           IN  /\ \E after, list, safe : made = Made(after, list, safe)
               /\ made.safe \in BOOLEAN /\ IsList(made.proofs)
<1> DEFINE Right(made) == /\ \E after, list, safe : made = Made(after, list, safe)
                          /\ made.safe \in BOOLEAN /\ IsList(made.proofs)
<1>1. ASSUME NEW after, NEW p, NEW q, NEW safe \in BOOLEAN
      PROVE  Right(Made(after, <<p, q>>, safe)) /\ Right(Made(after, <<p>>, safe))
  <2>1. /\ Made(after, <<p, q>>, safe).safe = safe /\ Made(after, <<p, q>>, safe).proofs = <<p, q>>
        /\ Made(after, <<p>>, safe).safe = safe /\ Made(after, <<p>>, safe).proofs = <<p>>
    BY DEF Made
  <2>2. <<p, q>> \in Seq({p, q}) /\ <<p>> \in Seq({p})
    OBVIOUS
  <2> QED
    BY <2>1, <2>2 DEF IsList
<1> HIDE DEF Right
<1>2. Right(applyMassMigration(client, tx))
  BY <1>1 DEF applyMassMigration
<1>3. Right(applyTxCreate2Transfer(client, tx))
  BY <1>1 DEF applyTxCreate2Transfer
<1>4. Right(TransferProofs(client, tx))
  BY <1>1 DEF TransferProofs
<1>5. Right(applyTxTransfer(client, tx))
  BY <1>1, <1>4 DEF applyTxTransfer
<1>6. Right(applyTx(kind, client, tx))
  BY <1>2, <1>3, <1>5, KindsAre DEF Kinds
<1> QED
  BY <1>6 DEF Right

MadeAfter(u, kind, client, txs, i) ==
    IF i = 0 THEN Made(client, <<>>, TRUE)
    ELSE IF ~u[i - 1].safe THEN u[i - 1]
    ELSE [applyTx(kind, u[i - 1].client, txs[i]) EXCEPT !.proofs = u[i - 1].proofs \o @]

Makes(u, n, kind, client, txs) ==
    \A i \in 0 .. n : u[i] = MadeAfter(u, kind, client, txs, i)

LEMMA MadeRuns ==
    ASSUME NEW kind, NEW client, NEW body, NEW n \in Nat, Len(body.txs) = n
    PROVE  \E u : /\ Makes(u, n, kind, client, body.txs)
                  /\ ProofsOf(kind, client, body)
                        = applyFee(u[n], Fees(body.txs), body.feeReceiver).proofs
<1> DEFINE txs == body.txs
           UpTo(u, m) == u = [i \in 0 .. m |-> MadeAfter(u, kind, client, txs, i)]
           T == {m \in 0 .. n : \E u : UpTo(u, m)}
<1>1. 0 \in T
  <2> DEFINE start == MadeAfter(0, kind, client, txs, 0)
             u == [i \in 0 .. 0 |-> start]
  <2>1. MadeAfter(u, kind, client, txs, 0) = start
    BY DEF MadeAfter
  <2>2. UpTo(u, 0)
    <3> HIDE DEF start
    <3> QED
      BY <2>1
  <2> HIDE DEF UpTo, u
  <2> QED
    BY <2>2
<1>2. ASSUME NEW k \in 1 .. n, k - 1 \in T PROVE k \in T
  <2>1. PICK u : UpTo(u, k - 1)
    BY <1>2
  <2> DEFINE v == [i \in 0 .. k |-> IF i < k THEN u[i] ELSE MadeAfter(u, kind, client, txs, k)]
  <2>2. \A i \in 0 .. k : v[i] = MadeAfter(v, kind, client, txs, i)
    <3>1. \A i \in 0 .. k - 1 : u[i] = MadeAfter(u, kind, client, txs, i)
      BY <2>1
    <3>2. \A i \in 0 .. k - 1 : v[i] = u[i]
      OBVIOUS
    <3>3. v[k] = MadeAfter(u, kind, client, txs, k)
      OBVIOUS
    <3> HIDE DEF v
    <3>4. \A i \in 0 .. k : MadeAfter(v, kind, client, txs, i) = MadeAfter(u, kind, client, txs, i)
      <4>1. \A i \in 0 .. k : i = 0 \/ v[i - 1] = u[i - 1]
        BY <3>2
      <4> QED
        BY <4>1, Zenon DEF MadeAfter
    <3> QED
      BY <3>1, <3>2, <3>3, <3>4
  <2>3. UpTo(v, k)
    <3> HIDE DEF v
    <3>1. v = [i \in 0 .. k |-> v[i]]
      BY DEF v
    <3> QED
      BY <2>2, <3>1
  <2> HIDE DEF v, UpTo
  <2> QED
    BY <2>3
<1>3. n \in T
  <2> HIDE DEF T
  <2> QED
    BY <1>1, <1>2, LoopInduction
<1> DEFINE u == CHOOSE u : UpTo(u, n)
<1>4. ProofsOf(kind, client, body) = applyFee(u[n], Fees(body.txs), body.feeReceiver).proofs
  BY DEF ProofsOf, MadeAfter
<1>5. UpTo(u, n)
  <2> HIDE DEF UpTo
  <2> QED
    BY <1>3
<1> HIDE DEF u
<1>6. \A i \in 0 .. n : u[i] = MadeAfter(u, kind, client, txs, i)
  BY <1>5
<1> QED
  BY <1>4, <1>6 DEF Makes

GrowsWith(u, i, made) ==
    /\ u[i].safe = made.safe /\ u[i].client = made.client
    /\ u[i].proofs = u[i - 1].proofs \o made.proofs

Grows(u, n, kind, txs) ==
    /\ \A i \in 0 .. n : u[i].safe \in BOOLEAN /\ IsList(u[i].proofs)
    /\ \A i \in 0 .. n : Begins(u[i].proofs, u[n].proofs)
    /\ \A i \in 1 .. n : u[i - 1].safe = TRUE =>
          GrowsWith(u, i, applyTx(kind, u[i - 1].client, txs[i]))

LEMMA ProofsGrow ==
    ASSUME NEW kind \in Kinds, NEW client, NEW txs, NEW n \in Nat, NEW u,
           Makes(u, n, kind, client, txs)
    PROVE  Grows(u, n, kind, txs)
<1> DEFINE made(i) == applyTx(kind, u[i - 1].client, txs[i])
           Grow(i) == /\ u[i].safe = made(i).safe /\ u[i].client = made(i).client
                       /\ u[i].proofs = u[i - 1].proofs \o made(i).proofs
           Right(i) == u[i].safe \in BOOLEAN /\ IsList(u[i].proofs)
<1>1. Right(0)
  <2>1. u[0] = Made(client, <<>>, TRUE)
    <3>1. u[0] = MadeAfter(u, kind, client, txs, 0)
      BY DEF Makes
    <3> QED
      BY <3>1, Zenon DEF MadeAfter
  <2>2. <<>> \in Seq({})
    OBVIOUS
  <2> QED
    BY <2>1, <2>2 DEF Made, IsList
<1>2. ASSUME NEW i \in 1 .. n, u[i - 1].safe = TRUE PROVE Grow(i)
  <2>1. u[i] = [made(i) EXCEPT !.proofs = u[i - 1].proofs \o @]
    <3>1. u[i] = MadeAfter(u, kind, client, txs, i) /\ i # 0
      BY DEF Makes
    <3> QED
      BY <1>2, <3>1, Zenon DEF MadeAfter
  <2>2. PICK after, list, safe : made(i) = Made(after, list, safe)
    BY MadeIs
  <2> HIDE DEF made
  <2> QED
    BY <2>1, <2>2 DEF Made
<1>3. ASSUME NEW i \in 1 .. n, u[i - 1].safe = FALSE PROVE u[i] = u[i - 1]
  <2>1. u[i] = MadeAfter(u, kind, client, txs, i) /\ i # 0
    BY DEF Makes
  <2> QED
    BY <1>3, <2>1, Zenon DEF MadeAfter
<1>4. \A i \in 1 .. n : made(i).safe \in BOOLEAN /\ IsList(made(i).proofs)
  BY MadeIs
<1> HIDE DEF made
<1> DEFINE T == {i \in 0 .. n : Right(i)}
<1>5. ASSUME NEW i \in 1 .. n, Right(i - 1)
      PROVE  Right(i) /\ Begins(u[i - 1].proofs, u[i].proofs)
  <2>1. CASE u[i - 1].safe = TRUE
    <3>1. Grow(i)
      BY <1>2, <2>1
    <3>2. u[i].safe \in BOOLEAN
      BY <1>4, <3>1
    <3>3. IsList(u[i].proofs) /\ Begins(u[i - 1].proofs, u[i].proofs)
      BY <1>4, <1>5, <3>1, ListsJoin DEF Joins
    <3> QED
      BY <3>2, <3>3
  <2>2. CASE u[i - 1].safe = FALSE
    <3>1. u[i] = u[i - 1]
      BY <1>3, <2>2
    <3>2. Len(u[i].proofs) \in Nat
      BY <1>5, <3>1 DEF IsList
    <3> QED
      BY <1>5, <3>1, <3>2 DEF Begins
  <2> QED
    BY <1>5, <2>1, <2>2
<1>6. \A i \in 0 .. n : Right(i)
  <2>1. 0 .. n \subseteq T
    <3>1. 0 \in T
      BY <1>1
    <3>2. \A i \in 1 .. n : i - 1 \in T => i \in T
      BY <1>5
    <3> HIDE DEF T
    <3> QED
      BY <3>1, <3>2, LoopInduction
  <2> QED
    BY <2>1
<1>7. \A i \in 0 .. n : Len(u[i].proofs) \in Nat
  BY <1>6 DEF IsList
<1>8. ASSUME NEW i \in 0 .. n PROVE Begins(u[i].proofs, u[n].proofs)
  <2> DEFINE R == {m \in 0 .. n : m >= i => Begins(u[i].proofs, u[m].proofs)}
  <2>1. 0 \in R
    <3>1. 0 >= i => i = 0
      OBVIOUS
    <3>2. Begins(u[0].proofs, u[0].proofs)
      BY <1>7 DEF Begins
    <3> QED
      BY <3>1, <3>2
  <2>2. ASSUME NEW m \in 1 .. n, m - 1 \in R PROVE m \in R
    <3>1. CASE m > i
      <4>1. m - 1 >= i /\ m - 1 \in 0 .. n
        BY <3>1
      <4>2. Begins(u[i].proofs, u[m - 1].proofs)
        BY <2>2, <4>1
      <4>3. Begins(u[m - 1].proofs, u[m].proofs)
        BY <1>5, <1>6, <4>1
      <4> QED
        BY <1>7, <4>1, <4>2, <4>3, BeginsOn
    <3>2. CASE m = i
      BY <1>7, <3>2 DEF Begins
    <3> QED
      BY <3>1, <3>2
  <2>3. 0 .. n \subseteq R
    <3> HIDE DEF R
    <3> QED
      BY <2>1, <2>2, LoopInduction
  <2> QED
    BY <2>3
<1> QED
  BY <1>2, <1>6, <1>8 DEF made, GrowsWith, Grows

(* The loop of the contracts over the transactions, with those proofs.     *)
ServedAfter(h, kind, root, txs, token, proofs, i) ==
    IF i = 0 THEN Ended("Ok", root)
    ELSE IF IsOk(h[i - 1]) THEN processTx(kind, h[i - 1].tree, txs[i], token, proofs, i)
    ELSE h[i - 1]

Serves(h, n, kind, root, txs, token, proofs) ==
    \A i \in 0 .. n : h[i] = ServedAfter(h, kind, root, txs, token, proofs, i)

LEMMA ServedRuns ==
    ASSUME NEW kind, NEW root, NEW body, NEW n \in Nat, Len(body.txs) = n, NEW token,
           NEW proofs, NEW last
    PROVE  \E h : /\ Serves(h, n, kind, root, body.txs, token, proofs)
                  /\ processCommit(kind, root, body, token, proofs, last)
                        = IF IsOk(h[n])
                          THEN processReceiver(h[n].tree, body.feeReceiver, token,
                                               Fees(body.txs), proofs[last])
                          ELSE h[n]
<1> DEFINE txs == body.txs
           Next(h, i) == ServedAfter(h, kind, root, txs, token, proofs, i)
           UpTo(h, m) == h = [i \in 0 .. m |-> Next(h, i)]
           T == {m \in 0 .. n : \E h : UpTo(h, m)}
<1>1. 0 \in T
  <2> DEFINE start == Next(0, 0)
             h == [i \in 0 .. 0 |-> start]
  <2>1. Next(h, 0) = start
    BY DEF ServedAfter
  <2>2. UpTo(h, 0)
    <3> HIDE DEF start, Next
    <3> QED
      BY <2>1
  <2> HIDE DEF UpTo, h
  <2> QED
    BY <2>2
<1>2. ASSUME NEW k \in 1 .. n, k - 1 \in T PROVE k \in T
  <2>1. PICK h : UpTo(h, k - 1)
    BY <1>2
  <2> DEFINE v == [i \in 0 .. k |-> IF i < k THEN h[i] ELSE Next(h, k)]
  <2>2. \A i \in 0 .. k : v[i] = Next(v, i)
    <3>1. \A i \in 0 .. k - 1 : h[i] = Next(h, i)
      BY <2>1
    <3>2. \A i \in 0 .. k - 1 : v[i] = h[i]
      OBVIOUS
    <3>3. v[k] = Next(h, k)
      OBVIOUS
    <3> HIDE DEF v
    <3>4. \A i \in 0 .. k : Next(v, i) = Next(h, i)
      <4>1. \A i \in 0 .. k : i = 0 \/ v[i - 1] = h[i - 1]
        BY <3>2
      <4> QED
        BY <4>1, Zenon DEF ServedAfter
    <3> HIDE DEF Next
    <3> QED
      BY <3>1, <3>2, <3>3, <3>4
  <2>3. UpTo(v, k)
    <3> HIDE DEF v, Next
    <3>1. v = [i \in 0 .. k |-> v[i]]
      BY DEF v
    <3> QED
      BY <2>2, <3>1
  <2> HIDE DEF v, UpTo
  <2> QED
    BY <2>3
<1>3. n \in T
  <2> HIDE DEF T
  <2> QED
    BY <1>1, <1>2, LoopInduction
<1> DEFINE h == CHOOSE h : UpTo(h, n)
<1>4. processCommit(kind, root, body, token, proofs, last)
         = IF IsOk(h[n]) THEN processReceiver(h[n].tree, body.feeReceiver, token,
                                              Fees(body.txs), proofs[last])
           ELSE h[n]
  BY DEF processCommit, ServedAfter, Then
<1>5. UpTo(h, n)
  <2> HIDE DEF UpTo
  <2> QED
    BY <1>3
<1> HIDE DEF h
<1>6. \A i \in 0 .. n : h[i] = Next(h, i)
  <2> HIDE DEF Next
  <2> QED
    BY <1>5
<1> QED
  BY <1>4, <1>6 DEF Serves

(* A client that stops stays as it is.                                     *)
LEMMA ClientStops ==
    ASSUME NEW n \in Nat, NEW left, NEW t, NEW apply, ClientRuns(left, n, t, apply),
           NEW i \in 0 .. n, ~IsSafe(left[i])
    PROVE  left[n] = left[i]
<1> DEFINE T == {m \in 0 .. n : m >= i => left[m] = left[i]}
<1>1. 0 \in T
  OBVIOUS
<1>2. ASSUME NEW m \in 1 .. n, m - 1 \in T PROVE m \in T
  <2>1. ASSUME m > i PROVE left[m] = left[i]
    <3>1. left[m - 1] = left[i]
      BY <1>2, <2>1
    <3> QED
      BY <3>1 DEF ClientRuns
  <2> QED
    BY <2>1
<1>3. 0 .. n \subseteq T
  <2> HIDE DEF T
  <2> QED
    BY <1>1, <1>2, LoopInduction
<1> QED
  BY <1>3

(* The proofs of the i-th transaction are where the contracts look.        *)
LEMMA InPlaceIs ==
    ASSUME NEW kind \in Kinds, NEW i \in Nat \ {0}, NEW a, IsList(a), NEW b, IsList(b),
           Len(a) = PerTx(kind) * (i - 1), Len(b) = PerTx(kind),
           NEW proofs, Begins(a \o b, proofs)
    PROVE  InPlace(kind, proofs, i, b) /\ Len(a \o b) = PerTx(kind) * i
<1>1. /\ Len(a \o b) = Len(a) + Len(b)
      /\ \A k \in 1 .. Len(b) : (a \o b)[Len(a) + k] = b[k]
      /\ \A k \in 1 .. Len(a \o b) : proofs[k] = (a \o b)[k]
  <2>1. Joins(a \o b, a, b)
    BY ListsJoin
  <2> QED
    BY <2>1 DEF Begins, Joins
<1>2. CASE kind = "MassMigration"
  <2>1. Len(a) = i - 1 /\ Len(b) = 1
    BY <1>2, KindsAre
  <2>2. proofs[i] = b[1] /\ Len(a \o b) = i
    BY <1>1, <2>1
  <2> QED
    BY <1>2, <2>2, KindsAre
<1>3. CASE kind \in {"Transfer", "Create2Transfer"}
  <2>1. Len(a) = 2 * (i - 1) /\ Len(b) = 2 /\ PerTx(kind) = 2
    BY <1>3, KindsAre
  <2>2. /\ Len(a \o b) = 2 * i
        /\ proofs[2 * i - 1] = b[1] /\ proofs[2 * i] = b[2]
    <3>1. 2 * (i - 1) + 1 = 2 * i - 1 /\ 2 * (i - 1) + 2 = 2 * i
      OBVIOUS
    <3>2. Len(a \o b) = 2 * i
      BY <1>1, <2>1, <3>1
    <3>3. 2 * i - 1 \in 1 .. 2 * i /\ 2 * i \in 1 .. 2 * i
      OBVIOUS
    <3>4. (a \o b)[2 * i - 1] = b[1] /\ (a \o b)[2 * i] = b[2]
      BY <1>1, <2>1, <3>1
    <3> QED
      BY <1>1, <3>2, <3>3, <3>4
  <2> QED
    BY <1>3, <2>1, <2>2, KindsAre
<1> QED
  BY <1>2, <1>3 DEF Kinds

(* The whole loop: what the contracts answer of every transaction with the *)
(* proofs of the batch, they answer of all of them.                        *)
LoopAnswers(kind, t, client, n, txs, token, left, loop, u, h) ==
    /\ Answered(kind, left[n], loop[n], h[n])
    /\ IsOk(loop[n]) =>
          /\ IsSafe(left[n]) /\ left[n].tree = loop[n].tree
          /\ u[n].safe = TRUE /\ Mirrors(u[n].client, loop[n].tree)
          /\ Len(u[n].proofs) = PerTx(kind) * n

LEMMA OkAnswered ==
    ASSUME NEW kind \in Kinds, NEW left, NEW step, NEW served, Answered(kind, left, step, served)
    PROVE  /\ IsOk(step) <=> IsOk(served)
           /\ IsOk(step) => served = Served(step)
<1>1. \A result \in Unproved(kind) \union Excused(kind) : result # "Ok"
  BY KindsAre DEF Kinds, Excused
<1> QED
  BY <1>1, ServedIs DEF Answered, IsOk

LEMMA LoopServes ==
    ASSUME NEW kind \in Kinds, NEW n \in Nat, NEW txs, NEW token, NEW t \in Trees,
           NEW client, Mirrors(client, t),
           NEW process \in [1 .. n -> [Trees -> Steps]], NEW loop,
           Runs(loop, n, Steps, Ended("Ok", t), Each(process, n)),
           NEW apply, NEW left, ClientRuns(left, n, t, apply), left[n].status # "throws",
           NEW u, Makes(u, n, kind, client, txs),
           NEW proofs, Begins(u[n].proofs, proofs), Len(proofs) \in Nat,
           NEW h, Serves(h, n, kind, RootOf(t), txs, token, proofs),
           \A i \in 1 .. n, c \in Trees : \A m : Mirrors(m, c) =>
               TxServes(kind, m, c, txs[i], token, process[i][c], apply[i][c])
    PROVE  LoopAnswers(kind, t, client, n, txs, token, left, loop, u, h)
<1> DEFINE Good(i) == LoopAnswers(kind, t, client, i, txs, token, left, loop, u, h)
           T == {i \in 0 .. n : Good(i)}
<1>1. /\ loop[0] = Ended("Ok", t) /\ \A i \in 0 .. n : loop[i] \in Steps
      /\ \A i \in 1 .. n : loop[i] = IF IsOk(loop[i - 1]) THEN process[i][loop[i - 1].tree]
                                     ELSE loop[i - 1]
  BY EachType DEF Runs
<1>2. /\ \A i \in 0 .. n : u[i].safe \in BOOLEAN /\ IsList(u[i].proofs)
      /\ \A i \in 0 .. n : Begins(u[i].proofs, u[n].proofs)
      /\ \A i \in 1 .. n : u[i - 1].safe = TRUE =>
            GrowsWith(u, i, applyTx(kind, u[i - 1].client, txs[i]))
  BY ProofsGrow DEF Grows
<1>3. \A i \in 0 .. n : Begins(u[i].proofs, proofs)
  <2>1. \A i \in 0 .. n : Len(u[i].proofs) \in Nat
    BY <1>2 DEF IsList
  <2> QED
    BY <1>2, <2>1, BeginsOn
<1>4. \A i \in 0 .. n : left[i].status # "throws"
  <2>1. ASSUME NEW i \in 0 .. n, left[i].status = "throws" PROVE FALSE
    <3>1. ~IsSafe(left[i])
      BY <2>1 DEF IsSafe
    <3> QED
      BY <2>1, <3>1, ClientStops
  <2> QED
    BY <2>1
<1>5. 0 \in T
  <2>1. h[0] = Served(loop[0])
    <3>1. h[0] = ServedAfter(h, kind, RootOf(t), txs, token, proofs, 0)
      BY DEF Serves
    <3> QED
      BY <1>1, <3>1, ServedIs DEF ServedAfter
  <2>2. u[0] = Made(client, <<>>, TRUE)
    <3>1. u[0] = MadeAfter(u, kind, client, txs, 0)
      BY DEF Makes
    <3> QED
      BY <3>1, Zenon DEF MadeAfter
  <2>3. /\ loop[0].result = "Ok" /\ loop[0].tree = t
        /\ left[0].status = "safe" /\ left[0].tree = t
        /\ u[0].safe = TRUE /\ u[0].client = client /\ Len(u[0].proofs) = 0
    BY <1>1, <2>2 DEF Ended, ClientRuns, Left, Made
  <2>4. "Ok" \notin Unproved(kind)
    BY KindsAre DEF Kinds
  <2>5. Len(u[0].proofs) = PerTx(kind) * 0
    BY <2>3, KindsAre DEF Kinds
  <2> QED
    BY <2>1, <2>3, <2>4, <2>5 DEF LoopAnswers, Answered, IsSafe
<1>6. ASSUME NEW i \in 1 .. n, i - 1 \in T PROVE i \in T
  <2>1. LoopAnswers(kind, t, client, i - 1, txs, token, left, loop, u, h)
    BY <1>6
  <2>2. h[i] = IF IsOk(h[i - 1]) THEN processTx(kind, h[i - 1].tree, txs[i], token, proofs, i)
               ELSE h[i - 1]
    <3>1. h[i] = ServedAfter(h, kind, RootOf(t), txs, token, proofs, i) /\ i # 0
      BY DEF Serves
    <3> QED
      BY <3>1, Zenon DEF ServedAfter
  <2>3. /\ IsOk(loop[i - 1]) <=> IsOk(h[i - 1])
        /\ IsOk(loop[i - 1]) => h[i - 1] = Served(loop[i - 1])
    BY <2>1, OkAnswered DEF LoopAnswers
  <2>4. ASSUME ~IsOk(loop[i - 1]) PROVE Good(i)
    <3>1. loop[i] = loop[i - 1] /\ h[i] = h[i - 1]
      BY <1>1, <2>2, <2>3, <2>4
    <3>2. ~IsSafe(left[i - 1]) => left[i] = left[i - 1]
      BY DEF ClientRuns
    <3> QED
      BY <2>1, <2>4, <3>1, <3>2 DEF LoopAnswers, Answered
  <2>5. ASSUME IsOk(loop[i - 1]) PROVE Good(i)
    <3> DEFINE c == loop[i - 1].tree
               m == u[i - 1].client
               tx == txs[i]
               made == applyTx(kind, m, tx)
    <3>1. /\ c \in Trees /\ Mirrors(m, c) /\ h[i - 1].tree = RootOf(c) /\ IsOk(h[i - 1])
          /\ u[i - 1].safe = TRUE /\ IsSafe(left[i - 1]) /\ left[i - 1].tree = c
          /\ Len(u[i - 1].proofs) = PerTx(kind) * (i - 1)
      <4>1. loop[i - 1] \in Steps
        BY <1>1
      <4>2. c \in Trees
        BY <4>1 DEF Steps
      <4>3. h[i - 1].tree = RootOf(c) /\ IsOk(h[i - 1])
        BY <2>3, <2>5, ServedIs
      <4> QED
        BY <2>1, <2>5, <4>2, <4>3 DEF LoopAnswers
    <3>2. /\ loop[i] = process[i][c] /\ left[i] = apply[i][c]
          /\ h[i] = processTx(kind, RootOf(c), tx, token, proofs, i)
      BY <1>1, <2>2, <2>5, <3>1 DEF ClientRuns
    <3>3. TxServes(kind, m, c, tx, token, loop[i], left[i])
      BY <3>1, <3>2
    <3>4. /\ u[i].safe = made.safe /\ u[i].client = made.client
          /\ u[i].proofs = u[i - 1].proofs \o made.proofs
      BY <1>2, <3>1 DEF GrowsWith
    <3>5. IsList(made.proofs) /\ IsList(u[i - 1].proofs)
      BY <1>2, MadeIs
    <3> HIDE DEF made
    <3>6. /\ Len(made.proofs) = PerTx(kind)
          /\ IsOk(loop[i]) => IsSafe(left[i]) /\ left[i].tree = loop[i].tree
          /\ IsSafe(left[i]) => made.safe = TRUE /\ Mirrors(made.client, left[i].tree)
          /\ InPlace(kind, proofs, i, made.proofs) => Answered(kind, left[i], loop[i], h[i])
      BY <1>4, <3>2, <3>3 DEF TxServes, made
    <3>7. InPlace(kind, proofs, i, made.proofs) /\ Len(u[i].proofs) = PerTx(kind) * i
      <4>1. Begins(u[i - 1].proofs \o made.proofs, proofs)
        <5>1. Begins(u[i].proofs, proofs)
          BY <1>3
        <5> QED
          BY <3>4, <5>1, Zenon
      <4>2. i \in Nat \ {0}
        OBVIOUS
      <4> QED
        BY <3>1, <3>4, <3>5, <3>6, <4>1, <4>2, InPlaceIs
    <3> QED
      BY <3>4, <3>6, <3>7 DEF LoopAnswers
  <2> QED
    BY <2>4, <2>5
<1>7. 0 .. n \subseteq T
  <2> HIDE DEF T
  <2> QED
    BY <1>5, <1>6, LoopInduction
<1> QED
  BY <1>7
-----------------------------------------------------------------------------
(* A batch, with its fee.                                                  *)
CommitAnswered(kind, left, step, served) ==
    \/ /\ served = Served(step)
       /\ step.result \in Unproved(kind) => kind = "Transfer" /\ IsSafe(left)
    \/ ~IsSafe(left) /\ served.result = "Reverts" /\ step.result \in Excused(kind)

WithFee(loop, body, token) ==
    IF IsOk(loop) THEN ProcessReceiver(loop.tree, body.feeReceiver, token, Fees(body.txs))
    ELSE loop

(* The proof of the fee receiver comes after those of the transactions.    *)
LEMMA FeeProofIs ==
    ASSUME NEW kind \in Kinds, NEW n \in Nat, NEW body, NEW made, IsList(made.proofs)
    PROVE  LET index == body.feeReceiver
               proofs == applyFee(made, Fees(body.txs), index).proofs
           IN  /\ Begins(made.proofs, proofs) /\ Len(proofs) \in Nat
               /\ proofs[Len(made.proofs) + 1] =
                     IF index \notin DOMAIN made.client.states THEN Placeholder
                     ELSE StateProof(made.client.states[index],
                                     getStateWitness(made.client, index))
<1> DEFINE index == body.feeReceiver
           proofs == applyFee(made, Fees(body.txs), index).proofs
           last == IF index \notin DOMAIN made.client.states THEN Placeholder
                   ELSE StateProof(made.client.states[index],
                                   getStateWitness(made.client, index))
           a == made.proofs
<1>1. proofs = Append(a, last)
  BY DEF applyFee, Made
<1> HIDE DEF proofs, last, a
<1>2. PICK S : a \in Seq(S)
  BY DEF IsList, a
<1> DEFINE U == S \union {last}
<1>3. a \in Seq(U)
  <2>1. a \in [1 .. Len(a) -> S] /\ Len(a) \in Nat
    BY <1>2
  <2>2. a \in [1 .. Len(a) -> U]
    BY <2>1
  <2> HIDE DEF U
  <2> QED
    BY <2>1, <2>2
<1>4. last \in U
  OBVIOUS
<1> HIDE DEF U
<1>5. /\ Len(proofs) = Len(a) + 1 /\ Len(a) \in Nat /\ proofs[Len(a) + 1] = last
      /\ \A k \in 1 .. Len(a) : proofs[k] = a[k]
  BY <1>1, <1>3, <1>4
<1> QED
  BY <1>5 DEF Begins, proofs, last, a

LEMMA FeeServed ==
    ASSUME NEW kind \in Kinds, NEW n \in Nat, NEW txs, NEW token, NEW t \in Trees, NEW client,
           NEW body, body.feeReceiver \in Indices, Fees(body.txs) \in Nat,
           NEW left, NEW loop, loop[n] \in Steps, NEW u, IsList(u[n].proofs), NEW h,
           LoopAnswers(kind, t, client, n, txs, token, left, loop, u, h),
           NEW proofs, proofs = applyFee(u[n], Fees(body.txs), body.feeReceiver).proofs
    PROVE  CommitAnswered(kind, left[n], WithFee(loop[n], body, token),
               IF IsOk(h[n]) THEN processReceiver(h[n].tree, body.feeReceiver, token,
                                                  Fees(body.txs), proofs[PerTx(kind) * n + 1])
               ELSE h[n])
<1> DEFINE index == body.feeReceiver
           fees == Fees(body.txs)
           proof == proofs[PerTx(kind) * n + 1]
           served == IF IsOk(h[n]) THEN processReceiver(h[n].tree, index, token, fees, proof)
                     ELSE h[n]
           step == WithFee(loop[n], body, token)
<1>1. /\ IsOk(loop[n]) <=> IsOk(h[n])
      /\ IsOk(loop[n]) => h[n] = Served(loop[n])
      /\ Answered(kind, left[n], loop[n], h[n])
  BY OkAnswered DEF LoopAnswers
<1>2. ASSUME ~IsOk(loop[n]) PROVE CommitAnswered(kind, left[n], step, served)
  BY <1>1, <1>2 DEF CommitAnswered, Answered, WithFee
<1>3. ASSUME IsOk(loop[n]) PROVE CommitAnswered(kind, left[n], step, served)
  <2> DEFINE c == loop[n].tree
             m == u[n].client
  <2>1. /\ c \in Trees /\ Mirrors(m, c) /\ IsSafe(left[n]) /\ h[n].tree = RootOf(c)
        /\ Len(u[n].proofs) = PerTx(kind) * n /\ IsOk(h[n])
    BY <1>1, <1>3, ServedIs DEF LoopAnswers, Steps
  <2>2. proof = IF index \notin DOMAIN m.states THEN Placeholder
                ELSE StateProof(m.states[index], getStateWitness(m, index))
    BY <2>1, FeeProofIs
  <2>3. m.states = c
    BY <2>1 DEF Mirrors
  <2>4. /\ served = processReceiver(RootOf(c), index, token, fees, proof)
        /\ step = ProcessReceiver(c, index, token, fees)
    BY <1>3, <2>1 DEF WithFee
  <2> HIDE DEF proof, served, step
  <2>5. served = Served(step)
    <3>1. CASE index \in DOMAIN c
      <4>1. Proves(proof, m, c, index)
        BY <2>2, <2>3, <3>1 DEF Proves
      <4> QED
        BY <2>1, <2>4, <4>1, ReceiverServed
    <3>2. CASE index \notin DOMAIN c
      <4>1. ProvesNothing(proof, c, index)
        BY <2>2, <2>3, <3>2, WitnessLength DEF ProvesNothing, Placeholder, StateProof
      <4>2. served = Reverts(RootOf(c))
        BY <2>1, <2>4, <4>1, ReceiverServed
      <4>3. step = Reverts(c)
        BY <2>4, <3>2 DEF ProcessReceiver
      <4> QED
        BY <4>2, <4>3, ServedIs
    <3> QED
      BY <3>1, <3>2
  <2>6. step.result \in {"Ok", "Reverts", "BadToTokenType"}
    BY <2>4 DEF ProcessReceiver, Reverts, Ended
  <2>7. step.result \in Unproved(kind) => kind = "Transfer"
    BY <2>6, KindsAre DEF Kinds
  <2> QED
    BY <2>1, <2>5, <2>7 DEF CommitAnswered
<1> QED
  BY <1>2, <1>3 DEF step, served, proof

(* What the contracts answer of a batch with the proofs that were made.    *)
ServedCommit(kind, t, body, token) ==
    processCommit(kind, RootOf(t), body, token, ProofsOf(kind, createStateBulk(t), body),
                  PerTx(kind) * Len(body.txs) + 1)

LEMMA BatchServes ==
    ASSUME NEW kind \in Kinds, NEW t \in Trees, NEW body, NEW n \in Nat, Len(body.txs) = n,
           body.feeReceiver \in Indices, Fees(body.txs) \in Nat, NEW token,
           NEW process \in [1 .. n -> [Trees -> Steps]], NEW loop,
           Runs(loop, n, Steps, Ended("Ok", t), Each(process, n)),
           NEW apply, NEW left, ClientRuns(left, n, t, apply), left[n].status # "throws",
           \A i \in 1 .. n, c \in Trees : \A m : Mirrors(m, c) =>
               TxServes(kind, m, c, body.txs[i], token, process[i][c], apply[i][c])
    PROVE  CommitAnswered(kind, left[n], WithFee(loop[n], body, token),
                          ServedCommit(kind, t, body, token))
<1> DEFINE client == createStateBulk(t)
           txs == body.txs
           proofs == ProofsOf(kind, client, body)
           fees == Fees(body.txs)
           index == body.feeReceiver
<1>1. Mirrors(client, t)
  BY BulkMirrors
<1> HIDE DEF client
<1>2. PICK u : /\ Makes(u, n, kind, client, txs)
               /\ proofs = applyFee(u[n], fees, index).proofs
  BY MadeRuns
<1> HIDE DEF proofs
<1>3. PICK h : /\ Serves(h, n, kind, RootOf(t), txs, token, proofs)
               /\ processCommit(kind, RootOf(t), body, token, proofs, PerTx(kind) * n + 1)
                     = IF IsOk(h[n])
                       THEN processReceiver(h[n].tree, index, token, fees,
                                            proofs[PerTx(kind) * n + 1])
                       ELSE h[n]
  BY ServedRuns
<1>4. \A i \in 0 .. n : IsList(u[i].proofs)
  <2>1. Grows(u, n, kind, txs)
    BY <1>2, ProofsGrow
  <2> QED
    BY <2>1 DEF Grows
<1>5. Begins(u[n].proofs, proofs) /\ Len(proofs) \in Nat
  <2>1. IsList(u[n].proofs)
    BY <1>4
  <2>2. LET made == applyFee(u[n], fees, index).proofs
        IN  Begins(u[n].proofs, made) /\ Len(made) \in Nat
    BY <2>1, FeeProofIs
  <2> QED
    BY <1>2, <2>2
<1>6. LoopAnswers(kind, t, client, n, txs, token, left, loop, u, h)
  BY <1>1, <1>2, <1>3, <1>5, LoopServes
<1>7. loop[n] \in Steps
  BY DEF Runs
<1>8. CommitAnswered(kind, left[n], WithFee(loop[n], body, token),
          IF IsOk(h[n]) THEN processReceiver(h[n].tree, index, token, fees,
                                             proofs[PerTx(kind) * n + 1])
          ELSE h[n])
  BY <1>2, <1>4, <1>6, <1>7, FeeServed
<1> QED
  BY <1>3, <1>8 DEF ServedCommit, proofs, client

(* The first proof, of which the token of a commitment is taken.           *)
LEMMA FirstProof ==
    ASSUME NEW kind \in Kinds, NEW client, NEW body, NEW n \in Nat, Len(body.txs) = n, n >= 1
    PROVE  LET made == applyTx(kind, client, body.txs[1])
           IN  Len(made.proofs) >= 1 => ProofsOf(kind, client, body)[1] = made.proofs[1]
<1> DEFINE made == applyTx(kind, client, body.txs[1])
           proofs == ProofsOf(kind, client, body)
<1> SUFFICES ASSUME Len(made.proofs) >= 1 PROVE proofs[1] = made.proofs[1]
  OBVIOUS
<1>1. PICK u : /\ Makes(u, n, kind, client, body.txs)
               /\ proofs = applyFee(u[n], Fees(body.txs), body.feeReceiver).proofs
  BY MadeRuns
<1>2. IsList(made.proofs)
  BY MadeIs
<1> HIDE DEF proofs, made
<1>3. u[0] = Made(client, <<>>, TRUE)
  <2>1. u[0] = MadeAfter(u, kind, client, body.txs, 0)
    BY <1>1 DEF Makes
  <2> QED
    BY <2>1, Zenon DEF MadeAfter
<1>4. /\ \A i \in 0 .. n : IsList(u[i].proofs)
      /\ Begins(u[1].proofs, u[n].proofs)
      /\ GrowsWith(u, 1, applyTx(kind, u[0].client, body.txs[1]))
  <2>1. u[1 - 1].safe = TRUE /\ 1 - 1 = 0
    BY <1>3 DEF Made
  <2>2. Grows(u, n, kind, body.txs)
    BY <1>1, ProofsGrow
  <2> QED
    BY <2>1, <2>2 DEF Grows
<1>5. u[1].proofs = <<>> \o made.proofs
  <2>1. u[0].client = client /\ u[0].proofs = <<>> /\ 1 - 1 = 0
    BY <1>3 DEF Made
  <2>2. u[1].proofs = u[1 - 1].proofs \o made.proofs
    BY <1>4, <2>1 DEF GrowsWith, made
  <2> QED
    BY <2>1, <2>2
<1>6. u[1].proofs = made.proofs
  <2>1. PICK S : made.proofs \in Seq(S)
    BY <1>2 DEF IsList
  <2> QED
    BY <1>5, <2>1
<1>7. Begins(u[n].proofs, proofs) /\ Len(u[n].proofs) \in Nat
  <2>1. IsList(u[n].proofs)
    BY <1>4
  <2>2. Begins(u[n].proofs, proofs)
    BY <1>1, <2>1, FeeProofIs
  <2> QED
    BY <2>1, <2>2 DEF IsList
<1> QED
  BY <1>4, <1>6, <1>7 DEF Begins, made, proofs
-----------------------------------------------------------------------------
(* Whatever fails at the first transaction has failed.                     *)
LEMMA FailedFromTheFirst ==
    ASSUME NEW n \in Nat, n >= 1, NEW t \in Trees,
           NEW process \in [1 .. n -> [Trees -> Steps]], NEW loop,
           Runs(loop, n, Steps, Ended("Ok", t), Each(process, n)), ~IsOk(process[1][t])
    PROVE  loop[n] = process[1][t]
<1>1. /\ loop[0] = Ended("Ok", t) /\ \A i \in 0 .. n : loop[i] \in Steps
      /\ \A i \in 1 .. n : loop[i] = IF IsOk(loop[i - 1]) THEN process[i][loop[i - 1].tree]
                                     ELSE loop[i - 1]
  BY EachType DEF Runs
<1>2. IsOk(loop[0]) /\ loop[0].tree = t
  BY <1>1 DEF Ended, IsOk
<1> DEFINE T == {i \in 0 .. n : i >= 1 => loop[i] = process[1][t]}
<1>3. 0 \in T
  OBVIOUS
<1>4. ASSUME NEW i \in 1 .. n, i - 1 \in T PROVE i \in T
  <2>1. CASE i = 1
    BY <1>1, <1>2, <2>1
  <2>2. CASE i > 1
    <3>1. loop[i - 1] = process[1][t]
      BY <1>4, <2>2
    <3> QED
      BY <1>1, <2>2, <3>1
  <2> QED
    BY <2>1, <2>2
<1>5. 0 .. n \subseteq T
  <2> HIDE DEF T
  <2> QED
    BY <1>3, <1>4, LoopInduction
<1> QED
  BY <1>5

LEMMA TransferWithoutSender ==
    ASSUME NEW t \in Trees, NEW token, NEW txs \in Seq(TransferTx), Len(txs) >= 1
    PROVE  txs[1].fromIndex \notin DOMAIN t => Transfers(t, txs, token) = Reverts(t)
<1> DEFINE n == Len(txs)
           process == [i \in 1 .. n |-> [c \in Trees |-> ProcessTransfer(c, txs[i], token)]]
<1>1. n \in Nat /\ n >= 1 /\ DOMAIN txs = 1 .. n
  BY LenProperties
<1>2. /\ process \in [1 .. n -> [Trees -> Steps]]
      /\ \E loop : /\ Runs(loop, n, Steps, Ended("Ok", t), Each(process, n))
                   /\ Transfers(t, txs, token) = loop[n]
  BY <1>1, TransferRuns
<1>3. process[1][t] = ProcessTransfer(t, txs[1], token)
  BY <1>1
<1> HIDE DEF process, n
<1> SUFFICES ASSUME txs[1].fromIndex \notin DOMAIN t PROVE Transfers(t, txs, token) = Reverts(t)
  OBVIOUS
<1>4. process[1][t] = Reverts(t) /\ ~IsOk(process[1][t])
  <2>1. process[1][t] = Reverts(t)
    BY <1>3 DEF ProcessTransfer, ProcessSender, Then, Reverts, Ended, IsOk
  <2> QED
    BY <2>1 DEF Reverts, Ended, IsOk
<1> QED
  BY <1>1, <1>2, <1>4, FailedFromTheFirst

(* ProofsServe for a commitment of transfers.  Without a first sender its  *)
(* proof is of the empty state, and with any token the call reverts.       *)
LEMMA TransferCommitServed ==
    ASSUME NEW t \in Trees, NEW body \in TransferBodies, ~Throws(ApplyTxTransfer, t, body)
    PROVE  CommitAnswered("Transfer", ApplyTxs(ApplyTxTransfer, t, body.txs),
               ProcessTransferCommit(t, body),
               processTransferCommit(RootOf(t), body,
                                     ProofsOf("Transfer", createStateBulk(t), body)))
<1> DEFINE kind == "Transfer"
           txs == body.txs
           n == Len(txs)
           client == createStateBulk(t)
           proofs == ProofsOf(kind, client, body)
           token == proofs[1].state.tokenType
           mine == ApplyTxs(ApplyTxTransfer, t, txs)
           process == [i \in 1 .. n |-> [c \in Trees |-> ProcessTransfer(c, txs[i], token)]]
           apply == [i \in 1 .. n |-> [c \in Trees |-> ApplyTxTransfer(c, txs[i])]]
           step == ProcessTransferCommit(t, body)
           served == processTransferCommit(RootOf(t), body, proofs)
<1>1. /\ txs \in Seq(TransferTx) /\ n \in Nat /\ DOMAIN txs = 1 .. n /\ n >= 1
      /\ \A i \in 1 .. n : txs[i] \in TransferTx
  <2>1. txs \in Seq(TransferTx) /\ txs # <<>>
    BY TransfersAssumption DEF TransferTx, Throws
  <2> QED
    BY <2>1, LenProperties, EmptySeq
<1>2. /\ body.feeReceiver \in Indices
      /\ \A i \in 1 .. n : IsPayment(txs[i]) /\ txs[i].toIndex \in Indices
  BY <1>1, IndicesAssumption, ReceiversAssumption DEF Indices, IsPayment, TransferTx
<1>3. Fees(txs) \in Nat
  <2>1. \A tx \in TransferTx : tx.fee \in Nat
    BY DEF TransferTx
  <2> QED
    BY <1>1, <2>1, FeesType
<1>4. mine.status # "throws" /\ Mirrors(client, t)
  BY BulkMirrors DEF Throws
<1>5. served = ServedCommit(kind, t, body, token)
  BY KindsAre DEF ServedCommit, processTransferCommit
<1>6. step = WithFee(Transfers(t, txs, TokenTypeOf(t, txs, body.feeReceiver)), body,
                     TokenTypeOf(t, txs, body.feeReceiver))
  BY DEF ProcessTransferCommit, Then, Transfers, WithFee
<1> HIDE DEF client, proofs, token, mine, step, served
<1>7. txs[1].fromIndex \in DOMAIN t => token = TokenTypeOf(t, txs, body.feeReceiver)
  <2> DEFINE made == applyTx(kind, client, txs[1])
  <2> SUFFICES ASSUME txs[1].fromIndex \in DOMAIN t
               PROVE  token = TokenTypeOf(t, txs, body.feeReceiver)
    OBVIOUS
  <2>1. \E q : made.proofs = <<SenderProof(client, txs[1]), q>>
    <3>1. client.states = t /\ made = applyTxTransfer(client, txs[1])
      BY <1>4, KindsAre DEF Mirrors
    <3> HIDE DEF made
    <3> QED
      BY <3>1 DEF applyTxTransfer, TransferProofs, Made
  <2>2. Len(made.proofs) >= 1 /\ made.proofs[1] = SenderProof(client, txs[1])
    BY <2>1
  <2>3. proofs[1] = made.proofs[1]
    BY <1>1, <2>2, FirstProof DEF Kinds, proofs
  <2>4. proofs[1].state = t[txs[1].fromIndex]
    BY <1>4, <2>2, <2>3 DEF SenderProof, StateProof, Mirrors
  <2>5. txs # <<>> /\ Head(txs) = txs[1]
    BY <1>1
  <2> QED
    BY <2>4, <2>5 DEF TokenTypeOf, token
<1>8. txs[1].fromIndex \notin DOMAIN t => \A other : Transfers(t, txs, other) = Reverts(t)
  <2> HIDE DEF n
  <2> QED
    BY <1>1, TransferWithoutSender DEF n
<1>9. WithFee(Transfers(t, txs, token), body, token) = step
  <2>1. CASE txs[1].fromIndex \in DOMAIN t
    BY <1>6, <1>7, <2>1
  <2>2. CASE txs[1].fromIndex \notin DOMAIN t
    BY <1>6, <1>8, <2>2 DEF WithFee, Reverts, Ended, IsOk
  <2> QED
    BY <2>1, <2>2
<1>10. /\ process \in [1 .. n -> [Trees -> Steps]]
       /\ \E loop : /\ Runs(loop, n, Steps, Ended("Ok", t), Each(process, n))
                    /\ Transfers(t, txs, token) = loop[n]
  BY <1>1, TransferRuns
<1>11. \E left : ClientRuns(left, n, t, apply) /\ mine = left[n]
  BY <1>1, ClientTransfersRun DEF mine
<1>12. \A i \in 1 .. n, c \in Trees : \A m : Mirrors(m, c) =>
          TxServes(kind, m, c, txs[i], token, process[i][c], apply[i][c])
  <2>1. ASSUME NEW i \in 1 .. n, NEW c \in Trees, NEW m, Mirrors(m, c)
        PROVE  TxServes(kind, m, c, txs[i], token, process[i][c], apply[i][c])
    <3>1. /\ process[i][c] = ProcessTransfer(c, txs[i], token)
          /\ apply[i][c] = ApplyTxTransfer(c, txs[i])
      OBVIOUS
    <3>2. TxServes(kind, m, c, txs[i], token, ProcessTransfer(c, txs[i], token),
                   ApplyTxTransfer(c, txs[i]))
      BY <1>1, <1>2, <2>1, TransferServes
    <3> QED
      BY <3>1, <3>2
  <2> QED
    BY <2>1
<1> HIDE DEF process, apply
<1>13. PICK loop : /\ Runs(loop, n, Steps, Ended("Ok", t), Each(process, n))
                   /\ Transfers(t, txs, token) = loop[n]
  BY <1>10
<1>14. PICK left : ClientRuns(left, n, t, apply) /\ mine = left[n]
  BY <1>11
<1>15. CommitAnswered(kind, left[n], WithFee(loop[n], body, token),
                      ServedCommit(kind, t, body, token))
  <2>1. kind \in Kinds
    BY DEF Kinds
  <2> HIDE DEF kind
  <2> QED
    BY <1>1, <1>2, <1>3, <1>4, <1>10, <1>12, <1>13, <1>14, <2>1, BatchServes
<1> QED
  BY <1>5, <1>9, <1>13, <1>14, <1>15 DEF mine, step, served, proofs, client

(* ProofsServe for a commitment of transfers to new states: the client     *)
(* throws when there is no first sender.                                   *)
LEMMA Create2TransferCommitServed ==
    ASSUME NEW t \in Trees, NEW body \in Create2TransferBodies,
           ~Throws(ApplyTxCreate2Transfer, t, body)
    PROVE  CommitAnswered("Create2Transfer", ApplyTxs(ApplyTxCreate2Transfer, t, body.txs),
               ProcessCreate2TransferCommit(t, body),
               processCreate2TransferCommit(RootOf(t), body,
                   ProofsOf("Create2Transfer", createStateBulk(t), body)))
<1> DEFINE kind == "Create2Transfer"
           txs == body.txs
           n == Len(txs)
           client == createStateBulk(t)
           proofs == ProofsOf(kind, client, body)
           token == proofs[1].state.tokenType
           mine == ApplyTxs(ApplyTxCreate2Transfer, t, txs)
           process == [i \in 1 .. n |-> [c \in Trees |->
                         ProcessCreate2Transfer(c, txs[i], token)]]
           apply == [i \in 1 .. n |-> [c \in Trees |-> ApplyTxCreate2Transfer(c, txs[i])]]
           step == ProcessCreate2TransferCommit(t, body)
           served == processCreate2TransferCommit(RootOf(t), body, proofs)
<1>1. /\ txs \in Seq(Create2TransferTx) /\ n \in Nat /\ DOMAIN txs = 1 .. n /\ n >= 1
      /\ \A i \in 1 .. n : txs[i] \in Create2TransferTx
  <2>1. txs \in Seq(Create2TransferTx) /\ txs # <<>>
    BY Create2TransfersAssumption DEF Create2TransferTx, Throws
  <2> QED
    BY <2>1, LenProperties, EmptySeq
<1>2. body.feeReceiver \in Indices /\ \A i \in 1 .. n : IsPayment(txs[i])
  BY <1>1, IndicesAssumption DEF Indices, IsPayment, Create2TransferTx
<1>3. Fees(txs) \in Nat
  <2>1. \A tx \in Create2TransferTx : tx.fee \in Nat
    BY DEF Create2TransferTx
  <2> QED
    BY <1>1, <2>1, FeesType
<1>4. mine.status # "throws" /\ Mirrors(client, t)
  BY BulkMirrors DEF Throws
<1>5. served = ServedCommit(kind, t, body, token)
  BY KindsAre DEF ServedCommit, processCreate2TransferCommit
<1>6. step = WithFee(Create2Transfers(t, txs, TokenTypeOf(t, txs, body.feeReceiver)), body,
                     TokenTypeOf(t, txs, body.feeReceiver))
  BY DEF ProcessCreate2TransferCommit, Then, Create2Transfers, WithFee
<1>7. \E left : ClientRuns(left, n, t, apply) /\ mine = left[n]
  BY <1>1, ClientCreate2TransfersRun
<1> HIDE DEF client, proofs, token, mine, step, served
<1>8. txs[1].fromIndex \in DOMAIN t
  <2> SUFFICES ASSUME txs[1].fromIndex \notin DOMAIN t PROVE FALSE
    OBVIOUS
  <2>0. apply[1][t] = ApplyTxCreate2Transfer(t, txs[1])
    BY <1>1
  <2> HIDE DEF apply
  <2>1. apply[1][t] = Left("throws", t)
    BY <2>0 DEF ApplyTxCreate2Transfer
  <2>2. PICK left : ClientRuns(left, n, t, apply) /\ mine = left[n]
    BY <1>7
  <2>3. left[1] = Left("throws", t)
    BY <1>1, <2>1, <2>2 DEF ClientRuns, Left, IsSafe
  <2>4. ~IsSafe(left[1]) /\ left[1].status = "throws"
    BY <2>3 DEF Left, IsSafe
  <2>5. left[n] = left[1]
    BY <1>1, <2>2, <2>4, ClientStops
  <2> QED
    BY <1>4, <2>2, <2>4, <2>5
<1>9. token = TokenTypeOf(t, txs, body.feeReceiver)
  <2> DEFINE made == applyTx(kind, client, txs[1])
  <2>1. \E q : made.proofs = <<SenderProof(client, txs[1]), q>>
    <3>1. made = applyTxCreate2Transfer(client, txs[1])
      BY KindsAre
    <3> HIDE DEF made
    <3> QED
      BY <3>1 DEF applyTxCreate2Transfer, Made
  <2>2. Len(made.proofs) >= 1 /\ made.proofs[1] = SenderProof(client, txs[1])
    BY <2>1
  <2>3. proofs[1] = made.proofs[1]
    BY <1>1, <2>2, FirstProof DEF Kinds, proofs
  <2>4. proofs[1].state = t[txs[1].fromIndex]
    BY <1>4, <2>2, <2>3 DEF SenderProof, StateProof, Mirrors
  <2>5. txs # <<>> /\ Head(txs) = txs[1]
    BY <1>1
  <2> QED
    BY <2>4, <2>5 DEF TokenTypeOf, token
<1>10. /\ process \in [1 .. n -> [Trees -> Steps]]
       /\ \E loop : /\ Runs(loop, n, Steps, Ended("Ok", t), Each(process, n))
                    /\ Create2Transfers(t, txs, token) = loop[n]
  BY <1>1, Create2TransferRuns
<1>12. \A i \in 1 .. n, c \in Trees : \A m : Mirrors(m, c) =>
          TxServes(kind, m, c, txs[i], token, process[i][c], apply[i][c])
  <2>1. ASSUME NEW i \in 1 .. n, NEW c \in Trees, NEW m, Mirrors(m, c)
        PROVE  TxServes(kind, m, c, txs[i], token, process[i][c], apply[i][c])
    <3>1. /\ process[i][c] = ProcessCreate2Transfer(c, txs[i], token)
          /\ apply[i][c] = ApplyTxCreate2Transfer(c, txs[i])
      OBVIOUS
    <3>2. TxServes(kind, m, c, txs[i], token, ProcessCreate2Transfer(c, txs[i], token),
                   ApplyTxCreate2Transfer(c, txs[i]))
      BY <1>1, <1>2, <2>1, Create2TransferServes
    <3> QED
      BY <3>1, <3>2
  <2> QED
    BY <2>1
<1> HIDE DEF process, apply
<1>13. PICK loop : /\ Runs(loop, n, Steps, Ended("Ok", t), Each(process, n))
                   /\ Create2Transfers(t, txs, token) = loop[n]
  BY <1>10
<1>14. PICK left : ClientRuns(left, n, t, apply) /\ mine = left[n]
  BY <1>7
<1>15. CommitAnswered(kind, left[n], WithFee(loop[n], body, token),
                      ServedCommit(kind, t, body, token))
  <2>1. kind \in Kinds
    BY DEF Kinds
  <2> HIDE DEF kind
  <2> QED
    BY <1>1, <1>2, <1>3, <1>4, <1>10, <1>12, <1>13, <1>14, <2>1, BatchServes
<1> QED
  BY <1>5, <1>6, <1>9, <1>13, <1>14, <1>15 DEF mine, step, served, proofs, client

(* ProofsServe for a mass migration, whose token is that of the body, up   *)
(* to what needs no proof.                                                 *)
LEMMA MassMigrationTxsServed ==
    ASSUME NEW t \in Trees, NEW body \in MassMigrationBodies,
           ~Throws(ApplyMassMigration, t, body)
    PROVE  CommitAnswered("MassMigration", ApplyTxs(ApplyMassMigration, t, body.txs),
               WithFee(Senders(t, body.txs, body.tokenID), body, body.tokenID),
               processMassMigrationTxs(RootOf(t), body,
                   ProofsOf("MassMigration", createStateBulk(t), body)))
<1> DEFINE kind == "MassMigration"
           txs == body.txs
           n == Len(txs)
           token == body.tokenID
           mine == ApplyTxs(ApplyMassMigration, t, txs)
           process == [i \in 1 .. n |-> [c \in Trees |->
                         ProcessSender(c, txs[i].fromIndex, token,
                                       txs[i].amount, txs[i].fee)]]
           apply == [i \in 1 .. n |-> [c \in Trees |-> ApplyMassMigration(c, txs[i])]]
           served == processMassMigrationTxs(RootOf(t), body,
                         ProofsOf(kind, createStateBulk(t), body))
<1>1. /\ txs \in Seq(MassMigrationTx) /\ n \in Nat /\ DOMAIN txs = 1 .. n /\ n >= 1
      /\ \A i \in 1 .. n : txs[i] \in MassMigrationTx
  <2>1. txs \in Seq(MassMigrationTx) /\ txs # <<>>
    BY MassMigrationsAssumption DEF MassMigrationTx, Throws
  <2> QED
    BY <2>1, LenProperties, EmptySeq
<1>2. body.feeReceiver \in Indices /\ \A i \in 1 .. n : IsPayment(txs[i])
  BY <1>1, IndicesAssumption DEF Indices, IsPayment, MassMigrationTx
<1>3. Fees(txs) \in Nat
  <2>1. \A tx \in MassMigrationTx : tx.fee \in Nat
    BY DEF MassMigrationTx
  <2> QED
    BY <1>1, <2>1, FeesType
<1>4. mine.status # "throws"
  BY DEF Throws
<1>5. served = ServedCommit(kind, t, body, token)
  <2>1. PerTx(kind) * n = n
    BY <1>1, KindsAre
  <2> QED
    BY <2>1 DEF ServedCommit, processMassMigrationTxs
<1>7. \E left : ClientRuns(left, n, t, apply) /\ mine = left[n]
  BY <1>1, ClientMassMigrationsRun
<1> HIDE DEF mine, served
<1>10. /\ process \in [1 .. n -> [Trees -> Steps]]
       /\ \E loop : /\ Runs(loop, n, Steps, Ended("Ok", t), Each(process, n))
                    /\ Senders(t, txs, token) = loop[n]
  BY <1>1, SenderRuns
<1>12. \A i \in 1 .. n, c \in Trees : \A m : Mirrors(m, c) =>
          TxServes(kind, m, c, txs[i], token, process[i][c], apply[i][c])
  <2>1. ASSUME NEW i \in 1 .. n, NEW c \in Trees, NEW m, Mirrors(m, c)
        PROVE  TxServes(kind, m, c, txs[i], token, process[i][c], apply[i][c])
    <3>1. /\ process[i][c] = Sent(c, txs[i], token)
          /\ apply[i][c] = ApplyMassMigration(c, txs[i])
      BY DEF Sent
    <3>2. TxServes(kind, m, c, txs[i], token, Sent(c, txs[i], token),
                   ApplyMassMigration(c, txs[i]))
      BY <1>1, <1>2, <2>1, MassMigrationServes
    <3> QED
      BY <3>1, <3>2
  <2> QED
    BY <2>1
<1> HIDE DEF process, apply
<1>13. PICK loop : /\ Runs(loop, n, Steps, Ended("Ok", t), Each(process, n))
                   /\ Senders(t, txs, token) = loop[n]
  BY <1>10
<1>14. PICK left : ClientRuns(left, n, t, apply) /\ mine = left[n]
  BY <1>7
<1>15. CommitAnswered(kind, left[n], WithFee(loop[n], body, token),
                      ServedCommit(kind, t, body, token))
  <2>1. kind \in Kinds
    BY DEF Kinds
  <2> HIDE DEF kind, token
  <2> QED
    BY <1>1, <1>2, <1>3, <1>4, <1>10, <1>12, <1>13, <1>14, <2>1, BatchServes
<1> QED
  BY <1>5, <1>13, <1>14, <1>15 DEF mine, served

(* ProofsServe of every state of ChainInv.                                 *)
LEMMA TransferProofsServe ==
    ASSUME NEW t \in Trees, NEW body \in TransferBodies, ~Throws(ApplyTxTransfer, t, body)
    PROVE  LET served == processTransferCommit(RootOf(t), body,
                             ProofsOf("Transfer", createStateBulk(t), body))
               step == ProcessTransferCommit(t, body)
           IN  IF /\ step.result = "BadToTokenType"
                  /\ ~IsSafe(ApplyTxs(ApplyTxTransfer, t, body.txs))
               THEN served.result = "Reverts"
               ELSE /\ served.result = step.result
                    /\ IsOk(step) => served.tree = RootOf(step.tree)
<1> DEFINE served == processTransferCommit(RootOf(t), body,
                         ProofsOf("Transfer", createStateBulk(t), body))
           step == ProcessTransferCommit(t, body)
           left == ApplyTxs(ApplyTxTransfer, t, body.txs)
<1>1. CommitAnswered("Transfer", left, step, served)
  BY TransferCommitServed
<1> HIDE DEF served, step, left
<1>2. IF step.result = "BadToTokenType" /\ ~IsSafe(left) THEN served.result = "Reverts"
      ELSE /\ served.result = step.result
           /\ IsOk(step) => served.tree = RootOf(step.tree)
  BY <1>1, KindsAre, ServedIs DEF CommitAnswered
<1> QED
  BY <1>2 DEF served, step, left

LEMMA Create2TransferProofsServe ==
    ASSUME NEW t \in Trees, NEW body \in Create2TransferBodies,
           ~Throws(ApplyTxCreate2Transfer, t, body)
    PROVE  LET served == processCreate2TransferCommit(RootOf(t), body,
                             ProofsOf("Create2Transfer", createStateBulk(t), body))
               step == ProcessCreate2TransferCommit(t, body)
           IN  /\ served.result = step.result
               /\ IsOk(step) => served.tree = RootOf(step.tree)
<1> DEFINE served == processCreate2TransferCommit(RootOf(t), body,
                         ProofsOf("Create2Transfer", createStateBulk(t), body))
           step == ProcessCreate2TransferCommit(t, body)
           left == ApplyTxs(ApplyTxCreate2Transfer, t, body.txs)
<1>1. CommitAnswered("Create2Transfer", left, step, served)
  BY Create2TransferCommitServed
<1> HIDE DEF served, step, left
<1>2. /\ served.result = step.result
      /\ IsOk(step) => served.tree = RootOf(step.tree)
  BY <1>1, KindsAre, ServedIs DEF CommitAnswered, Excused
<1> QED
  BY <1>2 DEF served, step

LEMMA MassMigrationProofsServe ==
    ASSUME NEW t \in Trees, NEW body \in MassMigrationBodies,
           ~Throws(ApplyMassMigration, t, body)
    PROVE  LET served == Then(processMassMigrationTxs(RootOf(t), body,
                                  ProofsOf("MassMigration", createStateBulk(t), body)),
                              LAMBDA after : Ended(MigrationResult(t, body), after))
               step == ProcessMassMigrationCommit(t, body)
           IN  \/ /\ served.result = "Reverts"
                  /\ ~IsSafe(ApplyTxs(ApplyMassMigration, t, body.txs))
                  /\ step.result \in {"NotEnoughTokenBalance", "InvalidTokenAmount"}
               \/ /\ served.result = step.result
                  /\ IsOk(step) => served.tree = RootOf(step.tree)
                  /\ step.result # "NotEnoughTokenBalance"
<1> DEFINE txsServed == processMassMigrationTxs(RootOf(t), body,
                            ProofsOf("MassMigration", createStateBulk(t), body))
           served == Then(txsServed, LAMBDA after : Ended(MigrationResult(t, body), after))
           token == body.tokenID
           paid == WithFee(Senders(t, body.txs, token), body, token)
           step == ProcessMassMigrationCommit(t, body)
           left == ApplyTxs(ApplyMassMigration, t, body.txs)
           result == MigrationResult(t, body)
<1>1. CommitAnswered("MassMigration", left, paid, txsServed)
  BY MassMigrationTxsServed
<1>2. /\ served = IF IsOk(txsServed) THEN Ended(result, txsServed.tree) ELSE txsServed
      /\ step = IF IsOk(paid) THEN Ended(result, paid.tree) ELSE paid
  BY DEF Then, ProcessMassMigrationCommit, WithFee, Senders
<1>3. result # "NotEnoughTokenBalance"
  BY DEF MigrationResult
<1> HIDE DEF txsServed, served, paid, step, left, result
<1>4. \/ /\ served.result = "Reverts" /\ ~IsSafe(left)
         /\ step.result \in {"NotEnoughTokenBalance", "InvalidTokenAmount"}
      \/ /\ served.result = step.result
         /\ IsOk(step) => served.tree = RootOf(step.tree)
         /\ step.result # "NotEnoughTokenBalance"
  <2>1. CASE txsServed = Served(paid) /\ paid.result # "NotEnoughTokenBalance"
    <3>1. CASE IsOk(paid)
      BY <1>2, <1>3, <2>1, <3>1, ServedIs DEF Ended
    <3>2. CASE ~IsOk(paid)
      BY <1>2, <2>1, <3>2, ServedIs
    <3> QED
      BY <3>1, <3>2
  <2>2. CASE /\ ~IsSafe(left) /\ txsServed.result = "Reverts"
             /\ paid.result \in {"NotEnoughTokenBalance", "InvalidTokenAmount"}
    BY <1>2, <2>2 DEF IsOk
  <2> QED
    BY <1>1, <2>1, <2>2, KindsAre DEF CommitAnswered
<1> QED
  BY <1>4 DEF served, txsServed, step, left

LEMMA ClientsProofsServe == ChainInv => ProofsServe
<1> SUFFICES ASSUME ChainInv PROVE ProofsServe
  OBVIOUS
<1>1. tree \in Trees
  BY DEF ChainInv, ChainType
<1> QED
  BY <1>1, TransferProofsServe, Create2TransferProofsServe, MassMigrationProofsServe
  DEF ProofsServe, RootOf
-----------------------------------------------------------------------------
(* The theorems.                                                           *)

(* No commitment makes or destroys tokens, whatever its transactions are.  *)
THEOREM SupplyIsConserved == ChainSpec => []SupplyConserved
<1>1. ChainInv => SupplyConserved
  BY DEF ChainInv
<1> QED
  BY <1>1, ChainInvariant, PTL

(* A mass migration that is let through covers what it withdraws.          *)
THEOREM MigrationsStaySound == ChainSpec => []MigrationsAreSound
<1>1. ChainInv => MigrationsAreSound
  BY DEF ChainInv
<1> QED
  BY <1>1, ChainInvariant, PTL

(* No message signed for a transfer or a migration serves twice.           *)
THEOREM MessagesStaySpent == ChainSpec => []MessagesAreSpent
<1>1. ChainInv => MessagesAreSpent
  BY DEF ChainInv
<1> QED
  BY <1>1, ChainInvariant, PTL

(* States keep their key and token, and lose tokens only with a nonce.     *)
THEOREM OwnersAlwaysDecide == ChainSpec => OwnersDecide
<1>1. ChainInv /\ [ChainNext]_chainVars =>
         [\A index \in DOMAIN tree :
             /\ index \in DOMAIN tree'
             /\ tree'[index].pubkeyIndex = tree[index].pubkeyIndex
             /\ tree'[index].tokenType = tree[index].tokenType
             /\ tree'[index].balance < tree[index].balance
                   => tree'[index].nonce > tree[index].nonce]_chainVars
  BY ChainStep DEF Kept
<1> QED
  BY <1>1, ChainInvariant, PTL DEF ChainSpec, OwnersDecide

(* On every tree that a chain of commitments reaches, of any states and    *)
(* any commitments, the client's StateTree judges and applies a batch as   *)
(* the contracts do.                                                       *)
THEOREM ClientAlwaysAgrees == ChainSpec => []ClientAgrees
<1>1. ChainInv => ClientAgrees
  BY ClientsTreeAgrees
<1> QED
  BY <1>1, ChainInvariant, PTL

(* What ClientFrontend answers before a transaction is signed is what the  *)
(* contracts make of it, for every state that a chain reaches.             *)
THEOREM FrontendAlwaysAgrees == ChainSpec => []FrontendAgrees
<1>1. ChainInv => FrontendAgrees
  BY FrontendsStatesAgree
<1> QED
  BY <1>1, ChainInvariant, PTL

(* With the proofs that the client makes of a batch the contracts, which   *)
(* are given a root and no tree, answer of every batch for which it can    *)
(* make them what they would answer in the tree itself, but for the two    *)
(* faults that it leaves to placeholders: on every tree that a chain of    *)
(* commitments reaches, of any states, commitments and depth.              *)
THEOREM ProofsAlwaysServe == ChainSpec => []ProofsServe
<1>1. ChainInv => ProofsServe
  BY ClientsProofsServe
<1> QED
  BY <1>1, ChainInvariant, PTL
=============================================================================
