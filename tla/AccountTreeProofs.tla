-------------------------- MODULE AccountTreeProofs -------------------------
(***************************************************************************)
(* The roots of the account tree are those of all keys registered; and     *)
(* what the clients of AccountRegistry rest on: their own trees agree with *)
(* the contract's, the witnesses that they take from them are taken, and   *)
(* the assertion of register() holds.                                      *)
(***************************************************************************)
EXTENDS AccountRegistry, LoopProofs, FiniteSetTheorems

LEMMA DepthsAre ==
    /\ DEPTH \in Nat /\ BATCH_DEPTH \in Nat /\ DEPTH - BATCH_DEPTH \in Nat
    /\ BATCH_DEPTH <= DEPTH
BY DepthAssumption
-----------------------------------------------------------------------------
(* What the recursive functions of AccountTree compute.  There is no set   *)
(* of all nodes, so that each is shown to be defined by itself.            *)
LEMMA ZerosAre ==
    /\ Zeros[0] = NoKey
    /\ \A i \in 1 .. DEPTH : Zeros[i] = Hash(Zeros[i - 1], Zeros[i - 1])
<1> DEFINE Body(u, i) == IF i = 0 THEN NoKey ELSE Hash(u[i - 1], u[i - 1])
           T == {m \in 0 .. DEPTH : \E u : u = [i \in 0 .. m |-> Body(u, i)]}
<1>1. 0 \in T
  <2> DEFINE u == [i \in 0 .. 0 |-> NoKey]
  <2>1. u = [i \in 0 .. 0 |-> Body(u, i)]
    OBVIOUS
  <2> HIDE DEF u, Body
  <2> QED
    BY <2>1, DepthsAre
<1>2. ASSUME NEW k \in 1 .. DEPTH, k - 1 \in T PROVE k \in T
  <2>1. PICK u : u = [i \in 0 .. k - 1 |-> Body(u, i)]
    BY <1>2
  <2> DEFINE v == [i \in 0 .. k |-> IF i < k THEN u[i] ELSE Hash(u[k - 1], u[k - 1])]
  <2>2. \A i \in 0 .. k : v[i] = Body(v, i)
    <3>1. \A i \in 0 .. k - 1 : u[i] = Body(u, i)
      <4> HIDE DEF Body
      <4> QED
        BY <2>1
    <3>2. \A i \in 0 .. k - 1 : v[i] = u[i]
      OBVIOUS
    <3>3. v[k] = Hash(u[k - 1], u[k - 1])
      OBVIOUS
    <3> HIDE DEF v
    <3> QED
      BY <3>1, <3>2, <3>3
  <2>3. v = [i \in 0 .. k |-> Body(v, i)]
    <3> HIDE DEF Body
    <3> QED
      BY <2>2
  <2> HIDE DEF v
  <2> QED
    BY <2>3
<1>3. DEPTH \in T
  <2> HIDE DEF T
  <2> QED
    BY <1>1, <1>2, DepthsAre, LoopInduction
<1> DEFINE w == CHOOSE u : u = [i \in 0 .. DEPTH |-> Body(u, i)]
<1>4. w = [i \in 0 .. DEPTH |-> Body(w, i)]
  <2>1. \E u : u = [i \in 0 .. DEPTH |-> Body(u, i)]
    BY <1>3
  <2> HIDE DEF Body
  <2> QED
    BY <2>1
<1>5. Zeros = w
  BY DEF Zeros
<1> HIDE DEF w
<1>6. \A i \in 0 .. DEPTH : w[i] = Body(w, i)
  <2> HIDE DEF Body
  <2> QED
    BY <1>4
<1> QED
  BY <1>5, <1>6, DepthsAre

(* The nodes of a tree, level by level.                                    *)
LEMMA NodesAre ==
    ASSUME NEW leaves
    PROVE  /\ \A x \in Nat : Nodes(leaves)[0][x] = LeafAt(leaves, x)
           /\ \A i \in 1 .. DEPTH, x \in Nat :
                 Nodes(leaves)[i][x] = Hash(Nodes(leaves)[i - 1][2 * x],
                                            Nodes(leaves)[i - 1][2 * x + 1])
<1> DEFINE n == DEPTH
           Start == [index \in Nat |-> LeafAt(leaves, index)]
           Turn(u, i) == [index \in Nat |-> Hash(u[i - 1][2 * index], u[i - 1][2 * index + 1])]
           Body(u, i) == IF i = 0 THEN Start ELSE Turn(u, i)
           T == {m \in 0 .. n : \E u : u = [i \in 0 .. m |-> Body(u, i)]}
<1>0. n \in Nat
  BY DepthsAre
<1>1. 0 \in T
  <2> DEFINE u == [i \in 0 .. 0 |-> Start]
  <2>1. u = [i \in 0 .. 0 |-> Body(u, i)]
    OBVIOUS
  <2> HIDE DEF u, Body, n
  <2> QED
    BY <1>0, <2>1
<1>2. ASSUME NEW k \in 1 .. n, k - 1 \in T PROVE k \in T
  <2>1. PICK u : u = [i \in 0 .. k - 1 |-> Body(u, i)]
    BY <1>2
  <2> DEFINE v == [i \in 0 .. k |-> IF i < k THEN u[i] ELSE Turn(u, k)]
  <2>2. \A i \in 0 .. k : v[i] = Body(v, i)
    <3>1. \A i \in 0 .. k - 1 : u[i] = Body(u, i)
      <4> HIDE DEF Body
      <4> QED
        BY <2>1
    <3>2. \A i \in 0 .. k - 1 : v[i] = u[i]
      OBVIOUS
    <3>3. v[k] = Turn(u, k)
      OBVIOUS
    <3> HIDE DEF v, n
    <3>4. \A i \in 1 .. k : Turn(v, i) = Turn(u, i)
      BY <1>0, <3>2
    <3> HIDE DEF Start, Turn
    <3> QED
      BY <1>0, <3>1, <3>2, <3>3, <3>4
  <2>3. v = [i \in 0 .. k |-> Body(v, i)]
    <3> HIDE DEF Body
    <3> QED
      BY <2>2
  <2> HIDE DEF v, Body, n
  <2> QED
    BY <2>3
<1>3. n \in T
  <2> HIDE DEF T, n
  <2> QED
    BY <1>0, <1>1, <1>2, LoopInduction
<1> DEFINE after == CHOOSE u : u = [i \in 0 .. n |-> Body(u, i)]
<1>4. after = [i \in 0 .. n |-> Body(after, i)]
  <2>1. \E u : u = [i \in 0 .. n |-> Body(u, i)]
    BY <1>3
  <2> HIDE DEF Body, n
  <2> QED
    BY <2>1
<1>5. Nodes(leaves) = after
  <2> DEFINE Row(u, i) == [index \in Nat |->
                              IF i = 0 THEN LeafAt(leaves, index)
                              ELSE Hash(u[i - 1][2 * index], u[i - 1][2 * index + 1])]
  <2>1. \A u, i : Row(u, i) = Body(u, i)
    OBVIOUS
  <2>2. Nodes(leaves) = CHOOSE u : u = [i \in 0 .. n |-> Row(u, i)]
    BY DEF Nodes
  <2> HIDE DEF Row, Body, n
  <2> QED
    BY <2>1, <2>2
<1> HIDE DEF after
<1>6. \A i \in 0 .. n : after[i] = Body(after, i)
  <2> HIDE DEF Body, n
  <2> QED
    BY <1>4
<1>7. after[0] = Start /\ \A i \in 1 .. n : after[i] = Turn(after, i)
  <2> HIDE DEF Start, Turn, n
  <2> QED
    BY <1>0, <1>6
<1>8. \A x \in Nat : after[0][x] = LeafAt(leaves, x)
  BY <1>7
<1>9. \A i \in 1 .. DEPTH : after[i] = Turn(after, i)
  BY <1>7
<1>10. ASSUME NEW i \in 1 .. DEPTH, NEW x \in Nat
       PROVE  after[i][x] = Hash(after[i - 1][2 * x], after[i - 1][2 * x + 1])
  <2>1. Turn(after, i)[x] = Hash(after[i - 1][2 * x], after[i - 1][2 * x + 1])
    OBVIOUS
  <2> HIDE DEF Turn, Start, n, Body
  <2> QED
    BY <1>9, <2>1
<1> HIDE DEF Turn, Start, n, Body, T
<1> QED
  BY <1>5, <1>8, <1>10

(* The results that the loop of an ascent reaches, turn by turn.           *)
Ascending(u, node, index, filled, level) ==
    /\ u[0] = [acc |-> node, filled |-> filled, subtreeSet |-> FALSE]
    /\ \A i \in 1 .. DEPTH - level :
          u[i] = AscendOne(u[i - 1], index, i - 1, Zeros[i - 1 + level])

LEMMA AscendIs ==
    ASSUME NEW node, NEW index, NEW filled, NEW level \in 0 .. DEPTH
    PROVE  \E u : /\ Ascending(u, node, index, filled, level)
                 /\ Ascend(node, index, filled, level) = u[DEPTH - level]
<1> DEFINE n == DEPTH - level
           Start == [acc |-> node, filled |-> filled, subtreeSet |-> FALSE]
           Turn(u, i) == AscendOne(u[i - 1], index, i - 1, Zeros[i - 1 + level])
           Body(u, i) == IF i = 0 THEN Start ELSE Turn(u, i)
           T == {m \in 0 .. n : \E u : u = [i \in 0 .. m |-> Body(u, i)]}
<1>0. n \in Nat
  BY DepthsAre
<1>1. 0 \in T
  <2> DEFINE u == [i \in 0 .. 0 |-> Start]
  <2>1. u = [i \in 0 .. 0 |-> Body(u, i)]
    OBVIOUS
  <2> HIDE DEF u, Body, n
  <2> QED
    BY <1>0, <2>1
<1>2. ASSUME NEW k \in 1 .. n, k - 1 \in T PROVE k \in T
  <2>1. PICK u : u = [i \in 0 .. k - 1 |-> Body(u, i)]
    BY <1>2
  <2> DEFINE v == [i \in 0 .. k |-> IF i < k THEN u[i] ELSE Turn(u, k)]
  <2>2. \A i \in 0 .. k : v[i] = Body(v, i)
    <3>1. \A i \in 0 .. k - 1 : u[i] = Body(u, i)
      <4> HIDE DEF Body
      <4> QED
        BY <2>1
    <3>2. \A i \in 0 .. k - 1 : v[i] = u[i]
      OBVIOUS
    <3>3. v[k] = Turn(u, k)
      OBVIOUS
    <3> HIDE DEF v, n
    <3>4. \A i \in 1 .. k : Turn(v, i) = Turn(u, i)
      BY <1>0, <3>2
    <3> HIDE DEF Start, Turn
    <3> QED
      BY <1>0, <3>1, <3>2, <3>3, <3>4
  <2>3. v = [i \in 0 .. k |-> Body(v, i)]
    <3> HIDE DEF Body
    <3> QED
      BY <2>2
  <2> HIDE DEF v, Body, n
  <2> QED
    BY <2>3
<1>3. n \in T
  <2> HIDE DEF T, n
  <2> QED
    BY <1>0, <1>1, <1>2, LoopInduction
<1> DEFINE after == CHOOSE u : u = [i \in 0 .. n |-> Body(u, i)]
<1>4. after = [i \in 0 .. n |-> Body(after, i)]
  <2>1. \E u : u = [i \in 0 .. n |-> Body(u, i)]
    BY <1>3
  <2> HIDE DEF Body, n
  <2> QED
    BY <2>1
<1>5. Ascend(node, index, filled, level) = after[DEPTH - level]
  BY DEF Ascend
<1> HIDE DEF after
<1>6. \A i \in 0 .. n : after[i] = Body(after, i)
  <2> HIDE DEF Body, n
  <2> QED
    BY <1>4
<1>7. after[0] = Start /\ \A i \in 1 .. n : after[i] = Turn(after, i)
  <2> HIDE DEF Start, Turn, n
  <2> QED
    BY <1>0, <1>6
<1>8. Ascending(after, node, index, filled, level)
  BY <1>7 DEF Ascending
<1> QED
  BY <1>5, <1>8

(* The results that the loop over a batch reaches, turn by turn.           *)
Filling(u, leafs) ==
    /\ u[0] = leafs
    /\ \A i \in 1 .. BATCH_DEPTH :
          u[i] = [j \in 1 .. TwoTo[BATCH_DEPTH - i] |->
                     Hash(u[i - 1][2 * j - 1], u[i - 1][2 * j])]

LEMMA BatchRootIs ==
    ASSUME NEW leafs
    PROVE  \E u : Filling(u, leafs) /\ BatchRoot(leafs) = u[BATCH_DEPTH][1]
<1> DEFINE n == BATCH_DEPTH
           Start == leafs
           Turn(u, i) == [j \in 1 .. TwoTo[BATCH_DEPTH - i] |->
                             Hash(u[i - 1][2 * j - 1], u[i - 1][2 * j])]
           Body(u, i) == IF i = 0 THEN Start ELSE Turn(u, i)
           T == {m \in 0 .. n : \E u : u = [i \in 0 .. m |-> Body(u, i)]}
<1>0. n \in Nat
  BY DepthsAre
<1>1. 0 \in T
  <2> DEFINE u == [i \in 0 .. 0 |-> Start]
  <2>1. u = [i \in 0 .. 0 |-> Body(u, i)]
    OBVIOUS
  <2> HIDE DEF u, Body, n
  <2> QED
    BY <1>0, <2>1
<1>2. ASSUME NEW k \in 1 .. n, k - 1 \in T PROVE k \in T
  <2>1. PICK u : u = [i \in 0 .. k - 1 |-> Body(u, i)]
    BY <1>2
  <2> DEFINE v == [i \in 0 .. k |-> IF i < k THEN u[i] ELSE Turn(u, k)]
  <2>2. \A i \in 0 .. k : v[i] = Body(v, i)
    <3>1. \A i \in 0 .. k - 1 : u[i] = Body(u, i)
      <4> HIDE DEF Body
      <4> QED
        BY <2>1
    <3>2. \A i \in 0 .. k - 1 : v[i] = u[i]
      OBVIOUS
    <3>3. v[k] = Turn(u, k)
      OBVIOUS
    <3> HIDE DEF v, n
    <3>4. \A i \in 1 .. k : Turn(v, i) = Turn(u, i)
      BY <1>0, <3>2
    <3> HIDE DEF Start, Turn
    <3> QED
      BY <1>0, <3>1, <3>2, <3>3, <3>4
  <2>3. v = [i \in 0 .. k |-> Body(v, i)]
    <3> HIDE DEF Body
    <3> QED
      BY <2>2
  <2> HIDE DEF v, Body, n
  <2> QED
    BY <2>3
<1>3. n \in T
  <2> HIDE DEF T, n
  <2> QED
    BY <1>0, <1>1, <1>2, LoopInduction
<1> DEFINE after == CHOOSE u : u = [i \in 0 .. n |-> Body(u, i)]
<1>4. after = [i \in 0 .. n |-> Body(after, i)]
  <2>1. \E u : u = [i \in 0 .. n |-> Body(u, i)]
    BY <1>3
  <2> HIDE DEF Body, n
  <2> QED
    BY <2>1
<1>5. BatchRoot(leafs) = after[BATCH_DEPTH][1]
  BY DEF BatchRoot
<1> HIDE DEF after
<1>6. \A i \in 0 .. n : after[i] = Body(after, i)
  <2> HIDE DEF Body, n
  <2> QED
    BY <1>4
<1>7. after[0] = Start /\ \A i \in 1 .. n : after[i] = Turn(after, i)
  <2> HIDE DEF Start, Turn, n
  <2> QED
    BY <1>0, <1>6
<1>8. Filling(after, leafs)
  BY <1>7 DEF Filling
<1> QED
  BY <1>5, <1>8
-----------------------------------------------------------------------------
(* The rows R of a tree of h levels, with the vacant trees z: the nodes of *)
(* each level are the hashes of two nodes of the level below.              *)
IsTree(R, z, h) ==
    \A i \in 1 .. h : /\ z[i] = Hash(z[i - 1], z[i - 1])
                      /\ \A x \in Nat : R[i][x] = Hash(R[i - 1][2 * x],
                                                       R[i - 1][2 * x + 1])

(* The nodes from c[i] on, at each level i, are vacant.                    *)
VacantFrom(c, R, z, h) ==
    \A i \in 0 .. h, x \in Nat : x >= c[i] => R[i][x] = z[i]

LEMMA VacantNodes ==
    ASSUME NEW h \in Nat, NEW R, NEW z, NEW c \in [0 .. h -> Nat], IsTree(R, z, h),
           \A i \in 1 .. h : c[i - 1] <= 2 * c[i],
           \A x \in Nat : x >= c[0] => R[0][x] = z[0]
    PROVE  VacantFrom(c, R, z, h)
<1> DEFINE T == {i \in 0 .. h : \A x \in Nat : x >= c[i] => R[i][x] = z[i]}
<1>1. 0 \in T
  OBVIOUS
<1>2. ASSUME NEW i \in 1 .. h, i - 1 \in T PROVE i \in T
  <2>1. ASSUME NEW x \in Nat, x >= c[i] PROVE R[i][x] = z[i]
    <3>1. c[i] \in Nat /\ c[i - 1] \in Nat /\ c[i - 1] <= 2 * c[i]
      OBVIOUS
    <3>2. /\ 2 * x \in Nat /\ 2 * x >= c[i - 1]
          /\ 2 * x + 1 \in Nat /\ 2 * x + 1 >= c[i - 1]
      BY <2>1, <3>1
    <3>3. R[i - 1][2 * x] = z[i - 1] /\ R[i - 1][2 * x + 1] = z[i - 1]
      BY <1>2, <3>2
    <3> QED
      BY <3>3 DEF IsTree
  <2> QED
    BY <2>1
<1> HIDE DEF T
<1>3. 0 .. h \subseteq T
  BY <1>1, <1>2, LoopInduction
<1> QED
  BY <1>3 DEF T, VacantFrom

(* Two trees have the same nodes below c[i], at each level i.              *)
SameBelow(c, R, Q, h) ==
    \A i \in 0 .. h, x \in Nat : x < c[i] => R[i][x] = Q[i][x]

LEMMA SameNodes ==
    ASSUME NEW h \in Nat, NEW R, NEW Q, NEW z, NEW c \in [0 .. h -> Nat],
           IsTree(R, z, h), IsTree(Q, z, h),
           \A i \in 1 .. h : 2 * c[i] <= c[i - 1],
           \A x \in Nat : x < c[0] => R[0][x] = Q[0][x]
    PROVE  SameBelow(c, R, Q, h)
<1> DEFINE T == {i \in 0 .. h : \A x \in Nat : x < c[i] => R[i][x] = Q[i][x]}
<1>1. 0 \in T
  OBVIOUS
<1>2. ASSUME NEW i \in 1 .. h, i - 1 \in T PROVE i \in T
  <2>1. ASSUME NEW x \in Nat, x < c[i] PROVE R[i][x] = Q[i][x]
    <3>1. c[i] \in Nat /\ c[i - 1] \in Nat /\ 2 * c[i] <= c[i - 1]
      OBVIOUS
    <3>2. /\ 2 * x \in Nat /\ 2 * x < c[i - 1]
          /\ 2 * x + 1 \in Nat /\ 2 * x + 1 < c[i - 1]
      BY <2>1, <3>1
    <3>3. /\ R[i - 1][2 * x] = Q[i - 1][2 * x]
          /\ R[i - 1][2 * x + 1] = Q[i - 1][2 * x + 1]
      BY <1>2, <3>2
    <3>4. R[i][x] = Hash(R[i - 1][2 * x], R[i - 1][2 * x + 1])
      BY DEF IsTree
    <3>5. Q[i][x] = Hash(Q[i - 1][2 * x], Q[i - 1][2 * x + 1])
      BY DEF IsTree
    <3> QED
      BY <3>3, <3>4, <3>5
  <2> QED
    BY <2>1
<1> HIDE DEF T
<1>3. 0 .. h \subseteq T
  BY <1>1, <1>2, LoopInduction
<1> QED
  BY <1>3 DEF T, SameBelow

(* Of n leaves, the open node of each level whose bit is set in n is kept. *)
KeepsOpen(filled, R, n, h) ==
    /\ filled = [j \in 0 .. h - 1 |-> filled[j]]
    /\ \A j \in 0 .. h - 1 : IsSet(n, j) => filled[j] = R[j][Shifted(n, j) - 1]

(* Q is the tree R with one leaf more, the n-th.                           *)
OneMore(R, Q, z, n, node, h) ==
    /\ IsTree(R, z, h)
    /\ IsTree(Q, z, h)
    /\ Q[0][n] = node
    /\ \A x \in Nat : /\ x < n => R[0][x] = Q[0][x]
                      /\ x > n => Q[0][x] = z[0]

(* Then at every level the nodes right of the path up from the n-th leaf   *)
(* are those of the empty tree, and the nodes left of it are as before.    *)
AsideOfPath(R, Q, z, n, h) ==
    \A i \in 0 .. h : /\ Q[i][Shifted(n, i) + 1] = z[i]
                      /\ \A x \in Nat : x < Shifted(n, i) => R[i][x] = Q[i][x]

LEMMA OneMoreNodes ==
    ASSUME NEW h \in Nat, NEW R, NEW Q, NEW z, NEW n \in Nat, NEW node,
           OneMore(R, Q, z, n, node, h)
    PROVE  AsideOfPath(R, Q, z, n, h)
<1> DEFINE c == [i \in 0 .. h |-> Shifted(n, i)]
           d == [i \in 0 .. h |-> Shifted(n, i) + 1]
<1>0. \A i \in 0 .. h : Shifted(n, i) \in Nat
  <2>1. \A i \in Nat : Shifted(n, i) \in Nat
    BY ShiftedIs
  <2> QED
    BY <2>1
<1>1. \A i \in 0 .. h : /\ Shifted(n, i) \in Nat
                        /\ c[i] = Shifted(n, i) /\ d[i] = Shifted(n, i) + 1
  BY <1>0
<1>2. c \in [0 .. h -> Nat] /\ d \in [0 .. h -> Nat] /\ c[0] = n /\ d[0] = n + 1
  <2>1. c \in [0 .. h -> Nat] /\ d \in [0 .. h -> Nat]
    BY <1>0
  <2>2. Shifted(n, 0) = n /\ 0 \in 0 .. h
    BY ShiftedIs
  <2> HIDE DEF c, d
  <2> QED
    BY <1>1, <2>1, <2>2
<1>3. \A i \in 1 .. h : 2 * c[i] <= c[i - 1] /\ d[i - 1] <= 2 * d[i]
  <2>1. ASSUME NEW i \in 1 .. h PROVE 2 * c[i] <= c[i - 1] /\ d[i - 1] <= 2 * d[i]
    <3>1. i - 1 \in 0 .. h /\ i \in 0 .. h /\ i - 1 \in Nat /\ i - 1 + 1 = i
      OBVIOUS
    <3>2. Shifted(n, i) = Shifted(n, i - 1) \div 2 /\ Shifted(n, i - 1) \in Nat
      BY <3>1, ShiftedIs
    <3>3. \A x \in Nat : 2 * (x \div 2) <= x /\ x + 1 <= 2 * ((x \div 2) + 1)
      OBVIOUS
    <3> HIDE DEF c, d
    <3> QED
      BY <1>1, <3>1, <3>2, <3>3
  <2> QED
    BY <2>1
<1> HIDE DEF c, d
<1>4. SameBelow(c, R, Q, h)
  BY <1>2, <1>3, SameNodes DEF OneMore
<1>5. VacantFrom(d, Q, z, h)
  <2>1. \A x \in Nat : x >= d[0] => Q[0][x] = z[0]
    BY <1>2 DEF OneMore
  <2> QED
    BY <1>2, <1>3, <2>1, VacantNodes DEF OneMore
<1> QED
  BY <1>1, <1>4, <1>5 DEF SameBelow, VacantFrom, AsideOfPath

(* The ascent of a leaf of such a tree.                                    *)
Climbing(u, n, node, filled, z, h) ==
    /\ u[0] = [acc |-> node, filled |-> filled, subtreeSet |-> FALSE]
    /\ \A i \in 1 .. h : u[i] = AscendOne(u[i - 1], n, i - 1, z[i - 1])

(* After i turns it has the node above the leaf, and has passed the lowest *)
(* level at which the bit of n is clear, or not yet.                       *)
Climbed(e, i, n, filled, Q, h) ==
    /\ e = [acc |-> Q[i][Shifted(n, i)], filled |-> e.filled,
            subtreeSet |-> e.subtreeSet]
    /\ e.subtreeSet \in BOOLEAN
    /\ Shifted(n + 1, i) = IF e.subtreeSet THEN Shifted(n, i) ELSE Shifted(n, i) + 1
    /\ e.filled = [j \in 0 .. h - 1 |-> e.filled[j]]
    /\ \A j \in 0 .. h - 1 : j >= i => e.filled[j] = filled[j]
    /\ \A j \in 0 .. h - 1 : j < i /\ IsSet(n + 1, j) =>
          e.filled[j] = Q[j][Shifted(n + 1, j) - 1]

LEMMA ClimbOne ==
    ASSUME NEW h \in Nat, NEW R, NEW Q, NEW z, NEW n \in Nat, NEW node, NEW filled,
           OneMore(R, Q, z, n, node, h), KeepsOpen(filled, R, n, h),
           NEW i \in 1 .. h, NEW e, Climbed(e, i - 1, n, filled, Q, h)
    PROVE  Climbed(AscendOne(e, n, i - 1, z[i - 1]), i, n, filled, Q, h)
<1> DEFINE k == i - 1
           f == AscendOne(e, n, k, z[k])
           a == Shifted(n, k)
           b == Shifted(n + 1, k)
<1>0. k \in 0 .. h - 1 /\ k \in 0 .. h /\ k \in Nat /\ k + 1 = i /\ n + 1 \in Nat
  OBVIOUS
<1>1. /\ a \in Nat /\ b \in Nat
      /\ Shifted(n, i) = a \div 2 /\ Shifted(n + 1, i) = b \div 2
  <2>1. a \in Nat /\ Shifted(n, k + 1) = a \div 2
    BY <1>0, ShiftedIs
  <2>2. b \in Nat /\ Shifted(n + 1, k + 1) = b \div 2
    BY <1>0, ShiftedIs
  <2> QED
    BY <1>0, <2>1, <2>2
<1>2. /\ e = [acc |-> Q[k][a], filled |-> e.filled, subtreeSet |-> e.subtreeSet]
      /\ e.subtreeSet \in BOOLEAN
      /\ b = IF e.subtreeSet THEN a ELSE a + 1
      /\ e.filled = [j \in 0 .. h - 1 |-> e.filled[j]]
      /\ \A j \in 0 .. h - 1 : j >= k => e.filled[j] = filled[j]
      /\ \A j \in 0 .. h - 1 : j < k /\ IsSet(n + 1, j) =>
            e.filled[j] = Q[j][Shifted(n + 1, j) - 1]
  BY DEF Climbed
<1>3. /\ Q[k][a + 1] = z[k]
      /\ \A x \in Nat : x < a => R[k][x] = Q[k][x]
  <2>1. AsideOfPath(R, Q, z, n, h)
    BY OneMoreNodes
  <2> QED
    BY <1>0, <2>1 DEF AsideOfPath
<1>4. \A x \in Nat : Q[i][x] = Hash(Q[k][2 * x], Q[k][2 * x + 1])
  BY DEF OneMore, IsTree
<1>5. a % 2 = 1 => filled[k] = R[k][a - 1]
  BY <1>0 DEF KeepsOpen, IsSet
<1>6. CASE a % 2 = 1
  <2>1. f = [acc |-> Hash(e.filled[k], Q[k][a]), filled |-> e.filled,
             subtreeSet |-> e.subtreeSet]
    <3>1. f = [e EXCEPT !.acc = Hash(e.filled[k], @)]
      BY <1>6 DEF AscendOne, IsSet
    <3>2. PICK filledNow, isSet :
             e = [acc |-> Q[k][a], filled |-> filledNow, subtreeSet |-> isSet]
      BY <1>2
    <3>3. e.acc = Q[k][a] /\ e.filled = filledNow /\ e.subtreeSet = isSet
      BY <3>2
    <3> HIDE DEF f, a
    <3>4. f = [acc |-> Hash(e.filled[k], Q[k][a]), filled |-> filledNow,
               subtreeSet |-> isSet]
      BY <3>1, <3>2, <3>3
    <3> QED
      BY <3>3, <3>4
  <2>2. a - 1 \in Nat /\ a - 1 = 2 * (a \div 2) /\ a = 2 * (a \div 2) + 1
        /\ a \div 2 \in Nat /\ a - 1 < a
    BY <1>1, <1>6
  <2>3. e.filled[k] = Q[k][a - 1]
    <3>1. e.filled[k] = filled[k]
      BY <1>0, <1>2
    <3>2. filled[k] = R[k][a - 1]
      BY <1>5, <1>6
    <3>3. R[k][a - 1] = Q[k][a - 1]
      BY <1>3, <2>2
    <3> QED
      BY <3>1, <3>2, <3>3
  <2>4. Q[i][a \div 2] = Hash(Q[k][a - 1], Q[k][a])
    BY <1>4, <2>2
  <2>5. /\ f.acc = Q[i][Shifted(n, i)] /\ f.filled = e.filled
        /\ f.subtreeSet = e.subtreeSet
    BY <1>1, <2>1, <2>3, <2>4
  <2>6. f = [acc |-> Q[i][Shifted(n, i)], filled |-> f.filled,
             subtreeSet |-> f.subtreeSet]
    BY <2>1, <2>5
  <2>7. Shifted(n + 1, i) = IF f.subtreeSet THEN Shifted(n, i) ELSE Shifted(n, i) + 1
    <3>1. (a + 1) \div 2 = (a \div 2) + 1
      BY <1>1, <1>6
    <3> QED
      BY <1>1, <1>2, <2>5, <3>1
  <2>8. \A j \in 0 .. h - 1 : j >= i => f.filled[j] = filled[j]
    <3>1. \A j \in 0 .. h - 1 : j >= i => j >= k
      BY <1>0
    <3>2. f.filled = e.filled
      BY <2>5
    <3> QED
      BY ONLY <1>2, <3>1, <3>2
  <2>9. ASSUME NEW j \in 0 .. h - 1, j < i, IsSet(n + 1, j)
        PROVE  f.filled[j] = Q[j][Shifted(n + 1, j) - 1]
    <3>1. CASE j < k
      BY <1>2, <2>5, <2>9, <3>1
    <3>2. CASE j = k
      <4>1. b % 2 = 1
        BY <2>9, <3>2 DEF IsSet
      <4>2. (a + 1) % 2 # 1
        BY <1>1, <1>6
      <4>3. b = a
        BY <1>2, <4>1, <4>2
      <4> QED
        BY <2>3, <2>5, <3>2, <4>3
    <3> QED
      BY <1>0, <2>9, <3>1, <3>2
  <2> HIDE DEF f, a, b
  <2>10. Climbed(f, i, n, filled, Q, h)
    BY <1>2, <2>5, <2>6, <2>7, <2>8, <2>9 DEF Climbed
  <2> QED
    BY <2>10 DEF f
<1>7. CASE a % 2 # 1
  <2>1. f = [acc |-> Hash(Q[k][a], z[k]),
             filled |-> IF e.subtreeSet THEN e.filled
                        ELSE [e.filled EXCEPT ![k] = Q[k][a]],
             subtreeSet |-> TRUE]
    <3>1. e.acc = Q[k][a]
      BY <1>2
    <3> QED
      BY <1>7, <3>1 DEF AscendOne, IsSet
  <2>2. a = 2 * (a \div 2) /\ a + 1 = 2 * (a \div 2) + 1 /\ a \div 2 \in Nat
    BY <1>1, <1>7
  <2>3. Q[i][a \div 2] = Hash(Q[k][a], z[k])
    BY <1>3, <1>4, <2>2
  <2>4. /\ f.acc = Q[i][Shifted(n, i)] /\ f.subtreeSet = TRUE
        /\ f.filled = IF e.subtreeSet THEN e.filled
                      ELSE [e.filled EXCEPT ![k] = Q[k][a]]
    BY <1>1, <2>1, <2>3
  <2>5. f = [acc |-> Q[i][Shifted(n, i)], filled |-> f.filled,
             subtreeSet |-> f.subtreeSet]
    BY <2>1, <2>4
  <2>6. Shifted(n + 1, i) = IF f.subtreeSet THEN Shifted(n, i) ELSE Shifted(n, i) + 1
    <3>1. (a + 1) \div 2 = a \div 2
      BY <1>1, <1>7
    <3> QED
      BY <1>1, <1>2, <2>4, <3>1
  <2>7. \A j \in 0 .. h - 1 :
           f.filled[j] = IF j = k /\ ~e.subtreeSet THEN Q[k][a] ELSE e.filled[j]
    BY <1>2, <2>4
  <2>8. f.filled = [j \in 0 .. h - 1 |-> f.filled[j]]
    <3>1. CASE e.subtreeSet
      BY <1>2, <2>4, <3>1
    <3>2. CASE ~e.subtreeSet
      BY <1>2, <2>4, <3>2
    <3> QED
      BY <3>1, <3>2
  <2>9. \A j \in 0 .. h - 1 : j >= i => f.filled[j] = filled[j]
    <3> HIDE DEF f
    <3> QED
      BY <1>0, <1>2, <2>7
  <2>10. ASSUME NEW j \in 0 .. h - 1, j < i, IsSet(n + 1, j)
         PROVE  f.filled[j] = Q[j][Shifted(n + 1, j) - 1]
    <3>1. CASE j < k
      BY <1>2, <2>7, <2>10, <3>1
    <3>2. CASE j = k
      <4>1. b % 2 = 1
        BY <2>10, <3>2 DEF IsSet
      <4>2. ~e.subtreeSet /\ b = a + 1
        BY <1>2, <1>7, <4>1
      <4>3. b - 1 = a
        BY <1>1, <4>2
      <4> HIDE DEF f
      <4> QED
        BY <2>7, <3>2, <4>2, <4>3
    <3> QED
      BY <1>0, <2>10, <3>1, <3>2
  <2> HIDE DEF f, a, b
  <2>11. Climbed(f, i, n, filled, Q, h)
    BY <2>4, <2>5, <2>6, <2>8, <2>9, <2>10 DEF Climbed
  <2> QED
    BY <2>11 DEF f
<1> QED
  BY <1>6, <1>7

LEMMA Climbs ==
    ASSUME NEW h \in Nat, NEW R, NEW Q, NEW z, NEW n \in Nat, NEW node, NEW filled,
           NEW u, OneMore(R, Q, z, n, node, h), KeepsOpen(filled, R, n, h),
           Climbing(u, n, node, filled, z, h)
    PROVE  /\ u[h].acc = Q[h][Shifted(n, h)]
           /\ KeepsOpen(u[h].filled, Q, n + 1, h)
<1> DEFINE T == {i \in 0 .. h : Climbed(u[i], i, n, filled, Q, h)}
<1>1. 0 \in T
  <2>1. Shifted(n, 0) = n /\ Shifted(n + 1, 0) = n + 1
    BY ShiftedIs
  <2>2. u[0] = [acc |-> Q[0][n], filled |-> filled, subtreeSet |-> FALSE]
    BY DEF Climbing, OneMore
  <2>3. filled = [j \in 0 .. h - 1 |-> filled[j]]
    BY DEF KeepsOpen
  <2>4. u[0].acc = Q[0][n] /\ u[0].filled = filled /\ u[0].subtreeSet = FALSE
    BY <2>2
  <2>5. u[0] = [acc |-> Q[0][Shifted(n, 0)], filled |-> u[0].filled,
                subtreeSet |-> u[0].subtreeSet]
    BY <2>1, <2>2, <2>4
  <2>6. Climbed(u[0], 0, n, filled, Q, h)
    <3>1. PICK e : e = u[0]
      OBVIOUS
    <3>2. /\ e = [acc |-> Q[0][Shifted(n, 0)], filled |-> e.filled,
                  subtreeSet |-> e.subtreeSet]
          /\ e.subtreeSet = FALSE /\ e.filled = filled
      BY <2>4, <2>5, <3>1
    <3>3. e.filled = [j \in 0 .. h - 1 |-> e.filled[j]]
      BY <2>3, <3>2
    <3>4. \A j \in 0 .. h - 1 : ~(j < 0)
      OBVIOUS
    <3>5. Climbed(e, 0, n, filled, Q, h)
      BY <2>1, <3>2, <3>3, <3>4 DEF Climbed
    <3> QED
      BY <3>1, <3>5
  <2> QED
    BY <2>6
<1>2. ASSUME NEW i \in 1 .. h, i - 1 \in T PROVE i \in T
  <2>1. Climbed(AscendOne(u[i - 1], n, i - 1, z[i - 1]), i, n, filled, Q, h)
    BY <1>2, ClimbOne
  <2> QED
    BY <2>1 DEF Climbing
<1> HIDE DEF T
<1>3. h \in T
  BY <1>1, <1>2, LoopInduction
<1>4. Climbed(u[h], h, n, filled, Q, h)
  BY <1>3 DEF T
<1>5. u[h].acc = Q[h][Shifted(n, h)]
  BY <1>4 DEF Climbed
<1>6. KeepsOpen(u[h].filled, Q, n + 1, h)
  BY <1>4 DEF Climbed, KeepsOpen
<1> QED
  BY <1>5, <1>6
-----------------------------------------------------------------------------
(* The tree over a list of leaves, from the level of the batches up.       *)
BatchHeight == DEPTH - BATCH_DEPTH
BatchRows(leaves) == [i \in 0 .. BatchHeight |-> Nodes(leaves)[i + BATCH_DEPTH]]
BatchZeros == [i \in 0 .. BatchHeight |-> Zeros[i + BATCH_DEPTH]]

LEMMA LeafTree ==
    ASSUME NEW leaves
    PROVE  IsTree(Nodes(leaves), Zeros, DEPTH)
BY NodesAre, ZerosAre DEF IsTree

LEMMA BatchTree ==
    ASSUME NEW leaves
    PROVE  IsTree(BatchRows(leaves), BatchZeros, BatchHeight)
<1>0. BatchHeight \in Nat /\ BATCH_DEPTH \in Nat /\ BatchHeight + BATCH_DEPTH = DEPTH
  BY DepthsAre DEF BatchHeight
<1>1. ASSUME NEW i \in 1 .. BatchHeight, NEW k, k = i + BATCH_DEPTH
      PROVE  /\ k \in 1 .. DEPTH
             /\ BatchRows(leaves)[i] = Nodes(leaves)[k]
             /\ BatchRows(leaves)[i - 1] = Nodes(leaves)[k - 1]
             /\ BatchZeros[i] = Zeros[k] /\ BatchZeros[i - 1] = Zeros[k - 1]
  <2>1. /\ k \in 1 .. DEPTH /\ i \in 0 .. BatchHeight /\ i - 1 \in 0 .. BatchHeight
        /\ i - 1 + BATCH_DEPTH = k - 1
    BY <1>0, <1>1
  <2> QED
    BY <1>1, <2>1 DEF BatchRows, BatchZeros
<1> DEFINE R == BatchRows(leaves)
           z == BatchZeros
<1>2. ASSUME NEW i \in 1 .. BatchHeight
      PROVE  /\ z[i] = Hash(z[i - 1], z[i - 1])
             /\ \A x \in Nat : R[i][x] = Hash(R[i - 1][2 * x], R[i - 1][2 * x + 1])
  <2>1. PICK k : k = i + BATCH_DEPTH
    OBVIOUS
  <2>2. /\ k \in 1 .. DEPTH
        /\ R[i] = Nodes(leaves)[k] /\ R[i - 1] = Nodes(leaves)[k - 1]
        /\ z[i] = Zeros[k] /\ z[i - 1] = Zeros[k - 1]
    BY <1>1, <2>1
  <2>3. Zeros[k] = Hash(Zeros[k - 1], Zeros[k - 1])
    BY <2>2, ZerosAre
  <2>4. \A x \in Nat : Nodes(leaves)[k][x] = Hash(Nodes(leaves)[k - 1][2 * x],
                                                 Nodes(leaves)[k - 1][2 * x + 1])
    BY <2>2, NodesAre
  <2> HIDE DEF R, z
  <2> QED
    BY <2>2, <2>3, <2>4
<1> QED
  BY <1>2 DEF IsTree

(* The left set: a key more is a leaf more.                                *)
LEMMA KeyAppended ==
    ASSUME NEW K, NEW keys \in Seq(K), NEW key \in K
    PROVE  OneMore(Nodes(keys), Nodes(Append(keys, key)), Zeros, Len(keys), key, DEPTH)
<1> DEFINE more == Append(keys, key)
<1>1. /\ more \in Seq(K) /\ Len(keys) \in Nat /\ Len(more) = Len(keys) + 1
      /\ more[Len(keys) + 1] = key
      /\ \A i \in 1 .. Len(keys) : more[i] = keys[i]
  BY AppendProperties, LenProperties
<1> HIDE DEF more
<1>2. LeafAt(more, Len(keys)) = key
  BY <1>1 DEF LeafAt
<1>3. \A x \in Nat : /\ x < Len(keys) => LeafAt(keys, x) = LeafAt(more, x)
                     /\ x > Len(keys) => LeafAt(more, x) = NoKey
  BY <1>1 DEF LeafAt
<1>4. \A x \in Nat : /\ Nodes(keys)[0][x] = LeafAt(keys, x)
                     /\ Nodes(more)[0][x] = LeafAt(more, x)
  BY NodesAre
<1>5. IsTree(Nodes(keys), Zeros, DEPTH) /\ IsTree(Nodes(more), Zeros, DEPTH)
  BY LeafTree
<1>6. OneMore(Nodes(keys), Nodes(more), Zeros, Len(keys), key, DEPTH)
  BY <1>1, <1>2, <1>3, <1>4, <1>5, ZerosAre DEF OneMore
<1> QED
  BY <1>6 DEF more

(* The right set: where the keys of each batch are among all.              *)
LEMMA KeysAre ==
    ASSUME NEW K, NEW batches \in Seq([1 .. BATCH_SIZE -> K])
    PROVE  /\ BATCH_SIZE \in Nat /\ BATCH_SIZE >= 1 /\ Len(batches) \in Nat
           /\ \A b \in 0 .. Len(batches) - 1, j \in 0 .. BATCH_SIZE - 1 :
                 LeafAt(KeysOf(batches), b * BATCH_SIZE + j) = batches[b + 1][j + 1]
           /\ \A x \in Nat : x >= Len(batches) * BATCH_SIZE =>
                 LeafAt(KeysOf(batches), x) = NoKey
<1> DEFINE n == Len(batches)
           size == n * BATCH_SIZE
<1>1. BATCH_SIZE \in Nat /\ BATCH_SIZE >= 1
  BY DepthsAre, TwoToIs DEF BATCH_SIZE
<1>2. n \in Nat
  BY LenProperties
<1> HIDE DEF n
<1>3. size \in Nat
  BY <1>1, <1>2
<1> HIDE DEF size
<1>4. KeysOf(batches) = [k \in 1 .. size |->
          batches[(k - 1) \div BATCH_SIZE + 1][((k - 1) % BATCH_SIZE) + 1]]
  BY DEF KeysOf, size, n
<1>5. Len(KeysOf(batches)) = size
  <2> DEFINE S == {KeysOf(batches)[k] : k \in 1 .. size}
  <2>1. KeysOf(batches) \in [1 .. size -> S]
    BY <1>4
  <2> QED
    BY <1>3, <2>1, Indexed
<1>6. ASSUME NEW b \in 0 .. n - 1, NEW j \in 0 .. BATCH_SIZE - 1
      PROVE  LeafAt(KeysOf(batches), b * BATCH_SIZE + j) = batches[b + 1][j + 1]
  <2> DEFINE x == b * BATCH_SIZE + j
  <2>1. x \in Nat /\ x \div BATCH_SIZE = b /\ x % BATCH_SIZE = j
    <3>1. b \in Nat
      BY <1>2
    <3>2. x \div BATCH_SIZE = b /\ x % BATCH_SIZE = j
      BY <1>1, <3>1, BlockOf
    <3>3. b * BATCH_SIZE \in Nat
      BY <1>1, <3>1
    <3> QED
      BY <3>2, <3>3
  <2>2. x < size
    <3>1. PICK d \in Nat : n = b + 1 + d
      <4>1. n - b - 1 \in Nat /\ n = b + 1 + (n - b - 1)
        BY <1>2
      <4> QED
        BY <4>1
    <3>2. size = b * BATCH_SIZE + BATCH_SIZE + d * BATCH_SIZE
      <4>1. (b + 1 + d) * BATCH_SIZE = b * BATCH_SIZE + BATCH_SIZE + d * BATCH_SIZE
        BY <1>1
      <4> QED
        BY <3>1, <4>1 DEF size
    <3>3. d * BATCH_SIZE \in Nat /\ b * BATCH_SIZE \in Nat
      BY <1>1, <1>2
    <3> QED
      BY <1>1, <3>2, <3>3
  <2> HIDE DEF x
  <2>3. x + 1 \in 1 .. size /\ x + 1 - 1 = x
    BY <1>3, <2>1, <2>2
  <2>4. KeysOf(batches)[x + 1] = batches[b + 1][j + 1]
    BY <1>4, <2>1, <2>3
  <2> QED
    BY <1>5, <2>2, <2>4 DEF LeafAt, x
<1>7. \A x \in Nat : x >= size => LeafAt(KeysOf(batches), x) = NoKey
  BY <1>3, <1>5 DEF LeafAt
<1> QED
  BY <1>1, <1>2, <1>6, <1>7 DEF n, size

(* The node over the keys of a batch is the root that _updateBatch() makes *)
(* of them, and beyond the last batch there is nothing.                    *)
LEMMA BatchNodes ==
    ASSUME NEW K, NEW batches \in Seq([1 .. BATCH_SIZE -> K])
    PROVE  /\ \A b \in 0 .. Len(batches) - 1 :
                 Nodes(KeysOf(batches))[BATCH_DEPTH][b] = BatchRoot(batches[b + 1])
           /\ \A x \in Nat : x >= Len(batches) =>
                 Nodes(KeysOf(batches))[BATCH_DEPTH][x] = Zeros[BATCH_DEPTH]
<1> DEFINE D == BATCH_DEPTH
           R == Nodes(KeysOf(batches))
           n == Len(batches)
<1>0. D \in Nat /\ n \in Nat /\ \A i \in 0 .. D : i \in 0 .. DEPTH
  BY DepthsAre, LenProperties
<1>1. \A i \in 0 .. D : TwoTo[D - i] \in Nat /\ TwoTo[D - i] >= 1
  <2>1. \A i \in 0 .. D : D - i \in Nat
    BY <1>0
  <2> HIDE DEF D
  <2> QED
    BY <2>1, TwoToIs
<1>2. \A i \in 1 .. D : TwoTo[D - (i - 1)] = 2 * TwoTo[D - i]
  <2>1. \A i \in 1 .. D : D - i \in Nat /\ D - i + 1 = D - (i - 1)
    BY <1>0
  <2> HIDE DEF D
  <2> QED
    BY <2>1, TwoToIs
<1>3. TwoTo[D - D] = 1 /\ TwoTo[D - 0] = BATCH_SIZE
  BY <1>0, TwoToIs DEF BATCH_SIZE
<1>4. \A i \in 1 .. D, x \in Nat : R[i][x] = Hash(R[i - 1][2 * x], R[i - 1][2 * x + 1])
  <2>1. \A i \in 1 .. D : i \in 1 .. DEPTH
    BY <1>0, DepthsAre
  <2> HIDE DEF D
  <2> QED
    BY <2>1, NodesAre
<1>5. \A x \in Nat : R[0][x] = LeafAt(KeysOf(batches), x)
  BY NodesAre
<1>6. ASSUME NEW b \in 0 .. n - 1
      PROVE  R[D][b] = BatchRoot(batches[b + 1])
  <2>1. PICK u : Filling(u, batches[b + 1]) /\ BatchRoot(batches[b + 1]) = u[D][1]
    BY BatchRootIs
  <2>2. /\ u[0] = batches[b + 1]
        /\ \A i \in 1 .. D : \A j \in 1 .. TwoTo[D - i] :
              u[i][j] = Hash(u[i - 1][2 * j - 1], u[i - 1][2 * j])
    BY <2>1 DEF Filling
  <2> DEFINE T == {i \in 0 .. D : \A j \in 0 .. TwoTo[D - i] - 1 :
                      R[i][b * TwoTo[D - i] + j] = u[i][j + 1]}
  <2>3. 0 \in T
    <3>1. \A j \in 0 .. BATCH_SIZE - 1 : b * BATCH_SIZE + j \in Nat
      <4>1. b \in Nat /\ BATCH_SIZE \in Nat
        <5>1. BATCH_SIZE \in Nat
          BY DepthsAre, TwoToIs DEF BATCH_SIZE
        <5> QED
          BY <1>0, <5>1
      <4>2. b * BATCH_SIZE \in Nat
        BY <4>1
      <4> QED
        BY <4>2
    <3>2. \A j \in 0 .. BATCH_SIZE - 1 :
             R[0][b * BATCH_SIZE + j] = u[0][j + 1]
      BY <1>5, <2>2, <3>1, KeysAre
    <3> HIDE DEF R, D
    <3> QED
      BY <1>0, <1>3, <3>2
  <2>4. ASSUME NEW i \in 1 .. D, i - 1 \in T PROVE i \in T
    <3> DEFINE w == TwoTo[D - i]
    <3>1. w \in Nat /\ TwoTo[D - (i - 1)] = 2 * w
      <4>1. i \in 0 .. D
        OBVIOUS
      <4> HIDE DEF D
      <4> QED
        BY <1>1, <1>2, <4>1
    <3>2. \A j \in 0 .. 2 * w - 1 : R[i - 1][b * (2 * w) + j] = u[i - 1][j + 1]
      BY <2>4, <3>1
    <3>3. \A j \in 1 .. w : u[i][j] = Hash(u[i - 1][2 * j - 1], u[i - 1][2 * j])
      BY <2>2
    <3> HIDE DEF w, R, D, n
    <3>4. ASSUME NEW j \in 0 .. w - 1 PROVE R[i][b * w + j] = u[i][j + 1]
      <4>1. /\ b \in Nat /\ b * w \in Nat /\ b * (2 * w) = 2 * (b * w)
        BY <1>0, <3>1
      <4>2. PICK p \in Nat : p = b * w
        BY <4>1
      <4>3. p + j \in Nat /\ 2 * (p + j) = 2 * p + 2 * j /\ 2 * (p + j) + 1 = 2 * p + (2 * j + 1)
        OBVIOUS
      <4>4. R[i][p + j] = Hash(R[i - 1][2 * p + 2 * j], R[i - 1][2 * p + (2 * j + 1)])
        BY <1>4, <4>3
      <4>5. 2 * j \in 0 .. 2 * w - 1 /\ 2 * j + 1 \in 0 .. 2 * w - 1
        BY <3>1
      <4>6. /\ R[i - 1][2 * p + 2 * j] = u[i - 1][2 * j + 1]
            /\ R[i - 1][2 * p + (2 * j + 1)] = u[i - 1][(2 * j + 1) + 1]
        BY <3>2, <4>1, <4>2, <4>5
      <4>7. j + 1 \in 1 .. w /\ 2 * (j + 1) - 1 = 2 * j + 1 /\ 2 * (j + 1) = (2 * j + 1) + 1
        BY <3>1
      <4>8. u[i][j + 1] = Hash(u[i - 1][2 * j + 1], u[i - 1][(2 * j + 1) + 1])
        BY <3>3, <4>7
      <4> QED
        BY <4>2, <4>4, <4>6, <4>8
    <3> QED
      BY <3>4 DEF w, D
  <2> HIDE DEF T
  <2>5. D \in T
    <3> HIDE DEF D
    <3>1. D \in Nat
      BY <1>0
    <3>2. 0 .. D \subseteq T
      BY <2>3, <2>4, <3>1, LoopInduction
    <3> QED
      BY <3>1, <3>2
  <2>6. 0 \in 0 .. TwoTo[D - D] - 1 /\ b * TwoTo[D - D] + 0 = b /\ 0 + 1 = 1
    BY <1>3
  <2>7. R[D][b * TwoTo[D - D] + 0] = u[D][0 + 1]
    BY <2>5, <2>6 DEF T
  <2> QED
    BY <2>1, <2>6, <2>7
<1>7. ASSUME NEW x \in Nat, x >= n
      PROVE  R[D][x] = Zeros[D]
  <2> DEFINE c == [i \in 0 .. D |-> n * TwoTo[D - i]]
  <2>1. \A i \in 0 .. D : n * TwoTo[D - i] \in Nat
    <3> HIDE DEF D, n
    <3> QED
      BY <1>0, <1>1
  <2>2. c \in [0 .. D -> Nat] /\ \A i \in 0 .. D : c[i] = n * TwoTo[D - i]
    BY <2>1
  <2>3. \A i \in 1 .. D : c[i - 1] <= 2 * c[i]
    <3>1. ASSUME NEW i \in 1 .. D PROVE c[i - 1] <= 2 * c[i]
      <4>1. i - 1 \in 0 .. D /\ i \in 0 .. D
        BY <1>0
      <4>2. n * (2 * TwoTo[D - i]) = 2 * (n * TwoTo[D - i])
        <5> HIDE DEF D, n
        <5> QED
          BY <1>0, <1>1, <4>1
      <4>3. c[i - 1] = n * (2 * TwoTo[D - i]) /\ c[i] = n * TwoTo[D - i]
        <5> HIDE DEF c, D, n
        <5> QED
          BY <1>2, <2>2, <4>1
      <4>4. c[i] \in Nat
        <5> HIDE DEF c, D
        <5> QED
          BY <2>2, <4>1
      <4> HIDE DEF c, D, n
      <4> QED
        BY <4>2, <4>3, <4>4
    <3> QED
      BY <3>1
  <2>4. c[0] = n * BATCH_SIZE /\ c[D] = n
    <3>1. 0 \in 0 .. D /\ D \in 0 .. D /\ n * 1 = n
      BY <1>0
    <3> HIDE DEF c, D, n
    <3> QED
      BY <1>3, <2>2, <3>1
  <2>5. \A y \in Nat : y >= c[0] => R[0][y] = Zeros[0]
    <3>1. \A y \in Nat : y >= n * BATCH_SIZE => LeafAt(KeysOf(batches), y) = NoKey
      BY KeysAre
    <3> HIDE DEF c, R, n
    <3> QED
      BY <1>5, <2>4, <3>1, ZerosAre
  <2>6. IsTree(R, Zeros, D)
    <3>1. \A i \in 1 .. D : Zeros[i] = Hash(Zeros[i - 1], Zeros[i - 1])
      BY DepthsAre, ZerosAre
    <3> HIDE DEF R, D
    <3> QED
      BY <1>4, <3>1 DEF IsTree
  <2> HIDE DEF c, R, D, n
  <2>7. VacantFrom(c, R, Zeros, D)
    BY <1>0, <2>2, <2>3, <2>5, <2>6, VacantNodes
  <2> QED
    BY <1>0, <1>7, <2>4, <2>7 DEF VacantFrom
<1> QED
  BY <1>6, <1>7

LEMMA BatchAppended ==
    ASSUME NEW K, NEW batches \in Seq([1 .. BATCH_SIZE -> K]),
           NEW pubkeys \in [1 .. BATCH_SIZE -> K]
    PROVE  OneMore(BatchRows(KeysOf(batches)), BatchRows(KeysOf(Append(batches, pubkeys))),
                   BatchZeros, Len(batches), BatchRoot(pubkeys), BatchHeight)
<1> DEFINE B == [1 .. BATCH_SIZE -> K]
           more == Append(batches, pubkeys)
           n == Len(batches)
           R == BatchRows(KeysOf(batches))
           Q == BatchRows(KeysOf(more))
<1>1. /\ more \in Seq(B) /\ n \in Nat /\ Len(more) = n + 1 /\ more[n + 1] = pubkeys
      /\ \A i \in 1 .. n : more[i] = batches[i]
  <2>1. batches \in Seq(B) /\ pubkeys \in B
    OBVIOUS
  <2> HIDE DEF B
  <2> QED
    BY <2>1, AppendProperties, LenProperties
<1> HIDE DEF more
<1>2. /\ R[0] = Nodes(KeysOf(batches))[BATCH_DEPTH]
      /\ Q[0] = Nodes(KeysOf(more))[BATCH_DEPTH]
      /\ BatchZeros[0] = Zeros[BATCH_DEPTH]
  <2>1. 0 \in 0 .. BatchHeight /\ 0 + BATCH_DEPTH = BATCH_DEPTH
    BY DepthsAre DEF BatchHeight
  <2> QED
    BY <2>1 DEF BatchRows, BatchZeros
<1>3. /\ \A b \in 0 .. n - 1 : R[0][b] = BatchRoot(batches[b + 1])
      /\ \A b \in 0 .. n : Q[0][b] = BatchRoot(more[b + 1])
      /\ \A x \in Nat : x >= n + 1 => Q[0][x] = BatchZeros[0]
  <2>1. \A b \in 0 .. n - 1 : R[0][b] = BatchRoot(batches[b + 1])
    BY <1>2, BatchNodes
  <2>2. /\ \A b \in 0 .. Len(more) - 1 : Q[0][b] = BatchRoot(more[b + 1])
        /\ \A x \in Nat : x >= Len(more) => Q[0][x] = BatchZeros[0]
    <3>1. more \in Seq([1 .. BATCH_SIZE -> K])
      BY <1>1
    <3>2. /\ \A b \in 0 .. Len(more) - 1 :
                Nodes(KeysOf(more))[BATCH_DEPTH][b] = BatchRoot(more[b + 1])
          /\ \A x \in Nat : x >= Len(more) =>
                Nodes(KeysOf(more))[BATCH_DEPTH][x] = Zeros[BATCH_DEPTH]
      BY <3>1, BatchNodes
    <3> HIDE DEF Q
    <3> QED
      BY <1>2, <3>2
  <2>3. n \in Nat /\ Len(more) = n + 1 /\ n + 1 - 1 = n
    BY <1>1
  <2> HIDE DEF R, Q, n
  <2> QED
    BY <2>1, <2>2, <2>3
<1>4. IsTree(R, BatchZeros, BatchHeight) /\ IsTree(Q, BatchZeros, BatchHeight)
  BY BatchTree
<1> HIDE DEF R, Q, n
<1>5. Q[0][n] = BatchRoot(pubkeys)
  BY <1>1, <1>3
<1>6. ASSUME NEW x \in Nat, x < n PROVE R[0][x] = Q[0][x]
  <2>1. x \in 0 .. n - 1 /\ x \in 0 .. n /\ x + 1 \in 1 .. n
    BY <1>1, <1>6
  <2> QED
    BY <1>1, <1>3, <2>1
<1>7. \A x \in Nat : x > n => Q[0][x] = BatchZeros[0]
  BY <1>1, <1>3
<1>8. OneMore(R, Q, BatchZeros, n, BatchRoot(pubkeys), BatchHeight)
  BY <1>4, <1>5, <1>6, <1>7 DEF OneMore
<1> QED
  BY <1>8 DEF R, Q, n, more

LEMMA EmptyRoot ==
    ASSUME NEW leaves, \A x \in Nat : LeafAt(leaves, x) = NoKey
    PROVE  TreeRoot(leaves) = Zeros[DEPTH]
<1> DEFINE c == [i \in 0 .. DEPTH |-> 0]
<1>1. c \in [0 .. DEPTH -> Nat] /\ \A i \in 0 .. DEPTH : c[i] = 0
  OBVIOUS
<1> HIDE DEF c
<1>2. \A i \in 1 .. DEPTH : c[i - 1] <= 2 * c[i]
  <2>1. \A i \in 1 .. DEPTH : i \in 0 .. DEPTH /\ i - 1 \in 0 .. DEPTH
    BY DepthsAre
  <2> QED
    BY <1>1, <2>1
<1>3. \A x \in Nat : x >= c[0] => Nodes(leaves)[0][x] = Zeros[0]
  BY NodesAre, ZerosAre
<1>4. VacantFrom(c, Nodes(leaves), Zeros, DEPTH)
  BY <1>1, <1>2, <1>3, DepthsAre, LeafTree, VacantNodes
<1>5. DEPTH \in 0 .. DEPTH /\ c[DEPTH] = 0
  BY <1>1, DepthsAre
<1> QED
  BY <1>4, <1>5 DEF VacantFrom, TreeRoot
-----------------------------------------------------------------------------
(* The inductive invariant: beside the roots, the nodes that are kept are  *)
(* those of the reference tree that the next leaf is hashed with.          *)
Keys == Pubkeys \union {NoKey}
Batches == [1 .. BATCH_SIZE -> Keys]

LeftInv ==
    /\ registered \in Seq(Keys)
    /\ leafIndexLeft = Len(registered)
    /\ leafIndexLeft < SET_SIZE
    /\ rootLeft = TreeRoot(registered)
    /\ KeepsOpen(filledSubtreesLeft, Nodes(registered), leafIndexLeft, DEPTH)

RightInv ==
    /\ registeredBatches \in Seq(Batches)
    /\ leafIndexRight = Len(registeredBatches)
    /\ leafIndexRight <= RightCapacity =>
          /\ rootRight = TreeRoot(KeysOf(registeredBatches))
          /\ KeepsOpen(filledSubtreesRight, BatchRows(KeysOf(registeredBatches)),
                       leafIndexRight, BatchHeight)

AccountInv == LeftInv /\ RightInv /\ root = Hash(rootLeft, rootRight)

LEMMA NothingOpen ==
    ASSUME NEW h \in Nat, NEW filled, NEW R, filled = [j \in 0 .. h - 1 |-> filled[j]]
    PROVE  KeepsOpen(filled, R, 0, h)
<1>1. \A j \in 0 .. h - 1 : Shifted(0, j) = 0
  <2>1. \A j \in Nat : Shifted(0, j) = 0
    BY ShiftedZero
  <2> QED
    BY <2>1
<1> QED
  BY <1>1 DEF KeepsOpen, IsSet

LEMMA AccountStarts == AccountInit => AccountInv
<1> SUFFICES ASSUME AccountInit PROVE AccountInv
  OBVIOUS
<1>1. LeftInv
  <2>1. /\ registered = <<>> /\ leafIndexLeft = 0 /\ rootLeft = Zeros[DEPTH]
        /\ filledSubtreesLeft = [i \in 0 .. DEPTH - 1 |-> Zeros[i]]
    BY DEF AccountInit
  <2>2. registered \in Seq(Keys) /\ Len(registered) = 0
    BY <2>1, EmptySeq
  <2>3. 0 < SET_SIZE
    BY DepthsAre, TwoToIs DEF SET_SIZE
  <2>4. TreeRoot(registered) = Zeros[DEPTH]
    <3>1. \A x \in Nat : LeafAt(registered, x) = NoKey
      BY <2>2 DEF LeafAt
    <3> QED
      BY <3>1, EmptyRoot
  <2>5. filledSubtreesLeft = [i \in 0 .. DEPTH - 1 |-> filledSubtreesLeft[i]]
    BY <2>1
  <2>6. KeepsOpen(filledSubtreesLeft, Nodes(registered), 0, DEPTH)
    BY <2>5, DepthsAre, NothingOpen
  <2> QED
    BY <2>1, <2>2, <2>3, <2>4, <2>6 DEF LeftInv
<1>2. RightInv
  <2>1. /\ registeredBatches = <<>> /\ leafIndexRight = 0 /\ rootRight = Zeros[DEPTH]
        /\ filledSubtreesRight = [i \in 0 .. BatchHeight - 1 |-> Zeros[i + BATCH_DEPTH]]
    BY DEF AccountInit, BatchHeight
  <2>2. registeredBatches \in Seq(Batches) /\ Len(registeredBatches) = 0
    BY <2>1, EmptySeq
  <2>3. TreeRoot(KeysOf(registeredBatches)) = Zeros[DEPTH]
    <3>1. /\ BATCH_SIZE \in Nat
          /\ \A x \in Nat : x >= Len(registeredBatches) * BATCH_SIZE =>
                LeafAt(KeysOf(registeredBatches), x) = NoKey
      <4>1. PICK batches \in Seq([1 .. BATCH_SIZE -> Keys]) : batches = registeredBatches
        BY <2>2 DEF Batches
      <4>2. /\ BATCH_SIZE \in Nat
            /\ \A x \in Nat : x >= Len(batches) * BATCH_SIZE =>
                  LeafAt(KeysOf(batches), x) = NoKey
        BY KeysAre
      <4> QED
        BY <4>1, <4>2
    <3>2. Len(registeredBatches) * BATCH_SIZE = 0
      BY <2>2, <3>1
    <3>3. \A x \in Nat : LeafAt(KeysOf(registeredBatches), x) = NoKey
      BY <3>1, <3>2
    <3> QED
      BY <3>3, EmptyRoot
  <2>4. filledSubtreesRight = [i \in 0 .. BatchHeight - 1 |-> filledSubtreesRight[i]]
    BY <2>1
  <2>5. KeepsOpen(filledSubtreesRight, BatchRows(KeysOf(registeredBatches)), 0,
                  BatchHeight)
    <3>1. BatchHeight \in Nat
      BY DepthsAre DEF BatchHeight
    <3> QED
      BY <2>4, <3>1, NothingOpen
  <2> QED
    BY <2>1, <2>2, <2>3, <2>5 DEF RightInv
<1>3. root = Hash(rootLeft, rootRight)
  BY DEF AccountInit
<1> QED
  BY <1>1, <1>2, <1>3 DEF AccountInv

(* register() keeps the left set right.                                    *)
LEMMA RegisterKeeps ==
    ASSUME LeftInv, NEW pubkey \in Keys, Register(pubkey)
    PROVE  LeftInv'
<1> DEFINE n == leafIndexLeft
           R == Nodes(registered)
           Q == Nodes(Append(registered, pubkey))
<1>1. /\ registered \in Seq(Keys) /\ n = Len(registered)
      /\ KeepsOpen(filledSubtreesLeft, R, n, DEPTH)
  BY DEF LeftInv
<1>2. n \in Nat /\ n < SET_SIZE - 1 /\ SET_SIZE \in Nat
  <2>1. SET_SIZE \in Nat
    BY DepthsAre, TwoToIs DEF SET_SIZE
  <2> QED
    BY <1>1, <2>1, LenProperties DEF Register
<1>3. /\ registered' = Append(registered, pubkey) /\ leafIndexLeft' = n + 1
      /\ rootLeft' = Ascend(pubkey, n, filledSubtreesLeft, 0).acc
      /\ filledSubtreesLeft' = Ascend(pubkey, n, filledSubtreesLeft, 0).filled
  BY DEF Register
<1>4. Append(registered, pubkey) \in Seq(Keys) /\ Len(Append(registered, pubkey)) = n + 1
  BY <1>1, AppendProperties
<1>5. OneMore(R, Q, Zeros, n, pubkey, DEPTH)
  BY <1>1, KeyAppended
<1> HIDE DEF n, R, Q
<1>6. PICK u : /\ Ascending(u, pubkey, n, filledSubtreesLeft, 0)
               /\ Ascend(pubkey, n, filledSubtreesLeft, 0) = u[DEPTH]
  <2>1. 0 \in 0 .. DEPTH /\ DEPTH - 0 = DEPTH
    BY DepthsAre
  <2> QED
    BY <2>1, AscendIs
<1>7. Climbing(u, n, pubkey, filledSubtreesLeft, Zeros, DEPTH)
  <2>1. DEPTH - 0 = DEPTH /\ \A i \in 1 .. DEPTH : i - 1 + 0 = i - 1
    BY DepthsAre
  <2> QED
    BY <1>6, <2>1 DEF Ascending, Climbing
<1>8. /\ u[DEPTH].acc = Q[DEPTH][Shifted(n, DEPTH)]
      /\ KeepsOpen(u[DEPTH].filled, Q, n + 1, DEPTH)
  BY <1>1, <1>2, <1>5, <1>7, DepthsAre, Climbs
<1>9. Shifted(n, DEPTH) = 0
  BY <1>2, DepthsAre, ShiftedBelow DEF SET_SIZE
<1>10. n + 1 < SET_SIZE
  BY <1>2
<1>11. rootLeft' = TreeRoot(registered')
  BY <1>3, <1>6, <1>8, <1>9 DEF TreeRoot, Q
<1>12. KeepsOpen(filledSubtreesLeft', Nodes(registered'), leafIndexLeft', DEPTH)
  BY <1>3, <1>6, <1>8 DEF Q
<1>13. SET_SIZE' = SET_SIZE
  BY DEF SET_SIZE
<1> QED
  BY <1>3, <1>4, <1>10, <1>11, <1>12, <1>13 DEF LeftInv

(* registerBatch() keeps the right set right, up to its last place.        *)
LEMMA RegisterBatchKeeps ==
    ASSUME RightInv, NEW pubkeys \in Batches, RegisterBatch(pubkeys)
    PROVE  RightInv'
<1> DEFINE n == leafIndexRight
           h == BatchHeight
           more == Append(registeredBatches, pubkeys)
           R == BatchRows(KeysOf(registeredBatches))
           Q == BatchRows(KeysOf(more))
           node == BatchRoot(pubkeys)
<1>0. h \in Nat /\ h + BATCH_DEPTH = DEPTH /\ BATCH_DEPTH \in 0 .. DEPTH
      /\ DEPTH - BATCH_DEPTH = h
  BY DepthsAre DEF BatchHeight
<1>1. registeredBatches \in Seq(Batches) /\ n = Len(registeredBatches) /\ n \in Nat
  BY LenProperties DEF RightInv
<1>2. /\ registeredBatches' = more /\ leafIndexRight' = n + 1
      /\ rootRight' = Ascend(node, n, filledSubtreesRight, BATCH_DEPTH).acc
      /\ filledSubtreesRight' = Ascend(node, n, filledSubtreesRight, BATCH_DEPTH).filled
  BY DEF RegisterBatch
<1>3. more \in Seq(Batches) /\ Len(more) = n + 1
  BY <1>1, AppendProperties
<1>4. CASE n + 1 <= RightCapacity
  <2>1. n < TwoTo[h] /\ n <= RightCapacity
    <3>1. RightCapacity = TwoTo[h] /\ TwoTo[h] \in Nat
      BY <1>0, TwoToIs DEF RightCapacity
    <3> QED
      BY <1>1, <1>4, <3>1
  <2>2. KeepsOpen(filledSubtreesRight, R, n, h)
    BY <2>1 DEF RightInv
  <2>3. OneMore(R, Q, BatchZeros, n, node, h)
    BY <1>1, BatchAppended DEF Batches
  <2> HIDE DEF n, h, R, Q, node, more
  <2>4. PICK u : /\ Ascending(u, node, n, filledSubtreesRight, BATCH_DEPTH)
                 /\ Ascend(node, n, filledSubtreesRight, BATCH_DEPTH) = u[h]
    BY <1>0, AscendIs
  <2>5. Climbing(u, n, node, filledSubtreesRight, BatchZeros, h)
    <3>1. \A i \in 1 .. h : BatchZeros[i - 1] = Zeros[i - 1 + BATCH_DEPTH]
      <4>1. \A i \in 1 .. h : i - 1 \in 0 .. h
        BY <1>0
      <4> QED
        BY <4>1 DEF BatchZeros, h
    <3> QED
      BY <1>0, <2>4, <3>1 DEF Ascending, Climbing
  <2>6. /\ u[h].acc = Q[h][Shifted(n, h)]
        /\ KeepsOpen(u[h].filled, Q, n + 1, h)
    BY <1>0, <1>1, <2>2, <2>3, <2>5, Climbs
  <2>7. Shifted(n, h) = 0
    BY <1>0, <1>1, <2>1, ShiftedBelow
  <2>8. Q[h] = Nodes(KeysOf(more))[DEPTH]
    BY <1>0 DEF Q, BatchRows, h
  <2>9. rootRight' = TreeRoot(KeysOf(registeredBatches'))
    BY <1>2, <2>4, <2>6, <2>7, <2>8 DEF TreeRoot
  <2>10. KeepsOpen(filledSubtreesRight', BatchRows(KeysOf(registeredBatches')),
                   leafIndexRight', BatchHeight)
    BY <1>2, <2>4, <2>6 DEF Q, h
  <2> QED
    BY <1>2, <1>3, <2>9, <2>10 DEF RightInv, Batches, BatchHeight
<1>5. CASE ~(n + 1 <= RightCapacity)
  <2> HIDE DEF n, more
  <2>1. ~(leafIndexRight' <= RightCapacity')
    BY <1>2, <1>5 DEF RightCapacity
  <2> QED
    BY <1>2, <1>3, <2>1 DEF RightInv, Batches
<1> QED
  BY <1>4, <1>5

AccountStep ==
    \/ \E pubkey \in Keys : Register(pubkey)
    \/ \E pubkeys \in Batches : RegisterBatch(pubkeys)
    \/ UNCHANGED accountVars

LEMMA AccountKeeps == AccountInv /\ AccountStep => AccountInv'
<1> SUFFICES ASSUME AccountInv, AccountStep PROVE AccountInv'
  OBVIOUS
<1>0. LeftInv /\ RightInv /\ root = Hash(rootLeft, rootRight)
  BY DEF AccountInv
<1>1. CASE \E pubkey \in Keys : Register(pubkey)
  <2>1. PICK pubkey \in Keys : Register(pubkey)
    BY <1>1
  <2>2. LeftInv'
    BY <1>0, <2>1, RegisterKeeps
  <2>3. /\ UNCHANGED <<rootRight, leafIndexRight, filledSubtreesRight,
                       registeredBatches>>
        /\ root' = Hash(rootLeft', rootRight)
    BY <2>1 DEF Register
  <2>4. RightInv'
    BY <1>0, <2>3 DEF RightInv, RightCapacity, KeysOf, Batches, BATCH_SIZE, Keys
  <2> QED
    BY <2>2, <2>3, <2>4 DEF AccountInv, Hash
<1>2. CASE \E pubkeys \in Batches : RegisterBatch(pubkeys)
  <2>1. PICK pubkeys \in Batches : RegisterBatch(pubkeys)
    BY <1>2
  <2>2. RightInv'
    BY <1>0, <2>1, RegisterBatchKeeps
  <2>3. /\ UNCHANGED <<rootLeft, leafIndexLeft, filledSubtreesLeft, registered>>
        /\ root' = Hash(rootLeft, rootRight')
    BY <2>1 DEF RegisterBatch
  <2>4. LeftInv'
    BY <1>0, <2>3 DEF LeftInv, SET_SIZE, Keys
  <2> QED
    BY <2>2, <2>3, <2>4 DEF AccountInv, Hash
<1>3. CASE UNCHANGED accountVars
  BY <1>0, <1>3 DEF accountVars, AccountInv, LeftInv, RightInv, Hash
<1> QED
  BY <1>1, <1>2, <1>3 DEF AccountStep

LEMMA RootsHold == AccountInv => RootsAreOfAllKeys
BY DEF AccountInv, LeftInv, RightInv, RootsAreOfAllKeys

(* Whoever calls register() and registerBatch(), and in whatever order:    *)
(* the roots of AccountTree.sol are those of all keys registered.          *)
THEOREM RootsAlwaysOfAllKeys == AccountSpec => []RootsAreOfAllKeys
<1>1. AccountInv /\ [AccountNext]_accountVars => AccountInv'
  <2> SUFFICES ASSUME AccountInv, [AccountNext]_accountVars PROVE AccountInv'
    OBVIOUS
  <2>1. Pubkeys \subseteq Keys /\ [1 .. BATCH_SIZE -> Pubkeys] \subseteq Batches
    BY DEF Keys, Batches
  <2>2. AccountStep
    BY <2>1 DEF AccountNext, AccountStep
  <2> QED
    BY <2>2, AccountKeeps
<1> QED
  BY <1>1, AccountStarts, RootsHold, PTL DEF AccountSpec

(* The same among clients of ts/accountTree.ts, which register between     *)
(* their own awaits a key that they were given before.                     *)
THEOREM RootsAlwaysOfClientsKeys == RegistrySpec => []RootsAreOfAllKeys
<1> DEFINE Inv == AccountInv /\ pubkeyOf \in [Clients -> Keys]
<1>1. RegistryInit => Inv
  BY AccountStarts DEF RegistryInit, Keys
<1>2. Inv /\ [RegistryNext]_<<accountVars, clientVars>> => Inv'
  <2> SUFFICES ASSUME Inv, [RegistryNext]_<<accountVars, clientVars>> PROVE Inv'
    OBVIOUS
  <2>1. Pubkeys \subseteq Keys /\ [1 .. BATCH_SIZE -> Pubkeys] \subseteq Batches
    BY DEF Keys, Batches
  <2>2. AccountStep /\ pubkeyOf' \in [Clients -> Keys]
    <3>1. ASSUME NEW client \in Clients, SendRegister(client)
          PROVE  AccountStep /\ pubkeyOf' \in [Clients -> Keys]
      <4>1. Register(pubkeyOf[client]) /\ pubkeyOf' = pubkeyOf
        BY <3>1 DEF SendRegister
      <4> QED
        BY <4>1 DEF AccountStep
    <3>2. ASSUME NEW pubkeys \in [1 .. BATCH_SIZE -> Pubkeys], RegisterBatch(pubkeys),
                 UNCHANGED clientVars
          PROVE  AccountStep /\ pubkeyOf' \in [Clients -> Keys]
      BY <2>1, <3>2 DEF AccountStep, clientVars
    <3>3. ASSUME NEW client \in Clients, NEW pubkey \in Pubkeys, ReadIndex(client, pubkey)
          PROVE  AccountStep /\ pubkeyOf' \in [Clients -> Keys]
      BY <2>1, <3>3 DEF ReadIndex, AccountStep
    <3>4. ASSUME NEW client \in Clients, UpdateTree(client) \/ Answered(client)
          PROVE  AccountStep /\ pubkeyOf' \in [Clients -> Keys]
      BY <3>4 DEF UpdateTree, Answered, AccountStep
    <3>5. CASE UNCHANGED <<accountVars, clientVars>>
      BY <3>5 DEF clientVars, AccountStep
    <3> QED
      BY <3>1, <3>2, <3>3, <3>4, <3>5 DEF RegistryNext
  <2> QED
    BY <2>2, AccountKeeps
<1>3. Inv => RootsAreOfAllKeys
  BY RootsHold
<1> QED
  BY <1>1, <1>2, <1>3, PTL DEF RegistrySpec
-----------------------------------------------------------------------------
(* The lemmas about trees, for those of the left and the right set.        *)
Trees == INSTANCE TreeProofs WITH Zero <- NoKey, ZERO_BYTES32 <- NoKey

(* The loops over numbers are the same in every module,                    *)
LEMMA SameNumbers ==
    /\ Client!TwoTo = TwoTo /\ Contract!TwoTo = TwoTo /\ Trees!TwoTo = TwoTo
    /\ \A number, k : /\ Client!Shifted(number, k) = Shifted(number, k)
                      /\ Contract!Shifted(number, k) = Shifted(number, k)
                      /\ Trees!Shifted(number, k) = Shifted(number, k)
                      /\ Client!IsSet(number, k) = IsSet(number, k)
                      /\ Contract!IsSet(number, k) = IsSet(number, k)
                      /\ Trees!IsSet(number, k) = IsSet(number, k)
<1>1. Client!TwoTo = TwoTo /\ Contract!TwoTo = TwoTo /\ Trees!TwoTo = TwoTo
  BY DEF Client!TwoTo, Contract!TwoTo, Trees!TwoTo, TwoTo
<1>2. \A number, k : /\ Client!Shifted(number, k) = Shifted(number, k)
                     /\ Contract!Shifted(number, k) = Shifted(number, k)
                     /\ Trees!Shifted(number, k) = Shifted(number, k)
  BY DEF Client!Shifted, Contract!Shifted, Trees!Shifted, Shifted
<1>3. \A number, k : /\ Client!IsSet(number, k) = IsSet(number, k)
                     /\ Contract!IsSet(number, k) = IsSet(number, k)
                     /\ Trees!IsSet(number, k) = IsSet(number, k)
  BY <1>2 DEF Client!IsSet, Contract!IsSet, Trees!IsSet, IsSet
<1> QED
  BY <1>1, <1>2, <1>3

(* and so are the trees of the client                                      *)
LEMMA SameTrees ==
    /\ \A t, l, x : Client!getNode(t, l, x) = Trees!getNode(t, l, x)
    /\ \A t : Client!root(t) = Trees!root(t)
    /\ \A d : Client!New(d) = Trees!New(d)
    /\ \A t, index, leaf : Client!updateSingle(t, index, leaf) = Trees!updateSingle(t, index, leaf)
    /\ \A t, offset, data : Client!updateBatch(t, offset, data) = Trees!updateBatch(t, offset, data)
    /\ \A t, index, d : Client!witness(t, index, d) = Trees!witness(t, index, d)
    /\ \A t, index, d : Client!Witness(t, index, d) = Trees!Witness(t, index, d)
    /\ \A t, w : Client!checkInclusion(t, w) = Trees!checkInclusion(t, w)
    /\ \A offset, h : Client!IsAligned(offset, h) = Trees!IsAligned(offset, h)
    /\ \A leaves : Client!merklize(leaves) = Trees!merklize(leaves)
<1>1. \A t, l, x : Client!getNode(t, l, x) = Trees!getNode(t, l, x)
  BY DEF Client!getNode, Trees!getNode
<1>2. \A t : Client!root(t) = Trees!root(t)
  BY <1>1 DEF Client!root, Trees!root
<1>3. \A d : Client!New(d) = Trees!New(d)
  BY DEF Client!New, Trees!New, Client!zeros, Trees!zeros, Client!hash2, Trees!hash2
<1>4. \A t, offset, len : Client!ascend(t, offset, len) = Trees!ascend(t, offset, len)
  BY DEF Client!ascend, Trees!ascend, Client!updateCouples, Trees!updateCouples, Client!hash2, Trees!hash2,
      Client!Put, Trees!Put, Client!Widened, Trees!Widened, Client!getNode, Trees!getNode
<1>5. \A t, index, leaf : Client!updateSingle(t, index, leaf) = Trees!updateSingle(t, index, leaf)
  BY <1>4, SameNumbers DEF Client!updateSingle, Trees!updateSingle, Client!Put, Trees!Put
<1>6. \A t, offset, data : Client!updateBatch(t, offset, data) = Trees!updateBatch(t, offset, data)
  BY <1>4, SameNumbers DEF Client!updateBatch, Trees!updateBatch, Client!Put, Trees!Put
<1>7. \A t, index, d : Client!witness(t, index, d) = Trees!witness(t, index, d)
  BY DEF Client!witness, Trees!witness, Client!Sibling, Trees!Sibling, Client!getNode, Trees!getNode,
      Client!Shifted, Trees!Shifted
<1>8. \A t, index, d : Client!Witness(t, index, d) = Trees!Witness(t, index, d)
  BY <1>1, <1>7, SameNumbers DEF Client!Witness, Trees!Witness
<1>9. \A t, w : Client!checkInclusion(t, w) = Trees!checkInclusion(t, w)
  BY <1>2 DEF Client!checkInclusion, Trees!checkInclusion, Client!hash2, Trees!hash2
<1>10. \A offset, h : Client!IsAligned(offset, h) = Trees!IsAligned(offset, h)
  BY SameNumbers DEF Client!IsAligned, Trees!IsAligned
<1>11. \A leaves : Client!merklize(leaves) = Trees!merklize(leaves)
  BY <1>3, <1>6, SameNumbers DEF Client!merklize, Trees!merklize
<1> QED
  BY <1>1, <1>2, <1>3, <1>5, <1>6, <1>7, <1>8, <1>9, <1>10, <1>11

(* and the roots of the contract.                                          *)
LEMMA SameRoots ==
    /\ \A h : Contract!getRoot(h) = Trees!getRoot(h)
    /\ \A top, leaf, path, beside :
          Contract!verify(top, leaf, path, beside) <=> Trees!verify(top, leaf, path, beside)
    /\ \A nodes : Contract!merklise(nodes) = Trees!merklise(nodes)
<1>1. \A h : Contract!getRoot(h) = Trees!getRoot(h)
  BY DEF Contract!getRoot, Trees!getRoot, Contract!Hash, Trees!Hash
<1>2. \A top, leaf, path, beside :
          Contract!verify(top, leaf, path, beside) <=> Trees!verify(top, leaf, path, beside)
  BY DEF Contract!verify, Trees!verify, Contract!computeRoot, Trees!computeRoot,
      Contract!Hash, Trees!Hash, Contract!IsSet, Trees!IsSet, Contract!Shifted, Trees!Shifted
<1>3. \A nodes : Contract!merklise(nodes) = Trees!merklise(nodes)
  BY DEF Contract!merklise, Trees!merklise, Contract!Round, Trees!Round, Contract!Hash, Trees!Hash,
      Contract!getRoot, Trees!getRoot
<1> QED
  BY <1>1, <1>2, <1>3

(* A tree whose nodes are the hashes of those below them.                  *)
AllHashed(t) == Trees!AllHashed(DEPTH, t)

LEMMA AllHashedIs ==
    ASSUME NEW t, AllHashed(t)
    PROVE  /\ t.depth = DEPTH
           /\ \A l \in 1 .. DEPTH, x \in Nat :
                 Client!getNode(t, l - 1, x) =
                     <<Client!getNode(t, l, 2 * x), Client!getNode(t, l, 2 * x + 1)>>
BY SameTrees DEF AllHashed, Trees!AllHashed, Trees!HasFields, Trees!Hashed

LEMMA NewIsHashed ==
    /\ AllHashed(Client!New(DEPTH))
    /\ \A x \in Nat : Client!getNode(Client!New(DEPTH), DEPTH, x) = NoKey
BY Trees!NewIsHashed, SameTrees, DepthsAre DEF AllHashed

LEMMA updateSingleIs ==
    ASSUME NEW t, AllHashed(t), NEW index \in Nat, index < SET_SIZE, NEW leaf
    PROVE  LET r == Client!updateSingle(t, index, leaf)
           IN  /\ AllHashed(r)
               /\ \A x \in Nat : Client!getNode(r, DEPTH, x) =
                      IF x = index THEN leaf ELSE Client!getNode(t, DEPTH, x)
BY Trees!updateSingleIs, SameTrees, SameNumbers, DepthsAre DEF AllHashed, SET_SIZE

LEMMA updateBatchIs ==
    ASSUME NEW t, AllHashed(t), NEW offset \in Nat, NEW n \in Nat, n >= 1,
           NEW data, Len(data) = n, offset + n <= SET_SIZE
    PROVE  LET r == Client!updateBatch(t, offset, data)
           IN  /\ AllHashed(r)
               /\ \A x \in Nat : Client!getNode(r, DEPTH, x) =
                      IF offset <= x /\ x < offset + n THEN data[x - offset + 1]
                      ELSE Client!getNode(t, DEPTH, x)
BY Trees!updateBatchIs, SameTrees, SameNumbers, DepthsAre DEF AllHashed, SET_SIZE

LEMMA OpensItsNode ==
    ASSUME NEW t, AllHashed(t), NEW level \in 0 .. DEPTH, NEW index \in Nat,
           index < TwoTo[level], NEW node, NEW u,
           Trees!Opening(u, node, index, Client!witness(t, index, level), level)
    PROVE  u[level] = Client!root(t) <=> node = Client!getNode(t, level, index)
BY Trees!OpensItsNode, SameTrees, SameNumbers, DepthsAre DEF AllHashed

LEMMA WitnessesAreTaken ==
    ASSUME NEW t, AllHashed(t), NEW level \in 1 .. DEPTH, NEW index \in Nat,
           index < TwoTo[level], NEW node
    PROVE  /\ Contract!verify(Client!root(t), node, index, Client!witness(t, index, level))
                 <=> node = Client!getNode(t, level, index)
           /\ Client!checkInclusion(t, [Client!Witness(t, index, level) EXCEPT !.leaf = node])
                 = IF node = Client!getNode(t, level, index) THEN 0 ELSE -1
BY Trees!WitnessesAreTaken, SameTrees, SameRoots, SameNumbers, DepthsAre DEF AllHashed

LEMMA AlignedIs ==
    ASSUME NEW h \in Nat, NEW s \in Nat, s = TwoTo[h], NEW b \in Nat, NEW a \in Nat, a = b * s,
           NEW offset \in a .. a + s - 1
    PROVE  Client!IsAligned(offset, h) <=> offset = a
BY Trees!AlignedIs, SameTrees, SameNumbers

LEMMA ShiftedBlock ==
    ASSUME NEW h \in Nat
    PROVE  \A b \in Nat : \A j \in 0 .. TwoTo[h] - 1 : Shifted(b * TwoTo[h] + j, h) = b
BY Trees!ShiftedBlock, SameNumbers

LEMMA VacantNode ==
    ASSUME NEW t, AllHashed(t), NEW V, V = {x \in Nat : Client!getNode(t, DEPTH, x) = NoKey}
    PROVE  \A h \in 0 .. DEPTH, x \in Nat :
              Client!getNode(t, DEPTH - h, x) = Contract!getRoot(h)
                 <=> Trees!StretchIn(V, x * TwoTo[h], TwoTo[h])
BY Trees!VacantNode, SameTrees, SameRoots, SameNumbers, DepthsAre DEF AllHashed

(* exists() of the registry goes up as verify() of MerkleTree does.        *)
LEMMA ExistsIs ==
    ASSUME NEW id, NEW pubkey, NEW beside
    PROVE  \E u : /\ Trees!Opening(u, pubkey, id % SET_SIZE, beside, DEPTH)
                  /\ Exists(id, pubkey, beside)
                        <=> u[DEPTH] = IF id < SET_SIZE THEN rootLeft ELSE rootRight
<1> DEFINE path == id % SET_SIZE
           after == CHOOSE u : Trees!OpensBy(u, pubkey, path, beside, DEPTH)
<1>1. Exists(id, pubkey, beside)
         <=> after[DEPTH] = IF id < SET_SIZE THEN rootLeft ELSE rootRight
  BY DEF Exists, Hash, Trees!Opened, Trees!OpensBy, IsSet, Trees!IsSet, Shifted, Trees!Shifted
<1>2. \E u : Trees!OpensBy(u, pubkey, path, beside, DEPTH)
  BY DepthsAre, Trees!OpeningIs
<1>3. Trees!OpensBy(after, pubkey, path, beside, DEPTH)
  BY <1>2
<1> HIDE DEF after
<1>4. Trees!Opening(after, pubkey, path, beside, DEPTH)
  BY <1>3, DepthsAre, Trees!OpeningIs
<1> QED
  BY <1>1, <1>4

(* The nodes of a tree that has the leaves of a list are those of the      *)
(* reference, so that the client and the contract have the same root.      *)
LEMMA SameLeavesSameNodes ==
    ASSUME NEW t, AllHashed(t), NEW leaves,
           \A x \in Nat : Client!getNode(t, DEPTH, x) = LeafAt(leaves, x)
    PROVE  Client!root(t) = TreeRoot(leaves)
<1> DEFINE R == Nodes(leaves)
           T == {h \in 0 .. DEPTH : \A x \in Nat : Client!getNode(t, DEPTH - h, x) = R[h][x]}
<1>1. 0 \in T
  <2>1. DEPTH - 0 = DEPTH /\ 0 \in 0 .. DEPTH
    BY DepthsAre
  <2> QED
    BY <2>1, NodesAre
<1>2. ASSUME NEW h \in 1 .. DEPTH, h - 1 \in T PROVE h \in T
  <2> DEFINE l == DEPTH - (h - 1)
  <2>1. l \in 1 .. DEPTH /\ l - 1 = DEPTH - h /\ h \in 0 .. DEPTH
    BY DepthsAre
  <2>2. \A x \in Nat : Client!getNode(t, l, x) = R[h - 1][x]
    BY <1>2
  <2> HIDE DEF l, R
  <2>3. ASSUME NEW x \in Nat PROVE Client!getNode(t, DEPTH - h, x) = R[h][x]
    <3>1. 2 * x \in Nat /\ 2 * x + 1 \in Nat
      OBVIOUS
    <3>2. Client!getNode(t, l - 1, x) =
              <<Client!getNode(t, l, 2 * x), Client!getNode(t, l, 2 * x + 1)>>
      BY <2>1, AllHashedIs
    <3>3. R[h][x] = <<R[h - 1][2 * x], R[h - 1][2 * x + 1]>>
      BY NodesAre DEF R, Hash
    <3> QED
      BY <2>1, <2>2, <3>1, <3>2, <3>3
  <2> QED
    BY <2>1, <2>3
<1>3. 0 .. DEPTH \subseteq T
  <2> HIDE DEF T
  <2> QED
    BY <1>1, <1>2, DepthsAre, LoopInduction
<1>4. Client!getNode(t, DEPTH - DEPTH, 0) = R[DEPTH][0]
  BY <1>3, DepthsAre
<1>5. DEPTH - DEPTH = 0
  BY DepthsAre
<1> QED
  BY <1>4, <1>5 DEF Client!root, TreeRoot
-----------------------------------------------------------------------------
(* The leaves that a client has, and whether one of its keys is registered *)
(* and is not yet a leaf.                                                  *)
Known(client) == {index \in 0 .. SET_SIZE - 1 : Leaf(client, index) # NoKey}
Owed(client) == IF pc[client] = "registered" THEN 1 ELSE 0

(* What a client that has registered every key knows.                      *)
KnowsItsOwn(client) ==
    /\ \A index \in Known(client) :
          index < leafIndexLeft /\ Leaf(client, index) = registered[index + 1]
    /\ pc[client] = "read" => accountID[client] = leafIndexLeft
    /\ pc[client] = "registered" => pubkeyOf[client] = registered[accountID[client] + 1]

(* The leaves of a client are never more than the keys registered, and are *)
(* as many only as long as nobody else registers a key: every key of       *)
(* somebody else, and every write at an index that was read too early,     *)
(* leaves it a leaf short for ever.                                        *)
CountInv(client) ==
    /\ pc[client] = "read" => accountID[client] <= leafIndexLeft
    /\ pc[client] \in {"registered", "asked"} => accountID[client] < leafIndexLeft
    /\ pc[client] # "idle" => pubkeyOf[client] # NoKey
    /\ pc[client] = "asked" => Leaf(client, accountID[client]) = pubkeyOf[client]
    /\ Cardinality(Known(client)) + Owed(client) <= leafIndexLeft
    /\ Cardinality(Known(client)) + Owed(client) = leafIndexLeft => KnowsItsOwn(client)

TreeInv(client) ==
    /\ AllHashed(treeLeft[client])
    /\ \A x \in Nat : x >= SET_SIZE => Leaf(client, x) = NoKey

ClientsInv ==
    /\ AccountInv
    /\ pc \in [Clients -> {"idle", "read", "registered", "asked"}]
    /\ pubkeyOf \in [Clients -> Keys]
    /\ accountID \in [Clients -> Nat]
    /\ treeLeft = [client \in Clients |-> treeLeft[client]]
    /\ \A client \in Clients : TreeInv(client) /\ CountInv(client)

(* The leaves that a client knows can be counted,                          *)
LEMMA KnownCounts ==
    ASSUME NEW client
    PROVE  IsFiniteSet(Known(client)) /\ Cardinality(Known(client)) \in Nat
<1>1. SET_SIZE \in Nat
  BY DepthsAre, TwoToIs DEF SET_SIZE
<1>2. IsFiniteSet(0 .. SET_SIZE - 1)
  BY <1>1, FS_Interval
<1>3. Known(client) \in SUBSET (0 .. SET_SIZE - 1)
  BY DEF Known
<1>4. IsFiniteSet(Known(client))
  BY <1>2, <1>3, FS_Subset
<1> QED
  BY <1>4, FS_CardinalityType

(* and so they can after a step.                                           *)
LEMMA KnownCountsNext ==
    ASSUME NEW client
    PROVE  IsFiniteSet(Known(client)') /\ Cardinality(Known(client)') \in Nat
<1>1. SET_SIZE \in Nat
  BY DepthsAre, TwoToIs DEF SET_SIZE
<1>2. IsFiniteSet(0 .. SET_SIZE - 1)
  BY <1>1, FS_Interval
<1>3. Known(client)' \in SUBSET (0 .. SET_SIZE - 1)
  BY DEF Known, SET_SIZE
<1>4. IsFiniteSet(Known(client)')
  BY <1>2, <1>3, FS_Subset
<1> QED
  BY <1>4, FS_CardinalityType

(* A client whose tree does not change has the leaves that it had.         *)
LEMMA TreeStays ==
    ASSUME NEW client, TreeInv(client), treeLeft'[client] = treeLeft[client]
    PROVE  /\ TreeInv(client)' /\ Known(client)' = Known(client)
           /\ \A index : Leaf(client, index)' = Leaf(client, index)
<1>1. \A index : Leaf(client, index)' = Leaf(client, index)
  BY DEF Leaf
<1>2. SET_SIZE' = SET_SIZE
  BY DEF SET_SIZE
<1>3. Known(client)' = Known(client)
  BY <1>1, <1>2 DEF Known
<1>4. AllHashed(treeLeft[client])'
  BY DEF TreeInv, AllHashed, Trees!AllHashed, Trees!HasFields, Trees!Hashed
<1>5. TreeInv(client)'
  BY <1>1, <1>2, <1>4 DEF TreeInv
<1> QED
  BY <1>1, <1>3, <1>5

(* A client that does nothing, whatever is registered.                     *)
LEMMA OthersKeep ==
    ASSUME NEW client, TreeInv(client), CountInv(client), accountID[client] \in Nat,
           leafIndexLeft \in Nat,
           treeLeft'[client] = treeLeft[client], pc'[client] = pc[client],
           pubkeyOf'[client] = pubkeyOf[client], accountID'[client] = accountID[client],
           \/ UNCHANGED <<leafIndexLeft, registered>>
           \/ leafIndexLeft' = leafIndexLeft + 1
    PROVE  CountInv(client)'
<1>1. /\ Known(client)' = Known(client)
      /\ \A index : Leaf(client, index)' = Leaf(client, index)
  BY TreeStays
<1>2. Owed(client)' = Owed(client) /\ Owed(client) \in Nat
  BY DEF Owed
<1>3. Cardinality(Known(client)) \in Nat
  BY KnownCounts
<1>4. CASE UNCHANGED <<leafIndexLeft, registered>>
  BY <1>1, <1>2, <1>4 DEF CountInv, KnowsItsOwn
<1>5. CASE leafIndexLeft' = leafIndexLeft + 1
  <2>1. /\ Cardinality(Known(client)') + Owed(client)' <= leafIndexLeft'
        /\ Cardinality(Known(client)') + Owed(client)' # leafIndexLeft'
    BY <1>1, <1>2, <1>3, <1>5 DEF CountInv
  <2>2. /\ pc'[client] = "read" => accountID'[client] <= leafIndexLeft'
        /\ pc'[client] \in {"registered", "asked"} => accountID'[client] < leafIndexLeft'
    BY <1>5 DEF CountInv
  <2> QED
    BY <1>1, <2>1, <2>2 DEF CountInv
<1> QED
  BY <1>4, <1>5

(* The numbers of the left tree.                                           *)
LEMMA LeftIs ==
    ASSUME LeftInv
    PROVE  /\ leafIndexLeft \in Nat /\ leafIndexLeft < SET_SIZE /\ SET_SIZE \in Nat
           /\ registered \in Seq(Keys) /\ Len(registered) = leafIndexLeft
BY DepthsAre, TwoToIs, LenProperties DEF LeftInv, SET_SIZE

(* The steps of the client itself.                                         *)
LEMMA ReadIndexKeeps ==
    ASSUME ClientsInv, NEW client \in Clients, NEW pubkey \in Pubkeys, ReadIndex(client, pubkey)
    PROVE  TreeInv(client)' /\ CountInv(client)'
<1>1. /\ pc[client] = "idle" /\ pc'[client] = "read" /\ pubkeyOf'[client] = pubkey
      /\ accountID'[client] = leafIndexLeft
      /\ UNCHANGED <<leafIndexLeft, registered, treeLeft>>
  BY DEF ClientsInv, ReadIndex, Goes, accountVars
<1>2. TreeInv(client) /\ CountInv(client) /\ leafIndexLeft \in Nat
  BY LeftIs DEF ClientsInv, AccountInv
<1>3. /\ TreeInv(client)' /\ Known(client)' = Known(client)
      /\ \A index : Leaf(client, index)' = Leaf(client, index)
  BY <1>1, <1>2, TreeStays
<1>4. Owed(client) = 0 /\ Owed(client)' = 0
  BY <1>1 DEF Owed
<1>5. pubkey # NoKey
  BY VacantLeafAssumption
<1>6. KnowsItsOwn(client) => KnowsItsOwn(client)'
  BY <1>1, <1>3 DEF KnowsItsOwn
<1>7. /\ Cardinality(Known(client)') + Owed(client)' <= leafIndexLeft'
      /\ Cardinality(Known(client)') + Owed(client)' = leafIndexLeft' => KnowsItsOwn(client)'
  BY <1>1, <1>2, <1>3, <1>4, <1>6 DEF CountInv
<1> QED
  BY <1>1, <1>2, <1>3, <1>5, <1>7 DEF CountInv

(* The contract's answer to register(): the key is in the tree of the      *)
(* contract, and not yet in that of the client.                            *)
LEMMA SendRegisterKeeps ==
    ASSUME ClientsInv, NEW client \in Clients, SendRegister(client)
    PROVE  TreeInv(client)' /\ CountInv(client)'
<1>1. /\ pc[client] = "read" /\ pc'[client] = "registered"
      /\ Register(pubkeyOf[client]) /\ UNCHANGED <<pubkeyOf, accountID, treeLeft>>
  BY DEF ClientsInv, SendRegister, Goes
<1>2. /\ leafIndexLeft' = leafIndexLeft + 1
      /\ registered' = Append(registered, pubkeyOf[client])
  BY <1>1 DEF Register
<1>3. /\ TreeInv(client) /\ CountInv(client) /\ leafIndexLeft \in Nat
      /\ registered \in Seq(Keys) /\ Len(registered) = leafIndexLeft
      /\ pubkeyOf[client] \in Keys /\ accountID[client] \in Nat
  BY LeftIs DEF ClientsInv, AccountInv
<1>4. /\ registered'[leafIndexLeft + 1] = pubkeyOf[client]
      /\ \A i \in 1 .. leafIndexLeft : registered'[i] = registered[i]
  BY <1>2, <1>3, AppendProperties
<1>5. /\ TreeInv(client)' /\ Known(client)' = Known(client)
      /\ \A index : Leaf(client, index)' = Leaf(client, index)
  BY <1>1, <1>3, TreeStays
<1>6. Owed(client) = 0 /\ Owed(client)' = 1
  BY <1>1 DEF Owed
<1>7. Cardinality(Known(client)) \in Nat
  BY KnownCounts
<1>8. ASSUME KnowsItsOwn(client) PROVE KnowsItsOwn(client)'
  <2>1. accountID'[client] = leafIndexLeft /\ pubkeyOf'[client] = pubkeyOf[client]
    BY <1>1, <1>8 DEF KnowsItsOwn
  <2>2. ASSUME NEW index \in Known(client)
        PROVE  index < leafIndexLeft' /\ Leaf(client, index)' = registered'[index + 1]
    <3>1. index \in Nat /\ index < leafIndexLeft /\ Leaf(client, index) = registered[index + 1]
      BY <1>8 DEF KnowsItsOwn, Known
    <3>2. index + 1 \in 1 .. leafIndexLeft
      BY <1>3, <3>1
    <3> QED
      BY <1>2, <1>3, <1>4, <1>5, <3>1, <3>2
  <2> QED
    BY <1>1, <1>4, <1>5, <2>1, <2>2 DEF KnowsItsOwn
<1>9. /\ Cardinality(Known(client)') + Owed(client)' <= leafIndexLeft'
      /\ Cardinality(Known(client)') + Owed(client)' = leafIndexLeft' => KnowsItsOwn(client)'
  BY <1>2, <1>3, <1>5, <1>6, <1>7, <1>8 DEF CountInv
<1>10. accountID'[client] < leafIndexLeft' /\ pubkeyOf'[client] # NoKey
  BY <1>1, <1>2, <1>3 DEF CountInv
<1> QED
  BY <1>1, <1>5, <1>9, <1>10 DEF CountInv

(* The client writes the key that it registered into its own tree.         *)
LEMMA UpdateTreeKeeps ==
    ASSUME ClientsInv, NEW client \in Clients, UpdateTree(client)
    PROVE  TreeInv(client)' /\ CountInv(client)'
<1> DEFINE id == accountID[client]
           key == pubkeyOf[client]
<1>1. /\ pc[client] = "registered" /\ pc'[client] = "asked"
      /\ UNCHANGED <<leafIndexLeft, registered, pubkeyOf, accountID>>
      /\ treeLeft'[client] = Client!updateSingle(treeLeft[client], id, key)
  BY DEF ClientsInv, UpdateTree, Goes, accountVars
<1>2. /\ TreeInv(client) /\ CountInv(client)
      /\ leafIndexLeft \in Nat /\ leafIndexLeft < SET_SIZE /\ SET_SIZE \in Nat
      /\ id \in Nat
  BY LeftIs DEF ClientsInv, AccountInv
<1>3. id < leafIndexLeft /\ id < SET_SIZE /\ key # NoKey
  BY <1>1, <1>2 DEF CountInv
<1> HIDE DEF id, key
<1>4. /\ AllHashed(treeLeft'[client])
      /\ \A x \in Nat : Client!getNode(treeLeft'[client], DEPTH, x) =
             IF x = id THEN key ELSE Client!getNode(treeLeft[client], DEPTH, x)
  BY <1>1, <1>2, <1>3, updateSingleIs DEF TreeInv
<1>5. \A x \in Nat : Leaf(client, x)' = IF x = id THEN key ELSE Leaf(client, x)
  BY <1>4 DEF Leaf
<1>6. SET_SIZE' = SET_SIZE
  BY DEF SET_SIZE
<1>7. TreeInv(client)'
  <2>1. AllHashed(treeLeft[client])'
    BY <1>4 DEF AllHashed, Trees!AllHashed, Trees!HasFields, Trees!Hashed
  <2>2. \A x \in Nat : x >= SET_SIZE => Leaf(client, x)' = NoKey
    BY <1>2, <1>3, <1>5 DEF TreeInv
  <2> QED
    BY <1>6, <2>1, <2>2 DEF TreeInv
<1>8. Known(client)' = Known(client) \union {id}
  <2>1. Known(client)' = {index \in 0 .. SET_SIZE - 1 : Leaf(client, index)' # NoKey}
    BY <1>6 DEF Known
  <2>2. \A index \in 0 .. SET_SIZE - 1 :
           Leaf(client, index)' # NoKey <=> Leaf(client, index) # NoKey \/ index = id
    BY <1>2, <1>3, <1>5
  <2>3. id \in 0 .. SET_SIZE - 1
    BY <1>2, <1>3
  <2> QED
    BY <2>1, <2>2, <2>3 DEF Known
<1>9. /\ Cardinality(Known(client)) \in Nat /\ Cardinality(Known(client)') \in Nat
      /\ Cardinality(Known(client)') <= Cardinality(Known(client)) + 1
  <2>1. IsFiniteSet(Known(client)) /\ Cardinality(Known(client)) \in Nat
    BY KnownCounts
  <2> QED
    BY <1>8, <2>1, FS_AddElement
<1>10. Owed(client) = 1 /\ Owed(client)' = 0
  BY <1>1 DEF Owed
<1>11. ASSUME KnowsItsOwn(client) PROVE KnowsItsOwn(client)'
  <2>1. key = registered[id + 1]
    BY <1>1, <1>11 DEF KnowsItsOwn, id, key
  <2>2. ASSUME NEW index \in Known(client)'
        PROVE  index < leafIndexLeft' /\ Leaf(client, index)' = registered'[index + 1]
    <3>1. index \in Nat
      BY <1>2, <1>8 DEF Known
    <3>2. CASE index = id
      BY <1>1, <1>3, <1>5, <2>1, <3>1, <3>2
    <3>3. CASE index # id
      <4>1. index \in Known(client)
        BY <1>8, <3>3
      <4>2. index < leafIndexLeft /\ Leaf(client, index) = registered[index + 1]
        BY <1>11, <4>1 DEF KnowsItsOwn
      <4> QED
        BY <1>1, <1>5, <3>1, <3>3, <4>2
    <3> QED
      BY <3>2, <3>3
  <2> QED
    BY <1>1, <2>2 DEF KnowsItsOwn
<1>12. /\ Cardinality(Known(client)') + Owed(client)' <= leafIndexLeft'
       /\ Cardinality(Known(client)') + Owed(client)' = leafIndexLeft' => KnowsItsOwn(client)'
  <2>1. Cardinality(Known(client)) + 1 <= leafIndexLeft
    BY <1>2, <1>10 DEF CountInv
  <2>2. Cardinality(Known(client)) + 1 = leafIndexLeft => KnowsItsOwn(client)
    BY <1>2, <1>10 DEF CountInv
  <2> QED
    BY <1>1, <1>2, <1>9, <1>10, <1>11, <2>1, <2>2
<1>13. /\ accountID'[client] = id /\ pubkeyOf'[client] = key
       /\ id < leafIndexLeft' /\ Leaf(client, id)' = key
  BY <1>1, <1>2, <1>3, <1>5 DEF id, key
<1>14. Leaf(client, accountID[client])' = key
  BY <1>1, <1>13 DEF Leaf, id
<1> QED
  BY <1>1, <1>3, <1>7, <1>12, <1>13, <1>14 DEF CountInv

(* The client has its answer, and is done.                                 *)
LEMMA AnsweredKeeps ==
    ASSUME ClientsInv, NEW client \in Clients, Answered(client)
    PROVE  TreeInv(client)' /\ CountInv(client)'
<1>1. /\ pc[client] = "asked" /\ pc'[client] = "idle"
      /\ UNCHANGED <<leafIndexLeft, registered, treeLeft, accountID, pubkeyOf>>
  BY DEF ClientsInv, Answered, Goes, accountVars
<1>2. TreeInv(client) /\ CountInv(client) /\ leafIndexLeft \in Nat
  BY LeftIs DEF ClientsInv, AccountInv
<1>3. /\ TreeInv(client)' /\ Known(client)' = Known(client)
      /\ \A index : Leaf(client, index)' = Leaf(client, index)
  BY <1>1, <1>2, TreeStays
<1>4. Owed(client) = 0 /\ Owed(client)' = 0
  BY <1>1 DEF Owed
<1>5. KnowsItsOwn(client) => KnowsItsOwn(client)'
  BY <1>1, <1>3 DEF KnowsItsOwn
<1> QED
  BY <1>1, <1>2, <1>3, <1>4, <1>5 DEF CountInv

LEMMA ClientsStart == RegistryInit => ClientsInv
<1> SUFFICES ASSUME RegistryInit PROVE ClientsInv
  OBVIOUS
<1>1. AccountInv /\ leafIndexLeft = 0
  BY AccountStarts DEF RegistryInit, AccountInit
<1>2. /\ pc = [client \in Clients |-> "idle"]
      /\ pubkeyOf = [client \in Clients |-> NoKey]
      /\ accountID = [client \in Clients |-> 0]
      /\ treeLeft = [client \in Clients |-> Client!New(DEPTH)]
  BY DEF RegistryInit
<1>3. ASSUME NEW client \in Clients PROVE TreeInv(client) /\ CountInv(client)
  <2>1. treeLeft[client] = Client!New(DEPTH) /\ pc[client] = "idle"
    BY <1>2
  <2>2. AllHashed(treeLeft[client]) /\ \A x \in Nat : Leaf(client, x) = NoKey
    BY <2>1, NewIsHashed DEF Leaf
  <2>3. Known(client) = {}
    <3>1. SET_SIZE \in Nat
      BY DepthsAre, TwoToIs DEF SET_SIZE
    <3> QED
      BY <2>2, <3>1 DEF Known
  <2>4. Cardinality(Known(client)) = 0 /\ Owed(client) = 0
    BY <2>1, <2>3, FS_EmptySet DEF Owed
  <2>5. KnowsItsOwn(client)
    BY <2>1, <2>3 DEF KnowsItsOwn
  <2> QED
    BY <1>1, <2>1, <2>2, <2>4, <2>5 DEF TreeInv, CountInv
<1>4. /\ pc \in [Clients -> {"idle", "read", "registered", "asked"}]
      /\ pubkeyOf \in [Clients -> Keys] /\ accountID \in [Clients -> Nat]
      /\ treeLeft = [client \in Clients |-> treeLeft[client]]
  BY <1>2 DEF Keys
<1> QED
  BY <1>1, <1>3, <1>4 DEF ClientsInv

(* What a step of a client leaves alone, of the others.                    *)
OnlyOf(client) ==
    /\ pc' \in [Clients -> {"idle", "read", "registered", "asked"}]
    /\ pubkeyOf' \in [Clients -> Keys] /\ accountID' \in [Clients -> Nat]
    /\ treeLeft' = [other \in Clients |-> treeLeft'[other]]
    /\ \A other \in Clients : other # client =>
          /\ pc'[other] = pc[other] /\ pubkeyOf'[other] = pubkeyOf[other]
          /\ accountID'[other] = accountID[other] /\ treeLeft'[other] = treeLeft[other]

(* A step of one client leaves every other client where it was; a key      *)
(* registered only raises the count of the contract.                       *)
LEMMA ClientSteps ==
    ASSUME ClientsInv, NEW client \in Clients,
           OnlyOf(client), TreeInv(client)', CountInv(client)', AccountStep,
           \/ UNCHANGED <<leafIndexLeft, registered>>
           \/ leafIndexLeft' = leafIndexLeft + 1
    PROVE  ClientsInv'
<1>1. AccountInv'
  BY AccountKeeps DEF ClientsInv
<1>2. ASSUME NEW other \in Clients, other # client PROVE TreeInv(other)' /\ CountInv(other)'
  <2>1. /\ TreeInv(other) /\ CountInv(other) /\ accountID[other] \in Nat
        /\ leafIndexLeft \in Nat
    BY LeftIs DEF ClientsInv, AccountInv
  <2>2. /\ pc'[other] = pc[other] /\ pubkeyOf'[other] = pubkeyOf[other]
        /\ accountID'[other] = accountID[other] /\ treeLeft'[other] = treeLeft[other]
    BY <1>2 DEF OnlyOf
  <2> QED
    BY <2>1, <2>2, TreeStays, OthersKeep
<1>3. \A other \in Clients : TreeInv(other)' /\ CountInv(other)'
  BY <1>2
<1> QED
  BY <1>1, <1>3 DEF ClientsInv, OnlyOf, Keys

(* Every step keeps the invariant of the clients.                          *)
LEMMA ClientsKeep ==
    ClientsInv /\ [RegistryNext]_<<accountVars, clientVars>> => ClientsInv'
<1> SUFFICES ASSUME ClientsInv, [RegistryNext]_<<accountVars, clientVars>>
             PROVE  ClientsInv'
  OBVIOUS
<1>0. /\ pc \in [Clients -> {"idle", "read", "registered", "asked"}]
      /\ pubkeyOf \in [Clients -> Keys] /\ accountID \in [Clients -> Nat]
      /\ treeLeft = [client \in Clients |-> treeLeft[client]]
      /\ Pubkeys \subseteq Keys /\ [1 .. BATCH_SIZE -> Pubkeys] \subseteq Batches
      /\ leafIndexLeft \in Nat
  BY LeftIs DEF ClientsInv, AccountInv, Keys, Batches
<1>1. ASSUME NEW client \in Clients, SendRegister(client) PROVE ClientsInv'
  <2>1. /\ Register(pubkeyOf[client]) /\ UNCHANGED <<pubkeyOf, accountID, treeLeft>>
        /\ pc' = [pc EXCEPT ![client] = "registered"]
    BY <1>1 DEF SendRegister, Goes
  <2>2. OnlyOf(client)
    BY <1>0, <2>1 DEF OnlyOf
  <2>3. AccountStep /\ leafIndexLeft' = leafIndexLeft + 1
    BY <1>0, <2>1 DEF AccountStep, Register
  <2> QED
    BY <1>1, <2>2, <2>3, SendRegisterKeeps, ClientSteps
<1>2. ASSUME NEW client \in Clients, NEW pubkey \in Pubkeys, ReadIndex(client, pubkey)
      PROVE  ClientsInv'
  <2>1. /\ UNCHANGED <<accountVars, treeLeft>>
        /\ pc' = [pc EXCEPT ![client] = "read"]
        /\ pubkeyOf' = [pubkeyOf EXCEPT ![client] = pubkey]
        /\ accountID' = [accountID EXCEPT ![client] = leafIndexLeft]
    BY <1>2 DEF ReadIndex, Goes
  <2>2. OnlyOf(client)
    BY <1>0, <2>1 DEF OnlyOf
  <2>3. AccountStep /\ UNCHANGED <<leafIndexLeft, registered>>
    BY <2>1 DEF AccountStep, accountVars
  <2> QED
    BY <1>2, <2>2, <2>3, ReadIndexKeeps, ClientSteps
<1>3. ASSUME NEW client \in Clients, UpdateTree(client) PROVE ClientsInv'
  <2>1. /\ UNCHANGED <<accountVars, pubkeyOf, accountID>>
        /\ pc' = [pc EXCEPT ![client] = "asked"]
        /\ treeLeft' = [treeLeft EXCEPT ![client] =
               Client!updateSingle(@, accountID[client], pubkeyOf[client])]
    BY <1>3 DEF UpdateTree, Goes
  <2>2. OnlyOf(client)
    <3>1. PICK t : treeLeft' = [treeLeft EXCEPT ![client] = t]
      BY <2>1
    <3> QED
      BY ONLY <1>0, <2>1, <3>1, client \in Clients DEF OnlyOf
  <2>3. AccountStep /\ UNCHANGED <<leafIndexLeft, registered>>
    BY <2>1 DEF AccountStep, accountVars
  <2> QED
    BY <1>3, <2>2, <2>3, UpdateTreeKeeps, ClientSteps
<1>4. ASSUME NEW client \in Clients, Answered(client) PROVE ClientsInv'
  <2>1. /\ UNCHANGED <<accountVars, pubkeyOf, accountID, treeLeft>>
        /\ pc' = [pc EXCEPT ![client] = "idle"]
    BY <1>4 DEF Answered, Goes
  <2>2. OnlyOf(client)
    BY <1>0, <2>1 DEF OnlyOf
  <2>3. AccountStep /\ UNCHANGED <<leafIndexLeft, registered>>
    BY <2>1 DEF AccountStep, accountVars
  <2> QED
    BY <1>4, <2>2, <2>3, AnsweredKeeps, ClientSteps
<1>5. ASSUME AccountStep, UNCHANGED <<leafIndexLeft, registered>>, UNCHANGED clientVars
      PROVE  ClientsInv'
  <2>1. UNCHANGED <<pc, pubkeyOf, accountID, treeLeft>>
    BY <1>5 DEF clientVars
  <2>2. AccountInv'
    BY <1>5, AccountKeeps DEF ClientsInv
  <2>3. ASSUME NEW client \in Clients PROVE TreeInv(client)' /\ CountInv(client)'
    <3>1. TreeInv(client) /\ CountInv(client) /\ accountID[client] \in Nat
      BY DEF ClientsInv
    <3> QED
      BY <1>0, <1>5, <2>1, <3>1, TreeStays, OthersKeep
  <2> QED
    BY <1>0, <2>1, <2>2, <2>3 DEF ClientsInv, Keys
<1>6. ASSUME NEW pubkeys \in [1 .. BATCH_SIZE -> Pubkeys], RegisterBatch(pubkeys),
             UNCHANGED clientVars
      PROVE  ClientsInv'
  <2>1. AccountStep /\ UNCHANGED <<leafIndexLeft, registered>>
    BY <1>0, <1>6 DEF AccountStep, RegisterBatch
  <2> QED
    BY <1>5, <1>6, <2>1
<1>7. CASE UNCHANGED <<accountVars, clientVars>>
  <2>1. AccountStep /\ UNCHANGED <<leafIndexLeft, registered>> /\ UNCHANGED clientVars
    BY <1>7 DEF AccountStep, accountVars
  <2> QED
    BY <1>5, <2>1
<1> QED
  BY <1>1, <1>2, <1>3, <1>4, <1>6, <1>7 DEF RegistryNext

(* A client that knows all keys has the leaves of the left set.            *)
LEMMA KnowingAll ==
    ASSUME ClientsInv, NEW client \in Clients, KnowsAll(client)
    PROVE  Client!root(treeLeft[client]) = rootLeft
<1>1. /\ leafIndexLeft \in Nat /\ leafIndexLeft < SET_SIZE /\ SET_SIZE \in Nat
      /\ registered \in Seq(Keys) /\ Len(registered) = leafIndexLeft
      /\ rootLeft = TreeRoot(registered) /\ TreeInv(client) /\ CountInv(client)
  BY LeftIs DEF ClientsInv, AccountInv, LeftInv
<1>2. Cardinality(Known(client)) = leafIndexLeft
  BY DEF KnowsAll, Known
<1>3. KnowsItsOwn(client)
  BY <1>1, <1>2 DEF CountInv, Owed
<1>4. Known(client) = 0 .. leafIndexLeft - 1
  <2>1. Known(client) \in SUBSET (0 .. leafIndexLeft - 1)
    BY <1>1, <1>3 DEF KnowsItsOwn, Known
  <2>2. /\ IsFiniteSet(0 .. leafIndexLeft - 1)
        /\ Cardinality(0 .. leafIndexLeft - 1) = leafIndexLeft
    <3>1. 0 \in Int /\ leafIndexLeft - 1 \in Int
      BY <1>1
    <3>2. /\ IsFiniteSet(0 .. leafIndexLeft - 1)
          /\ Cardinality(0 .. leafIndexLeft - 1) =
                IF 0 > leafIndexLeft - 1 THEN 0 ELSE leafIndexLeft - 1 - 0 + 1
      BY <3>1, FS_Interval
    <3> QED
      BY <1>1, <3>2
  <2> QED
    BY <1>2, <2>1, <2>2, FS_Subset
<1>5. ASSUME NEW x \in Nat PROVE Leaf(client, x) = LeafAt(registered, x)
  <2>1. CASE x < leafIndexLeft
    <3>1. x \in Known(client)
      BY <1>1, <1>4, <2>1
    <3> QED
      BY <1>1, <1>3, <2>1, <3>1 DEF KnowsItsOwn, LeafAt
  <2>2. CASE x >= leafIndexLeft
    <3>1. Leaf(client, x) = NoKey
      <4>1. x \notin Known(client)
        BY <1>1, <1>4, <2>2
      <4>2. CASE x \in 0 .. SET_SIZE - 1
        BY <4>1, <4>2 DEF Known
      <4>3. CASE x >= SET_SIZE
        BY <1>1, <4>3 DEF TreeInv
      <4> QED
        BY <1>1, <4>2, <4>3
    <3> QED
      BY <1>1, <2>2, <3>1 DEF LeafAt
  <2> QED
    BY <1>1, <2>1, <2>2
<1> QED
  BY <1>1, <1>5, SameLeavesSameNodes DEF TreeInv, Leaf

LEMMA AssertionIsHeld == ClientsInv => AssertionHolds
<1> SUFFICES ASSUME ClientsInv, NEW client \in Clients, pc[client] = "asked", KnowsAll(client)
             PROVE  Exists(accountID[client], pubkeyOf[client],
                           Client!witness(treeLeft[client], accountID[client], DEPTH))
  BY DEF AssertionHolds
<1> DEFINE t == treeLeft[client]
           id == accountID[client]
           key == pubkeyOf[client]
<1>1. /\ leafIndexLeft \in Nat /\ leafIndexLeft < SET_SIZE /\ SET_SIZE \in Nat
      /\ AllHashed(t) /\ CountInv(client) /\ id \in Nat
  BY LeftIs DEF ClientsInv, AccountInv, TreeInv
<1>2. id < SET_SIZE /\ Client!getNode(t, DEPTH, id) = key
  BY <1>1 DEF CountInv, Leaf
<1>3. Client!root(t) = rootLeft
  BY KnowingAll
<1> HIDE DEF t, id, key
<1>4. id % SET_SIZE = id
  BY <1>1, <1>2
<1>5. PICK u : /\ Trees!Opening(u, key, id, Client!witness(t, id, DEPTH), DEPTH)
               /\ Exists(id, key, Client!witness(t, id, DEPTH))
                     <=> u[DEPTH] = IF id < SET_SIZE THEN rootLeft ELSE rootRight
  BY <1>4, ExistsIs
<1>6. DEPTH \in 0 .. DEPTH /\ id < TwoTo[DEPTH]
  BY <1>2, DepthsAre DEF SET_SIZE
<1>7. u[DEPTH] = Client!root(t)
  BY <1>1, <1>2, <1>5, <1>6, OpensItsNode
<1> QED
  BY <1>2, <1>3, <1>5, <1>7 DEF t, id, key

LEMMA WitnessesAreOpen == ClientsInv => WitnessesOpen
<1> SUFFICES ASSUME ClientsInv, NEW client \in Clients, NEW level \in 1 .. DEPTH,
                    NEW index \in 0 .. TwoTo[level] - 1
             PROVE
             LET t == treeLeft[client]
                 height == DEPTH - level
                 size == TwoTo[height]
                 vacant == Contract!getRoot(height)
                 w == Client!witnessForBatch(t, index * size, height)
                 opens(node) == Contract!verify(Client!root(t), node, index,
                                    Client!witness(t, index, level))
             IN  /\ opens(Client!getNode(t, level, index))
                 /\ opens(vacant) <=>
                       \A i \in 0 .. size - 1 : Leaf(client, index * size + i) = NoKey
                 /\ \A offset \in index * size .. (index + 1) * size - 1 :
                       Client!IsAligned(offset, height) <=> offset = index * size
                 /\ Client!checkInclusion(t, w) = 0
                 /\ Client!checkInclusion(t, [w EXCEPT !.leaf = vacant])
                       = (IF opens(vacant) THEN 0 ELSE -1)
  BY DEF WitnessesOpen
<1> DEFINE t == treeLeft[client]
           height == DEPTH - level
           size == TwoTo[height]
           vacant == Contract!getRoot(height)
           w == Client!witnessForBatch(t, index * size, height)
           opens(node) == Contract!verify(Client!root(t), node, index,
                              Client!witness(t, index, level))
           here == Client!getNode(t, level, index)
<1>1. AllHashed(t)
  BY DEF ClientsInv, TreeInv
<1>2. /\ level \in Nat /\ height \in Nat /\ height \in 0 .. DEPTH
      /\ DEPTH - height = level /\ size \in Nat /\ size >= 1
      /\ TwoTo[level] \in Nat /\ index \in Nat /\ index < TwoTo[level]
  <2>1. level \in Nat /\ height \in Nat /\ height \in 0 .. DEPTH /\ DEPTH - height = level
    BY DepthsAre
  <2>2. size \in Nat /\ size >= 1 /\ TwoTo[level] \in Nat
    BY <2>1, TwoToIs
  <2> HIDE DEF height, size
  <2> QED
    BY <2>1, <2>2
<1>4. \A node : /\ opens(node) <=> node = here
                /\ Client!checkInclusion(t, [Client!Witness(t, index, level) EXCEPT !.leaf = node])
                      = IF node = here THEN 0 ELSE -1
  BY <1>1, <1>2, WitnessesAreTaken
<1>5. PICK a \in Nat, c \in Nat : a = index * size /\ c = (index + 1) * size /\ c = a + size
  <2> HIDE DEF size
  <2> QED
    BY <1>2
<1>6. w = Client!Witness(t, index, level)
  <2>1. t.depth = DEPTH
    BY <1>1, AllHashedIs
  <2>2. 0 \in 0 .. size - 1 /\ index * size + 0 = a
    <3> HIDE DEF size
    <3> QED
      BY <1>2, <1>5
  <2>3. Shifted(a, height) = index
    <3>1. Shifted(index * size + 0, height) = index
      BY <1>2, <2>2, ShiftedBlock
    <3> HIDE DEF size, height
    <3> QED
      BY <2>2, <3>1
  <2>4. w = Client!Witness(t, Client!Shifted(a, height), t.depth - height)
    BY <1>5 DEF Client!witnessForBatch
  <2> HIDE DEF t, height, w
  <2> QED
    BY <1>2, <2>1, <2>3, <2>4, SameNumbers
<1>7. w.leaf = here /\ w = [w EXCEPT !.leaf = here]
  <2>1. w = [path |-> w.path, nodes |-> w.nodes, leaf |-> here, index |-> w.index,
             depth |-> w.depth]
    <3>1. Client!Witness(t, index, level) =
             [path |-> [i \in 1 .. level |-> ~Client!IsSet(index, i - 1)],
              nodes |-> Client!witness(t, index, level), leaf |-> here,
              index |-> index, depth |-> level]
      BY DEF Client!Witness
    <3> HIDE DEF t, w, here
    <3> QED
      BY <1>6, <3>1
  <2> HIDE DEF w, here
  <2> QED
    BY <2>1
<1>8. vacant = here <=> \A i \in 0 .. size - 1 : Leaf(client, index * size + i) = NoKey
  <2> DEFINE V == {x \in Nat : Client!getNode(t, DEPTH, x) = NoKey}
  <2>1. here = vacant <=> Trees!StretchIn(V, index * size, size)
    <3>1. PICK kept, W : kept = t /\ W = V /\ AllHashed(kept)
                         /\ W = {x \in Nat : Client!getNode(kept, DEPTH, x) = NoKey}
      BY <1>1
    <3>2. \A h \in 0 .. DEPTH, x \in Nat :
             Client!getNode(kept, DEPTH - h, x) = Contract!getRoot(h)
                <=> Trees!StretchIn(W, x * TwoTo[h], TwoTo[h])
      BY ONLY <3>1, VacantNode
    <3> HIDE DEF t, V, height
    <3>3. Client!getNode(t, DEPTH - height, index) = vacant
             <=> Trees!StretchIn(V, index * TwoTo[height], TwoTo[height])
      BY <1>2, <3>1, <3>2
    <3> HIDE DEF vacant
    <3> QED
      BY <1>2, <3>3
  <2>2. \A i \in 0 .. size - 1 :
           index * size + i \in V <=> Leaf(client, index * size + i) = NoKey
    <3>1. \A i \in 0 .. size - 1 : index * size + i \in Nat
      <4> HIDE DEF size
      <4> QED
        BY <1>2
    <3> HIDE DEF size
    <3> QED
      BY <3>1 DEF Leaf
  <2> HIDE DEF V, here, vacant, size
  <2> QED
    BY <2>1, <2>2 DEF Trees!StretchIn
<1>9. \A offset \in index * size .. (index + 1) * size - 1 :
          Client!IsAligned(offset, height) <=> offset = index * size
  <2>1. ASSUME NEW offset \in a .. a + size - 1
        PROVE  Client!IsAligned(offset, height) <=> offset = a
    <3>1. PICK h \in Nat, s \in Nat : h = height /\ s = size /\ s = TwoTo[h]
      BY <1>2
    <3> HIDE DEF height, size
    <3>2. a = index * s /\ offset \in a .. a + s - 1
      BY <1>5, <2>1, <3>1
    <3>3. Client!IsAligned(offset, h) <=> offset = a
      BY ONLY <3>1, <3>2, h \in Nat, s \in Nat, index \in Nat, a \in Nat, <1>2, AlignedIs
    <3> QED
      BY <3>1, <3>3
  <2> HIDE DEF height, size
  <2>2. a .. a + size - 1 = a .. c - 1
    BY <1>2, <1>5
  <2>3. index * size .. (index + 1) * size - 1 = a .. c - 1
    BY <1>5
  <2> QED
    BY <1>5, <2>1, <2>2, <2>3
<1> HIDE DEF t, height, size, vacant, w, opens, here
<1>10. Client!checkInclusion(t, w) = 0
  BY <1>4, <1>6, <1>7
<1>11. Client!checkInclusion(t, [w EXCEPT !.leaf = vacant]) = (IF opens(vacant) THEN 0 ELSE -1)
  BY <1>4, <1>6
<1>12. opens(here) /\ (opens(vacant) <=> vacant = here)
  BY <1>4
<1> QED
  BY <1>8, <1>9, <1>10, <1>11, <1>12 DEF t, height, size, vacant, w, opens, here

(* The trees that somebody has who follows the batches.                    *)
Following(u) ==
    /\ u[0] = Client!New(DEPTH)
    /\ \A k \in 1 .. leafIndexRight :
          u[k] = Client!updateBatch(u[k - 1], BATCH_SIZE * (k - 1), registeredBatches[k])

LEMMA FollowedIs ==
    ASSUME leafIndexRight \in Nat
    PROVE  \E u : Following(u) /\ FollowedRight = u[leafIndexRight]
<1> DEFINE n == leafIndexRight
           Start == Client!New(DEPTH)
           Turn(u, i) == Client!updateBatch(u[i - 1], BATCH_SIZE * (i - 1), registeredBatches[i])
           Body(u, i) == IF i = 0 THEN Start ELSE Turn(u, i)
           T == {m \in 0 .. n : \E u : u = [i \in 0 .. m |-> Body(u, i)]}
<1>0. n \in Nat
  OBVIOUS
<1>1. 0 \in T
  <2> DEFINE u == [i \in 0 .. 0 |-> Start]
  <2>1. u = [i \in 0 .. 0 |-> Body(u, i)]
    OBVIOUS
  <2> HIDE DEF u, Body, n
  <2> QED
    BY <1>0, <2>1
<1>2. ASSUME NEW k \in 1 .. n, k - 1 \in T PROVE k \in T
  <2>1. PICK u : u = [i \in 0 .. k - 1 |-> Body(u, i)]
    BY <1>2
  <2> DEFINE v == [i \in 0 .. k |-> IF i < k THEN u[i] ELSE Turn(u, k)]
  <2>2. \A i \in 0 .. k : v[i] = Body(v, i)
    <3>1. \A i \in 0 .. k - 1 : u[i] = Body(u, i)
      <4> HIDE DEF Body
      <4> QED
        BY <2>1
    <3>2. \A i \in 0 .. k - 1 : v[i] = u[i]
      OBVIOUS
    <3>3. v[k] = Turn(u, k)
      OBVIOUS
    <3> HIDE DEF v, n
    <3>4. \A i \in 1 .. k : Turn(v, i) = Turn(u, i)
      BY <1>0, <3>2
    <3> HIDE DEF Start, Turn
    <3> QED
      BY <1>0, <3>1, <3>2, <3>3, <3>4
  <2>3. v = [i \in 0 .. k |-> Body(v, i)]
    <3> HIDE DEF Body
    <3> QED
      BY <2>2
  <2> HIDE DEF v, Body, n
  <2> QED
    BY <2>3
<1>3. n \in T
  <2> HIDE DEF T, n
  <2> QED
    BY <1>0, <1>1, <1>2, LoopInduction
<1> DEFINE after == CHOOSE u : u = [i \in 0 .. n |-> Body(u, i)]
<1>4. after = [i \in 0 .. n |-> Body(after, i)]
  <2>1. \E u : u = [i \in 0 .. n |-> Body(u, i)]
    BY <1>3
  <2> HIDE DEF Body, n
  <2> QED
    BY <2>1
<1>5. FollowedRight = after[leafIndexRight]
  BY DEF FollowedRight
<1> HIDE DEF after
<1>6. \A i \in 0 .. n : after[i] = Body(after, i)
  <2> HIDE DEF Body, n
  <2> QED
    BY <1>4
<1>7. after[0] = Start /\ \A i \in 1 .. n : after[i] = Turn(after, i)
  <2> HIDE DEF Start, Turn, n
  <2> QED
    BY <1>0, <1>6
<1>8. Following(after)
  BY <1>7 DEF Following
<1> QED
  BY <1>5, <1>8

(* A power of two of a sum.                                                *)
LEMMA TwoToSum ==
    ASSUME NEW a \in Nat, NEW b \in Nat
    PROVE  TwoTo[a] * TwoTo[b] = TwoTo[a + b]
<1> DEFINE T == {k \in 0 .. b : TwoTo[a] * TwoTo[k] = TwoTo[a + k]}
<1>1. 0 \in T
  <2>1. a + 0 = a /\ TwoTo[0] = 1 /\ TwoTo[a] \in Nat
    BY TwoToIs
  <2> QED
    BY <2>1
<1>2. ASSUME NEW k \in 1 .. b, k - 1 \in T PROVE k \in T
  <2>1. k - 1 \in Nat /\ k - 1 + 1 = k /\ a + (k - 1) \in Nat /\ a + (k - 1) + 1 = a + k
    OBVIOUS
  <2>2. TwoTo[k] = 2 * TwoTo[k - 1] /\ TwoTo[a + k] = 2 * TwoTo[a + (k - 1)]
    BY <2>1, TwoToIs
  <2>3. PICK p \in Nat, q \in Nat, r \in Nat :
           p = TwoTo[a] /\ q = TwoTo[k - 1] /\ r = TwoTo[a + (k - 1)]
    BY <2>1, TwoToIs
  <2>4. p * q = r
    BY <1>2, <2>3
  <2>5. p * (2 * q) = 2 * r
    BY <2>4
  <2> QED
    BY <2>2, <2>3, <2>5
<1>3. 0 .. b \subseteq T
  <2> HIDE DEF T
  <2> QED
    BY <1>1, <1>2, LoopInduction
<1> QED
  BY <1>3

(* Who follows the batches has the root of the right tree.                 *)
LEMMA FollowedRoot ==
    ASSUME RightInv, leafIndexRight <= RightCapacity
    PROVE  Client!root(FollowedRight) = rootRight
<1> DEFINE n == leafIndexRight
           size == BATCH_SIZE
           keys == KeysOf(registeredBatches)
<1>1. /\ registeredBatches \in Seq([1 .. BATCH_SIZE -> Keys])
      /\ n = Len(registeredBatches) /\ n \in Nat /\ rootRight = TreeRoot(keys)
  BY LenProperties DEF RightInv, Batches
<1>2. /\ size \in Nat /\ size >= 1
      /\ \A b \in 0 .. n - 1, j \in 0 .. size - 1 :
            LeafAt(keys, b * size + j) = registeredBatches[b + 1][j + 1]
      /\ \A x \in Nat : x >= n * size => LeafAt(keys, x) = NoKey
  BY <1>1, KeysAre
<1>3. PICK u : Following(u) /\ FollowedRight = u[n]
  BY <1>1, FollowedIs
<1>4. n * size <= SET_SIZE /\ SET_SIZE \in Nat
  <2>1. BatchHeight \in Nat /\ BATCH_DEPTH \in Nat /\ BatchHeight + BATCH_DEPTH = DEPTH
        /\ RightCapacity = TwoTo[BatchHeight]
    BY DepthsAre DEF BatchHeight, RightCapacity
  <2>2. PICK c \in Nat : c = RightCapacity
    BY <2>1, TwoToIs
  <2>3. c * size = SET_SIZE
    BY <2>1, <2>2, TwoToSum DEF SET_SIZE, BATCH_SIZE
  <2> HIDE DEF size, n
  <2>4. n <= c
    BY <2>2 DEF n
  <2>5. n * size <= c * size
    BY ONLY <1>1, <1>2, <2>4, c \in Nat
  <2> QED
    BY <1>2, <2>3, <2>5
<1> DEFINE Upto(t, k) ==
              /\ AllHashed(t)
              /\ \A x \in Nat : Client!getNode(t, DEPTH, x) =
                                    IF x < k * size THEN LeafAt(keys, x) ELSE NoKey
           T == {k \in 0 .. n : Upto(u[k], k)}
<1>5. 0 \in T
  <2>1. u[0] = Client!New(DEPTH)
    BY <1>3 DEF Following
  <2>2. 0 * size = 0 /\ 0 \in 0 .. n
    <3> HIDE DEF size, n
    <3> QED
      BY <1>1, <1>2
  <2>3. \A x \in Nat : ~(x < 0)
    OBVIOUS
  <2> HIDE DEF size, n, keys
  <2> QED
    BY <2>1, <2>2, <2>3, NewIsHashed
<1>6. ASSUME NEW k \in 1 .. n, k - 1 \in T PROVE k \in T
  <2> DEFINE t == u[k - 1]
             data == registeredBatches[k]
  <2>1. u[k] = Client!updateBatch(t, size * (k - 1), data)
    BY <1>3 DEF Following
  <2>2. Upto(t, k - 1)
    BY <1>6
  <2>3. data \in [1 .. size -> Keys]
    BY <1>1, ElementOfSeq
  <2>4. Len(data) = size
    BY <1>2, <2>3
  <2>5. PICK o \in Nat : o = size * (k - 1) /\ o = (k - 1) * size /\ o + size = k * size
                         /\ o + size <= n * size
    <3>1. k \in Nat /\ k - 1 \in Nat /\ k <= n
      BY <1>1
    <3> HIDE DEF size, n
    <3>2. k * size <= n * size
      BY ONLY <1>1, <1>2, <3>1
    <3>3. size * (k - 1) = (k - 1) * size /\ size * (k - 1) + size = k * size
          /\ size * (k - 1) \in Nat
      BY ONLY <1>2, <3>1
    <3> QED
      BY <3>2, <3>3
  <2>6. \A j \in 0 .. size - 1 : LeafAt(keys, o + j) = data[j + 1]
    <3>1. k - 1 \in 0 .. n - 1 /\ k - 1 + 1 = k
      BY <1>1
    <3> HIDE DEF size, n, keys
    <3> QED
      BY <1>2, <2>5, <3>1
  <2> HIDE DEF t, data, size, n, keys
  <2>7. o + size <= SET_SIZE
    BY <1>1, <1>2, <1>4, <2>5
  <2>8. /\ AllHashed(u[k])
        /\ \A x \in Nat : Client!getNode(u[k], DEPTH, x) =
               IF o <= x /\ x < o + size THEN data[x - o + 1] ELSE Client!getNode(t, DEPTH, x)
    <3>1. AllHashed(t)
      BY <2>2
    <3>2. PICK m \in Nat : m = size
      BY <1>2
    <3>3. m >= 1 /\ Len(data) = m /\ o + m <= SET_SIZE
      BY <1>2, <2>4, <2>7, <3>2
    <3> DEFINE r == Client!updateBatch(t, o, data)
    <3>4. /\ AllHashed(r)
          /\ \A x \in Nat : Client!getNode(r, DEPTH, x) =
                 IF o <= x /\ x < o + m THEN data[x - o + 1] ELSE Client!getNode(t, DEPTH, x)
      <4>1. PICK tt, dd : tt = t /\ dd = data
        OBVIOUS
      <4>2. AllHashed(tt) /\ Len(dd) = m
        BY <3>1, <3>3, <4>1
      <4>3. AllHashed(Client!updateBatch(tt, o, dd))
        BY ONLY <3>3, <4>2, o \in Nat, m \in Nat, updateBatchIs
      <4>4. \A x \in Nat : Client!getNode(Client!updateBatch(tt, o, dd), DEPTH, x) =
                 IF o <= x /\ x < o + m THEN dd[x - o + 1] ELSE Client!getNode(tt, DEPTH, x)
        BY ONLY <3>3, <4>2, o \in Nat, m \in Nat, updateBatchIs
      <4> QED
        BY <4>1, <4>3, <4>4
    <3> QED
      BY <2>1, <2>5, <3>2, <3>4
  <2>9. ASSUME NEW x \in Nat
        PROVE  Client!getNode(u[k], DEPTH, x) = IF x < k * size THEN LeafAt(keys, x) ELSE NoKey
    <3>0. o + size = k * size /\ o = (k - 1) * size
      BY <2>5
    <3>1. Client!getNode(t, DEPTH, x) = IF x < o THEN LeafAt(keys, x) ELSE NoKey
      BY <2>2, <3>0
    <3>2. CASE x < o
      <4>1. x < k * size
        BY <1>2, <3>0, <3>2
      <4> QED
        BY <2>8, <3>1, <3>2, <4>1
    <3>3. CASE o <= x /\ x < o + size
      <4>1. x - o \in 0 .. size - 1 /\ o + (x - o) = x
        BY <1>2, <3>3
      <4>2. LeafAt(keys, x) = data[x - o + 1]
        BY <2>6, <4>1
      <4> QED
        BY <2>8, <3>0, <3>3, <4>2
    <3>4. CASE x >= o + size
      <4>1. ~(x < k * size) /\ ~(x < o) /\ ~(x < o + size)
        BY <1>2, <3>0, <3>4
      <4> QED
        BY <2>8, <3>1, <4>1
    <3> QED
      BY <1>2, <3>2, <3>3, <3>4
  <2>10. Upto(u[k], k)
    BY <2>8, <2>9
  <2> HIDE DEF Upto
  <2> QED
    BY <2>10
<1>7. Upto(u[n], n)
  <2> HIDE DEF T, n, Upto
  <2>1. 0 .. n \subseteq T
    BY <1>1, <1>5, <1>6, LoopInduction
  <2>2. n \in T
    BY <1>1, <2>1
  <2> QED
    BY <2>2 DEF T
<1>8. \A x \in Nat : Client!getNode(u[n], DEPTH, x) = LeafAt(keys, x)
  <2> HIDE DEF n, size, keys
  <2>1. n * size \in Nat
    BY <1>1, <1>2
  <2> QED
    BY <1>2, <1>7, <2>1
<1>9. Client!root(u[n]) = TreeRoot(keys)
  BY <1>7, <1>8, SameLeavesSameNodes
<1> QED
  BY <1>1, <1>3, <1>9

(* The three theorems rest on one invariant.                               *)
LEMMA ClientsAlways == RegistrySpec => []ClientsInv
BY ClientsStart, ClientsKeep, PTL DEF RegistrySpec

(* Whatever comes between the awaits of register() of ts/accountTree.ts,   *)
(* its assertion holds for a client that knows all keys.                   *)
THEOREM AssertionAlwaysHolds == RegistrySpec => []AssertionHolds
BY ClientsAlways, AssertionIsHeld, PTL

(* Every witness that a client takes from its tree is taken by verify() of *)
(* MerkleTree.sol and by the client itself, for that node and no other.    *)
THEOREM WitnessesAlwaysOpen == RegistrySpec => []WitnessesOpen
BY ClientsAlways, WitnessesAreOpen, PTL

(* The trees of the client have the roots of the contract.                 *)
THEOREM TreesAlwaysAgree == RegistrySpec => []TreesAgree
<1>1. ClientsInv => TreesAgree
  <2> SUFFICES ASSUME ClientsInv PROVE TreesAgree
    OBVIOUS
  <2>1. RightInv
    BY DEF ClientsInv, AccountInv
  <2>2. leafIndexRight <= RightCapacity => Client!root(FollowedRight) = rootRight
    BY <2>1, FollowedRoot
  <2>3. \A client \in Clients : KnowsAll(client) => Client!root(treeLeft[client]) = rootLeft
    BY KnowingAll
  <2> QED
    BY <2>2, <2>3 DEF TreesAgree
<1> QED
  BY <1>1, ClientsAlways, PTL

(* The roots that the contract makes of a batch are those of the trees of  *)
(* the client, whose proofs open each commitment of it.                    *)
THEOREM BatchesAlwaysAgree == RegistrySpec => []BatchesAgree
<1>1. BatchesAgree
  <2> SUFFICES ASSUME Len(registered) \in 1 .. 32 PROVE BatchesAgree
    BY DEF BatchesAgree
  <2>1. Trees!BatchOpens(registered, Len(registered))
    BY Trees!ProofsOpen
  <2> QED
    BY <2>1, SameTrees, SameRoots DEF BatchesAgree, Trees!BatchOpens
<1> QED
  BY <1>1, PTL
=============================================================================
