------------------------------ MODULE TreeProofs ----------------------------
(***************************************************************************)
(* The Merkle trees of the client and of the contracts, of any depth and   *)
(* with any leaves: lemmas about the operators of Tree and MerkleTree that *)
(* the proofs of several components cite.                                  *)
(***************************************************************************)
EXTENDS Tree, MerkleTree, LoopProofs

(* The fields of a tree of the client.                                     *)
HasFields(d, t) == \E z, f : t = [depth |-> d, zeros |-> z, tree |-> f]

(* The nodes of p are those of t, but for n nodes of a level.              *)
NodesPut(p, t, level, offset, n, nodes) ==
    \A l, x \in Nat :
        getNode(p, l, x) =
            IF l = level /\ offset <= x /\ x < offset + n
            THEN nodes[x - offset + 1] ELSE getNode(t, l, x)

(* What is stored is what is found there, and nothing else changes.        *)
LEMMA PutIs ==
    ASSUME NEW d \in Nat, NEW t, HasFields(d, t), NEW level, NEW offset \in Nat, NEW n \in Nat,
           NEW nodes, Len(nodes) = n
    PROVE  LET p == Put(t, level, offset, nodes)
           IN  HasFields(d, p) /\ NodesPut(p, t, level, offset, n, nodes)
<1> DEFINE places == {level} \X (offset .. offset + n - 1)
           f == [place \in DOMAIN t.tree \union places |->
                    IF place \in places THEN nodes[place[2] - offset + 1] ELSE t.tree[place]]
           p == Put(t, level, offset, nodes)
<1>1. PICK z, g : t = [depth |-> d, zeros |-> z, tree |-> g]
  BY DEF HasFields
<1>2. p = [depth |-> d, zeros |-> t.zeros, tree |-> p.tree] /\ p.tree = f
  <2>1. p = [t EXCEPT !.tree = f]
    BY DEF Put
  <2> HIDE DEF f, p
  <2>2. p.tree = f /\ p = [depth |-> d, zeros |-> t.zeros, tree |-> p.tree]
    BY <1>1, <2>1
  <2> QED
    BY <2>2
<1>3. ASSUME NEW l, NEW x \in Nat
      PROVE  <<l, x>> \in places <=> l = level /\ offset <= x /\ x < offset + n
  <2>1. <<l, x>> \in places <=> l \in {level} /\ x \in offset .. offset + n - 1
    OBVIOUS
  <2> HIDE DEF places, f, p
  <2> QED
    BY <2>1
<1>4. ASSUME NEW l, NEW x \in Nat, <<l, x>> \in places
      PROVE  getNode(p, l, x) = nodes[x - offset + 1]
  <2>1. <<l, x>> \in DOMAIN f /\ f[<<l, x>>] = nodes[x - offset + 1]
    <3> HIDE DEF places
    <3> QED
      BY <1>4
  <2> HIDE DEF f, p, places
  <2> QED
    BY <1>2, <2>1 DEF getNode
<1>5. ASSUME NEW l, NEW x \in Nat, <<l, x>> \notin places
      PROVE  getNode(p, l, x) = getNode(t, l, x)
  <2>1. <<l, x>> \in DOMAIN f <=> <<l, x>> \in DOMAIN t.tree
    <3> HIDE DEF places
    <3> QED
      BY <1>5
  <2>2. <<l, x>> \in DOMAIN t.tree => f[<<l, x>>] = t.tree[<<l, x>>]
    <3> HIDE DEF places
    <3> QED
      BY <1>5
  <2> HIDE DEF f, p, places
  <2> QED
    BY <1>2, <2>1, <2>2 DEF getNode
<1>6. HasFields(d, p)
  <2> HIDE DEF f, p
  <2> QED
    BY <1>2 DEF HasFields
<1> HIDE DEF p, places
<1>7. \A l, x \in Nat : getNode(p, l, x) =
                         IF l = level /\ offset <= x /\ x < offset + n
                         THEN nodes[x - offset + 1] ELSE getNode(t, l, x)
  BY <1>3, <1>4, <1>5
<1> QED
  BY <1>6, <1>7 DEF p, NodesPut
(* The turns of the client's ascend().                                     *)
Rising(d, u, t, offset, len) ==
    /\ u[0] = [t |-> t, offset |-> offset, len |-> len]
    /\ \A i \in 1 .. d : u[i] = updateCouples(u[i - 1], d - i + 1)

LEMMA ascendIs ==
    ASSUME NEW d \in Nat, NEW t, t.depth = d, NEW offset, NEW len
    PROVE  \E u : Rising(d, u, t, offset, len) /\ ascend(t, offset, len) = u[d].t
<1> DEFINE n == d
           Start == [t |-> t, offset |-> offset, len |-> len]
           Turn(u, i) == updateCouples(u[i - 1], d - i + 1)
           Body(u, i) == IF i = 0 THEN Start ELSE Turn(u, i)
           T == {m \in 0 .. n : \E u : u = [i \in 0 .. m |-> Body(u, i)]}
<1>0. n \in Nat
  OBVIOUS
<1>1. 0 \in T
  <2> DEFINE u == [i \in 0 .. 0 |-> Start]
  <2>1. u = [i \in 0 .. 0 |-> Body(u, i)]
    OBVIOUS
  <2> HIDE DEF u, Body, n
  <2> QED
    BY <1>0, <2>1
<1>2. ASSUME NEW k \in 1 .. n, k - 1 \in T PROVE k \in T
  <2>1. PICK u : u = [i \in 0 .. k - 1 |-> Body(u, i)]
    BY <1>2
  <2> DEFINE v == [i \in 0 .. k |-> IF i < k THEN u[i] ELSE Turn(u, k)]
  <2>2. \A i \in 0 .. k : v[i] = Body(v, i)
    <3>1. \A i \in 0 .. k - 1 : u[i] = Body(u, i)
      <4> HIDE DEF Body
      <4> QED
        BY <2>1
    <3>2. \A i \in 0 .. k - 1 : v[i] = u[i]
      OBVIOUS
    <3>3. v[k] = Turn(u, k)
      OBVIOUS
    <3> HIDE DEF v, n
    <3>4. \A i \in 1 .. k : Turn(v, i) = Turn(u, i)
      BY <1>0, <3>2
    <3> HIDE DEF Start, Turn
    <3> QED
      BY <1>0, <3>1, <3>2, <3>3, <3>4
  <2>3. v = [i \in 0 .. k |-> Body(v, i)]
    <3> HIDE DEF Body
    <3> QED
      BY <2>2
  <2> HIDE DEF v, Body, n
  <2> QED
    BY <2>3
<1>3. n \in T
  <2> HIDE DEF T, n
  <2> QED
    BY <1>0, <1>1, <1>2, LoopInduction
<1> DEFINE after == CHOOSE u : u = [i \in 0 .. n |-> Body(u, i)]
<1>4. after = [i \in 0 .. n |-> Body(after, i)]
  <2>1. \E u : u = [i \in 0 .. n |-> Body(u, i)]
    BY <1>3
  <2> HIDE DEF Body, n
  <2> QED
    BY <2>1
<1>5. ascend(t, offset, len) = after[d].t
  BY DEF ascend
<1> HIDE DEF after
<1>6. \A i \in 0 .. n : after[i] = Body(after, i)
  <2> HIDE DEF Body, n
  <2> QED
    BY <1>4
<1>7. after[0] = Start /\ \A i \in 1 .. n : after[i] = Turn(after, i)
  <2> HIDE DEF Start, Turn, n
  <2> QED
    BY <1>0, <1>6
<1>8. Rising(d, after, t, offset, len)
  BY <1>7 DEF Rising
<1> QED
  BY <1>5, <1>8

(* The nodes that a witness leads to, from a node up: path says on which   *)
(* side of it each of those beside lies.                                   *)
Opening(u, node, path, beside, n) ==
    /\ u[0] = node
    /\ \A i \in 1 .. n :
          u[i] = IF IsSet(path, i - 1) THEN <<beside[i], u[i - 1]>>
                 ELSE <<u[i - 1], beside[i]>>

Opened(u, node, path, beside, i) ==
    IF i = 0 THEN node
    ELSE IF IsSet(path, i - 1) THEN <<beside[i], u[i - 1]>>
    ELSE <<u[i - 1], beside[i]>>
OpensBy(u, node, path, beside, n) ==
    u = [i \in 0 .. n |-> Opened(u, node, path, beside, i)]

LEMMA OpeningIs ==
    ASSUME NEW n \in Nat, NEW node, NEW path, NEW beside
    PROVE  /\ \E u : OpensBy(u, node, path, beside, n)
           /\ \A u : OpensBy(u, node, path, beside, n) => Opening(u, node, path, beside, n)
<1> DEFINE Start == node
           Turn(u, i) == IF IsSet(path, i - 1) THEN <<beside[i], u[i - 1]>>
                         ELSE <<u[i - 1], beside[i]>>
           Body(u, i) == IF i = 0 THEN Start ELSE Turn(u, i)
           T == {m \in 0 .. n : \E u : u = [i \in 0 .. m |-> Body(u, i)]}
<1>0. n \in Nat
  OBVIOUS
<1>1. 0 \in T
  <2> DEFINE u == [i \in 0 .. 0 |-> Start]
  <2>1. u = [i \in 0 .. 0 |-> Body(u, i)]
    OBVIOUS
  <2> HIDE DEF u, Body
  <2> QED
    BY <1>0, <2>1
<1>2. ASSUME NEW k \in 1 .. n, k - 1 \in T PROVE k \in T
  <2>1. PICK u : u = [i \in 0 .. k - 1 |-> Body(u, i)]
    BY <1>2
  <2> DEFINE v == [i \in 0 .. k |-> IF i < k THEN u[i] ELSE Turn(u, k)]
  <2>2. \A i \in 0 .. k : v[i] = Body(v, i)
    <3>1. \A i \in 0 .. k - 1 : u[i] = Body(u, i)
      <4> HIDE DEF Body
      <4> QED
        BY <2>1
    <3>2. \A i \in 0 .. k - 1 : v[i] = u[i]
      OBVIOUS
    <3>3. v[k] = Turn(u, k)
      OBVIOUS
    <3> HIDE DEF v
    <3>4. \A i \in 1 .. k : Turn(v, i) = Turn(u, i)
      BY <1>0, <3>2
    <3> HIDE DEF Start, Turn
    <3> QED
      BY <1>0, <3>1, <3>2, <3>3, <3>4
  <2>3. v = [i \in 0 .. k |-> Body(v, i)]
    <3> HIDE DEF Body
    <3> QED
      BY <2>2
  <2> HIDE DEF v, Body
  <2> QED
    BY <2>3
<1>3. n \in T
  <2> HIDE DEF T
  <2> QED
    BY <1>0, <1>1, <1>2, LoopInduction
<1>4. \E u : OpensBy(u, node, path, beside, n)
  BY <1>3 DEF Opened, OpensBy
<1>5. ASSUME NEW u, OpensBy(u, node, path, beside, n)
      PROVE  Opening(u, node, path, beside, n)
  <2>1. \A i \in 0 .. n : u[i] = Opened(u, node, path, beside, i)
    BY <1>5 DEF OpensBy
  <2>2. \A i \in 1 .. n : Opened(u, node, path, beside, i) = Turn(u, i)
    BY DEF Opened
  <2>3. u[0] = node
    <3>1. Opened(u, node, path, beside, 0) = node /\ 0 \in 0 .. n
      BY DEF Opened
    <3> QED
      BY <2>1, <3>1
  <2>4. \A i \in 1 .. n : u[i] = Turn(u, i)
    <3> HIDE DEF Turn
    <3> QED
      BY <2>1, <2>2
  <2> QED
    BY <2>3, <2>4 DEF Opening
<1> QED
  BY <1>4, <1>5

(* verify() of MerkleTree.sol follows a node to the root.                  *)
LEMMA verifyIs ==
    ASSUME NEW n \in Nat, NEW top, NEW leaf, NEW path, NEW beside, Len(beside) = n
    PROVE  \E u : /\ Opening(u, leaf, path, beside, n)
                  /\ verify(top, leaf, path, beside) <=> u[n] = top
<1> DEFINE after == CHOOSE u : OpensBy(u, leaf, path, beside, n)
<1>1. verify(top, leaf, path, beside) <=> after[n] = top
  <2> DEFINE there == CHOOSE u : u = [i \in 0 .. Len(beside) |->
                          IF i = 0 THEN leaf
                          ELSE IF IsSet(path, i - 1) THEN <<beside[i], u[i - 1]>>
                          ELSE <<u[i - 1], beside[i]>>]
  <2>1. verify(top, leaf, path, beside) <=> there[Len(beside)] = top
    BY DEF verify, computeRoot, Hash
  <2>2. \A k : IsSet(path, k) = IsSet(path, k)
    OBVIOUS
  <2>3. ASSUME NEW u
        PROVE  [i \in 0 .. n |-> IF i = 0 THEN leaf
                                 ELSE IF IsSet(path, i - 1) THEN <<beside[i], u[i - 1]>>
                                 ELSE <<u[i - 1], beside[i]>>]
                  = [i \in 0 .. n |-> Opened(u, leaf, path, beside, i)]
    BY <2>2 DEF Opened
  <2>4. there = after
    BY <2>3, Zenon DEF OpensBy
  <2> HIDE DEF there, after
  <2> QED
    BY <2>1, <2>4
<1>2. \E u : OpensBy(u, leaf, path, beside, n)
  BY OpeningIs
<1>3. OpensBy(after, leaf, path, beside, n)
  BY <1>2
<1> HIDE DEF after
<1>4. Opening(after, leaf, path, beside, n)
  BY <1>3, OpeningIs
<1> QED
  BY <1>1, <1>4

(* checkInclusion() of the client follows the same way, unless the witness *)
(* is of no node or of the wrong length.                                   *)
LEMMA checkInclusionIs ==
    ASSUME NEW n \in Nat, NEW t, NEW w, NEW path,
           w.depth = n, \A i \in 1 .. n : w.path[i] = ~IsSet(path, i - 1)
    PROVE  \E u : /\ Opening(u, w.leaf, path, w.nodes, n)
                  /\ checkInclusion(t, w) =
                        IF w.nodes = <<>> THEN -2
                        ELSE IF Len(w.nodes) # Len(w.path) THEN -3
                        ELSE IF u[n] = root(t) THEN 0 ELSE -1
<1> DEFINE Body(u, i) == IF i = 0 THEN w.leaf
                         ELSE IF w.path[i] THEN <<u[i - 1], w.nodes[i]>>
                         ELSE <<w.nodes[i], u[i - 1]>>
           after == CHOOSE u : u = [i \in 0 .. n |-> Body(u, i)]
<1>1. checkInclusion(t, w) =
         IF w.nodes = <<>> THEN -2
         ELSE IF Len(w.nodes) # Len(w.path) THEN -3
         ELSE IF after[n] = root(t) THEN 0 ELSE -1
  BY DEF checkInclusion, hash2
<1>2. \A u : \A i \in 0 .. n : Opened(u, w.leaf, path, w.nodes, i) = Body(u, i)
  <2> SUFFICES ASSUME NEW u, NEW i \in 0 .. n
               PROVE  Opened(u, w.leaf, path, w.nodes, i) = Body(u, i)
    OBVIOUS
  <2>1. CASE i = 0
    BY <2>1 DEF Opened
  <2>2. CASE i # 0
    <3>1. w.path[i] = ~IsSet(path, i - 1)
      BY <2>2
    <3>2. CASE IsSet(path, i - 1)
      <4>1. w.path[i] = FALSE
        BY <3>1, <3>2, Zenon
      <4> QED
        BY <2>2, <3>2, <4>1, Zenon DEF Opened
    <3>3. CASE ~IsSet(path, i - 1)
      <4>1. w.path[i] = TRUE
        BY <3>1, <3>3, Zenon
      <4> QED
        BY <2>2, <3>3, <4>1, Zenon DEF Opened
    <3> QED
      BY <3>2, <3>3
  <2> QED
    BY <2>1, <2>2
<1>3. \E u : u = [i \in 0 .. n |-> Body(u, i)]
  <2>1. PICK u : OpensBy(u, w.leaf, path, w.nodes, n)
    BY OpeningIs
  <2> HIDE DEF Body
  <2> QED
    BY <1>2, <2>1 DEF OpensBy
<1>4. after = [i \in 0 .. n |-> Body(after, i)]
  <2> HIDE DEF Body
  <2> QED
    BY <1>3
<1> HIDE DEF after
<1>5. OpensBy(after, w.leaf, path, w.nodes, n)
  <2> HIDE DEF Body
  <2> QED
    BY <1>2, <1>4 DEF OpensBy
<1>6. Opening(after, w.leaf, path, w.nodes, n)
  BY <1>5, OpeningIs
<1> QED
  BY <1>1, <1>6

-----------------------------------------------------------------------------
(* The table of the hashes of vacant trees of up to n levels, z the leaf.  *)
VacantTable(u, z, n) ==
    u = [i \in 0 .. n |-> IF i = 0 THEN z ELSE <<u[i - 1], u[i - 1]>>]

LEMMA VacantTableIs ==
    ASSUME NEW z, NEW n \in Nat
    PROVE  \E u : VacantTable(u, z, n)
<1> DEFINE Turn(u, i) == <<u[i - 1], u[i - 1]>>
           Body(u, i) == IF i = 0 THEN z ELSE Turn(u, i)
           T == {m \in 0 .. n : \E u : u = [i \in 0 .. m |-> Body(u, i)]}
<1>1. 0 \in T
  <2> DEFINE u == [i \in 0 .. 0 |-> z]
  <2>1. u = [i \in 0 .. 0 |-> Body(u, i)]
    OBVIOUS
  <2> HIDE DEF u, Body
  <2> QED
    BY <2>1
<1>2. ASSUME NEW k \in 1 .. n, k - 1 \in T PROVE k \in T
  <2>1. PICK u : u = [i \in 0 .. k - 1 |-> Body(u, i)]
    BY <1>2
  <2> DEFINE v == [i \in 0 .. k |-> IF i < k THEN u[i] ELSE Turn(u, k)]
  <2>2. \A i \in 0 .. k : v[i] = Body(v, i)
    <3>1. \A i \in 0 .. k - 1 : u[i] = Body(u, i)
      <4> HIDE DEF Body
      <4> QED
        BY <2>1
    <3>2. \A i \in 0 .. k - 1 : v[i] = u[i]
      OBVIOUS
    <3>3. v[k] = Turn(u, k)
      OBVIOUS
    <3> HIDE DEF v
    <3>4. \A i \in 1 .. k : Turn(v, i) = Turn(u, i)
      BY <3>2
    <3> HIDE DEF Turn
    <3> QED
      BY <3>1, <3>2, <3>3, <3>4
  <2>3. v = [i \in 0 .. k |-> Body(v, i)]
    <3> HIDE DEF Body
    <3> QED
      BY <2>2
  <2> HIDE DEF v, Body
  <2> QED
    BY <2>3
<1>3. n \in T
  <2> HIDE DEF T
  <2> QED
    BY <1>1, <1>2, LoopInduction
<1> QED
  BY <1>3 DEF VacantTable

VacantRows(u, z, n) == u[0] = z /\ \A i \in 1 .. n : u[i] = <<u[i - 1], u[i - 1]>>

LEMMA VacantTableHas ==
    ASSUME NEW z, NEW n \in Nat, NEW u, VacantTable(u, z, n)
    PROVE  VacantRows(u, z, n)
<1> DEFINE Body(i) == IF i = 0 THEN z ELSE <<u[i - 1], u[i - 1]>>
<1>1. \A i \in 0 .. n : u[i] = Body(i)
  <2>1. u = [i \in 0 .. n |-> Body(i)]
    BY DEF VacantTable
  <2> HIDE DEF Body
  <2> QED
    BY <2>1
<1>2. u[0] = Body(0) /\ \A i \in 1 .. n : u[i] = Body(i) /\ i # 0
  <2> HIDE DEF Body
  <2> QED
    BY <1>1
<1> QED
  BY <1>2, Zenon DEF VacantRows

(* A longer table begins with the shorter.                                 *)
LEMMA VacantTablesAgree ==
    ASSUME NEW z, NEW n \in Nat, NEW m \in 0 .. n, NEW u, VacantTable(u, z, n),
           NEW v, VacantTable(v, z, m)
    PROVE  \A i \in 0 .. m : u[i] = v[i]
<1> DEFINE T == {i \in 0 .. m : u[i] = v[i]}
<1>0. m \in Nat
  OBVIOUS
<1> HIDE DEF T
<1>1. VacantRows(u, z, n) /\ VacantRows(v, z, m)
  BY <1>0, VacantTableHas
<1> USE DEF T
<1>2. /\ u[0] = z /\ \A i \in 1 .. n : u[i] = <<u[i - 1], u[i - 1]>>
      /\ v[0] = z /\ \A i \in 1 .. m : v[i] = <<v[i - 1], v[i - 1]>>
  BY <1>1 DEF VacantRows
<1>3. 0 \in T
  BY <1>2
<1>4. ASSUME NEW i \in 1 .. m, i - 1 \in T PROVE i \in T
  <2>1. i \in 1 .. n /\ i \in 0 .. m
    OBVIOUS
  <2> QED
    BY <1>2, <1>4, <2>1
<1>5. 0 .. m \subseteq T
  <2> HIDE DEF T
  <2> QED
    BY <1>3, <1>4, LoopInduction
<1> QED
  BY <1>5

(* A vacant tree of the contract has two vacant trees below its root.      *)
LEMMA getRootIs ==
    /\ getRoot(0) = ZERO_BYTES32
    /\ \A h \in Nat \ {0} : getRoot(h) = <<getRoot(h - 1), getRoot(h - 1)>>
<1> DEFINE node(n) == CHOOSE u : VacantTable(u, ZERO_BYTES32, n)
<1>1. \A n : getRoot(n) = node(n)[n]
  BY DEF getRoot, Hash, VacantTable
<1>2. \A n \in Nat : VacantTable(node(n), ZERO_BYTES32, n)
  BY VacantTableIs
<1> HIDE DEF node
<1>3. getRoot(0) = ZERO_BYTES32
  BY <1>1, <1>2, VacantTableHas DEF VacantRows
<1>4. ASSUME NEW h \in Nat \ {0} PROVE getRoot(h) = <<getRoot(h - 1), getRoot(h - 1)>>
  <2>1. h \in Nat /\ h - 1 \in Nat /\ h - 1 \in 0 .. h /\ h - 1 \in 0 .. h - 1 /\ h \in 1 .. h
    OBVIOUS
  <2>2. VacantTable(node(h), ZERO_BYTES32, h) /\ VacantTable(node(h - 1), ZERO_BYTES32, h - 1)
    BY <1>2, <2>1
  <2>3. node(h)[h] = <<node(h)[h - 1], node(h)[h - 1]>>
    BY <2>1, <2>2, VacantTableHas DEF VacantRows
  <2>4. \A i \in 0 .. h - 1 : node(h)[i] = node(h - 1)[i]
    BY ONLY <2>1, <2>2, VacantTablesAgree
  <2> QED
    BY <1>1, <2>1, <2>3, <2>4
<1> QED
  BY <1>3, <1>4

(* The client has the same hashes for its trees, counted from the root.    *)
LEMMA zerosAre ==
    ASSUME Zero = ZERO_BYTES32, NEW d \in Nat
    PROVE  \A h \in 0 .. d : zeros(d)[d - h] = getRoot(h)
<1> DEFINE node(n) == CHOOSE u : VacantTable(u, ZERO_BYTES32, n)
<1>1. \A n : getRoot(n) = node(n)[n]
  BY DEF getRoot, Hash, VacantTable
<1>2. zeros(d) = [level \in 0 .. d |-> node(d)[d - level]]
  BY DEF zeros, hash2, VacantTable
<1>3. \A n \in Nat : VacantTable(node(n), ZERO_BYTES32, n)
  BY VacantTableIs
<1> HIDE DEF node
<1>4. ASSUME NEW h \in 0 .. d PROVE zeros(d)[d - h] = getRoot(h)
  <2>1. d - h \in 0 .. d /\ d - (d - h) = h /\ h \in Nat /\ h \in 0 .. h
    OBVIOUS
  <2>2. node(d)[h] = node(h)[h]
    <3>1. VacantTable(node(d), ZERO_BYTES32, d) /\ VacantTable(node(h), ZERO_BYTES32, h)
      BY <1>3, <2>1
    <3>2. \A i \in 0 .. h : node(d)[i] = node(h)[i]
      BY ONLY <3>1, h \in 0 .. d, d \in Nat, h \in Nat, VacantTablesAgree
    <3> QED
      BY <2>1, <3>2
  <2> QED
    BY <1>1, <1>2, <2>1, <2>2
<1> QED
  BY <1>4

(* Every node above the leaves is the hash of the two below it, and where  *)
(* nothing is stored it is that of a vacant tree.                          *)
Hashed(t, l, x) ==
    getNode(t, l - 1, x) =
        <<getNode(t, l, 2 * x), getNode(t, l, 2 * x + 1)>>
AllHashed(d, t) == HasFields(d, t) /\ \A l \in 1 .. d, x \in Nat : Hashed(t, l, x)

(* The stretch above a stretch is that of the nodes above its nodes.       *)
LEMMA StretchAbove ==
    ASSUME NEW o \in Nat, NEW n \in Nat, n >= 1
    PROVE  LET wide == Widened(o, n)
               half == wide.len \div 2
           IN  /\ wide.offset = 2 * (o \div 2) /\ wide.offset \div 2 = o \div 2
               /\ o \div 2 \in Nat /\ half \in Nat /\ half >= 1
               /\ \A x \in Nat : o \div 2 <= x /\ x < o \div 2 + half
                                   <=> o <= 2 * x + 1 /\ 2 * x < o + n
<1> DEFINE a == o \div 2
           b == o % 2
           m == (n + b) % 2
           h == (n + b + m) \div 2
<1>1. a \in Nat /\ b \in 0 .. 1 /\ o = 2 * a + b
  OBVIOUS
<1>2. m \in 0 .. 1 /\ h \in Nat /\ n + b + m = 2 * h
  OBVIOUS
<1>3. Widened(o, n) = [offset |-> o - b, len |-> n + b + m]
  BY DEF Widened
<1> HIDE DEF a, b, m, h
<1>4. o - b = 2 * a /\ (o - b) \div 2 = a
  BY <1>1
<1>5. h >= 1 /\ \A x \in Nat : a <= x /\ x < a + h <=> o <= 2 * x + 1 /\ 2 * x < o + n
  BY <1>1, <1>2
<1> QED
  BY <1>1, <1>2, <1>3, <1>4, <1>5 DEF a, h

(* A turn hashes the couples of the stretch, and nothing else changes.     *)
LEMMA CouplesAre ==
    ASSUME NEW d \in Nat, NEW up, NEW t, NEW o \in Nat, NEW n \in Nat, n >= 1, HasFields(d, t),
           up = [t |-> t, offset |-> o, len |-> n], NEW level \in 1 .. d
    PROVE  LET r == updateCouples(up, level)
           IN  /\ \E half \in Nat :
                     /\ r = [t |-> r.t, offset |-> o \div 2, len |-> half] /\ half >= 1
                     /\ \A x \in Nat : o \div 2 <= x /\ x < o \div 2 + half
                                         <=> o <= 2 * x + 1 /\ 2 * x < o + n
               /\ HasFields(d, r.t)
               /\ \A l, x \in Nat :
                     getNode(r.t, l, x) =
                        IF l = level - 1 /\ o <= 2 * x + 1 /\ 2 * x < o + n
                        THEN <<getNode(t, level, 2 * x),
                               getNode(t, level, 2 * x + 1)>>
                        ELSE getNode(t, l, x)
<1> DEFINE wide == Widened(o, n)
           half == wide.len \div 2
           nodes == [k \in 1 .. half |->
                        <<getNode(t, level, wide.offset + 2 * k - 2),
                          getNode(t, level, wide.offset + 2 * k - 1)>>]
           r == updateCouples(up, level)
           p == Put(t, level - 1, o \div 2, nodes)
<1>1. /\ wide.offset = 2 * (o \div 2) /\ wide.offset \div 2 = o \div 2
      /\ o \div 2 \in Nat /\ half \in Nat /\ half >= 1
      /\ \A x \in Nat : o \div 2 <= x /\ x < o \div 2 + half
                          <=> o <= 2 * x + 1 /\ 2 * x < o + n
  BY StretchAbove
<1>2. r = [t |-> Put(t, level - 1, wide.offset \div 2, nodes),
           offset |-> wide.offset \div 2, len |-> half]
  BY DEF updateCouples, hash2
<1>3. r = [t |-> p, offset |-> o \div 2, len |-> half]
  BY <1>1, <1>2
<1>4. Len(nodes) = half /\ level - 1 \in Nat
  BY <1>1
<1>5. \A x \in Nat : o \div 2 <= x /\ x < o \div 2 + half =>
          nodes[x - o \div 2 + 1] = <<getNode(t, level, 2 * x),
                                      getNode(t, level, 2 * x + 1)>>
  <2> SUFFICES ASSUME NEW x \in Nat, o \div 2 <= x /\ x < o \div 2 + half
               PROVE  nodes[x - o \div 2 + 1] = <<getNode(t, level, 2 * x),
                                                  getNode(t, level, 2 * x + 1)>>
    OBVIOUS
  <2> HIDE DEF wide, half
  <2> DEFINE k == x - o \div 2 + 1
  <2>1. k \in 1 .. half
    BY <1>1
  <2>2. wide.offset + 2 * k - 2 = 2 * x /\ wide.offset + 2 * k - 1 = 2 * x + 1
    BY <1>1
  <2> HIDE DEF k
  <2>3. nodes[k] = <<getNode(t, level, 2 * x), getNode(t, level, 2 * x + 1)>>
    BY <2>1, <2>2
  <2> QED
    BY <2>3 DEF k
<1> HIDE DEF wide, half, nodes, r, p
<1>6. /\ HasFields(d, p)
      /\ \A l, x \in Nat :
            getNode(p, l, x) =
                IF l = level - 1 /\ o \div 2 <= x /\ x < o \div 2 + half
                THEN nodes[x - o \div 2 + 1] ELSE getNode(t, l, x)
  <2>1. o \div 2 \in Nat /\ half \in Nat /\ Len(nodes) = half
    BY <1>1, <1>4
  <2>2. HasFields(d, p)
    BY ONLY d \in Nat, HasFields(d, t), <2>1, PutIs DEF p
  <2>3. \A l, x \in Nat :
           getNode(p, l, x) =
               IF l = level - 1 /\ o \div 2 <= x /\ x < o \div 2 + half
               THEN nodes[x - o \div 2 + 1] ELSE getNode(t, l, x)
    <3>1. NodesPut(p, t, level - 1, o \div 2, half, nodes)
      BY ONLY d \in Nat, HasFields(d, t), <2>1, PutIs DEF p
    <3> QED
      BY <3>1 DEF NodesPut
  <2> QED
    BY <2>2, <2>3
<1>7. r.t = p /\ r = [t |-> r.t, offset |-> o \div 2, len |-> half]
  BY <1>3
<1>8. \A l, x \in Nat :
         getNode(r.t, l, x) =
            IF l = level - 1 /\ o <= 2 * x + 1 /\ 2 * x < o + n
            THEN <<getNode(t, level, 2 * x), getNode(t, level, 2 * x + 1)>>
            ELSE getNode(t, l, x)
  BY <1>1, <1>5, <1>6, <1>7
<1> QED
  BY <1>1, <1>6, <1>7, <1>8 DEF r

(* A tree of which only the couples over a stretch of one level are not    *)
(* hashed, and that has the leaves of another.                             *)
HashedBut(d, t, level, o, n) ==
    /\ HasFields(d, t)
    /\ \A l \in 1 .. d, x \in Nat :
          Hashed(t, l, x) \/ (l = level /\ o <= 2 * x + 1 /\ 2 * x < o + n)
SameLeaves(d, t, s) ==
    \A x \in Nat : getNode(t, d, x) = getNode(s, d, x)

(* A turn of ascend() hashes the couples of its stretch, leaves no leaf    *)
(* changed, and leaves only couples one level above unhashed.              *)
LEMMA TurnHashes ==
    ASSUME NEW d \in Nat, NEW up, NEW t, NEW o \in Nat, NEW n \in Nat, n >= 1,
           up = [t |-> t, offset |-> o, len |-> n], NEW level \in 1 .. d,
           HashedBut(d, t, level, o, n)
    PROVE  LET r == updateCouples(up, level)
           IN  /\ SameLeaves(d, r.t, t)
               /\ \E half \in Nat :
                     /\ half >= 1 /\ r = [t |-> r.t, offset |-> o \div 2, len |-> half]
                     /\ HashedBut(d, r.t, level - 1, o \div 2, half)
<1> DEFINE r == updateCouples(up, level)
           a == o \div 2
           above(x) == o <= 2 * x + 1 /\ 2 * x < o + n
           before(l, x) == getNode(t, l, x)
           now(l, x) == getNode(r.t, l, x)
<1>0. a \in Nat /\ d \in Nat /\ level - 1 \in Nat /\ level \in Nat
  OBVIOUS
<1>1. HasFields(d, t) /\ \A l \in 1 .. d, x \in Nat :
                         Hashed(t, l, x) \/ (l = level /\ above(x))
  BY DEF HashedBut
<1>2. PICK half \in Nat :
         /\ r = [t |-> r.t, offset |-> a, len |-> half] /\ half >= 1
         /\ \A x \in Nat : a <= x /\ x < a + half <=> above(x)
  <2> HIDE DEF r
  <2> QED
    BY <1>1, CouplesAre DEF r
<1>3. /\ HasFields(d, r.t)
      /\ \A l, x \in Nat : now(l, x) = IF l = level - 1 /\ above(x)
                                       THEN <<before(level, 2 * x), before(level, 2 * x + 1)>>
                                       ELSE before(l, x)
  <2> HIDE DEF r
  <2> QED
    BY <1>1, CouplesAre DEF r
<1> HIDE DEF r, a, above, before, now
<1>4. SameLeaves(d, r.t, t)
  <2>1. d # level - 1
    BY <1>0
  <2>2. \A x \in Nat : now(d, x) = before(d, x)
    BY <1>0, <1>3, <2>1
  <2> QED
    BY <2>2 DEF SameLeaves, now, before
<1>5. ASSUME NEW l \in 1 .. d, NEW x \in Nat
      PROVE  Hashed(r.t, l, x) \/ (l = level - 1 /\ a <= 2 * x + 1 /\ 2 * x < a + half)
  <2>0. /\ l \in Nat /\ l - 1 \in Nat /\ l # l - 1 /\ 2 * x \in Nat /\ 2 * x + 1 \in Nat
        /\ level # level - 1
    BY <1>0
  <2>1. ASSUME now(l - 1, x) = <<now(l, 2 * x), now(l, 2 * x + 1)>>
        PROVE  Hashed(r.t, l, x)
    BY <2>1 DEF Hashed, now
  <2>2. ASSUME Hashed(t, l, x)
        PROVE  before(l - 1, x) = <<before(l, 2 * x), before(l, 2 * x + 1)>>
    BY <2>2 DEF Hashed, before
  <2>3. CASE l = level /\ above(x)
    <3>1. now(l - 1, x) = <<before(l, 2 * x), before(l, 2 * x + 1)>>
      BY <1>3, <2>0, <2>3
    <3>2. now(l, 2 * x) = before(l, 2 * x) /\ now(l, 2 * x + 1) = before(l, 2 * x + 1)
      BY <1>3, <2>0, <2>3
    <3> QED
      BY <2>1, <3>1, <3>2
  <2>4. CASE ~(l = level /\ above(x)) /\ l # level - 1
    <3>1. now(l - 1, x) = before(l - 1, x)
      <4>1. ~(l - 1 = level - 1 /\ above(x))
        BY <1>0, <2>0, <2>4
      <4> QED
        BY <1>3, <2>0, <4>1
    <3>2. now(l, 2 * x) = before(l, 2 * x) /\ now(l, 2 * x + 1) = before(l, 2 * x + 1)
      BY <1>3, <2>0, <2>4
    <3>3. Hashed(t, l, x)
      BY <1>1, <2>4
    <3> QED
      BY <2>1, <2>2, <3>1, <3>2, <3>3
  <2>5. CASE l = level - 1 /\ ~(a <= 2 * x + 1 /\ 2 * x < a + half)
    <3>1. ~above(2 * x) /\ ~above(2 * x + 1)
      <4>1. ~(a <= 2 * x /\ 2 * x < a + half) /\ ~(a <= 2 * x + 1 /\ 2 * x + 1 < a + half)
        BY <1>0, <2>5
      <4> QED
        BY <1>2, <2>0, <4>1
    <3>2. now(l, 2 * x) = before(l, 2 * x) /\ now(l, 2 * x + 1) = before(l, 2 * x + 1)
      BY <1>3, <2>0, <3>1
    <3>3. now(l - 1, x) = before(l - 1, x)
      BY <1>3, <2>0, <2>5
    <3>4. Hashed(t, l, x)
      BY <1>1, <2>0, <2>5
    <3> QED
      BY <2>1, <2>2, <3>2, <3>3, <3>4
  <2> QED
    BY <2>3, <2>4, <2>5
<1>6. HashedBut(d, r.t, level - 1, a, half)
  BY <1>3, <1>5 DEF HashedBut
<1> QED
  BY <1>2, <1>4, <1>6 DEF r, a

(* After its last turn no couple is left unhashed.                         *)
LEMMA AscendHashes ==
    ASSUME NEW d \in Nat, NEW t, NEW o \in Nat, NEW n \in Nat, n >= 1, HashedBut(d, t, d, o, n)
    PROVE  /\ AllHashed(d, ascend(t, o, n))
           /\ SameLeaves(d, ascend(t, o, n), t)
<1> DEFINE Risen(e, i) ==
              /\ SameLeaves(d, e.t, t)
              /\ \E p \in Nat, m \in Nat :
                    /\ m >= 1 /\ e = [t |-> e.t, offset |-> p, len |-> m]
                    /\ HashedBut(d, e.t, d - i, p, m)
<1>0. d \in Nat
  OBVIOUS
<1>1. t.depth = d
  BY DEF HashedBut, HasFields
<1>2. PICK u : Rising(d, u, t, o, n) /\ ascend(t, o, n) = u[d].t
  BY <1>1, ascendIs
<1> DEFINE T == {i \in 0 .. d : Risen(u[i], i)}
<1>3. 0 \in T
  <2>1. u[0] = [t |-> t, offset |-> o, len |-> n]
    BY <1>2 DEF Rising
  <2>2. u[0].t = t /\ d - 0 = d
    BY <1>0, <2>1
  <2>3. Risen(u[0], 0)
    BY <2>1, <2>2 DEF SameLeaves
  <2> QED
    BY <1>0, <2>3
<1>4. ASSUME NEW i \in 1 .. d, i - 1 \in T PROVE i \in T
  <2> DEFINE e == u[i - 1]
             level == d - i + 1
  <2>1. level \in 1 .. d /\ level = d - (i - 1) /\ level - 1 = d - i
    BY <1>0
  <2>2. u[i] = updateCouples(e, level)
    BY <1>2 DEF Rising
  <2>3. SameLeaves(d, e.t, t)
    BY <1>4
  <2>4. PICK p \in Nat, m \in Nat : /\ m >= 1 /\ e = [t |-> e.t, offset |-> p, len |-> m]
                                    /\ HashedBut(d, e.t, d - (i - 1), p, m)
    BY <1>4
  <2> HIDE DEF e, level
  <2>5. /\ SameLeaves(d, u[i].t, e.t)
        /\ \E half \in Nat :
              /\ half >= 1 /\ u[i] = [t |-> u[i].t, offset |-> p \div 2, len |-> half]
              /\ HashedBut(d, u[i].t, level - 1, p \div 2, half)
    <3>1. HashedBut(d, e.t, level, p, m)
      BY <2>1, <2>4
    <3> QED
      BY <2>1, <2>2, <2>4, <3>1, TurnHashes
  <2>6. SameLeaves(d, u[i].t, t)
    BY <2>3, <2>5 DEF SameLeaves
  <2>7. p \div 2 \in Nat
    OBVIOUS
  <2>8. Risen(u[i], i)
    BY <2>1, <2>5, <2>6, <2>7
  <2> QED
    BY <2>8
<1>5. 0 .. d \subseteq T
  <2> HIDE DEF T
  <2> QED
    BY <1>0, <1>3, <1>4, LoopInduction
<1>6. Risen(u[d], d)
  <2>1. d \in T
    BY <1>0, <1>5
  <2> QED
    BY <2>1
<1>7. \A l \in 1 .. d : l # d - d
  BY <1>0
<1>8. AllHashed(d, u[d].t)
  BY <1>6, <1>7 DEF HashedBut, AllHashed
<1> QED
  BY <1>2, <1>6, <1>8

(* A new tree is hashed, and stays so when leaves are written.             *)
LEMMA NewIsHashed ==
    ASSUME Zero = ZERO_BYTES32, NEW d \in Nat
    PROVE  /\ AllHashed(d, New(d))
           /\ \A x \in Nat : getNode(New(d), d, x) = Zero
<1> DEFINE t == New(d)
<1>1. t = [depth |-> d, zeros |-> zeros(d), tree |-> <<>>]
  BY DEF New
<1>2. HasFields(d, t)
  BY <1>1 DEF HasFields
<1>3. ASSUME NEW l \in 0 .. d, NEW x \in Nat
      PROVE  getNode(t, l, x) = getRoot(d - l)
  <2>1. <<l, x>> \notin DOMAIN t.tree
    <3>1. DOMAIN <<>> = {}
      OBVIOUS
    <3> QED
      BY <1>1, <3>1
  <2>2. getNode(t, l, x) = zeros(d)[l]
    BY <1>1, <2>1 DEF getNode
  <2>3. d - l \in 0 .. d /\ d - (d - l) = l
    OBVIOUS
  <2> QED
    BY <2>2, <2>3, zerosAre
<1> HIDE DEF t
<1>4. ASSUME NEW l \in 1 .. d, NEW x \in Nat PROVE Hashed(t, l, x)
  <2>1. /\ l \in 0 .. d /\ l - 1 \in 0 .. d /\ 2 * x \in Nat /\ 2 * x + 1 \in Nat
        /\ d - (l - 1) \in 1 .. d /\ d - (l - 1) - 1 = d - l
    OBVIOUS
  <2>2. getRoot(d - (l - 1)) = <<getRoot(d - l), getRoot(d - l)>>
    <3> DEFINE k == d - (l - 1)
    <3>1. k \in Nat \ {0} /\ k - 1 = d - l
      OBVIOUS
    <3> HIDE DEF k
    <3>2. getRoot(k) = <<getRoot(d - l), getRoot(d - l)>>
      BY <3>1, getRootIs
    <3> QED
      BY <3>2 DEF k
  <2> QED
    BY <1>3, <2>1, <2>2 DEF Hashed
<1>5. \A x \in Nat : getNode(t, d, x) = Zero
  <2>1. d \in 0 .. d /\ d - d = 0
    OBVIOUS
  <2> QED
    BY <1>3, <2>1, getRootIs
<1> QED
  BY <1>2, <1>4, <1>5 DEF AllHashed, t

(* The leaves of r are those of t, but for n nodes that were written.      *)
LeavesWritten(d, r, t, o, n, nodes) ==
    \A x \in Nat : getNode(r, d, x) =
        IF o <= x /\ x < o + n THEN nodes[x - o + 1] ELSE getNode(t, d, x)

(* A write of leaves and the ascent from them: the leaves written have     *)
(* changed, no other leaf has, and every node is the hash of its couple.   *)
LEMMA WrittenIsHashed ==
    ASSUME NEW d \in Nat, NEW t, AllHashed(d, t), NEW o \in Nat, NEW n \in Nat, n >= 1, NEW nodes, Len(nodes) = n
    PROVE  LET r == ascend(Put(t, d, o, nodes), o, n)
           IN  AllHashed(d, r) /\ LeavesWritten(d, r, t, o, n, nodes)
<1> DEFINE p == Put(t, d, o, nodes)
<1>0. d \in Nat
  OBVIOUS
<1>1. /\ HasFields(d, p)
      /\ \A l, x \in Nat :
            getNode(p, l, x) = IF l = d /\ o <= x /\ x < o + n
                                      THEN nodes[x - o + 1] ELSE getNode(t, l, x)
  <2>1. HasFields(d, p)
    BY PutIs DEF AllHashed
  <2>2. NodesPut(p, t, d, o, n, nodes)
    BY PutIs DEF AllHashed
  <2> QED
    BY <2>1, <2>2 DEF NodesPut
<1> HIDE DEF p
<1>2. ASSUME NEW l \in 1 .. d, NEW x \in Nat
      PROVE  Hashed(p, l, x) \/ (l = d /\ o <= 2 * x + 1 /\ 2 * x < o + n)
  <2>1. l \in Nat /\ l - 1 \in Nat /\ l - 1 # d /\ 2 * x \in Nat /\ 2 * x + 1 \in Nat
    BY <1>0
  <2>2. getNode(t, l - 1, x) =
            <<getNode(t, l, 2 * x), getNode(t, l, 2 * x + 1)>>
    BY DEF AllHashed, Hashed
  <2>3. getNode(p, l - 1, x) = getNode(t, l - 1, x)
    BY <1>1, <2>1
  <2>4. CASE ~(l = d /\ o <= 2 * x + 1 /\ 2 * x < o + n)
    <3>1. /\ ~(l = d /\ o <= 2 * x /\ 2 * x < o + n)
          /\ ~(l = d /\ o <= 2 * x + 1 /\ 2 * x + 1 < o + n)
      BY <2>1, <2>4
    <3>2. /\ getNode(p, l, 2 * x) = getNode(t, l, 2 * x)
          /\ getNode(p, l, 2 * x + 1) = getNode(t, l, 2 * x + 1)
      BY <1>1, <2>1, <3>1
    <3> QED
      BY <2>2, <2>3, <3>2 DEF Hashed
  <2> QED
    BY <2>4
<1>3. HashedBut(d, p, d, o, n)
  BY <1>1, <1>2 DEF HashedBut
<1>4. AllHashed(d, ascend(p, o, n)) /\ SameLeaves(d, ascend(p, o, n), p)
  BY <1>3, AscendHashes
<1>5. \A x \in Nat : getNode(ascend(p, o, n), d, x) =
                      IF o <= x /\ x < o + n THEN nodes[x - o + 1]
                      ELSE getNode(t, d, x)
  BY <1>0, <1>1, <1>4 DEF SameLeaves
<1> QED
  BY <1>4, <1>5 DEF p, LeavesWritten

(* What the write of one leaf does to the leaves of a tree.                *)
LEMMA updateSingleIs ==
    ASSUME NEW d \in Nat, NEW t, AllHashed(d, t), NEW index \in Nat, index < TwoTo[d], NEW leaf
    PROVE  LET r == updateSingle(t, index, leaf)
           IN  /\ AllHashed(d, r)
               /\ \A x \in Nat : getNode(r, d, x) =
                      IF x = index THEN leaf ELSE getNode(t, d, x)
<1> DEFINE r == updateSingle(t, index, leaf)
<1>1. t.depth = d /\ TwoTo[d] \in Nat
  BY TwoToIs DEF AllHashed, HasFields
<1>0. PICK nodes : nodes = <<leaf>>
  OBVIOUS
<1>n. PICK n \in Nat : n = 1
  OBVIOUS
<1>2. r = ascend(Put(t, d, index, nodes), index, n)
  BY <1>0, <1>n, <1>1 DEF updateSingle
<1>3. n >= 1 /\ Len(nodes) = n /\ nodes[1] = leaf
  BY <1>0, <1>n
<1> USE <1>3
<1> HIDE DEF r
<1> DEFINE w == ascend(Put(t, d, index, nodes), index, n)
<1>4. AllHashed(d, w)
  BY ONLY d \in Nat, AllHashed(d, t), index \in Nat, n \in Nat, n >= 1, Len(nodes) = n, WrittenIsHashed
<1>5. \A x \in Nat : getNode(w, d, x) =
          IF index <= x /\ x < index + n THEN nodes[x - index + 1]
          ELSE getNode(t, d, x)
  <2>1. LeavesWritten(d, w, t, index, n, nodes)
    BY ONLY d \in Nat, AllHashed(d, t), index \in Nat, n \in Nat, n >= 1, Len(nodes) = n,
            WrittenIsHashed
  <2> QED
    BY <2>1 DEF LeavesWritten
<1>6. \A x \in Nat : /\ index <= x /\ x < index + n <=> x = index
                     /\ x = index => x - index + 1 = 1
  BY <1>n
<1> QED
  BY <1>2, <1>3, <1>4, <1>5, <1>6 DEF r

(* What the write of a batch does to the leaves of a tree.                 *)
LEMMA updateBatchIs ==
    ASSUME NEW d \in Nat, NEW t, AllHashed(d, t), NEW offset \in Nat, NEW n \in Nat, n >= 1,
           NEW data, Len(data) = n, offset + n <= TwoTo[d]
    PROVE  LET r == updateBatch(t, offset, data)
           IN  /\ AllHashed(d, r)
               /\ \A x \in Nat : getNode(r, d, x) =
                      IF offset <= x /\ x < offset + n THEN data[x - offset + 1]
                      ELSE getNode(t, d, x)
<1>1. t.depth = d /\ TwoTo[d] \in Nat
  BY TwoToIs DEF AllHashed, HasFields
<1>2. data # <<>>
  <2>1. Len(<<>>) = 0
    OBVIOUS
  <2> QED
    BY <2>1
<1>3. ~(Len(data) + offset > TwoTo[t.depth])
  BY <1>1
<1>4. updateBatch(t, offset, data) =
          ascend(Put(t, d, offset, data), offset, n)
  <2>1. updateBatch(t, offset, data) =
            ascend(Put(t, t.depth, offset, data), offset, Len(data))
    BY <1>2, <1>3, Zenon DEF updateBatch
  <2> QED
    BY <1>1, <2>1
<1> DEFINE w == ascend(Put(t, d, offset, data), offset, n)
<1>5. AllHashed(d, w)
  BY ONLY d \in Nat, AllHashed(d, t), offset \in Nat, n \in Nat, n >= 1, Len(data) = n, WrittenIsHashed
<1>6. \A x \in Nat : getNode(w, d, x) =
         IF offset <= x /\ x < offset + n THEN data[x - offset + 1]
         ELSE getNode(t, d, x)
  <2>1. LeavesWritten(d, w, t, offset, n, data)
    BY ONLY d \in Nat, AllHashed(d, t), offset \in Nat, n \in Nat, n >= 1, Len(data) = n,
            WrittenIsHashed
  <2> QED
    BY <2>1 DEF LeavesWritten
<1> QED
  BY <1>4, <1>5, <1>6

(* A witness leads from its node to the root, and from no other node.      *)
LEMMA WitnessLeads ==
    ASSUME NEW d \in Nat, NEW t, AllHashed(d, t), NEW level \in 0 .. d, NEW index \in Nat, NEW u,
           Opening(u, getNode(t, level, index), index,
                   witness(t, index, level), level)
    PROVE  u[level] = getNode(t, 0, Shifted(index, level))
<1> DEFINE at(i) == Shifted(index, i)
           beside == witness(t, index, level)
           T == {i \in 0 .. level : u[i] = getNode(t, level - i, at(i))}
<1>0. level \in Nat /\ level <= d
  OBVIOUS
<1>1. /\ at(0) = index
      /\ \A i \in Nat : at(i) \in Nat /\ at(i + 1) = at(i) \div 2
  BY ShiftedIs
<1>2. 0 \in T
  <2>1. level - 0 = level
    BY <1>0
  <2> QED
    BY <1>0, <1>1, <2>1 DEF Opening
<1>3. ASSUME NEW i \in 1 .. level, i - 1 \in T PROVE i \in T
  <2> DEFINE a == at(i - 1)
             b == at(i)
             l == level - (i - 1)
  <2>1. /\ i \in 0 .. level /\ i - 1 \in Nat /\ l \in 1 .. d
        /\ l - 1 = level - i /\ l = level - i + 1
    BY <1>0
  <2>2. a \in Nat /\ b \in Nat /\ b = a \div 2
    <3>1. i \in Nat /\ i - 1 + 1 = i
      BY <2>1
    <3> HIDE DEF at
    <3> QED
      BY <1>1, <2>1, <3>1
  <2>3. beside[i] = getNode(t, l, Sibling(a))
    BY <2>1 DEF witness
  <2>4. u[i - 1] = getNode(t, l, a)
    BY <1>3
  <2>5. IsSet(index, i - 1) <=> a % 2 = 1
    BY DEF IsSet
  <2>6. u[i] = IF IsSet(index, i - 1) THEN <<beside[i], u[i - 1]>>
               ELSE <<u[i - 1], beside[i]>>
    BY DEF Opening
  <2>7. getNode(t, l - 1, b) =
            <<getNode(t, l, 2 * b), getNode(t, l, 2 * b + 1)>>
    BY <2>1, <2>2 DEF AllHashed, Hashed
  <2> HIDE DEF a, b, l, beside, at
  <2>8. CASE a % 2 = 1
    <3>1. a = 2 * b + 1 /\ Sibling(a) = 2 * b
      BY <2>2, <2>8 DEF Sibling
    <3>2. u[i] = <<beside[i], u[i - 1]>>
      BY <2>5, <2>6, <2>8
    <3> QED
      BY <2>1, <2>3, <2>4, <2>7, <3>1, <3>2 DEF b
  <2>9. CASE a % 2 = 0
    <3>1. a = 2 * b /\ Sibling(a) = 2 * b + 1
      BY <2>2, <2>9 DEF Sibling
    <3>2. u[i] = <<u[i - 1], beside[i]>>
      BY <2>5, <2>6, <2>9
    <3> QED
      BY <2>1, <2>3, <2>4, <2>7, <3>1, <3>2 DEF b
  <2> QED
    BY <2>2, <2>8, <2>9
<1>4. 0 .. level \subseteq T
  <2> HIDE DEF T
  <2> QED
    BY <1>0, <1>2, <1>3, LoopInduction
<1>5. level \in T /\ level - level = 0
  BY <1>0, <1>4
<1> QED
  BY <1>5

(* The same witness leads two nodes to one root just if they are one.      *)
LEMMA OpenedOnce ==
    ASSUME NEW n \in Nat, NEW path, NEW beside, NEW p, NEW q, NEW u, NEW v,
           Opening(u, p, path, beside, n), Opening(v, q, path, beside, n)
    PROVE  u[n] = v[n] <=> p = q
<1> DEFINE T == {i \in 0 .. n : u[i] = v[i] <=> p = q}
<1>1. 0 \in T
  BY DEF Opening
<1>2. ASSUME NEW i \in 1 .. n, i - 1 \in T PROVE i \in T
  <2>1. u[i] = IF IsSet(path, i - 1) THEN <<beside[i], u[i - 1]>>
               ELSE <<u[i - 1], beside[i]>>
    BY DEF Opening
  <2>2. v[i] = IF IsSet(path, i - 1) THEN <<beside[i], v[i - 1]>>
               ELSE <<v[i - 1], beside[i]>>
    BY DEF Opening
  <2>3. u[i] = v[i] <=> u[i - 1] = v[i - 1]
    BY <2>1, <2>2
  <2> QED
    BY <1>2, <2>3
<1>3. 0 .. n \subseteq T
  <2> HIDE DEF T
  <2> QED
    BY <1>1, <1>2, LoopInduction
<1> QED
  BY <1>3

(* The witness of a node leads to the root of the tree from that node and  *)
(* from no other.                                                          *)
LEMMA OpensItsNode ==
    ASSUME NEW d \in Nat, NEW t, AllHashed(d, t), NEW level \in 0 .. d, NEW index \in Nat,
           index < TwoTo[level], NEW node, NEW u,
           Opening(u, node, index, witness(t, index, level), level)
    PROVE  u[level] = root(t) <=> node = getNode(t, level, index)
<1> DEFINE beside == witness(t, index, level)
<1>0. level \in Nat
  OBVIOUS
<1>1. PICK v : Opening(v, getNode(t, level, index), index, beside, level)
  BY <1>0, OpeningIs
<1>2. v[level] = getNode(t, 0, Shifted(index, level))
  BY <1>1, WitnessLeads
<1>3. Shifted(index, level) = 0
  BY <1>0, ShiftedBelow
<1>4. v[level] = root(t)
  BY <1>2, <1>3 DEF root
<1> HIDE DEF beside
<1>5. u[level] = v[level] <=> node = getNode(t, level, index)
  BY <1>0, <1>1, OpenedOnce DEF beside
<1> QED
  BY <1>4, <1>5

(* All numbers of a stretch are in a set.                                  *)
StretchIn(S, from, size) == \A i \in 0 .. size - 1 : from + i \in S

(* A stretch is full just if its halves are.                               *)
LEMMA TwoStretches ==
    ASSUME NEW s \in Nat, NEW m \in Nat, NEW S
    PROVE  StretchIn(S, m, s + s) <=> StretchIn(S, m, s) /\ StretchIn(S, m + s, s)
<1>1. ASSUME StretchIn(S, m, s + s) PROVE StretchIn(S, m, s) /\ StretchIn(S, m + s, s)
  <2>1. \A i \in 0 .. s - 1 : m + i \in S
    BY <1>1 DEF StretchIn
  <2>2. ASSUME NEW i \in 0 .. s - 1 PROVE m + s + i \in S
    <3>1. s + i \in 0 .. s + s - 1 /\ m + s + i = m + (s + i)
      OBVIOUS
    <3> QED
      BY <1>1, <3>1 DEF StretchIn
  <2> QED
    BY <2>1, <2>2 DEF StretchIn
<1>2. ASSUME StretchIn(S, m, s), StretchIn(S, m + s, s) PROVE StretchIn(S, m, s + s)
  <2>1. ASSUME NEW i \in 0 .. s + s - 1 PROVE m + i \in S
    <3>1. CASE i < s
      <4>1. i \in 0 .. s - 1
        BY <3>1
      <4> QED
        BY <1>2, <4>1 DEF StretchIn
    <3>2. CASE i >= s
      <4>1. i - s \in 0 .. s - 1 /\ m + s + (i - s) = m + i
        BY <3>2
      <4> QED
        BY <1>2, <4>1 DEF StretchIn
    <3> QED
      BY <3>1, <3>2
  <2> QED
    BY <2>1 DEF StretchIn
<1> QED
  BY <1>1, <1>2

(* A node is the hash of a vacant tree just if no leaf below it is taken.  *)
LEMMA VacantNode ==
    ASSUME Zero = ZERO_BYTES32, NEW d \in Nat, NEW t, AllHashed(d, t), NEW V,
           V = {x \in Nat : getNode(t, d, x) = Zero}
    PROVE  \A h \in 0 .. d, x \in Nat :
              getNode(t, d - h, x) = getRoot(h)
                 <=> StretchIn(V, x * TwoTo[h], TwoTo[h])
<1> DEFINE T == {h \in 0 .. d : \A x \in Nat :
                    getNode(t, d - h, x) = getRoot(h)
                        <=> StretchIn(V, x * TwoTo[h], TwoTo[h])}
<1>1. 0 \in T
  <2>1. d - 0 = d /\ 0 \in 0 .. d /\ getRoot(0) = Zero /\ TwoTo[0] = 1
    BY getRootIs, TwoToIs
  <2>2. ASSUME NEW x \in Nat
        PROVE  getNode(t, d, x) = Zero <=> StretchIn(V, x * TwoTo[0], TwoTo[0])
    <3>1. x * TwoTo[0] = x
      BY <2>1
    <3>2. StretchIn(V, x, 1) <=> x \in V
      BY DEF StretchIn
    <3> QED
      BY <2>1, <3>1, <3>2
  <2> QED
    BY <2>1, <2>2
<1>2. ASSUME NEW h \in 1 .. d, h - 1 \in T PROVE h \in T
  <2> DEFINE l == d - (h - 1)
  <2>1. l \in 1 .. d /\ l - 1 = d - h /\ h \in 0 .. d /\ h - 1 \in Nat /\ h - 1 + 1 = h
    OBVIOUS
  <2>2. PICK s \in Nat : s = TwoTo[h - 1] /\ TwoTo[h] = s + s
    BY <2>1, TwoToIs
  <2>3. \A x \in Nat : getNode(t, l, x) = getRoot(h - 1) <=> StretchIn(V, x * s, s)
    BY <1>2, <2>2
  <2>4. getRoot(h) = <<getRoot(h - 1), getRoot(h - 1)>>
    BY getRootIs
  <2> HIDE DEF l
  <2>5. ASSUME NEW x \in Nat
        PROVE  getNode(t, l - 1, x) = getRoot(h) <=> StretchIn(V, x * TwoTo[h], TwoTo[h])
    <3>1. getNode(t, l - 1, x) =
              <<getNode(t, l, 2 * x), getNode(t, l, 2 * x + 1)>>
      BY <2>1 DEF AllHashed, Hashed
    <3>2. 2 * x \in Nat /\ 2 * x + 1 \in Nat
      OBVIOUS
    <3>3. getNode(t, l - 1, x) = getRoot(h)
            <=> /\ getNode(t, l, 2 * x) = getRoot(h - 1)
                /\ getNode(t, l, 2 * x + 1) = getRoot(h - 1)
      BY <2>4, <3>1
    <3>4. PICK m \in Nat : m = x * TwoTo[h] /\ m = (2 * x) * s /\ m + s = (2 * x + 1) * s
      BY <2>2
    <3>5. StretchIn(V, m, s + s) <=> StretchIn(V, m, s) /\ StretchIn(V, m + s, s)
      BY TwoStretches
    <3>6. /\ getNode(t, l, 2 * x) = getRoot(h - 1) <=> StretchIn(V, m, s)
          /\ getNode(t, l, 2 * x + 1) = getRoot(h - 1) <=> StretchIn(V, m + s, s)
      BY <2>3, <3>2, <3>4
    <3> QED
      BY <2>2, <3>3, <3>4, <3>5, <3>6
  <2> QED
    BY <2>1, <2>5
<1>3. 0 .. d \subseteq T
  <2> HIDE DEF T
  <2> QED
    BY <1>1, <1>2, LoopInduction
<1> QED
  BY <1>3

(* The places of a stretch that begins with a multiple of its size.        *)
LEMMA ShiftedBlock ==
    ASSUME NEW h \in Nat
    PROVE  \A b \in Nat : \A j \in 0 .. TwoTo[h] - 1 : Shifted(b * TwoTo[h] + j, h) = b
<1> DEFINE T == {k \in 0 .. h : \A b \in Nat : \A j \in 0 .. TwoTo[k] - 1 :
                                   Shifted(b * TwoTo[k] + j, k) = b}
<1>1. 0 \in T
  <2>1. ASSUME NEW b \in Nat, NEW j \in 0 .. TwoTo[0] - 1
        PROVE  Shifted(b * TwoTo[0] + j, 0) = b
    <3>1. TwoTo[0] = 1
      BY TwoToIs
    <3>2. b * TwoTo[0] + j = b
      BY <3>1
    <3> QED
      BY <3>2, ShiftedIs
  <2> QED
    BY <2>1
<1>2. ASSUME NEW k \in 1 .. h, k - 1 \in T PROVE k \in T
  <2>1. k - 1 \in Nat /\ k - 1 + 1 = k /\ k \in 0 .. h
    OBVIOUS
  <2>2. PICK s \in Nat : s = TwoTo[k - 1] /\ TwoTo[k] = s + s
    BY <2>1, TwoToIs
  <2>3. \A b \in Nat : \A j \in 0 .. s - 1 : Shifted(b * s + j, k - 1) = b
    BY <1>2, <2>2
  <2>4. ASSUME NEW b \in Nat, NEW j \in 0 .. TwoTo[k] - 1
        PROVE  Shifted(b * TwoTo[k] + j, k) = b
    <3>1. PICK number \in Nat : number = b * TwoTo[k] + j
      BY <2>2
    <3>2. Shifted(number, k) = Shifted(number, k - 1) \div 2
      BY <2>1, ShiftedIs
    <3>3. CASE j < s
      <4>1. 2 * b \in Nat /\ j \in 0 .. s - 1 /\ number = (2 * b) * s + j
        BY <2>2, <3>1, <3>3
      <4>2. Shifted(number, k - 1) = 2 * b
        BY <2>3, <4>1
      <4> QED
        BY <3>1, <3>2, <4>2
    <3>4. CASE j >= s
      <4>1. 2 * b + 1 \in Nat /\ j - s \in 0 .. s - 1 /\ number = (2 * b + 1) * s + (j - s)
        BY <2>2, <3>1, <3>4
      <4>2. Shifted(number, k - 1) = 2 * b + 1
        BY <2>3, <4>1
      <4>3. (2 * b + 1) \div 2 = b
        OBVIOUS
      <4> QED
        BY <3>1, <3>2, <4>2, <4>3
    <3> QED
      BY <2>2, <3>3, <3>4
  <2> QED
    BY <2>1, <2>4
<1>3. 0 .. h \subseteq T
  <2> HIDE DEF T
  <2> QED
    BY <1>1, <1>2, LoopInduction
<1> QED
  BY <1>3

(* Of the offsets of a block, only the first is aligned.                   *)
LEMMA AlignedIs ==
    ASSUME NEW h \in Nat, NEW s \in Nat, s = TwoTo[h], NEW b \in Nat, NEW a \in Nat, a = b * s,
           NEW offset \in a .. a + s - 1
    PROVE  IsAligned(offset, h) <=> offset = a
<1>1. PICK j \in 0 .. s - 1 : offset = a + j
  <2>1. offset - a \in 0 .. s - 1 /\ offset = a + (offset - a)
    OBVIOUS
  <2> QED
    BY <2>1
<1>2. IsAligned(offset, h) <=> Shifted(offset, h) = Shifted(offset + s - 1, h)
  BY DEF IsAligned
<1>3. Shifted(offset, h) = b
  BY <1>1, ShiftedBlock
<1>4. CASE j = 0
  <2>1. s - 1 \in 0 .. s - 1 /\ offset + s - 1 = a + (s - 1)
    BY <1>1, <1>4
  <2>2. Shifted(a + (s - 1), h) = b
    BY <2>1, ShiftedBlock
  <2> QED
    BY <1>1, <1>2, <1>3, <1>4, <2>1, <2>2
<1>5. CASE j # 0
  <2>1. j - 1 \in 0 .. s - 1 /\ b + 1 \in Nat
    BY <1>5
  <2>2. Shifted((b + 1) * s + (j - 1), h) = b + 1
    BY <2>1, ShiftedBlock
  <2>3. PICK c \in Nat : c = (b + 1) * s /\ c = a + s
    OBVIOUS
  <2>4. offset + s - 1 = c + (j - 1)
    BY ONLY <1>1, <2>3, a \in Nat, s \in Nat, j \in Nat
  <2> QED
    BY <1>1, <1>2, <1>3, <1>5, <2>2, <2>3, <2>4
<1> QED
  BY <1>4, <1>5

(* A witness from a tree, with the node that it is for or with another, is *)
(* taken by verify() and by checkInclusion() just for the node itself.     *)
LEMMA WitnessesAreTaken ==
    ASSUME NEW d \in Nat, NEW t, AllHashed(d, t), NEW level \in 1 .. d, NEW index \in Nat,
           index < TwoTo[level], NEW node
    PROVE  /\ verify(root(t), node, index, witness(t, index, level))
                 <=> node = getNode(t, level, index)
           /\ checkInclusion(t, [Witness(t, index, level) EXCEPT !.leaf = node])
                 = IF node = getNode(t, level, index) THEN 0 ELSE -1
<1> DEFINE beside == witness(t, index, level)
           left == [i \in 1 .. level |-> ~IsSet(index, i - 1)]
           w == [Witness(t, index, level) EXCEPT !.leaf = node]
<1>0. level \in Nat /\ level \in 0 .. d /\ level >= 1
  OBVIOUS
<1>1. beside = [i \in 1 .. level |-> beside[i]] /\ Len(beside) = level
  <2>1. beside = [i \in 1 .. level |->
                     getNode(t, level - i + 1, Sibling(Shifted(index, i - 1)))]
    BY DEF witness
  <2> HIDE DEF beside
  <2> QED
    BY <1>0, <2>1
<1>2. \A u : Opening(u, node, index, beside, level) =>
                (u[level] = root(t) <=> node = getNode(t, level, index))
  BY <1>0, OpensItsNode
<1>3. w = [path |-> left, nodes |-> beside, leaf |-> node, index |-> index, depth |-> level]
  <2>1. Witness(t, index, level) =
           [path |-> left, nodes |-> beside, leaf |-> getNode(t, level, index),
            index |-> index, depth |-> level]
    BY DEF Witness
  <2> HIDE DEF beside, left
  <2> QED
    BY <2>1
<1>4. Len(left) = level /\ \A i \in 1 .. level : left[i] = ~IsSet(index, i - 1)
  BY <1>0
<1> HIDE DEF beside, left, w
<1>5. verify(root(t), node, index, beside)
         <=> node = getNode(t, level, index)
  BY <1>0, <1>1, <1>2, verifyIs
<1>6. w.depth = level /\ w.path = left /\ w.nodes = beside /\ w.leaf = node
  BY <1>3
<1>7. w.nodes # <<>>
  <2>1. Len(<<>>) = 0
    OBVIOUS
  <2> QED
    BY <1>0, <1>1, <1>6, <2>1
<1>8. checkInclusion(t, w)
         = IF node = getNode(t, level, index) THEN 0 ELSE -1
  <2>1. \A i \in 1 .. level : w.path[i] = ~IsSet(index, i - 1)
    BY <1>4, <1>6, Zenon
  <2>2. PICK u : /\ Opening(u, w.leaf, index, w.nodes, level)
                 /\ checkInclusion(t, w) =
                        IF w.nodes = <<>> THEN -2
                        ELSE IF Len(w.nodes) # Len(w.path) THEN -3
                        ELSE IF u[level] = root(t) THEN 0 ELSE -1
    BY ONLY <1>0, <1>6, <2>1, checkInclusionIs, Zenon
  <2>3. u[level] = root(t) <=> node = getNode(t, level, index)
    BY <1>2, <1>6, <2>2
  <2>4. Len(w.nodes) = Len(w.path)
    BY <1>1, <1>4, <1>6
  <2> QED
    BY <1>7, <2>2, <2>3, <2>4, Zenon
<1> QED
  BY <1>5, <1>8 DEF beside, w

-----------------------------------------------------------------------------
(* The leaves that a client has, and whether one of its keys is registered *)
-----------------------------------------------------------------------------
(* Powers of two grow, and each is above its exponent.                     *)
LEMMA TwoToGrows ==
    ASSUME NEW a \in Nat, NEW b \in Nat, a <= b
    PROVE  TwoTo[a] <= TwoTo[b] /\ (a < b => TwoTo[a] < TwoTo[b])
<1> DEFINE n == b - a
           T == {i \in 0 .. n : TwoTo[a] <= TwoTo[a + i] /\ (0 < i => TwoTo[a] < TwoTo[a + i])}
<1>1. 0 \in T
  BY TwoToIs
<1>2. ASSUME NEW i \in 1 .. n, i - 1 \in T PROVE i \in T
  <2>1. PICK k \in Nat : k = a + i - 1 /\ a + i = k + 1 /\ a + (i - 1) = k
    OBVIOUS
  <2>2. TwoTo[a] \in Nat /\ TwoTo[k] \in Nat /\ TwoTo[k] >= 1 /\ TwoTo[k + 1] = 2 * TwoTo[k]
    BY TwoToIs
  <2>3. TwoTo[a] <= TwoTo[k]
    BY <1>2, <2>1
  <2> QED
    BY <2>1, <2>2, <2>3
<1>3. 0 .. n \subseteq T
  <2> HIDE DEF T
  <2> QED
    BY <1>1, <1>2, LoopInduction
<1>4. n \in T /\ a + n = b
  BY <1>3
<1> QED
  BY <1>4

LEMMA TwoToAbove ==
    ASSUME NEW n \in Nat
    PROVE  n < TwoTo[n]
<1> DEFINE T == {i \in 0 .. n : i < TwoTo[i]}
<1>1. 0 \in T
  BY TwoToIs
<1>2. ASSUME NEW i \in 1 .. n, i - 1 \in T PROVE i \in T
  <2>1. PICK k \in Nat : k = i - 1 /\ i = k + 1
    OBVIOUS
  <2>2. TwoTo[k] \in Nat /\ TwoTo[k + 1] = 2 * TwoTo[k] /\ k < TwoTo[k]
    BY <1>2, <2>1, TwoToIs
  <2> QED
    BY <2>1, <2>2
<1>3. 0 .. n \subseteq T
  <2> HIDE DEF T
  <2> QED
    BY <1>1, <1>2, LoopInduction
<1> QED
  BY <1>3

(* The depth of the client's tree for a list of n leaves.                  *)
JustDeep(d, n) == TwoTo[d] >= n /\ (d = 1 \/ TwoTo[d - 1] < n)

LEMMA DepthFor ==
    ASSUME NEW n \in Nat, n >= 1
    PROVE  \E d \in 1 .. n : JustDeep(d, n)
<1> SUFFICES ASSUME \A d \in 1 .. n : ~JustDeep(d, n) PROVE FALSE
  OBVIOUS
<1> DEFINE T == {i \in 0 .. n : i = 0 \/ TwoTo[i] < n}
<1>1. 0 \in T
  OBVIOUS
<1>2. ASSUME NEW i \in 1 .. n, i - 1 \in T PROVE i \in T
  <2>1. ~JustDeep(i, n) /\ TwoTo[i] \in Nat
    BY TwoToIs
  <2>2. i = 1 \/ TwoTo[i - 1] < n
    BY <1>2
  <2> QED
    BY <2>1, <2>2 DEF JustDeep
<1>3. 0 .. n \subseteq T
  <2> HIDE DEF T
  <2> QED
    BY <1>1, <1>2, LoopInduction
<1>4. TwoTo[n] < n /\ TwoTo[n] \in Nat
  BY <1>3, TwoToIs
<1> QED
  BY <1>4, TwoToAbove

(* A list of at most 32 has a tree of at most 5 levels.                    *)
LEMMA DepthWithin ==
    ASSUME NEW n \in 1 .. 32, NEW d \in Nat, d >= 1, JustDeep(d, n)
    PROVE  d <= 5
<1>1. TwoTo[5] = 32
  <2>1. TwoTo[1] = 2
    BY TwoToIs, 0 + 1 = 1
  <2>2. TwoTo[2] = 4
    BY <2>1, TwoToIs, 1 + 1 = 2
  <2>3. TwoTo[3] = 8
    BY <2>2, TwoToIs, 2 + 1 = 3
  <2>4. TwoTo[4] = 16
    BY <2>3, TwoToIs, 3 + 1 = 4
  <2> QED
    BY <2>4, TwoToIs, 4 + 1 = 5
<1>2. ASSUME d > 5 PROVE FALSE
  <2>1. d - 1 \in Nat /\ 5 <= d - 1
    BY <1>2
  <2>2. TwoTo[5] <= TwoTo[d - 1] /\ TwoTo[d - 1] \in Nat
    BY <2>1, TwoToGrows, TwoToIs
  <2> QED
    BY <1>1, <1>2, <2>2 DEF JustDeep
<1> QED
  BY <1>2

(* The rows of the contract's merklise(), which it writes over each other. *)
RowAfter(u, nodes, i) ==
    IF i = 0 THEN nodes
    ELSE IF i > 1 /\ Len(u[i - 1]) = 1 THEN u[i - 1]
    ELSE Round(u[i - 1], i - 1)
Rows(u, nodes) == u = [i \in 0 .. 6 |-> RowAfter(u, nodes, i)]

LEMMA merkliseIs ==
    ASSUME NEW nodes
    PROVE  \E u : /\ \A i \in 0 .. 6 : u[i] = RowAfter(u, nodes, i)
                  /\ merklise(nodes) = u[6][1]
<1> DEFINE T == {m \in 0 .. 6 : \E u : u = [i \in 0 .. m |-> RowAfter(u, nodes, i)]}
<1>1. 0 \in T
  <2> DEFINE u == [i \in 0 .. 0 |-> nodes]
  <2>1. u = [i \in 0 .. 0 |-> RowAfter(u, nodes, i)]
    BY DEF RowAfter
  <2> HIDE DEF u
  <2> QED
    BY <2>1
<1>2. ASSUME NEW k \in 1 .. 6, k - 1 \in T PROVE k \in T
  <2>1. PICK u : u = [i \in 0 .. k - 1 |-> RowAfter(u, nodes, i)]
    BY <1>2
  <2> DEFINE v == [i \in 0 .. k |-> IF i < k THEN u[i] ELSE RowAfter(u, nodes, k)]
  <2>2. \A i \in 0 .. k : v[i] = RowAfter(v, nodes, i)
    <3>1. \A i \in 0 .. k - 1 : u[i] = RowAfter(u, nodes, i)
      BY <2>1
    <3>2. \A i \in 0 .. k - 1 : v[i] = u[i]
      OBVIOUS
    <3>3. v[k] = RowAfter(u, nodes, k)
      OBVIOUS
    <3> HIDE DEF v
    <3>4. \A i \in 0 .. k : RowAfter(v, nodes, i) = RowAfter(u, nodes, i)
      <4>1. \A i \in 0 .. k : i = 0 \/ v[i - 1] = u[i - 1]
        BY <3>2
      <4> QED
        BY <4>1 DEF RowAfter
    <3> QED
      BY <3>1, <3>2, <3>3, <3>4
  <2>3. v = [i \in 0 .. k |-> RowAfter(v, nodes, i)]
    BY <2>2
  <2> HIDE DEF v
  <2> QED
    BY <2>3
<1>3. 6 \in T
  <2> HIDE DEF T
  <2> QED
    BY <1>1, <1>2, LoopInduction
<1> DEFINE after == CHOOSE u : Rows(u, nodes)
<1>4. merklise(nodes) = after[6][1]
  BY DEF merklise, Rows, RowAfter
<1>5. Rows(after, nodes)
  BY <1>3 DEF Rows
<1> HIDE DEF after
<1>6. \A i \in 0 .. 6 : after[i] = RowAfter(after, nodes, i)
  BY <1>5 DEF Rows
<1> QED
  BY <1>4, <1>6

(* A round halves a row; a node of the next is that of the two below it,   *)
(* the vacant tree of the level after the last.                            *)
NodeOf(row, level, x) == IF x < Len(row) THEN row[x + 1] ELSE getRoot(level)

RowHalved(next, row, c, level) ==
    /\ Len(next) = (c + 1) \div 2
    /\ \A x \in Nat : NodeOf(next, level + 1, x)
           = <<NodeOf(row, level, 2 * x), NodeOf(row, level, 2 * x + 1)>>

LEMMA RoundIs ==
    ASSUME NEW c \in Nat, c >= 1, NEW row, Len(row) = c, NEW level \in Nat
    PROVE  RowHalved(Round(row, level), row, c, level)
<1> DEFINE e == (c + 1) \div 2
           next == [i \in 1 .. e |->
                       <<row[2 * i - 1], IF 2 * i <= c THEN row[2 * i] ELSE getRoot(level)>>]
<1>0. e \in Nat /\ e >= 1 /\ (c = 2 * e \/ c = 2 * e - 1)
  OBVIOUS
<1>1. Round(row, level) = next
  BY DEF Round, Hash
<1> HIDE DEF e
<1>2. Len(next) = e
  BY <1>0
<1>3. ASSUME NEW x \in Nat
      PROVE  NodeOf(next, level + 1, x)
                = <<NodeOf(row, level, 2 * x), NodeOf(row, level, 2 * x + 1)>>
  <2>1. CASE x < e
    <3>1. next[x + 1] = <<row[2 * x + 1], IF 2 * x + 2 <= c THEN row[2 * x + 2] ELSE getRoot(level)>>
      <4>1. PICK i \in 1 .. e : i = x + 1 /\ 2 * i - 1 = 2 * x + 1 /\ 2 * i = 2 * x + 2
        BY <1>0, <2>1
      <4>2. next[i] = <<row[2 * i - 1], IF 2 * i <= c THEN row[2 * i] ELSE getRoot(level)>>
        OBVIOUS
      <4> QED
        BY <4>1, <4>2
    <3>2. NodeOf(next, level + 1, x) = next[x + 1]
      BY <1>2, <2>1 DEF NodeOf
    <3>3. NodeOf(row, level, 2 * x) = row[2 * x + 1]
      BY <1>0, <2>1 DEF NodeOf
    <3>4. NodeOf(row, level, 2 * x + 1) = IF 2 * x + 2 <= c THEN row[2 * x + 2] ELSE getRoot(level)
      <4>1. 2 * x + 1 < c <=> 2 * x + 2 <= c
        OBVIOUS
      <4>2. 2 * x + 1 + 1 = 2 * x + 2
        OBVIOUS
      <4> QED
        BY <4>1, <4>2 DEF NodeOf
    <3> QED
      BY <3>1, <3>2, <3>3, <3>4
  <2>2. CASE ~(x < e)
    <3>1. ~(2 * x < c) /\ ~(2 * x + 1 < c)
      BY <1>0, <2>2
    <3>2. level + 1 \in Nat \ {0} /\ level + 1 - 1 = level
      OBVIOUS
    <3>3. getRoot(level + 1) = <<getRoot(level), getRoot(level)>>
      BY <3>2, getRootIs
    <3> HIDE DEF next
    <3> QED
      BY <1>2, <2>2, <3>1, <3>3 DEF NodeOf
  <2> QED
    BY <2>1, <2>2
<1> QED
  BY <1>1, <1>2, <1>3 DEF e, RowHalved

(* The tree of the client for a list: its leaves, and vacant ones.         *)
LEMMA merklizeIs ==
    ASSUME Zero = ZERO_BYTES32, NEW n \in Nat, n >= 1, NEW leaves, Len(leaves) = n
    PROVE  \E d \in Nat :
              /\ d >= 1 /\ JustDeep(d, n) /\ AllHashed(d, merklize(leaves))
              /\ merklize(leaves).depth = d
              /\ \A x \in Nat : getNode(merklize(leaves), d, x) = NodeOf(leaves, 0, x)
<1> DEFINE d == CHOOSE k \in 1 .. n : JustDeep(k, n)
           t == updateBatch(New(d), 0, leaves)
<1>1. d \in 1 .. n /\ JustDeep(d, n)
  BY DepthFor
<1>2. merklize(leaves) = t
  BY DEF merklize, JustDeep
<1> HIDE DEF d
<1>3. d \in Nat /\ d >= 1
  BY <1>1
<1>4. AllHashed(d, New(d)) /\ \A x \in Nat : getNode(New(d), d, x) = Zero
  BY <1>3, NewIsHashed
<1>5. 0 + n <= TwoTo[d]
  <2>1. TwoTo[d] >= n /\ TwoTo[d] \in Nat
    BY <1>1, <1>3, TwoToIs DEF JustDeep
  <2> QED
    BY <2>1
<1>6. /\ AllHashed(d, t)
      /\ \A x \in Nat : getNode(t, d, x) =
             IF 0 <= x /\ x < 0 + n THEN leaves[x - 0 + 1] ELSE getNode(New(d), d, x)
  <2>1. 0 \in Nat
    OBVIOUS
  <2> QED
    BY ONLY <1>3, <1>4, <1>5, <2>1, n \in Nat, n >= 1, Len(leaves) = n, updateBatchIs
<1> HIDE DEF t
<1>7. ASSUME NEW x \in Nat PROVE getNode(t, d, x) = NodeOf(leaves, 0, x)
  <2>1. (0 <= x /\ x < 0 + n <=> x < n) /\ x - 0 + 1 = x + 1
    OBVIOUS
  <2>2. getNode(New(d), d, x) = getRoot(0)
    BY <1>4, getRootIs
  <2> QED
    BY <1>6, <2>1, <2>2 DEF NodeOf
<1>8. t.depth = d
  BY <1>6 DEF AllHashed, HasFields
<1> QED
  BY <1>1, <1>2, <1>3, <1>6, <1>7, <1>8

(* Row k of the contract is the level k above the leaves of the client.    *)
RowIs(d, t, row, k) ==
    \E c \in Nat :
        /\ Len(row) = c /\ c >= 1 /\ c <= TwoTo[d - k]
        /\ k < d => d = 1 \/ TwoTo[d - k - 1] < c
        /\ \A x \in Nat : getNode(t, d - k, x) = NodeOf(row, k, x)

LEMMA NextRow ==
    ASSUME NEW d \in Nat, NEW t, AllHashed(d, t), NEW k \in 1 .. d, NEW row, RowIs(d, t, row, k - 1)
    PROVE  /\ RowIs(d, t, Round(row, k - 1), k)
           /\ k > 1 => Len(row) # 1
<1> DEFINE h == d - k
           next == Round(row, k - 1)
<1>1. h \in Nat /\ d - (k - 1) = h + 1 /\ h + 1 - 1 = h /\ k - 1 \in Nat /\ k - 1 + 1 = k
      /\ d - (k - 1) - 1 = h /\ h + 1 \in 1 .. d /\ k - 1 < d
  OBVIOUS
<1>2. PICK c \in Nat :
          /\ Len(row) = c /\ c >= 1 /\ c <= TwoTo[h + 1]
          /\ d = 1 \/ TwoTo[h] < c
          /\ \A x \in Nat : getNode(t, h + 1, x) = NodeOf(row, k - 1, x)
  BY <1>1 DEF RowIs
<1>3. TwoTo[h] \in Nat /\ TwoTo[h] >= 1 /\ TwoTo[h + 1] = 2 * TwoTo[h]
  BY <1>1, TwoToIs
<1>4. k > 1 => Len(row) # 1
  BY <1>2, <1>3
<1> DEFINE e == (c + 1) \div 2
<1>5. e \in Nat /\ e >= 1 /\ e <= TwoTo[h] /\ c <= 2 * e
  BY <1>2, <1>3
<1>6. /\ Len(next) = e
      /\ \A x \in Nat : NodeOf(next, k - 1 + 1, x)
             = <<NodeOf(row, k - 1, 2 * x), NodeOf(row, k - 1, 2 * x + 1)>>
  <2>1. PICK l \in Nat : l = k - 1
    BY <1>1
  <2>2. PICK r : r = Round(row, l)
    OBVIOUS
  <2>3. RowHalved(r, row, c, l)
    <3>1. c \in Nat /\ c >= 1 /\ Len(row) = c
      BY <1>2
    <3> QED
      BY ONLY <3>1, <2>2, l \in Nat, RoundIs
  <2>4. /\ Len(r) = e
        /\ \A x \in Nat : NodeOf(r, l + 1, x)
               = <<NodeOf(row, l, 2 * x), NodeOf(row, l, 2 * x + 1)>>
    BY <2>3 DEF RowHalved
  <2> QED
    BY <2>1, <2>2, <2>4
<1> HIDE DEF e, next
<1>7. ASSUME k < d PROVE d = 1 \/ TwoTo[h - 1] < e
  <2>1. h - 1 \in Nat /\ h - 1 + 1 = h
    BY <1>7
  <2>2. TwoTo[h - 1] \in Nat /\ TwoTo[h] = 2 * TwoTo[h - 1]
    BY <2>1, TwoToIs
  <2> QED
    BY <1>2, <1>3, <1>5, <2>2
<1>8. ASSUME NEW x \in Nat PROVE getNode(t, h, x) = NodeOf(next, k, x)
  <2>1. Hashed(t, h + 1, x)
    BY <1>1 DEF AllHashed
  <2>2. 2 * x \in Nat /\ 2 * x + 1 \in Nat
    OBVIOUS
  <2>3. getNode(t, h, x) = <<getNode(t, h + 1, 2 * x), getNode(t, h + 1, 2 * x + 1)>>
    BY <1>1, <2>1 DEF Hashed
  <2> QED
    BY <1>1, <1>2, <1>6, <2>2, <2>3
<1>9. RowIs(d, t, next, k)
  BY <1>5, <1>6, <1>7, <1>8 DEF RowIs
<1> QED
  BY <1>4, <1>9 DEF next

(* The contract's root of a list is that of the client's tree for it.      *)
LEMMA merkliseAgrees ==
    ASSUME NEW n \in 1 .. 32, NEW leaves, Len(leaves) = n, NEW d \in Nat, d >= 1, JustDeep(d, n),
           NEW t, AllHashed(d, t), \A x \in Nat : getNode(t, d, x) = NodeOf(leaves, 0, x)
    PROVE  merklise(leaves) = root(t)
<1>1. PICK u : /\ \A i \in 0 .. 6 : u[i] = RowAfter(u, leaves, i)
               /\ merklise(leaves) = u[6][1]
  BY merkliseIs
<1>2. d <= 5
  BY DepthWithin
<1> DEFINE T == {k \in 0 .. d : RowIs(d, t, u[k], k)}
<1>3. 0 \in T
  <2>1. u[0] = leaves
    BY <1>1 DEF RowAfter
  <2>2. d - 0 = d /\ d - 0 - 1 = d - 1 /\ n \in Nat /\ n >= 1
    OBVIOUS
  <2> QED
    BY <2>1, <2>2 DEF RowIs, JustDeep
<1>4. ASSUME NEW k \in 1 .. d, k - 1 \in T PROVE k \in T
  <2>1. RowIs(d, t, Round(u[k - 1], k - 1), k) /\ (k > 1 => Len(u[k - 1]) # 1)
    BY <1>4, NextRow
  <2>2. k \in 0 .. 6 /\ k # 0
    BY <1>2
  <2>3. u[k] = Round(u[k - 1], k - 1)
    BY <1>1, <2>1, <2>2 DEF RowAfter
  <2> QED
    BY <2>1, <2>3
<1>5. 0 .. d \subseteq T
  <2> HIDE DEF T
  <2> QED
    BY <1>3, <1>4, LoopInduction
<1>6. RowIs(d, t, u[d], d)
  BY <1>5
<1>7. Len(u[d]) = 1 /\ u[d][1] = root(t)
  <2>1. d - d = 0 /\ TwoTo[0] = 1 /\ 0 \in Nat /\ 0 + 1 = 1
    BY TwoToIs
  <2>2. PICK c \in Nat :
            /\ Len(u[d]) = c /\ c >= 1 /\ c <= 1
            /\ \A x \in Nat : getNode(t, 0, x) = NodeOf(u[d], d, x)
    BY <1>6, <2>1 DEF RowIs
  <2>3. c = 1 /\ 0 < c
    BY <2>2
  <2> QED
    BY <2>1, <2>2, <2>3 DEF NodeOf, root
<1> DEFINE m == 6 - d
           R == {j \in 0 .. m : u[d + j] = u[d]}
<1>8. m \in Nat /\ d + m = 6 /\ m \in 0 .. m /\ d + 0 = d
  BY <1>2
<1>9. 0 \in R
  BY <1>8
<1>10. ASSUME NEW j \in 1 .. m, j - 1 \in R PROVE j \in R
  <2>1. PICK i : i = d + j
    OBVIOUS
  <2>2. i \in 0 .. 6 /\ i # 0 /\ i > 1 /\ i - 1 = d + (j - 1) /\ j \in 0 .. m
    BY <1>2, <2>1
  <2>3. u[i - 1] = u[d]
    BY <1>10, <2>2
  <2>4. u[i] = u[i - 1]
    BY <1>1, <1>7, <2>2, <2>3 DEF RowAfter
  <2> QED
    BY <2>1, <2>2, <2>3, <2>4
<1>11. 0 .. m \subseteq R
  <2> HIDE DEF R, m
  <2> QED
    BY <1>8, <1>9, <1>10, LoopInduction
<1>12. u[6] = u[d]
  BY <1>8, <1>11
<1> QED
  BY <1>1, <1>7, <1>12

(* And every proof that the client takes from that tree opens its leaf.    *)
BatchOpens(leaves, n) ==
    /\ merklise(leaves) = root(merklize(leaves))
    /\ \A i \in 1 .. n : verify(merklise(leaves), leaves[i], i - 1,
                               witness(merklize(leaves), i - 1, merklize(leaves).depth))

LEMMA ProofsOpen ==
    ASSUME Zero = ZERO_BYTES32, NEW n \in 1 .. 32, NEW leaves, Len(leaves) = n
    PROVE  BatchOpens(leaves, n)
<1> DEFINE t == merklize(leaves)
<1>0. n \in Nat /\ n >= 1
  OBVIOUS
<1>1. PICK d \in Nat :
          /\ d >= 1 /\ JustDeep(d, n) /\ AllHashed(d, t) /\ t.depth = d
          /\ \A x \in Nat : getNode(t, d, x) = NodeOf(leaves, 0, x)
  BY <1>0, merklizeIs
<1> HIDE DEF t
<1>2. merklise(leaves) = root(t)
  BY <1>1, merkliseAgrees
<1>3. ASSUME NEW i \in 1 .. n
      PROVE  verify(root(t), leaves[i], i - 1, witness(t, i - 1, d))
  <2>1. i - 1 \in Nat /\ i - 1 < n /\ i - 1 + 1 = i /\ d \in 1 .. d
    BY <1>1
  <2>2. i - 1 < TwoTo[d]
    <3>1. TwoTo[d] >= n /\ TwoTo[d] \in Nat
      BY <1>1, TwoToIs DEF JustDeep
    <3> QED
      BY <2>1, <3>1
  <2>3. getNode(t, d, i - 1) = leaves[i]
    BY <1>1, <2>1 DEF NodeOf
  <2> QED
    BY ONLY <1>1, <2>1, <2>2, <2>3, WitnessesAreTaken
<1> QED
  BY <1>1, <1>2, <1>3 DEF BatchOpens, t

-----------------------------------------------------------------------------
(* Two trees with the same leaves have the same nodes,                     *)
LEMMA SameLeavesSameNodes ==
    ASSUME NEW d \in Nat, NEW t, AllHashed(d, t), NEW s, AllHashed(d, s), SameLeaves(d, t, s)
    PROVE  \A k \in 0 .. d, x \in Nat : getNode(t, d - k, x) = getNode(s, d - k, x)
<1> DEFINE T == {k \in 0 .. d : \A x \in Nat : getNode(t, d - k, x) = getNode(s, d - k, x)}
<1>1. 0 \in T
  <2>1. d - 0 = d
    OBVIOUS
  <2> QED
    BY <2>1 DEF SameLeaves
<1>2. ASSUME NEW k \in 1 .. d, k - 1 \in T PROVE k \in T
  <2>1. PICK l \in 1 .. d : l = d - (k - 1) /\ l - 1 = d - k
    OBVIOUS
  <2>2. ASSUME NEW x \in Nat PROVE getNode(t, l - 1, x) = getNode(s, l - 1, x)
    <3>1. Hashed(t, l, x) /\ Hashed(s, l, x)
      BY DEF AllHashed
    <3>2. 2 * x \in Nat /\ 2 * x + 1 \in Nat
      OBVIOUS
    <3> QED
      BY <1>2, <2>1, <3>1, <3>2 DEF Hashed
  <2> QED
    BY <2>1, <2>2
<1>3. 0 .. d \subseteq T
  <2> HIDE DEF T
  <2> QED
    BY <1>1, <1>2, LoopInduction
<1> QED
  BY <1>3

LEMMA SameLeavesSameRoot ==
    ASSUME NEW d \in Nat, NEW t, AllHashed(d, t), NEW s, AllHashed(d, s), SameLeaves(d, t, s)
    PROVE  root(t) = root(s)
<1>1. d \in 0 .. d /\ d - d = 0 /\ 0 \in Nat
  OBVIOUS
<1>2. \A k \in 0 .. d, x \in Nat : getNode(t, d - k, x) = getNode(s, d - k, x)
  BY SameLeavesSameNodes
<1>3. getNode(t, d - d, 0) = getNode(s, d - d, 0)
  BY <1>1, <1>2
<1> QED
  BY <1>1, <1>3 DEF root

(* and with the same root the same leaves.                                 *)
LEMMA SameRootSameLeaves ==
    ASSUME NEW d \in Nat, NEW t, AllHashed(d, t), NEW s, AllHashed(d, s), root(t) = root(s)
    PROVE  \A x \in Nat : x < TwoTo[d] => getNode(t, d, x) = getNode(s, d, x)
<1> DEFINE T == {l \in 0 .. d : \A x \in Nat :
                                    x < TwoTo[l] => getNode(t, l, x) = getNode(s, l, x)}
<1>1. 0 \in T
  <2>1. \A x \in Nat : x < TwoTo[0] => x = 0
    BY TwoToIs
  <2> QED
    BY <2>1 DEF root
<1>2. ASSUME NEW l \in 1 .. d, l - 1 \in T PROVE l \in T
  <2>1. ASSUME NEW x \in Nat, x < TwoTo[l] PROVE getNode(t, l, x) = getNode(s, l, x)
    <3>1. PICK h \in Nat : h = l - 1 /\ l = h + 1
      OBVIOUS
    <3>2. TwoTo[l] = 2 * TwoTo[h] /\ TwoTo[h] \in Nat
      BY <3>1, TwoToIs
    <3>3. PICK y \in Nat : (x = 2 * y \/ x = 2 * y + 1) /\ y < TwoTo[h]
      <4>1. x \div 2 \in Nat /\ (x = 2 * (x \div 2) \/ x = 2 * (x \div 2) + 1)
        OBVIOUS
      <4>2. PICK y \in Nat : x = 2 * y \/ x = 2 * y + 1
        BY <4>1
      <4> QED
        BY <2>1, <3>2, <4>2
    <3>4. getNode(t, h, y) = getNode(s, h, y)
      BY <1>2, <3>1, <3>3
    <3>5. Hashed(t, l, y) /\ Hashed(s, l, y)
      BY DEF AllHashed
    <3>6. /\ getNode(t, l, 2 * y) = getNode(s, l, 2 * y)
          /\ getNode(t, l, 2 * y + 1) = getNode(s, l, 2 * y + 1)
      BY <3>1, <3>4, <3>5 DEF Hashed
    <3> QED
      BY <3>3, <3>6
  <2> QED
    BY <2>1
<1>3. 0 .. d \subseteq T
  <2> HIDE DEF T
  <2> QED
    BY <1>1, <1>2, LoopInduction
<1> QED
  BY <1>3

(* The depth for a number of leaves is one.                                *)
LEMMA OneDepth ==
    ASSUME NEW n \in Nat, NEW d \in Nat, d >= 1, JustDeep(d, n), NEW e \in Nat, e >= 1, JustDeep(e, n)
    PROVE  d <= e
<1> SUFFICES ASSUME e < d PROVE FALSE
  OBVIOUS
<1>1. PICK k \in Nat : k = d - 1 /\ e <= k /\ d # 1
  OBVIOUS
<1>2. TwoTo[k] \in Nat /\ TwoTo[e] \in Nat /\ TwoTo[e] <= TwoTo[k]
  BY <1>1, TwoToGrows, TwoToIs
<1> QED
  BY <1>1, <1>2 DEF JustDeep

(* The proofs that the client takes from its tree of a list open at the    *)
(* contract's root of a list of that length just if the lists are the same.*)
SameList(a, b, n) == \A i \in 1 .. n : a[i] = b[i]
OpensAt(top, list, i) ==
    verify(top, list[i], i - 1, witness(merklize(list), i - 1, merklize(list).depth))

LEMMA ProofsOpenTheirList ==
    ASSUME Zero = ZERO_BYTES32, NEW n \in 1 .. 32, NEW a, Len(a) = n, NEW b, Len(b) = n
    PROVE  \A i \in 1 .. n : OpensAt(merklise(a), b, i) <=> SameList(a, b, n)
<1> DEFINE s == merklize(a)
           t == merklize(b)
<1>0. n \in Nat /\ n >= 1
  OBVIOUS
<1>1. PICK d \in Nat :
          /\ d >= 1 /\ JustDeep(d, n) /\ AllHashed(d, t)
          /\ \A x \in Nat : getNode(t, d, x) = NodeOf(b, 0, x)
  BY <1>0, merklizeIs
<1>2. PICK e \in Nat :
          /\ e >= 1 /\ JustDeep(e, n) /\ AllHashed(e, s)
          /\ \A x \in Nat : getNode(s, e, x) = NodeOf(a, 0, x)
  BY <1>0, merklizeIs
<1> HIDE DEF s, t
<1>3. e = d
  <2>1. e <= d /\ d <= e
    BY <1>0, <1>1, <1>2, OneDepth
  <2> QED
    BY <2>1
<1>4. merklise(a) = root(s) /\ merklise(b) = root(t)
  BY <1>1, <1>2, merkliseAgrees
<1>5. n <= TwoTo[d] /\ TwoTo[d] \in Nat
  BY <1>1, TwoToIs DEF JustDeep
<1>6. root(s) = root(t) <=> SameList(a, b, n)
  <2>1. ASSUME root(s) = root(t), NEW i \in 1 .. n PROVE a[i] = b[i]
    <3>1. PICK x \in Nat : x = i - 1 /\ x + 1 = i /\ x < n /\ x < TwoTo[d]
      BY <1>5
    <3>2. getNode(s, d, x) = getNode(t, d, x)
      BY <1>1, <1>2, <1>3, <2>1, <3>1, SameRootSameLeaves
    <3> QED
      BY <1>1, <1>2, <1>3, <3>1, <3>2 DEF NodeOf
  <2>2. ASSUME SameList(a, b, n) PROVE root(s) = root(t)
    <3>1. ASSUME NEW x \in Nat PROVE NodeOf(a, 0, x) = NodeOf(b, 0, x)
      <4>1. x < n => x + 1 \in 1 .. n
        OBVIOUS
      <4> QED
        BY <2>2, <4>1 DEF NodeOf, SameList
    <3>2. SameLeaves(d, s, t)
      BY <1>1, <1>2, <1>3, <3>1 DEF SameLeaves
    <3> QED
      BY <1>1, <1>2, <1>3, <3>2, SameLeavesSameRoot
  <2> QED
    BY <2>1, <2>2 DEF SameList
<1>7. ASSUME NEW i \in 1 .. n PROVE OpensAt(merklise(a), b, i) <=> SameList(a, b, n)
  <2>1. BatchOpens(b, n)
    BY ProofsOpen
  <2>2. OpensAt(merklise(b), b, i)
    BY <2>1 DEF BatchOpens, OpensAt
  <2>3. OpensAt(merklise(a), b, i) <=> merklise(a) = merklise(b)
    BY <2>2 DEF OpensAt, verify
  <2> QED
    BY <1>4, <1>6, <2>3
<1> QED
  BY <1>7

-----------------------------------------------------------------------------
(* A write of one leaf leaves every node as it is but those above it, and  *)
(* so the witness of the leaf.                                             *)
LEMMA SiblingsStay ==
    ASSUME NEW d \in Nat, NEW t, AllHashed(d, t), NEW s, AllHashed(d, s), NEW index \in Nat,
           \A x \in Nat : x # index => getNode(t, d, x) = getNode(s, d, x)
    PROVE  witness(t, index, d) = witness(s, index, d)
<1> DEFINE at(k) == Shifted(index, k)
           T == {k \in 0 .. d : \A x \in Nat :
                    x # at(k) => getNode(t, d - k, x) = getNode(s, d - k, x)}
<1>1. /\ at(0) = index
      /\ \A k \in Nat : at(k) \in Nat /\ at(k + 1) = at(k) \div 2
  BY ShiftedIs
<1> HIDE DEF at
<1>2. 0 \in T
  <2>1. d - 0 = d
    OBVIOUS
  <2> QED
    BY <1>1, <2>1
<1>3. ASSUME NEW k \in 1 .. d, k - 1 \in T PROVE k \in T
  <2>1. PICK l \in 1 .. d : l = d - (k - 1) /\ l - 1 = d - k
    OBVIOUS
  <2>2. PICK j \in Nat : j = k - 1 /\ j + 1 = k
    OBVIOUS
  <2>3. at(k) = at(j) \div 2 /\ at(j) \in Nat
    BY <1>1, <2>2
  <2>4. ASSUME NEW x \in Nat, x # at(k) PROVE getNode(t, l - 1, x) = getNode(s, l - 1, x)
    <3>1. Hashed(t, l, x) /\ Hashed(s, l, x)
      BY DEF AllHashed
    <3>2. 2 * x \in Nat /\ 2 * x + 1 \in Nat /\ 2 * x # at(j) /\ 2 * x + 1 # at(j)
      BY <2>3, <2>4
    <3>3. /\ getNode(t, l, 2 * x) = getNode(s, l, 2 * x)
          /\ getNode(t, l, 2 * x + 1) = getNode(s, l, 2 * x + 1)
      BY <1>3, <2>1, <2>2, <3>2
    <3> QED
      BY <3>1, <3>3 DEF Hashed
  <2> QED
    BY <2>1, <2>4
<1>4. 0 .. d \subseteq T
  <2> HIDE DEF T
  <2> QED
    BY <1>2, <1>3, LoopInduction
<1>5. ASSUME NEW i \in 1 .. d
      PROVE  getNode(t, d - i + 1, Sibling(at(i - 1))) = getNode(s, d - i + 1, Sibling(at(i - 1)))
  <2>1. PICK j \in 0 .. d : j = i - 1 /\ d - j = d - i + 1
    OBVIOUS
  <2>2. at(j) \in Nat /\ j \in T
    BY <1>1, <1>4
  <2>3. Sibling(at(j)) \in Nat /\ Sibling(at(j)) # at(j)
    BY <2>2 DEF Sibling
  <2> QED
    BY <2>1, <2>2, <2>3
<1> QED
  BY <1>5 DEF witness, at

(* What leads from a leaf to the root of a tree, whoever made it, is the   *)
(* leaf at that index and its witness.                                     *)
LEMMA OpensOnlyThere ==
    ASSUME NEW d \in Nat, NEW t, AllHashed(d, t), NEW index \in Nat, index < TwoTo[d],
           NEW leaf, NEW beside, Len(beside) = d, verify(root(t), leaf, index, beside)
    PROVE  /\ leaf = getNode(t, d, index)
           /\ \A i \in 1 .. d : beside[i] = witness(t, index, d)[i]
<1> DEFINE at(k) == Shifted(index, k)
<1>1. /\ at(0) = index /\ at(d) = 0
      /\ \A k \in Nat : at(k) \in Nat /\ at(k + 1) = at(k) \div 2
  BY ShiftedIs, ShiftedBelow
<1>2. PICK u : Opening(u, leaf, index, beside, d) /\ u[d] = root(t)
  BY verifyIs
<1>3. u[0] = leaf /\ \A i \in 1 .. d : u[i] = IF IsSet(index, i - 1) THEN <<beside[i], u[i - 1]>>
                                               ELSE <<u[i - 1], beside[i]>>
  BY <1>2 DEF Opening
<1>4. \A k : IsSet(index, k) <=> at(k) % 2 = 1
  BY DEF IsSet
<1> HIDE DEF at
<1> DEFINE Here(k) == u[d - k] = getNode(t, k, at(d - k))
           Beside(k) == beside[d - k + 1] = getNode(t, k, Sibling(at(d - k)))
           T == {k \in 0 .. d : Here(k) /\ (k > 0 => Beside(k))}
<1>5. 0 \in T
  <2>1. d - 0 = d /\ 0 \in 0 .. d /\ ~(0 > 0)
    OBVIOUS
  <2>2. u[d] = getNode(t, 0, 0)
    BY <1>2 DEF root
  <2>3. Here(0)
    BY <1>1, <2>1, <2>2
  <2> HIDE DEF Here, Beside
  <2> QED
    BY <2>1, <2>3
<1>6. ASSUME NEW k \in 1 .. d, k - 1 \in T PROVE k \in T
  <2>1. PICK i \in 1 .. d : i = d - (k - 1) /\ i - 1 = d - k /\ d - k + 1 = i
    OBVIOUS
  <2>2. PICK j \in Nat : j = i - 1 /\ j + 1 = i
    OBVIOUS
  <2>3. PICK a \in Nat : a = at(j)
    BY <1>1
  <2>4. PICK b \in Nat : b = a \div 2 /\ at(i) = b
    BY <1>1, <2>2, <2>3
  <2>5. u[i] = getNode(t, k - 1, b)
    BY <1>6, <2>1, <2>4
  <2>6. getNode(t, k - 1, b) = <<getNode(t, k, 2 * b), getNode(t, k, 2 * b + 1)>>
    BY DEF AllHashed, Hashed
  <2>7. CASE a % 2 = 1
    <3>1. a = 2 * b + 1 /\ Sibling(a) = 2 * b
      BY <2>4, <2>7 DEF Sibling
    <3>2. u[i] = <<beside[i], u[j]>>
      BY <1>3, <1>4, <2>2, <2>3, <2>7
    <3> QED
      BY <2>1, <2>2, <2>3, <2>5, <2>6, <3>1, <3>2
  <2>8. CASE a % 2 = 0
    <3>1. a = 2 * b /\ Sibling(a) = 2 * b + 1
      BY <2>4, <2>8 DEF Sibling
    <3>2. ~IsSet(index, i - 1)
      <4>1. ~(a % 2 = 1)
        BY <2>8
      <4> QED
        BY <1>4, <2>2, <2>3, <4>1
    <3>3. u[i] = <<u[j], beside[i]>>
      BY <1>3, <2>2, <3>2
    <3> QED
      BY <2>1, <2>2, <2>3, <2>5, <2>6, <3>1, <3>3
  <2> QED
    BY <2>7, <2>8
<1>7. 0 .. d \subseteq T
  <2> HIDE DEF T
  <2> QED
    BY <1>5, <1>6, LoopInduction
<1>8. leaf = getNode(t, d, index)
  <2>1. d \in T /\ d - d = 0
    BY <1>7
  <2> QED
    BY <1>1, <1>3, <2>1
<1>9. ASSUME NEW i \in 1 .. d PROVE beside[i] = witness(t, index, d)[i]
  <2>1. PICK k \in 1 .. d : k = d - i + 1 /\ d - k + 1 = i /\ d - k = i - 1
    OBVIOUS
  <2>2. k \in T /\ k > 0
    BY <1>7
  <2>3. beside[i] = getNode(t, k, Sibling(at(i - 1)))
    BY <2>1, <2>2
  <2>4. witness(t, index, d)[i] = getNode(t, d - i + 1, Sibling(at(i - 1)))
    BY DEF witness, at
  <2> QED
    BY <2>1, <2>3, <2>4
<1> QED
  BY <1>8, <1>9

=============================================================================
