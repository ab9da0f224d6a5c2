---------------------------- MODULE HubbleProofs -----------------------------
(***************************************************************************)
(* The deposit manager composed with the rollup: what the merging of baby  *)
(* trees builds, for subtrees of any depth, and that the composition       *)
(* implements Rollup.                                                      *)
(***************************************************************************)
EXTENDS Hubble, RollupProofs, LoopProofs

(* A leaf, a tree, and what deposits have made of the two.                 *)
DepositLeaf == [deposit : Nat, tokenType : Tokens, balance : Nat \ {0}]
DepositTree == [height : Nat, leaves : Seq(DepositLeaf)]

IsHistory(deps) ==
    /\ deps \in Seq(DepositLeaf)
    /\ \A d \in 1 .. Len(deps) : deps[d].deposit = d /\ deps[d].balance \in Amounts

(* The full tree of a height over the deposits after the first ones.       *)
TreeOver(deps, height, first) ==
    [height |-> height,
     leaves |-> [j \in 1 .. TwoTo[height] |-> deps[first + j]]]

LEMMA TreeOverType ==
    ASSUME NEW deps, IsHistory(deps), NEW h \in Nat, NEW f \in Nat,
           f + TwoTo[h] <= Len(deps)
    PROVE  /\ TreeOver(deps, h, f) \in DepositTree
           /\ TreeOver(deps, h, f).height = h
           /\ Len(TreeOver(deps, h, f).leaves) = TwoTo[h]
           /\ DOMAIN TreeOver(deps, h, f).leaves = 1 .. TwoTo[h]
           /\ \A j \in 1 .. TwoTo[h] : TreeOver(deps, h, f).leaves[j] = deps[f + j]
<1> DEFINE leaves == [j \in 1 .. TwoTo[h] |-> deps[f + j]]
<1>1. TwoTo[h] \in Nat
  BY TwoToIs
<1>2. leaves \in [1 .. TwoTo[h] -> DepositLeaf]
  <2>1. deps \in [1 .. Len(deps) -> DepositLeaf] /\ Len(deps) \in Nat
    BY LenProperties DEF IsHistory
  <2>2. \A j \in 1 .. TwoTo[h] : f + j \in 1 .. Len(deps)
    BY <1>1, <2>1
  <2> QED
    BY <2>1, <2>2
<1>3. leaves \in Seq(DepositLeaf) /\ Len(leaves) = TwoTo[h]
  BY <1>1, <1>2, Indexed
<1>4. TreeOver(deps, h, f) = [height |-> h, leaves |-> leaves]
  BY DEF TreeOver
<1>5. \A j \in 1 .. TwoTo[h] : leaves[j] = deps[f + j]
  OBVIOUS
<1> HIDE DEF leaves
<1> QED
  BY <1>2, <1>3, <1>4, <1>5 DEF DepositTree

(* A tree does not change when another deposit is made.                    *)
LEMMA TreeOverStays ==
    ASSUME NEW deps \in Seq(DepositLeaf), NEW leaf \in DepositLeaf,
           NEW h \in Nat, NEW f \in Nat, f + TwoTo[h] <= Len(deps)
    PROVE  TreeOver(Append(deps, leaf), h, f) = TreeOver(deps, h, f)
<1>1. TwoTo[h] \in Nat /\ Len(deps) \in Nat
  BY TwoToIs, LenProperties
<1>2. \A j \in 1 .. TwoTo[h] : f + j \in 1 .. Len(deps)
  BY <1>1
<1>3. \A i \in 1 .. Len(deps) : Append(deps, leaf)[i] = deps[i]
  BY AppendProperties
<1>4. \A j \in 1 .. TwoTo[h] : Append(deps, leaf)[f + j] = deps[f + j]
  BY <1>2, <1>3
<1> QED
  BY <1>4 DEF TreeOver

(* Different runs have different trees.                                    *)
LEMMA TreeOverDiffers ==
    ASSUME NEW deps, IsHistory(deps), NEW h \in Nat, NEW f \in Nat, NEW g \in Nat,
           f + TwoTo[h] <= Len(deps), g + TwoTo[h] <= Len(deps),
           TreeOver(deps, h, f) = TreeOver(deps, h, g)
    PROVE  f = g
<1>1. TwoTo[h] \in Nat /\ TwoTo[h] >= 1 /\ Len(deps) \in Nat
  BY TwoToIs, LenProperties DEF IsHistory
<1>2. f + 1 \in 1 .. Len(deps) /\ g + 1 \in 1 .. Len(deps) /\ 1 \in 1 .. TwoTo[h]
  BY <1>1
<1>3. deps[f + 1] = deps[g + 1]
  BY <1>2, TreeOverType
<1>4. deps[f + 1].deposit = f + 1 /\ deps[g + 1].deposit = g + 1
  BY <1>2 DEF IsHistory
<1> QED
  BY <1>3, <1>4

LEMMA LeafIsTree ==
    ASSUME NEW deps, NEW leaf, IsHistory(Append(deps, leaf)), deps \in Seq(DepositLeaf)
    PROVE  Leaf(leaf) = TreeOver(Append(deps, leaf), 0, Len(deps))
<1> DEFINE leaves == [j \in 1 .. 1 |-> Append(deps, leaf)[Len(deps) + j]]
<1>1. TwoTo[0] = 1 /\ Len(deps) \in Nat
  BY TwoToIs, LenProperties
<1>2. Append(deps, leaf)[Len(deps) + 1] = leaf
  BY AppendProperties
<1>3. leaves = [j \in 1 .. 1 |-> leaf]
  BY <1>2
<1>4. [j \in 1 .. 1 |-> leaf] = <<leaf>>
  OBVIOUS
<1>5. TreeOver(Append(deps, leaf), 0, Len(deps)) = [height |-> 0, leaves |-> leaves]
  BY <1>1 DEF TreeOver
<1> HIDE DEF leaves
<1> QED
  BY <1>3, <1>4, <1>5 DEF Leaf

(* The parent of two neighbouring full trees is the full tree over both.   *)
LEMMA NodeIsTree ==
    ASSUME NEW deps, IsHistory(deps), NEW h \in Nat, NEW f \in Nat, NEW g \in Nat,
           g = f + TwoTo[h], g + TwoTo[h] <= Len(deps)
    PROVE  Node(TreeOver(deps, h, f), TreeOver(deps, h, g)) = TreeOver(deps, h + 1, f)
<1> DEFINE s == TreeOver(deps, h, f).leaves
           t == TreeOver(deps, h, g).leaves
           u == TreeOver(deps, h + 1, f).leaves
           p == TwoTo[h]
<1>1. p \in Nat /\ TwoTo[h + 1] = 2 * p /\ h + 1 \in Nat /\ Len(deps) \in Nat
  <2>1. p \in Nat /\ TwoTo[h + 1] = 2 * p
    BY TwoToIs
  <2>2. Len(deps) \in Nat
    BY LenProperties DEF IsHistory
  <2> QED
    BY <2>1, <2>2
<1>2. f + TwoTo[h] <= Len(deps) /\ f + TwoTo[h + 1] <= Len(deps)
  BY <1>1
<1>3. /\ s \in Seq(DepositLeaf) /\ Len(s) = p
      /\ TreeOver(deps, h, f).height = h
      /\ \A j \in 1 .. p : s[j] = deps[f + j]
  BY <1>2, TreeOverType DEF DepositTree
<1>4. /\ t \in Seq(DepositLeaf) /\ Len(t) = p
      /\ TreeOver(deps, h, g).height = h
      /\ \A j \in 1 .. p : t[j] = deps[g + j]
  <2>1. g + TwoTo[h] <= Len(deps) /\ h \in Nat /\ g \in Nat
    OBVIOUS
  <2>2. TreeOver(deps, h, g) \in DepositTree
    BY <2>1, TreeOverType
  <2> QED
    BY <2>1, <2>2, TreeOverType DEF DepositTree
<1>5. /\ u \in Seq(DepositLeaf) /\ Len(u) = 2 * p
      /\ \A j \in 1 .. 2 * p : u[j] = deps[f + j]
  <2>1. /\ u \in Seq(DepositLeaf) /\ Len(u) = TwoTo[h + 1]
        /\ \A j \in 1 .. TwoTo[h + 1] : u[j] = deps[f + j]
    <3>1. h + 1 \in Nat /\ f \in Nat /\ f + TwoTo[h + 1] <= Len(deps)
      BY <1>1, <1>2
    <3>2. TreeOver(deps, h + 1, f) \in DepositTree
      BY <3>1, TreeOverType
    <3> QED
      BY <3>1, <3>2, TreeOverType DEF DepositTree
  <2> QED
    BY <1>1, <2>1
<1>6. TreeOver(deps, h + 1, f) = [height |-> h + 1, leaves |-> u]
  BY DEF TreeOver
<1>7. Node(TreeOver(deps, h, f), TreeOver(deps, h, g))
         = [height |-> 1 + h, leaves |-> s \o t]
  BY <1>3, <1>4 DEF Node
<1> HIDE DEF s, t, u, p
<1>8. s \o t = u
  <2>1. /\ s \o t \in Seq(DepositLeaf) /\ Len(s \o t) = Len(s) + Len(t)
        /\ \A j \in 1 .. Len(s) + Len(t) :
              (s \o t)[j] = IF j <= Len(s) THEN s[j] ELSE t[j - Len(s)]
    BY ONLY <1>3, <1>4, ConcatProperties
  <2>2. /\ Len(s \o t) = 2 * p
        /\ \A j \in 1 .. 2 * p : (s \o t)[j] = IF j <= p THEN s[j] ELSE t[j - p]
    <3>1. Len(s) + Len(t) = 2 * p
      BY ONLY <1>1, <1>3, <1>4
    <3> QED
      BY <1>3, <2>1, <3>1
  <2>3. \A j \in 1 .. 2 * p : (s \o t)[j] = u[j]
    <3>1. ASSUME NEW j \in 1 .. 2 * p, j <= p PROVE (s \o t)[j] = u[j]
      <4>1. j \in 1 .. p
        BY <1>1, <3>1
      <4> QED
        BY <1>3, <1>5, <2>2, <3>1, <4>1
    <3>2. ASSUME NEW j \in 1 .. 2 * p, j > p PROVE (s \o t)[j] = u[j]
      <4>1. j - p \in 1 .. p /\ g + (j - p) = f + j
        <5>1. p \in Nat /\ f \in Nat /\ g = f + p /\ j \in 1 .. 2 * p /\ j > p
          BY <1>1, <3>2 DEF p
        <5> QED
          BY ONLY <5>1
      <4>2. (s \o t)[j] = t[j - p]
        BY <1>1, <2>2, <3>2
      <4>3. t[j - p] = deps[f + j]
        BY <1>4, <4>1
      <4> QED
        BY <1>5, <4>2, <4>3
    <3>3. \A j \in 1 .. 2 * p : j <= p \/ j > p
      BY <1>1
    <3> QED
      BY <3>1, <3>2, <3>3
  <2> QED
    BY <1>5, <2>1, <2>2, <2>3, SeqEqual
<1> QED
  BY <1>1, <1>6, <1>7, <1>8
-----------------------------------------------------------------------------
(* Of strictly falling heights, the last ones are 0, 1, ... up to the      *)
(* lowest that is missing.                                                 *)
Falling(h, n) ==
    /\ h \in [1 .. n -> Nat]
    /\ \A i, j \in 1 .. n : i < j => h[i] > h[j]

LEMMA LowHeights ==
    ASSUME NEW n \in Nat, NEW h, Falling(h, n), NEW m \in Nat,
           \A k \in 0 .. m - 1 : \E i \in 1 .. n : h[i] = k,
           \A i \in 1 .. n : h[i] # m
    PROVE  /\ m <= n
           /\ \A k \in 0 .. m - 1 : h[n - k] = k
           /\ \A i \in 1 .. n - m : h[i] > m
<1> DEFINE Ends(j) == \A k \in 0 .. j - 1 : n - k \in 1 .. n /\ h[n - k] = k
           T == {j \in 0 .. m : Ends(j)}
<1>1. 0 \in T
  OBVIOUS
<1>2. ASSUME NEW j \in 1 .. m, j - 1 \in T PROVE j \in T
  <2> DEFINE l == j - 1
  <2>1. l \in 0 .. m - 1 /\ Ends(l)
    BY <1>2
  <2>2. PICK i \in 1 .. n : h[i] = l
    BY <2>1
  <2>3. i <= n - l
    <3>1. ASSUME i > n - l PROVE FALSE
      <4>1. PICK k \in Nat : k = n - i
        OBVIOUS
      <4>2. k \in 0 .. l - 1 /\ n - k = i
        BY <2>1, <3>1, <4>1
      <4>3. h[i] = k
        BY <2>1, <4>2
      <4> QED
        BY <2>2, <4>2, <4>3
    <3> QED
      BY <2>1, <3>1
  <2>4. i = n - l
    <3>1. ASSUME i < n - l PROVE FALSE
      <4>1. n - l \in 1 .. n /\ h[n - l] < l /\ h[n - l] \in Nat
        BY <2>1, <2>2, <3>1 DEF Falling
      <4>2. l >= 1
        BY <4>1
      <4>3. l - 1 \in 0 .. l - 1 /\ n - (l - 1) = n - l + 1
        BY <2>1, <4>2
      <4>4. n - l + 1 \in 1 .. n /\ h[n - l + 1] = l - 1
        BY <2>1, <4>3
      <4>5. h[n - l] > h[n - l + 1]
        BY <4>1, <4>4 DEF Falling
      <4> QED
        BY <2>1, <4>1, <4>4, <4>5
    <3> QED
      BY <2>1, <2>3, <3>1
  <2>5. Ends(j)
    <3>1. \A k \in 0 .. j - 1 : k \in 0 .. l - 1 \/ k = l
      BY <2>1
    <3> QED
      BY <2>1, <2>2, <2>4, <3>1
  <2> QED
    BY <2>5
<1> HIDE DEF T, Ends
<1>3. m \in T
  <2>1. 0 .. m \subseteq T
    BY <1>1, <1>2, LoopInduction
  <2> QED
    BY <2>1
<1>4. \A k \in 0 .. m - 1 : n - k \in 1 .. n /\ h[n - k] = k
  BY <1>3 DEF T, Ends
<1>5. m <= n
  <2>1. CASE m = 0
    BY <2>1
  <2>2. CASE m > 0
    <3>1. n - (m - 1) \in 1 .. n
      BY <1>4, <2>2
    <3> QED
      BY <3>1
  <2> QED
    BY <2>1, <2>2
<1>6. ASSUME NEW i \in 1 .. n - m PROVE h[i] > m
  <2>1. i \in 1 .. n /\ h[i] \in Nat /\ h[i] # m
    BY <1>5, <1>6 DEF Falling
  <2>2. CASE m = 0
    BY <2>1, <2>2
  <2>3. CASE m > 0
    <3>1. PICK e \in 1 .. n : e = n - (m - 1) /\ h[e] = m - 1
      BY <1>4, <2>3
    <3>2. h[i] > h[e]
      BY <1>6, <2>1, <3>1 DEF Falling
    <3> QED
      BY <2>1, <3>1, <3>2
  <2> QED
    BY <2>2, <2>3
<1> QED
  BY <1>4, <1>5, <1>6

(* The trees over the last count deposits: one of each height that is a    *)
(* bit of count, the highest first, without gaps; first[i] is the number   *)
(* of deposits before the i-th.                                            *)
Grove(trees, deps, count, n, h, first) ==
    /\ trees \in Seq(DepositTree) /\ n = Len(trees)
    /\ Falling(h, n)
    /\ first \in [1 .. n + 1 -> 0 .. Len(deps)]
    /\ first[1] = Len(deps) - count /\ first[n + 1] = Len(deps)
    /\ \A i \in 1 .. n : first[i + 1] = first[i] + TwoTo[h[i]]
    /\ \A i \in 1 .. n : trees[i] = TreeOver(deps, h[i], first[i])
    /\ \A k \in Nat : IsSet(count, k) <=> \E i \in 1 .. n : h[i] = k

(* What a loop of merges computes, from its intermediate results.          *)
Merging(w, trees, m) ==
    /\ w \in [0 .. m -> Seq(DepositTree)]
    /\ w[0] = trees
    /\ \A k \in 1 .. m : w[k] = MergeLastTwo(w[k - 1])

LEMMA MergeLastIs ==
    ASSUME NEW trees, NEW m \in Nat, NEW w, Merging(w, trees, m)
    PROVE  MergeLast(trees, m) = w[m]
<1> DEFINE Body(u, k) == IF k = 0 THEN trees ELSE MergeLastTwo(u[k - 1])
           after == CHOOSE u : u = [k \in 0 .. m |-> Body(u, k)]
<1>0. /\ w \in [0 .. m -> Seq(DepositTree)]
      /\ w[0] = trees
      /\ \A k \in 1 .. m : w[k] = MergeLastTwo(w[k - 1])
  BY DEF Merging
<1>1. w = [k \in 0 .. m |-> Body(w, k)]
  <2>1. \A k \in 0 .. m : w[k] = Body(w, k)
    <3>1. w[0] = Body(w, 0)
      BY <1>0
    <3>2. \A k \in 1 .. m : w[k] = Body(w, k)
      BY <1>0
    <3> HIDE DEF Body
    <3> QED
      BY <3>1, <3>2
  <2> HIDE DEF Body
  <2> QED
    BY <1>0, <2>1
<1>2. after = [k \in 0 .. m |-> Body(after, k)]
  <2> HIDE DEF Body
  <2> QED
    BY <1>1
<1>3. MergeLast(trees, m) = after[m]
  BY DEF MergeLast
<1> HIDE DEF after
<1>4. \A k \in 0 .. m : after[k] = Body(after, k)
  <2> HIDE DEF Body
  <2> QED
    BY <1>2
<1> DEFINE T == {k \in 0 .. m : after[k] = w[k]}
<1>5. 0 \in T
  BY <1>0, <1>4
<1>6. ASSUME NEW k \in 1 .. m, k - 1 \in T PROVE k \in T
  <2>1. after[k] = MergeLastTwo(after[k - 1])
    BY <1>4
  <2>2. after[k - 1] = w[k - 1] /\ w[k] = MergeLastTwo(w[k - 1])
    BY <1>0, <1>6
  <2> QED
    BY <2>1, <2>2
<1> HIDE DEF T
<1>7. 0 .. m \subseteq T
  BY <1>5, <1>6, LoopInduction
<1> QED
  BY <1>3, <1>7 DEF T

LEMMA PrefixIs ==
    ASSUME NEW S, NEW s \in Seq(S), NEW k \in 0 .. Len(s)
    PROVE  /\ SubSeq(s, 1, k) \in Seq(S) /\ Len(SubSeq(s, 1, k)) = k
           /\ \A i \in 1 .. k : SubSeq(s, 1, k)[i] = s[i]
<1>1. /\ k \in Int /\ 1 \in Int /\ Len(s) \in Nat
      /\ \A i \in 1 .. k : s[i] \in S
  BY LenProperties
<1>2. /\ SubSeq(s, 1, k) \in Seq(S)
      /\ Len(SubSeq(s, 1, k)) = IF 1 <= k THEN k - 1 + 1 ELSE 0
      /\ \A i \in 1 .. k - 1 + 1 : SubSeq(s, 1, k)[i] = s[1 + i - 1]
  BY ONLY <1>1, SubSeqProperties
<1>3. k - 1 + 1 = k /\ (~(1 <= k) => k = 0) /\ \A i \in 1 .. k : 1 + i - 1 = i
  BY <1>1
<1> QED
  BY <1>2, <1>3

(* A merge of a sequence that was appended to.                             *)
LEMMA MergeLastTwoIs ==
    ASSUME NEW s \in Seq(DepositTree), NEW l \in Nat, l = Len(s), l >= 1,
           NEW t \in DepositTree
    PROVE  MergeLastTwo(Append(s, t)) = Append(SubSeq(s, 1, l - 1), Node(s[l], t))
<1> DEFINE r == Append(s, t)
<1>1. /\ r \in Seq(DepositTree) /\ Len(r) = l + 1 /\ r[l + 1] = t
      /\ \A i \in 1 .. l : r[i] = s[i]
  BY AppendProperties
<1>2. Len(r) - 2 = l - 1 /\ Len(r) - 1 = l /\ r[l] = s[l] /\ r[Len(r)] = t
  BY <1>1
<1> HIDE DEF r
<1>3. SubSeq(r, 1, l - 1) = SubSeq(s, 1, l - 1)
  <2>1. l - 1 \in 0 .. Len(r) /\ l - 1 \in 0 .. Len(s)
    BY <1>1
  <2>2. /\ SubSeq(r, 1, l - 1) \in Seq(DepositTree) /\ Len(SubSeq(r, 1, l - 1)) = l - 1
        /\ \A i \in 1 .. l - 1 : SubSeq(r, 1, l - 1)[i] = r[i]
    BY <1>1, <2>1, PrefixIs
  <2>3. /\ SubSeq(s, 1, l - 1) \in Seq(DepositTree) /\ Len(SubSeq(s, 1, l - 1)) = l - 1
        /\ \A i \in 1 .. l - 1 : SubSeq(s, 1, l - 1)[i] = s[i]
    BY <2>1, PrefixIs
  <2>4. \A i \in 1 .. l - 1 : SubSeq(r, 1, l - 1)[i] = SubSeq(s, 1, l - 1)[i]
    BY <1>1, <2>2, <2>3
  <2> QED
    BY <2>2, <2>3, <2>4, SeqEqual
<1>4. MergeLastTwo(r) = Append(SubSeq(r, 1, Len(r) - 2), Node(r[Len(r) - 1], r[Len(r)]))
  BY DEF MergeLastTwo
<1> QED
  BY <1>2, <1>3, <1>4 DEF r

(* The number of merges after a deposit.                                   *)
IsCarry(count, m) ==
    /\ \A j \in 0 .. m - 1 : IsSet(count, j)
    /\ ~IsSet(count, m)

LEMMA MergesIs ==
    ASSUME NEW count \in Nat, NEW m \in Nat, m <= count, IsCarry(count, m)
    PROVE  Merges(count + 1) = m
<1>1. IsSet(count + 1, m) /\ \A j \in 0 .. m - 1 : ~IsSet(count + 1, j)
  BY Carry DEF IsCarry
<1> DEFINE Lowest(k) == IsSet(count + 1, k) /\ \A j \in 0 .. k - 1 : ~IsSet(count + 1, j)
<1>2. m \in 0 .. count + 1 /\ Lowest(m)
  BY <1>1
<1>3. ASSUME NEW k \in 0 .. count + 1, Lowest(k) PROVE k = m
  <2>1. ~(k < m)
    BY <1>1, <1>3
  <2>2. ~(m < k)
    BY <1>1, <1>3
  <2> QED
    BY <2>1, <2>2
<1>4. Merges(count + 1) = CHOOSE k \in 0 .. count + 1 : Lowest(k)
  BY DEF Merges
<1> HIDE DEF Lowest
<1> QED
  BY <1>2, <1>3, <1>4
-----------------------------------------------------------------------------
(* A deposit onto the baby trees: what the trees look like while the loop  *)
(* of insertAndMerge() runs.                                               *)
Carried(trees, deps, n, h, first, leaf, m) ==
    /\ m <= n
    /\ \A i \in 1 .. n - m : h[i] > m
    /\ \A i \in 1 .. n : i > n - m => h[i] < m
    /\ first[n - m + 1] + TwoTo[m] = Len(deps) + 1
    /\ MergeLast(Append(trees, Leaf(leaf)), m)
          = Append(SubSeq(trees, 1, n - m),
                   TreeOver(Append(deps, leaf), m, first[n - m + 1]))

LEMMA MergesBuild ==
    ASSUME NEW trees, NEW deps \in Seq(DepositLeaf), NEW count \in Nat, NEW n \in Nat,
           NEW h, NEW first, Grove(trees, deps, count, n, h, first),
           NEW leaf \in DepositLeaf, IsHistory(Append(deps, leaf)),
           NEW m \in Nat, IsCarry(count, m)
    PROVE  Carried(trees, deps, n, h, first, leaf, m)
<1> DEFINE deps2 == Append(deps, leaf)
           D == Len(deps)
           at(j) == first[n - j + 1]
           left(j) == Append(SubSeq(trees, 1, n - j), TreeOver(deps2, j, at(j)))
           w == [j \in 0 .. m |-> left(j)]
<1>1. D \in Nat /\ Len(deps2) = D + 1 /\ deps2 \in Seq(DepositLeaf)
  BY LenProperties, AppendProperties
<1>2. /\ m <= n /\ \A k \in 0 .. m - 1 : h[n - k] = k
      /\ \A i \in 1 .. n - m : h[i] > m
  <2>1. Falling(h, n) /\ (\A k \in 0 .. m - 1 : \E i \in 1 .. n : h[i] = k)
        /\ \A i \in 1 .. n : h[i] # m
    <3>1. Falling(h, n) /\ \A k \in Nat : IsSet(count, k) <=> \E i \in 1 .. n : h[i] = k
      BY DEF Grove
    <3>2. \A k \in 0 .. m - 1 : k \in Nat /\ IsSet(count, k)
      BY DEF IsCarry
    <3>3. ~IsSet(count, m)
      BY DEF IsCarry
    <3> QED
      BY <3>1, <3>2, <3>3
  <2> QED
    BY <2>1, LowHeights
<1>3. \A j \in 0 .. m : n - j + 1 \in 1 .. n + 1 /\ at(j) \in Nat
  <2>1. \A j \in 0 .. m : n - j + 1 \in 1 .. n + 1
    BY <1>2
  <2>2. first \in [1 .. n + 1 -> 0 .. D]
    BY DEF Grove
  <2>3. \A i \in 1 .. n + 1 : first[i] \in Nat
    BY <1>1, <2>2
  <2> QED
    BY <2>1, <2>3
<1>4. \A j \in 1 .. m : at(j - 1) = at(j) + TwoTo[j - 1]
                        /\ trees[n - j + 1] = TreeOver(deps, j - 1, at(j))
  <2>1. ASSUME NEW j \in 1 .. m
        PROVE  at(j - 1) = at(j) + TwoTo[j - 1]
               /\ trees[n - j + 1] = TreeOver(deps, j - 1, at(j))
    <3>1. PICK i \in 1 .. n : i = n - j + 1 /\ i = n - (j - 1) /\ i + 1 = n - (j - 1) + 1
      BY <1>2
    <3>2. h[i] = j - 1
      BY <1>2, <3>1
    <3>3. first[i + 1] = first[i] + TwoTo[h[i]] /\ trees[i] = TreeOver(deps, h[i], first[i])
      BY DEF Grove
    <3> QED
      BY <3>1, <3>2, <3>3
  <2> QED
    BY <2>1
<1>5. \A j \in 0 .. m : at(j) + TwoTo[j] = D + 1
  <2> DEFINE T == {j \in 0 .. m : at(j) + TwoTo[j] = D + 1}
  <2>1. 0 \in T
    <3>1. n - 0 + 1 = n + 1 /\ first[n + 1] = D /\ TwoTo[0] = 1
      BY TwoToIs DEF Grove
    <3> QED
      BY <3>1
  <2>2. ASSUME NEW j \in 1 .. m, j - 1 \in T PROVE j \in T
    <3>1. j - 1 \in Nat /\ j - 1 + 1 = j
      OBVIOUS
    <3>2. TwoTo[j] = 2 * TwoTo[j - 1] /\ TwoTo[j - 1] \in Nat
      BY <3>1, TwoToIs
    <3>3. at(j - 1) = at(j) + TwoTo[j - 1] /\ at(j) \in Nat
      BY <1>3, <1>4
    <3>4. at(j - 1) + TwoTo[j - 1] = D + 1
      BY <2>2
    <3> HIDE DEF at
    <3> QED
      BY <3>2, <3>3, <3>4
  <2> HIDE DEF T
  <2>3. 0 .. m \subseteq T
    BY <2>1, <2>2, LoopInduction
  <2> QED
    BY <2>3 DEF T
<1>6. trees \in Seq(DepositTree) /\ n = Len(trees)
  BY DEF Grove
<1>7. \A j \in 0 .. m : TreeOver(deps2, j, at(j)) \in DepositTree
  <2>1. ASSUME NEW j \in 0 .. m PROVE TreeOver(deps2, j, at(j)) \in DepositTree
    <3>1. j \in Nat /\ at(j) \in Nat /\ at(j) + TwoTo[j] <= Len(deps2)
      BY <1>1, <1>3, <1>5
    <3> HIDE DEF at
    <3> QED
      BY <3>1, TreeOverType
  <2> QED
    BY <2>1
<1>8. \A j \in 0 .. m : SubSeq(trees, 1, n - j) \in Seq(DepositTree)
                        /\ Len(SubSeq(trees, 1, n - j)) = n - j
                        /\ \A i \in 1 .. n - j : SubSeq(trees, 1, n - j)[i] = trees[i]
  <2>1. \A j \in 0 .. m : n - j \in 0 .. Len(trees)
    BY <1>2, <1>6
  <2> QED
    BY <1>6, <2>1, PrefixIs
<1>9. \A j \in 0 .. m : left(j) \in Seq(DepositTree)
  BY <1>7, <1>8, AppendProperties
<1>10. w \in [0 .. m -> Seq(DepositTree)]
  <2> HIDE DEF left
  <2> QED
    BY <1>9
<1>11. left(0) = Append(trees, Leaf(leaf))
  <2>1. SubSeq(trees, 1, n) = trees
    BY <1>6, SubSeqFull
  <2>2. Leaf(leaf) = TreeOver(deps2, 0, D)
    BY LeafIsTree
  <2>3. n - 0 = n /\ at(0) = D
    <3>1. n - 0 = n /\ n - 0 + 1 = n + 1
      OBVIOUS
    <3> QED
      BY <3>1 DEF Grove
  <2> QED
    BY <2>1, <2>2, <2>3
<1>12. ASSUME NEW j \in 1 .. m PROVE left(j) = MergeLastTwo(left(j - 1))
  <2>1. PICK s : s = SubSeq(trees, 1, n - (j - 1))
    OBVIOUS
  <2>2. PICK t : t = TreeOver(deps2, j - 1, at(j - 1))
    OBVIOUS
  <2>3. j - 1 \in 0 .. m /\ j \in 0 .. m
    OBVIOUS
  <2>4. PICK l \in Nat : l = n - (j - 1) /\ l >= 1 /\ l - 1 = n - j /\ l = n - j + 1
    BY <1>2
  <2>5. /\ s \in Seq(DepositTree) /\ Len(s) = l /\ t \in DepositTree
        /\ \A i \in 1 .. l : s[i] = trees[i]
    BY <1>7, <1>8, <2>1, <2>2, <2>3, <2>4
  <2>6. MergeLastTwo(Append(s, t)) = Append(SubSeq(s, 1, l - 1), Node(s[l], t))
    BY <2>4, <2>5, MergeLastTwoIs
  <2>7. SubSeq(s, 1, l - 1) = SubSeq(trees, 1, n - j)
    <3>1. PICK u : u = SubSeq(trees, 1, n - j)
      OBVIOUS
    <3>2. /\ u \in Seq(DepositTree) /\ Len(u) = l - 1
          /\ \A i \in 1 .. l - 1 : u[i] = trees[i]
      BY <1>8, <2>3, <2>4, <3>1
    <3>3. l - 1 \in 0 .. Len(s)
      BY <2>4, <2>5
    <3>4. /\ SubSeq(s, 1, l - 1) \in Seq(DepositTree)
          /\ Len(SubSeq(s, 1, l - 1)) = l - 1
          /\ \A i \in 1 .. l - 1 : SubSeq(s, 1, l - 1)[i] = s[i]
      BY <2>5, <3>3, PrefixIs
    <3>5. \A i \in 1 .. l - 1 : SubSeq(s, 1, l - 1)[i] = u[i]
      BY <2>5, <3>2, <3>4
    <3>6. SubSeq(s, 1, l - 1) = u
      BY <3>2, <3>4, <3>5, SeqEqual
    <3> QED
      BY <3>1, <3>6
  <2>8. Node(s[l], t) = TreeOver(deps2, j, at(j))
    <3>1. PICK f \in Nat : f = at(j)
      BY <1>3, <2>3
    <3>2. PICK g \in Nat : g = at(j - 1)
      BY <1>3, <2>3
    <3>3. PICK k \in Nat : k = j - 1 /\ k + 1 = j
      OBVIOUS
    <3>4. TwoTo[k] \in Nat
      BY TwoToIs
    <3>5. g = f + TwoTo[k] /\ g + TwoTo[k] = D + 1
      BY <1>4, <1>5, <2>3, <3>1, <3>2, <3>3
    <3>6. s[l] = TreeOver(deps, k, f)
      BY <1>4, <2>4, <2>5, <3>1, <3>3
    <3>7. f + TwoTo[k] <= D /\ g + TwoTo[k] <= Len(deps2)
      <4>1. TwoTo[k] >= 1
        BY TwoToIs
      <4>2. D \in Nat /\ Len(deps2) = D + 1
        BY <1>1
      <4>3. f + TwoTo[k] <= D
        BY ONLY <3>1, <3>4, <3>5, <4>1, <4>2
      <4>4. g + TwoTo[k] <= Len(deps2)
        BY ONLY <3>5, <4>2
      <4> QED
        BY <4>3, <4>4
    <3>8. TreeOver(deps2, k, f) = TreeOver(deps, k, f)
      BY <3>7, TreeOverStays
    <3>9. t = TreeOver(deps2, k, g)
      BY <2>2, <3>2, <3>3
    <3>10. Node(TreeOver(deps2, k, f), TreeOver(deps2, k, g)) = TreeOver(deps2, k + 1, f)
      <4>1. IsHistory(deps2) /\ k \in Nat /\ f \in Nat /\ g \in Nat
        OBVIOUS
      <4> HIDE DEF deps2
      <4> QED
        BY ONLY <3>5, <3>7, <4>1, NodeIsTree
    <3> QED
      BY <3>1, <3>3, <3>6, <3>8, <3>9, <3>10
  <2> QED
    BY <2>1, <2>2, <2>6, <2>7, <2>8
<1>13. w[0] = Append(trees, Leaf(leaf)) /\ w[m] = left(m)
       /\ \A j \in 1 .. m : w[j] = MergeLastTwo(w[j - 1])
  <2> HIDE DEF left
  <2>1. \A j \in 1 .. m : j - 1 \in 0 .. m /\ j \in 0 .. m
    OBVIOUS
  <2> QED
    BY <1>11, <1>12, <2>1
<1> HIDE DEF w
<1>14. MergeLast(Append(trees, Leaf(leaf)), m) = left(m)
  <2> HIDE DEF left
  <2>1. PICK all : all = Append(trees, Leaf(leaf))
    OBVIOUS
  <2>2. Merging(w, all, m)
    BY <1>10, <1>13, <2>1 DEF Merging
  <2>3. MergeLast(all, m) = w[m]
    BY <2>2, MergeLastIs
  <2> QED
    BY <1>13, <2>1, <2>3
<1>15. m \in 0 .. m
  OBVIOUS
<1>16. ASSUME NEW i \in 1 .. n, i > n - m PROVE h[i] < m
  <2>1. PICK k \in 0 .. m - 1 : i = n - k
    <3>1. n - i \in 0 .. m - 1 /\ i = n - (n - i)
      BY <1>16
    <3> QED
      BY <3>1
  <2> QED
    BY <1>2, <2>1
<1> QED
  BY <1>2, <1>5, <1>14, <1>15, <1>16 DEF Carried

LEMMA GroveGrows ==
    ASSUME NEW trees, NEW deps \in Seq(DepositLeaf), NEW count \in Nat, NEW n \in Nat,
           NEW h, NEW first, Grove(trees, deps, count, n, h, first),
           NEW leaf \in DepositLeaf, IsHistory(Append(deps, leaf))
    PROVE  \E n2 \in Nat : \E h2, first2 :
              Grove(MergeLast(Append(trees, Leaf(leaf)), Merges(count + 1)),
                    Append(deps, leaf), count + 1, n2, h2, first2)
<1>1. PICK m \in 0 .. count : IsCarry(count, m)
  BY LowestClear DEF IsCarry
<1>2. Merges(count + 1) = m
  BY <1>1, MergesIs
<1> DEFINE deps2 == Append(deps, leaf)
           D == Len(deps)
           s == SubSeq(trees, 1, n - m)
           t == TreeOver(deps2, m, first[n - m + 1])
           n2 == n - m + 1
           h2 == [i \in 1 .. n2 |-> IF i <= n - m THEN h[i] ELSE m]
           first2 == [i \in 1 .. n2 + 1 |-> IF i <= n2 THEN first[i] ELSE D + 1]
<1>3. /\ m <= n /\ \A i \in 1 .. n - m : h[i] > m
      /\ \A i \in 1 .. n : i > n - m => h[i] < m
      /\ first[n - m + 1] + TwoTo[m] = D + 1
      /\ MergeLast(Append(trees, Leaf(leaf)), m) = Append(s, t)
  <2>1. /\ m \in Nat /\ count \in Nat /\ n \in Nat /\ deps \in Seq(DepositLeaf)
        /\ leaf \in DepositLeaf /\ Grove(trees, deps, count, n, h, first)
        /\ IsHistory(Append(deps, leaf)) /\ IsCarry(count, m)
    BY <1>1
  <2>2. Carried(trees, deps, n, h, first, leaf, m)
    BY ONLY <2>1, MergesBuild
  <2> QED
    BY <2>2 DEF Carried
<1>4. /\ D \in Nat /\ Len(deps2) = D + 1 /\ deps2 \in Seq(DepositLeaf)
      /\ n \in Nat /\ m \in Nat /\ n2 \in Nat
  BY <1>1, <1>3, LenProperties, AppendProperties
<1>5. /\ trees \in Seq(DepositTree) /\ n = Len(trees)
      /\ h \in [1 .. n -> Nat] /\ \A i, j \in 1 .. n : i < j => h[i] > h[j]
      /\ first \in [1 .. n + 1 -> 0 .. D]
      /\ first[1] = D - count /\ first[n + 1] = D
      /\ \A i \in 1 .. n : first[i + 1] = first[i] + TwoTo[h[i]]
      /\ \A i \in 1 .. n : trees[i] = TreeOver(deps, h[i], first[i])
      /\ \A k \in Nat : IsSet(count, k) <=> \E i \in 1 .. n : h[i] = k
  BY DEF Grove, Falling
<1>6. \A i \in 1 .. n : h[i] \in Nat
  BY <1>5
<1>7. \A i \in 1 .. n + 1 : first[i] \in Nat /\ first[i] <= D
  <2>1. \A i \in 1 .. n + 1 : first[i] \in 0 .. D
    BY <1>5
  <2> QED
    BY <1>4, <2>1
<1>8. \A i \in 1 .. n - m : i \in 1 .. n /\ i \in 1 .. n + 1
  BY <1>3, <1>4
<1>9. /\ s \in Seq(DepositTree) /\ Len(s) = n - m
      /\ \A i \in 1 .. n - m : s[i] = trees[i]
  <2>1. n - m \in 0 .. Len(trees)
    BY <1>3, <1>4, <1>5
  <2> QED
    BY <1>5, <2>1, PrefixIs
<1>10. t \in DepositTree
  <2>1. PICK f \in Nat : f = first[n - m + 1]
    <3>1. n - m + 1 \in 1 .. n + 1
      BY <1>3, <1>4
    <3> QED
      BY <1>7, <3>1
  <2>2. f + TwoTo[m] <= Len(deps2)
    BY <1>3, <1>4, <2>1
  <2> QED
    BY <1>4, <2>1, <2>2, TreeOverType
<1>11. /\ Append(s, t) \in Seq(DepositTree) /\ Len(Append(s, t)) = n2
      /\ \A i \in 1 .. n - m : Append(s, t)[i] = trees[i]
      /\ Append(s, t)[n2] = t
  <2>1. /\ Append(s, t) \in Seq(DepositTree) /\ Len(Append(s, t)) = Len(s) + 1
        /\ \A i \in 1 .. Len(s) : Append(s, t)[i] = s[i]
        /\ Append(s, t)[Len(s) + 1] = t
    BY <1>9, <1>10, AppendProperties
  <2> QED
    BY <1>9, <2>1
<1>12. /\ \A i \in 1 .. n - m : h2[i] = h[i]
      /\ h2[n2] = m
      /\ \A i \in 1 .. n2 : i \in 1 .. n - m \/ i = n2
  BY <1>3, <1>4
<1>13. /\ \A i \in 1 .. n2 : first2[i] = first[i] /\ i \in 1 .. n + 1
       /\ first2[n2 + 1] = D + 1
       /\ \A i \in 1 .. n2 + 1 : i \in 1 .. n2 \/ i = n2 + 1
  BY <1>3, <1>4
<1>14. h2 \in [1 .. n2 -> Nat] /\ \A i, j \in 1 .. n2 : i < j => h2[i] > h2[j]
  <2>1. h2 \in [1 .. n2 -> Nat]
    <3>1. \A i \in 1 .. n - m : i \in 1 .. n /\ h[i] \in Nat
      BY <1>6, <1>8
    <3>2. \A i \in 1 .. n2 : h2[i] \in Nat
      BY <1>4, <1>12, <3>1
    <3> QED
      BY <3>2
  <2>2. ASSUME NEW i \in 1 .. n2, NEW j \in 1 .. n2, i < j PROVE h2[i] > h2[j]
    <3>1. i \in 1 .. n - m /\ i \in 1 .. n
      BY <1>3, <1>4, <2>2
    <3>2. CASE j = n2
      BY <1>3, <1>12, <3>1, <3>2
    <3>3. CASE j \in 1 .. n - m
      <4>1. j \in 1 .. n
        BY <1>3, <1>4, <3>3
      <4> QED
        BY <1>5, <1>12, <2>2, <3>1, <3>3, <4>1
    <3> QED
      BY <1>12, <3>2, <3>3
  <2> QED
    BY <2>1, <2>2
<1>15. first2 \in [1 .. n2 + 1 -> 0 .. Len(deps2)]
  <2>1. \A i \in 1 .. n + 1 : first[i] \in 0 .. D
    BY <1>5
  <2>2. \A i \in 1 .. n2 + 1 : first2[i] \in 0 .. D + 1
    BY <1>4, <1>13, <2>1
  <2> QED
    BY <1>4, <2>2
<1> HIDE DEF s, t, h2, first2
<1>16. first2[1] = Len(deps2) - (count + 1) /\ first2[n2 + 1] = Len(deps2)
  <2>1. 1 \in 1 .. n2
    BY <1>3, <1>4
  <2>2. first2[1] = D - count
    BY <1>5, <1>13, <2>1
  <2> QED
    BY <1>4, <1>13, <2>2
<1>17. ASSUME NEW i \in 1 .. n2
       PROVE  /\ first2[i + 1] = first2[i] + TwoTo[h2[i]]
              /\ Append(s, t)[i] = TreeOver(deps2, h2[i], first2[i])
  <2>1. CASE i = n2
    <3>1. first2[i + 1] = D + 1 /\ first2[i] = first[n - m + 1] /\ h2[i] = m
      BY <1>12, <1>13, <2>1
    <3>2. Append(s, t)[i] = TreeOver(deps2, m, first[n - m + 1])
      BY <1>11, <2>1 DEF t
    <3> QED
      BY <1>3, <3>1, <3>2
  <2>2. CASE i \in 1 .. n - m
    <3>1. i \in 1 .. n /\ i \in 1 .. n2 /\ i + 1 \in 1 .. n2
      BY <1>3, <1>4, <2>2
    <3>2. first2[i + 1] = first[i + 1] /\ first2[i] = first[i] /\ h2[i] = h[i]
      BY <1>12, <1>13, <2>2, <3>1
    <3>3. PICK x \in Nat : x = h[i]
      BY <1>5, <3>1
    <3>4. PICK f \in Nat : f = first[i]
      BY <1>7, <1>8, <2>2
    <3>5. first[i + 1] = f + TwoTo[x] /\ first[i + 1] <= D
      <4>1. first[i + 1] \in 0 .. D
        BY <1>5, <1>13, <3>1
      <4>2. first[i + 1] = first[i] + TwoTo[h[i]]
        BY <1>5, <3>1
      <4>3. first[i + 1] = f + TwoTo[x]
        BY <3>3, <3>4, <4>2
      <4>4. first[i + 1] <= D
        BY <1>4, <4>1
      <4> QED
        BY <4>3, <4>4
    <3>6. TreeOver(deps2, x, f) = TreeOver(deps, x, f)
      BY <3>5, TreeOverStays
    <3>7. Append(s, t)[i] = TreeOver(deps, x, f)
      BY <1>5, <1>11, <2>2, <3>1, <3>3, <3>4
    <3> QED
      BY <3>2, <3>3, <3>4, <3>5, <3>6, <3>7
  <2> QED
    BY <1>12, <2>1, <2>2
<1>18. ASSUME NEW k \in Nat
       PROVE  IsSet(count + 1, k) <=> \E i \in 1 .. n2 : h2[i] = k
  <2>1. /\ \A j \in 0 .. m - 1 : ~IsSet(count + 1, j)
        /\ IsSet(count + 1, m)
        /\ \A j \in Nat : j > m => Shifted(count + 1, j) = Shifted(count, j)
    <3>1. (\A j \in 0 .. m - 1 : IsSet(count, j)) /\ ~IsSet(count, m)
      BY <1>1 DEF IsCarry
    <3> QED
      BY <1>4, <3>1, Carry
  <2>2. CASE k < m
    <3>1. ~IsSet(count + 1, k)
      BY <1>4, <2>1, <2>2
    <3>2. \A i \in 1 .. n2 : h2[i] # k
      <4>1. \A i \in 1 .. n - m : i \in 1 .. n /\ h[i] \in Nat /\ h[i] > m
        BY <1>3, <1>6, <1>8
      <4> QED
        BY <1>4, <1>12, <2>2, <4>1
    <3> QED
      BY <3>1, <3>2
  <2>3. CASE k = m
    <3>1. n2 \in 1 .. n2
      BY <1>3, <1>4
    <3> QED
      BY <1>12, <2>1, <2>3, <3>1
  <2>4. CASE k > m
    <3>1. IsSet(count + 1, k) <=> \E i \in 1 .. n : h[i] = k
      BY <1>5, <2>1, <2>4 DEF IsSet
    <3>2. ASSUME NEW i \in 1 .. n, h[i] = k PROVE \E j \in 1 .. n2 : h2[j] = k
      <4>1. i \in 1 .. n - m
        BY <1>3, <1>4, <2>4, <3>2
      <4>2. i \in 1 .. n2
        BY <1>4, <4>1
      <4> QED
        BY <1>12, <3>2, <4>1, <4>2
    <3>3. ASSUME NEW j \in 1 .. n2, h2[j] = k PROVE \E i \in 1 .. n : h[i] = k
      <4>1. j \in 1 .. n - m
        BY <1>4, <1>12, <2>4, <3>3
      <4>2. j \in 1 .. n
        BY <1>3, <1>4, <4>1
      <4> QED
        BY <1>12, <3>3, <4>1, <4>2
    <3> QED
      BY <3>1, <3>2, <3>3
  <2>5. k < m \/ k = m \/ k > m
    BY <1>4
  <2> QED
    BY <2>2, <2>3, <2>4, <2>5
<1>19. Grove(Append(s, t), deps2, count + 1, n2, h2, first2)
  <2> HIDE DEF n2, deps2
  <2> QED
    BY <1>11, <1>14, <1>15, <1>16, <1>17, <1>18 DEF Grove, Falling
<1> QED
  BY <1>2, <1>3, <1>4, <1>19

LEMMA GroveStarts ==
    ASSUME NEW deps \in Seq(DepositLeaf)
    PROVE  \E n \in Nat : \E h, first : Grove(<<>>, deps, 0, n, h, first)
<1> DEFINE h == [i \in 1 .. 0 |-> 0]
           first == [i \in 1 .. 1 |-> Len(deps)]
<1>1. Len(deps) \in Nat
  BY LenProperties
<1>2. Falling(h, 0)
  BY DEF Falling
<1>3. first \in [1 .. 0 + 1 -> 0 .. Len(deps)]
      /\ first[1] = Len(deps) - 0 /\ first[0 + 1] = Len(deps)
  BY <1>1
<1>4. \A k \in Nat : ~IsSet(0, k)
  <2>1. 0 % 2 = 0
    OBVIOUS
  <2> QED
    BY <2>1, ShiftedZero DEF IsSet
<1>5. <<>> \in Seq(DepositTree) /\ 0 = Len(<<>>)
  OBVIOUS
<1>6. 1 .. 0 = {}
  OBVIOUS
<1> HIDE DEF h, first
<1>7. Grove(<<>>, deps, 0, 0, h, first)
  BY <1>2, <1>3, <1>4, <1>5, <1>6 DEF Grove
<1>8. 0 \in Nat
  OBVIOUS
<1> QED
  BY <1>7, <1>8

(* A whole power of two of deposits is one tree.                           *)
LEMMA GroveFull ==
    ASSUME NEW trees, NEW deps \in Seq(DepositLeaf), NEW n \in Nat, NEW h, NEW first,
           NEW d \in Nat, Grove(trees, deps, TwoTo[d], n, h, first)
    PROVE  /\ Len(deps) - TwoTo[d] \in Nat
           /\ trees[1] = TreeOver(deps, d, Len(deps) - TwoTo[d])
<1>1. /\ Falling(h, n)
      /\ first \in [1 .. n + 1 -> 0 .. Len(deps)] /\ first[1] = Len(deps) - TwoTo[d]
      /\ \A i \in 1 .. n : trees[i] = TreeOver(deps, h[i], first[i])
      /\ \A k \in Nat : IsSet(TwoTo[d], k) <=> \E i \in 1 .. n : h[i] = k
  BY DEF Grove
<1>2. \A k \in Nat : IsSet(TwoTo[d], k) <=> k = d
  BY ShiftedPower
<1>3. PICK i \in 1 .. n : h[i] = d
  BY <1>1, <1>2
<1>4. 1 \in 1 .. n /\ 1 \in 1 .. n + 1
  BY <1>3
<1>5. h[1] \in Nat
  BY <1>1, <1>4 DEF Falling
<1>6. h[1] = d
  BY <1>1, <1>2, <1>4, <1>5
<1>7. first[1] \in 0 .. Len(deps) /\ Len(deps) \in Nat
  BY <1>1, <1>4, LenProperties
<1> QED
  BY <1>1, <1>4, <1>6, <1>7
-----------------------------------------------------------------------------
(* The trees that are finished: every one is over a whole run of the first *)
(* deposits, and each of these is in exactly one.                          *)
IsSupply(roots, deps, done) ==
    /\ \A root \in roots : \E f \in Nat :
          f + GovMaxSubtreeSize <= done /\ root = TreeOver(deps, SubtreeDepth, f)
    /\ \A d \in 1 .. done : \E f \in Nat :
          /\ f < d /\ d <= f + GovMaxSubtreeSize /\ f + GovMaxSubtreeSize <= done
          /\ TreeOver(deps, SubtreeDepth, f) \in roots
    /\ \A f, g \in Nat, d \in 1 .. done :
          /\ f < d /\ d <= f + GovMaxSubtreeSize /\ f + GovMaxSubtreeSize <= done
          /\ g < d /\ d <= g + GovMaxSubtreeSize /\ g + GovMaxSubtreeSize <= done
          /\ TreeOver(deps, SubtreeDepth, f) \in roots
          /\ TreeOver(deps, SubtreeDepth, g) \in roots
          => f = g

LEMMA SizeType ==
    /\ GovMaxSubtreeSize \in Nat /\ GovMaxSubtreeSize >= 1
    /\ GovMaxSubtreeSize = TwoTo[SubtreeDepth] /\ SubtreeDepth \in Nat
BY TwoToIs, DepositAssumption DEF GovMaxSubtreeSize

LEMMA SupplyStays ==
    ASSUME NEW roots, NEW deps \in Seq(DepositLeaf), NEW leaf \in DepositLeaf,
           NEW done \in Nat, done <= Len(deps), IsSupply(roots, deps, done)
    PROVE  IsSupply(roots, Append(deps, leaf), done)
<1>1. \A f \in Nat : f + GovMaxSubtreeSize <= done =>
         TreeOver(Append(deps, leaf), SubtreeDepth, f) = TreeOver(deps, SubtreeDepth, f)
  <2>1. ASSUME NEW f \in Nat, f + GovMaxSubtreeSize <= done
        PROVE  TreeOver(Append(deps, leaf), SubtreeDepth, f) = TreeOver(deps, SubtreeDepth, f)
    <3>1. f + TwoTo[SubtreeDepth] <= Len(deps)
      BY <2>1, SizeType, LenProperties
    <3> QED
      BY <3>1, SizeType, TreeOverStays
  <2> QED
    BY <2>1
<1> QED
  BY <1>1 DEF IsSupply

LEMMA SupplyGrows ==
    ASSUME NEW roots, NEW deps, IsHistory(deps), NEW done \in Nat, NEW after \in Nat,
           after = done + GovMaxSubtreeSize, after <= Len(deps),
           IsSupply(roots, deps, done)
    PROVE  /\ TreeOver(deps, SubtreeDepth, done) \notin roots
           /\ IsSupply(roots \union {TreeOver(deps, SubtreeDepth, done)}, deps, after)
<1> DEFINE size == GovMaxSubtreeSize
           tree(f) == TreeOver(deps, SubtreeDepth, f)
<1>1. size \in Nat /\ size >= 1 /\ size = TwoTo[SubtreeDepth] /\ SubtreeDepth \in Nat
      /\ Len(deps) \in Nat
  <2>1. Len(deps) \in Nat
    BY LenProperties DEF IsHistory
  <2> QED
    BY <2>1, SizeType
<1>2. \A f, g \in Nat : f + size <= after /\ g + size <= after /\ tree(f) = tree(g) => f = g
  <2>1. ASSUME NEW f \in Nat, NEW g \in Nat, f + size <= after, g + size <= after,
               tree(f) = tree(g)
        PROVE  f = g
    <3>1. f + size <= Len(deps) /\ g + size <= Len(deps)
      <4>1. after \in Nat /\ after <= Len(deps)
        OBVIOUS
      <4> QED
        BY ONLY <1>1, <2>1, <4>1
    <3>2. f + TwoTo[SubtreeDepth] <= Len(deps) /\ g + TwoTo[SubtreeDepth] <= Len(deps)
      BY <1>1, <3>1
    <3> QED
      BY <1>1, <2>1, <3>2, TreeOverDiffers
  <2> QED
    BY <2>1
<1>3. /\ \A root \in roots : \E f \in Nat : f + size <= done /\ root = tree(f)
      /\ \A d \in 1 .. done : \E f \in Nat :
            f < d /\ d <= f + size /\ f + size <= done /\ tree(f) \in roots
      /\ \A f, g \in Nat, d \in 1 .. done :
            /\ f < d /\ d <= f + size /\ f + size <= done
            /\ g < d /\ d <= g + size /\ g + size <= done
            /\ tree(f) \in roots /\ tree(g) \in roots
            => f = g
  BY DEF IsSupply
<1> HIDE DEF tree, size
<1>4. \A f \in Nat : f + size <= after /\ tree(f) \in roots => f + size <= done
  <2>1. ASSUME NEW f \in Nat, f + size <= after, tree(f) \in roots PROVE f + size <= done
    <3>1. PICK g \in Nat : g + size <= done /\ tree(f) = tree(g)
      BY <1>3, <2>1
    <3>2. g + size <= after
      BY <1>1, <3>1 DEF size
    <3> QED
      BY <1>2, <2>1, <3>1, <3>2
  <2> QED
    BY <2>1
<1>5. tree(done) \notin roots
  BY <1>1, <1>4 DEF size
<1> DEFINE all == roots \union {tree(done)}
<1>6. \A root \in all : \E f \in Nat : f + size <= after /\ root = tree(f)
  <2>1. ASSUME NEW root \in roots PROVE \E f \in Nat : f + size <= after /\ root = tree(f)
    <3>1. PICK f \in Nat : f + size <= done /\ root = tree(f)
      BY <1>3
    <3>2. f + size <= after
      BY <1>1, <3>1 DEF size
    <3> QED
      BY <3>1, <3>2
  <2>2. done + size <= after
    BY <1>1 DEF size
  <2> QED
    BY <2>1, <2>2
<1>7. ASSUME NEW d \in 1 .. after
      PROVE  \E f \in Nat : f < d /\ d <= f + size /\ f + size <= after /\ tree(f) \in all
  <2>1. CASE d \in 1 .. done
    <3>1. PICK f \in Nat : f < d /\ d <= f + size /\ f + size <= done /\ tree(f) \in roots
      BY <1>3, <2>1
    <3>2. f + size <= after
      BY <1>1, <3>1 DEF size
    <3> QED
      BY <3>1, <3>2
  <2>2. CASE d > done
    <3>1. done < d /\ d <= done + size /\ done + size <= after
      BY <1>1, <1>7, <2>2 DEF size
    <3> QED
      BY <3>1
  <2> QED
    BY <2>1, <2>2
<1>8. ASSUME NEW f \in Nat, NEW g \in Nat, NEW d \in 1 .. after,
             f < d /\ d <= f + size /\ f + size <= after,
             g < d /\ d <= g + size /\ g + size <= after,
             tree(f) \in all, tree(g) \in all
      PROVE  f = g
  <2>1. \A x \in {f, g} : tree(x) \in roots \/ x = done
    <3>1. done + size <= after
      BY <1>1 DEF size
    <3> QED
      BY <1>2, <1>8, <3>1
  <2>2. CASE f # done /\ g # done
    <3>1. f + size <= done /\ g + size <= done
      BY <1>4, <1>8, <2>1, <2>2
    <3>2. d \in 1 .. done
      BY <1>1, <1>8, <3>1
    <3> QED
      BY <1>3, <1>8, <2>1, <2>2, <3>1, <3>2
  <2>3. CASE f = done /\ g # done
    <3>1. g + size <= done
      BY <1>4, <1>8, <2>1, <2>3
    <3> QED
      BY <1>1, <1>8, <2>3, <3>1
  <2>4. CASE f # done /\ g = done
    <3>1. f + size <= done
      BY <1>4, <1>8, <2>1, <2>4
    <3> QED
      BY <1>1, <1>8, <2>4, <3>1
  <2> QED
    BY <2>2, <2>3, <2>4
<1>9. IsSupply(all, deps, after)
  <2> HIDE DEF all
  <2> QED
    BY <1>6, <1>7, <1>8 DEF IsSupply, tree, size
<1> QED
  BY <1>5, <1>9 DEF tree
-----------------------------------------------------------------------------
(* Total amounts deposited so far.                                         *)
Deposited(deps, token) == Total([d \in 1 .. Len(deps) |-> Worth(deps[d], token)])

DepositsInv ==
    /\ IsHistory(deposits) /\ Len(deposits) <= MaxDeposits
    /\ depositCount \in Nat
    /\ depositCount < GovMaxSubtreeSize /\ depositCount <= Len(deposits)
    /\ \E n \in Nat : \E h, first : Grove(babyTrees, deposits, depositCount, n, h, first)
VaultInv == vaultBalance = [token \in Tokens |-> Deposited(deposits, token)]
ArrivedInv == IsSupply(arrived, deposits, Len(deposits) - depositCount)

(* The deposits of the baby trees are the newest, those before are in      *)
(* finished subtrees, and the vault holds what all of them are worth.      *)
HubbleInv == DepositsInv /\ VaultInv /\ ArrivedInv

LEMMA HubbleStarts == HubbleInit => HubbleInv
<1> SUFFICES ASSUME HubbleInit PROVE HubbleInv
  OBVIOUS
<1>1. /\ babyTrees = <<>> /\ depositCount = 0 /\ deposits = <<>>
      /\ vaultBalance = [token \in Tokens |-> 0] /\ arrived = {}
  BY DEF HubbleInit, DepositInit, Init
<1>2. <<>> \in Seq(DepositLeaf) /\ Len(<<>>) = 0
  OBVIOUS
<1>3. DepositsInv
  <2>1. IsHistory(deposits) /\ Len(deposits) = 0
    BY <1>1, <1>2 DEF IsHistory
  <2>2. \E n \in Nat : \E h, first : Grove(babyTrees, deposits, depositCount, n, h, first)
    BY <1>1, <1>2, GroveStarts
  <2> QED
    BY <1>1, <2>1, <2>2, SizeType, DepositAssumption DEF DepositsInv
<1>4. VaultInv
  <2>1. ASSUME NEW token \in Tokens PROVE Deposited(deposits, token) = 0
    <3> DEFINE v == [d \in 1 .. 0 |-> Worth(deposits[d], token)]
    <3>1. v \in [1 .. 0 -> Int] /\ \A d \in 1 .. 0 : v[d] = 0
      OBVIOUS
    <3>2. Deposited(deposits, token) = Total(v)
      BY <1>1, <1>2 DEF Deposited
    <3> HIDE DEF v
    <3>3. 0 \in Nat
      OBVIOUS
    <3> QED
      BY <3>1, <3>2, <3>3, TotalZero
  <2> QED
    BY <1>1, <2>1 DEF VaultInv
<1>5. ArrivedInv
  <2>1. Len(deposits) - depositCount = 0
    BY <1>1, <1>2
  <2>2. 1 .. 0 = {}
    OBVIOUS
  <2>3. IsSupply({}, deposits, 0)
    BY <2>2 DEF IsSupply
  <2> QED
    BY <1>1, <2>1, <2>3 DEF ArrivedInv
<1> QED
  BY <1>3, <1>4, <1>5 DEF HubbleInv

(* A full tree over deposits is one that Rollup may receive.               *)
LEMMA TreeIsSubtree ==
    ASSUME NEW deps, IsHistory(deps), Len(deps) <= MaxDeposits, NEW f \in Nat,
           f + GovMaxSubtreeSize <= Len(deps)
    PROVE  TreeOver(deps, SubtreeDepth, f) \in Subtrees
<1> DEFINE size == GovMaxSubtreeSize
           kinds == [i \in 1 .. size |-> <<deps[f + i].tokenType, deps[f + i].balance>>]
<1>1. /\ size \in Nat /\ size >= 1 /\ size = TwoTo[SubtreeDepth]
      /\ deps \in [1 .. Len(deps) -> DepositLeaf] /\ Len(deps) \in Nat
  BY SizeType, LenProperties DEF IsHistory
<1>2. \A i \in 1 .. size : f + i \in 1 .. Len(deps)
  BY <1>1
<1>3. ASSUME NEW i \in 1 .. size
      PROVE  /\ kinds[i] \in Tokens \X (Amounts \ {0})
             /\ deps[f + i] = [deposit |-> f + 1 + i - 1, tokenType |-> kinds[i][1],
                               balance |-> kinds[i][2]]
  <2>1. PICK leaf \in DepositLeaf : leaf = deps[f + i]
    BY <1>1, <1>2
  <2>2. leaf.deposit = f + i /\ leaf.balance \in Amounts
    BY <1>2, <2>1 DEF IsHistory
  <2>3. /\ leaf.tokenType \in Tokens /\ leaf.balance \in Amounts \ {0}
        /\ leaf = [deposit |-> leaf.deposit, tokenType |-> leaf.tokenType,
                   balance |-> leaf.balance]
    BY <2>2 DEF DepositLeaf
  <2>4. kinds[i] = <<leaf.tokenType, leaf.balance>>
    BY <2>1
  <2>5. f + 1 + i - 1 = f + i
    OBVIOUS
  <2> HIDE DEF kinds
  <2> QED
    BY <2>1, <2>2, <2>3, <2>4, <2>5
<1>4. kinds \in [1 .. size -> Tokens \X (Amounts \ {0})]
  BY <1>3
<1>5. f + 1 \in 1 .. MaxDeposits
  BY <1>1, DepositAssumption
<1>6. TreeOver(deps, SubtreeDepth, f) = FullSubtree(f + 1, kinds)
  <2> HIDE DEF kinds
  <2> QED
    BY <1>1, <1>3 DEF TreeOver, FullSubtree
<1> HIDE DEF kinds
<1>7. FullSubtree(f + 1, kinds) \in FullSubtrees
  BY <1>4, <1>5 DEF FullSubtrees
<1> QED
  BY <1>6, <1>7, FullSubtreesAssumption

(* What a deposit does, whether it completes a subtree or not.             *)
LEMMA DepositFacts ==
    ASSUME HubbleInv, SubtreesTypeOK,
           NEW amount \in Amounts, NEW token \in Tokens, Deposit(amount, token)
    PROVE  \E leaf \in DepositLeaf :
              /\ leaf = [deposit |-> Len(deposits) + 1, tokenType |-> token,
                         balance |-> amount]
              /\ deposits' = Append(deposits, leaf)
              /\ IsHistory(deposits') /\ Len(deposits') = Len(deposits) + 1
              /\ Len(deposits') <= MaxDeposits
<1> DEFINE leaf == [deposit |-> Len(deposits) + 1, tokenType |-> token, balance |-> amount]
<1>1. IsHistory(deposits) /\ deposits \in Seq(DepositLeaf) /\ Len(deposits) \in Nat
  BY LenProperties DEF HubbleInv, DepositsInv, IsHistory
<1>2. deposits' = Append(deposits, leaf) /\ Len(deposits) < MaxDeposits /\ amount > 0
  BY DEF Deposit, DepositFor
<1>3. leaf \in DepositLeaf /\ leaf.deposit = Len(deposits) + 1 /\ leaf.balance \in Amounts
  BY <1>1, <1>2, DepositAssumption DEF DepositLeaf
<1>4. leaf = [deposit |-> Len(deposits) + 1, tokenType |-> token, balance |-> amount]
  OBVIOUS
<1> HIDE DEF leaf
<1>5. /\ deposits' \in Seq(DepositLeaf) /\ Len(deposits') = Len(deposits) + 1
      /\ \A d \in 1 .. Len(deposits) : deposits'[d] = deposits[d]
      /\ deposits'[Len(deposits) + 1] = leaf
  BY <1>1, <1>2, <1>3, AppendProperties
<1>6. \A d \in 1 .. Len(deposits') : deposits'[d].deposit = d /\ deposits'[d].balance \in Amounts
  <2>1. \A d \in 1 .. Len(deposits') : d \in 1 .. Len(deposits) \/ d = Len(deposits) + 1
    BY <1>1, <1>5
  <2>2. \A d \in 1 .. Len(deposits) : deposits[d].deposit = d /\ deposits[d].balance \in Amounts
    BY <1>1 DEF IsHistory
  <2> QED
    BY <1>3, <1>5, <2>1, <2>2
<1>7. IsHistory(deposits')
  BY <1>5, <1>6 DEF IsHistory
<1>8. Len(deposits') <= MaxDeposits
  BY <1>1, <1>2, <1>5, DepositAssumption
<1> QED
  BY <1>2, <1>3, <1>4, <1>5, <1>7, <1>8

LEMMA DepositedMore ==
    ASSUME NEW deps \in Seq(DepositLeaf), NEW leaf \in DepositLeaf, NEW token \in Tokens
    PROVE  /\ Deposited(deps, token) \in Int
           /\ Deposited(Append(deps, leaf), token)
                 = Deposited(deps, token) + Worth(leaf, token)
<1> DEFINE n == Len(deps)
           deps2 == Append(deps, leaf)
           v == [d \in 1 .. n |-> Worth(deps[d], token)]
           x == [d \in 1 .. n + 1 |-> Worth(deps2[d], token)]
<1>1. /\ n \in Nat /\ Len(deps2) = n + 1
      /\ \A d \in 1 .. n : deps[d] \in DepositLeaf /\ deps2[d] = deps[d]
      /\ deps2[n + 1] = leaf
  BY LenProperties, AppendProperties
<1>2. \A l \in DepositLeaf : Worth(l, token) \in Int
  BY DEF Worth, DepositLeaf
<1>3. v \in [1 .. n -> Int]
  BY <1>1, <1>2
<1>4. x \in [1 .. n + 1 -> Int]
  <2>1. \A d \in 1 .. n + 1 : d \in 1 .. n \/ d = n + 1
    BY <1>1
  <2>2. \A d \in 1 .. n + 1 : Worth(deps2[d], token) \in Int
    BY <1>1, <1>2, <2>1
  <2> HIDE DEF deps2
  <2> QED
    BY <2>2
<1>5. \A d \in 1 .. n : x[d] = v[d] /\ d \in 1 .. n + 1
  BY <1>1
<1>6. x[n + 1] = Worth(leaf, token)
  BY <1>1
<1>7. Deposited(deps, token) = Total(v) /\ Deposited(deps2, token) = Total(x)
  BY <1>1 DEF Deposited
<1> HIDE DEF v, x, n, deps2
<1>8. Total(x) = Total(v) + x[n + 1]
  BY <1>1, <1>3, <1>4, <1>5, TotalOneMore
<1>9. Total(v) \in Int
  BY <1>1, <1>3, TotalType
<1> QED
  BY <1>6, <1>7, <1>8, <1>9 DEF deps2

(* A deposit keeps the invariant, and it is a step of Rollup or none.      *)
LEMMA DepositKeeps ==
    ASSUME HubbleInv, SubtreesTypeOK,
           NEW amount \in Amounts, NEW token \in Tokens, Deposit(amount, token)
    PROVE  /\ HubbleInv'
           /\ UNCHANGED vars \/ \E root \in Subtrees : SubtreeReady(root)
<1>1. PICK leaf \in DepositLeaf :
         /\ leaf = [deposit |-> Len(deposits) + 1, tokenType |-> token,
                    balance |-> amount]
         /\ deposits' = Append(deposits, leaf)
         /\ IsHistory(deposits') /\ Len(deposits') = Len(deposits) + 1
         /\ Len(deposits') <= MaxDeposits
  BY DepositFacts
<1>2. IsHistory(deposits) /\ deposits \in Seq(DepositLeaf) /\ Len(deposits) \in Nat
  BY LenProperties DEF HubbleInv, DepositsInv, IsHistory
<1>3. PICK count \in Nat : count = depositCount /\ count < GovMaxSubtreeSize
                           /\ count <= Len(deposits)
  BY DEF HubbleInv, DepositsInv
<1>4. PICK merged : merged = MergeLast(Append(babyTrees, Leaf(leaf)), Merges(count + 1))
  OBVIOUS
<1>5. \E n \in Nat : \E h, first : Grove(merged, deposits', count + 1, n, h, first)
  <2>0. PICK n \in Nat : \E h, first : Grove(babyTrees, deposits, count, n, h, first)
    BY <1>3 DEF HubbleInv, DepositsInv
  <2>1. PICK h, first : Grove(babyTrees, deposits, count, n, h, first)
    BY <2>0
  <2>2. \E n2 \in Nat : \E h2, first2 :
          Grove(MergeLast(Append(babyTrees, Leaf(leaf)), Merges(count + 1)),
                Append(deposits, leaf), count + 1, n2, h2, first2)
    BY <1>1, <1>2, <2>1, GroveGrows
  <2> QED
    BY <1>1, <1>4, <2>2
<1>6. /\ vaultBalance' = [vaultBalance EXCEPT ![token] = @ + amount]
      /\ arrived' = arrived \union
            {subtreeQueue'[k] : k \in Len(subtreeQueue) + 1 .. Len(subtreeQueue')}
      /\ UNCHANGED <<rollupVars, stakeVars>>
      /\ IF count + 1 = GovMaxSubtreeSize
         THEN /\ Enqueue(merged[1])
              /\ babyTrees' = <<>>
              /\ depositCount' = 0
         ELSE /\ babyTrees' = merged
              /\ depositCount' = count + 1
              /\ UNCHANGED subtreeVars
  BY <1>1, <1>3, <1>4 DEF Deposit, DepositFor, InsertAndMerge
<1>7. VaultInv'
  <2>1. ASSUME NEW t \in Tokens PROVE vaultBalance'[t] = Deposited(deposits', t)
    <3>1. Deposited(deposits', t) = Deposited(deposits, t) + Worth(leaf, t)
          /\ Deposited(deposits, t) \in Int
      BY <1>1, <1>2, DepositedMore
    <3>2. vaultBalance[t] = Deposited(deposits, t)
      BY DEF HubbleInv, VaultInv
    <3>3. vaultBalance'[t] = IF t = token THEN vaultBalance[t] + amount ELSE vaultBalance[t]
      BY <1>6 DEF HubbleInv, VaultInv
    <3>4. Worth(leaf, t) = IF t = token THEN amount ELSE 0
      BY <1>1 DEF Worth
    <3> QED
      BY <3>1, <3>2, <3>3, <3>4
  <2>2. vaultBalance' = [t \in Tokens |-> vaultBalance'[t]]
    BY <1>6 DEF HubbleInv, VaultInv
  <2> QED
    BY <2>1, <2>2 DEF VaultInv
<1> DEFINE done == Len(deposits) - count
<1>8. done \in Nat /\ done <= Len(deposits) /\ IsSupply(arrived, deposits', done)
  <2>1. done \in Nat /\ done <= Len(deposits)
    BY <1>2, <1>3
  <2>2. IsSupply(arrived, deposits, done)
    BY <1>3 DEF HubbleInv, ArrivedInv
  <2> HIDE DEF done
  <2>3. IsSupply(arrived, Append(deposits, leaf), done)
    BY <1>2, <2>1, <2>2, SupplyStays
  <2> QED
    BY <1>1, <2>1, <2>3
<1>9. subtreeQueue \in Seq(arrived) /\ Len(subtreeQueue) \in Nat
  BY LenProperties DEF SubtreesTypeOK, OnlyHolds
<1>10. CASE count + 1 # GovMaxSubtreeSize
  <2>1. babyTrees' = merged /\ depositCount' = count + 1 /\ UNCHANGED subtreeVars
    BY <1>6, <1>10
  <2>2. arrived' = arrived
    <3>1. Len(subtreeQueue) + 1 .. Len(subtreeQueue) = {}
      BY <1>9
    <3>2. subtreeQueue' = subtreeQueue
      BY <2>1 DEF subtreeVars
    <3> QED
      BY <1>6, <3>1, <3>2
  <2>3. DepositsInv'
    <3>1. count + 1 \in Nat /\ count + 1 < GovMaxSubtreeSize /\ count + 1 <= Len(deposits')
      BY <1>1, <1>2, <1>3, <1>10, SizeType
    <3> QED
      BY <1>1, <1>5, <2>1, <3>1 DEF DepositsInv
  <2>4. ArrivedInv'
    <3>1. Len(deposits') - depositCount' = done
      BY <1>1, <1>2, <2>1
    <3> QED
      BY <1>8, <2>2, <3>1 DEF ArrivedInv
  <2>5. UNCHANGED vars
    BY <1>6, <2>1, <2>2 DEF vars, rollupVars, stakeVars, subtreeVars
  <2> QED
    BY <1>7, <2>3, <2>4, <2>5 DEF HubbleInv
<1>11. CASE count + 1 = GovMaxSubtreeSize
  <2>1. Enqueue(merged[1]) /\ babyTrees' = <<>> /\ depositCount' = 0
    BY <1>6, <1>11
  <2> DEFINE root == merged[1]
  <2>2. root = TreeOver(deposits', SubtreeDepth, done)
    <3>0. PICK n \in Nat : \E h, first : Grove(merged, deposits', TwoTo[SubtreeDepth], n, h, first)
      BY <1>5, <1>11, SizeType
    <3>1. PICK h, first : Grove(merged, deposits', TwoTo[SubtreeDepth], n, h, first)
      BY <3>0
    <3>2. deposits' \in Seq(DepositLeaf) /\ SubtreeDepth \in Nat
      BY <1>1, SizeType DEF IsHistory
    <3>3. merged[1] = TreeOver(deposits', SubtreeDepth, Len(deposits') - TwoTo[SubtreeDepth])
      <4>1. PICK deps \in Seq(DepositLeaf) : deps = deposits'
        BY <3>2
      <4>2. PICK d \in Nat : d = SubtreeDepth
        BY <3>2
      <4>3. n \in Nat /\ Grove(merged, deps, TwoTo[d], n, h, first)
        BY <3>1, <4>1, <4>2
      <4>4. merged[1] = TreeOver(deps, d, Len(deps) - TwoTo[d])
        BY ONLY <4>1, <4>2, <4>3, GroveFull
      <4> QED
        BY <4>1, <4>2, <4>4
    <3>4. Len(deposits') - TwoTo[SubtreeDepth] = done
      BY <1>1, <1>2, <1>11, SizeType
    <3> QED
      BY <3>3, <3>4
  <2>3. Len(deposits') = done + GovMaxSubtreeSize /\ Len(deposits') \in Nat
    BY <1>1, <1>2, <1>11
  <2> HIDE DEF done, root
  <2>4. /\ root \notin arrived
        /\ IsSupply(arrived \union {root}, deposits', Len(deposits'))
    <3>1. PICK after \in Nat : after = Len(deposits')
      BY <2>3
    <3>2. PICK deps : deps = deposits'
      OBVIOUS
    <3>3. /\ IsHistory(deps) /\ after = done + GovMaxSubtreeSize /\ after <= Len(deps)
          /\ done \in Nat /\ IsSupply(arrived, deps, done)
      BY <1>1, <1>8, <2>3, <3>1, <3>2
    <3>4. /\ TreeOver(deps, SubtreeDepth, done) \notin arrived
          /\ IsSupply(arrived \union {TreeOver(deps, SubtreeDepth, done)}, deps, after)
      BY <3>3, SupplyGrows
    <3> QED
      BY <2>2, <3>1, <3>2, <3>4
  <2>5. root \in Subtrees
    <3>1. done + GovMaxSubtreeSize <= Len(deposits')
      BY <2>3
    <3>2. PICK deps : deps = deposits'
      OBVIOUS
    <3>3. TreeOver(deps, SubtreeDepth, done) \in Subtrees
      BY <1>1, <1>8, <3>1, <3>2, TreeIsSubtree
    <3> QED
      BY <2>2, <3>2, <3>3
  <2>6. arrived' = arrived \union {root}
    <3>1. subtreeQueue' = Append(subtreeQueue, root)
      BY <2>1 DEF Enqueue, root
    <3>2. subtreeQueue \in Seq(arrived \union {root})
      BY <1>9
    <3>3. Len(subtreeQueue') = Len(subtreeQueue) + 1
          /\ subtreeQueue'[Len(subtreeQueue) + 1] = root
      BY <3>1, <3>2, AppendProperties
    <3>4. Len(subtreeQueue) + 1 .. Len(subtreeQueue) + 1 = {Len(subtreeQueue) + 1}
      BY <1>9
    <3>5. {subtreeQueue'[k] : k \in {Len(subtreeQueue) + 1}} = {root}
      BY <3>3
    <3> QED
      BY <1>6, <3>3, <3>4, <3>5
  <2>7. SubtreeReady(root)
    BY <1>6, <2>1, <2>4, <2>6 DEF SubtreeReady, root
  <2>8. DepositsInv'
    <3>1. 0 \in Nat /\ 0 < GovMaxSubtreeSize /\ 0 <= Len(deposits')
      BY <2>3, SizeType
    <3>2. \E n \in Nat : \E h, first : Grove(<<>>, deposits', 0, n, h, first)
      <4>1. PICK deps \in Seq(DepositLeaf) : deps = deposits'
        BY <1>1 DEF IsHistory
      <4>2. \E n \in Nat : \E h, first : Grove(<<>>, deps, 0, n, h, first)
        BY GroveStarts
      <4> QED
        BY <4>1, <4>2
    <3> QED
      BY <1>1, <2>1, <3>1, <3>2 DEF DepositsInv
  <2>9. ArrivedInv'
    <3>1. Len(deposits') - depositCount' = Len(deposits')
      BY <2>1, <2>3
    <3> QED
      BY <2>4, <2>6, <3>1 DEF ArrivedInv
  <2> QED
    BY <1>7, <2>5, <2>7, <2>8, <2>9 DEF HubbleInv
<1> QED
  BY <1>10, <1>11
-----------------------------------------------------------------------------
(* The calls to Rollup deliver no subtree.                                 *)
LEMMA RollupDelivers == RollupNext => arrived' = arrived
<1> SUFFICES ASSUME RollupNext PROVE arrived' = arrived
  OBVIOUS
<1>1. ASSUME Submit PROVE arrived' = arrived
  BY <1>1 DEF Submit, SubmitTransfer, SubmitCreate2Transfer, SubmitMassMigration,
              SubmitDeposits, SubmitBatch
<1>2. ASSUME Dispute PROVE arrived' = arrived
  BY <1>2 DEF Dispute, DisputeTransitionTransfer, DisputeTransitionMassMigration,
              DisputeSignatureTransfer, DisputeSignatureMassMigration,
              DisputeTransition, DisputeSignature, DisputeTransitionAcross,
              RollbackTo
<1>3. ASSUME NEW n \in 0 .. MaxBatches, SlashAndRollback(n) PROVE arrived' = arrived
  BY <1>3 DEF SlashAndRollback, RollbackTo
<1>4. ASSUME NEW sender \in Accounts, NEW batchID \in BatchIDs,
             WithdrawStake(sender, batchID)
      PROVE  arrived' = arrived
  BY <1>4 DEF WithdrawStake
<1>5. ASSUME MineBlock PROVE arrived' = arrived
  BY <1>5 DEF MineBlock
<1> QED
  BY <1>1, <1>2, <1>3, <1>4, <1>5 DEF RollupNext

LEMMA HubbleUnchanged ==
    ASSUME HubbleInv, UNCHANGED depositVars, arrived' = arrived
    PROVE  HubbleInv'
<1>1. /\ babyTrees' = babyTrees /\ depositCount' = depositCount
      /\ deposits' = deposits /\ vaultBalance' = vaultBalance
  BY DEF depositVars
<1>2. DepositsInv'
  BY <1>1 DEF HubbleInv, DepositsInv
<1>3. VaultInv'
  BY <1>1 DEF HubbleInv, VaultInv
<1>4. ArrivedInv'
  BY <1>1 DEF HubbleInv, ArrivedInv
<1> QED
  BY <1>2, <1>3, <1>4 DEF HubbleInv

(* Every step of the composition keeps the invariant and is one of Rollup, *)
(* or none.                                                                *)
LEMMA HubbleStep ==
    ASSUME IInv, HubbleInv, [HubbleNext]_hubbleVars
    PROVE  HubbleInv' /\ [Next]_vars
<1>1. SubtreesTypeOK
  BY DEF IInv, SubtreeInv
<1>2. CASE RollupNext /\ UNCHANGED depositVars
  BY <1>2, RollupDelivers, HubbleUnchanged DEF Next
<1>3. CASE \E amount \in Amounts, token \in Tokens : Deposit(amount, token)
  <2>1. PICK amount \in Amounts, token \in Tokens : Deposit(amount, token)
    BY <1>3
  <2>2. HubbleInv' /\ (UNCHANGED vars \/ \E root \in Subtrees : SubtreeReady(root))
    BY <1>1, <2>1, DepositKeeps
  <2> QED
    BY <2>2 DEF Next
<1>4. CASE UNCHANGED hubbleVars
  <2>1. UNCHANGED vars /\ UNCHANGED depositVars /\ arrived' = arrived
    BY <1>4 DEF hubbleVars, vars
  <2> QED
    BY <2>1, HubbleUnchanged
<1> QED
  BY <1>2, <1>3, <1>4 DEF HubbleNext

(* The invariant of the composition: that of Rollup and its own.           *)
THEOREM HubbleInvariant == HubbleSpec => [](IInv /\ HubbleInv)
<1>1. HubbleInit => IInv /\ HubbleInv
  BY HubbleStarts, InitIInv DEF HubbleInit
<1>2. IInv /\ HubbleInv /\ [HubbleNext]_hubbleVars => (IInv /\ HubbleInv)'
  BY HubbleStep, StepIInv
<1> QED
  BY <1>1, <1>2, PTL DEF HubbleSpec

(* To the rollup, the deposit manager is a supply of full subtrees, each   *)
(* of which is new: with single deposits hidden, the composition of the    *)
(* two contracts is Rollup.                                                *)
THEOREM HubbleImplementsRollup == HubbleSpec => ImplementsRollup
<1>1. HubbleInit => Init
  BY DEF HubbleInit
<1>2. IInv /\ HubbleInv /\ [HubbleNext]_hubbleVars => [Next]_vars
  BY HubbleStep
<1> QED
  BY <1>1, <1>2, HubbleInvariant, PTL DEF HubbleSpec, ImplementsRollup, Spec
-----------------------------------------------------------------------------
LEMMA TreeIsFullRun ==
    ASSUME IsHistory(deposits), NEW h \in Nat, NEW f \in Nat, f + TwoTo[h] <= Len(deposits)
    PROVE  /\ IsFullRun(TreeOver(deposits, h, f))
           /\ TreeOver(deposits, h, f).height = h
           /\ FirstOf(TreeOver(deposits, h, f)) = f + 1
           /\ LastOf(TreeOver(deposits, h, f)) = f + TwoTo[h]
<1> DEFINE tree == TreeOver(deposits, h, f)
           p == TwoTo[h]
<1>1. p \in Nat /\ p >= 1 /\ Len(deposits) \in Nat
  <2>1. p \in Nat /\ p >= 1
    BY TwoToIs
  <2>2. Len(deposits) \in Nat
    BY LenProperties DEF IsHistory
  <2> QED
    BY <2>1, <2>2
<1>2. /\ tree.height = h /\ Len(tree.leaves) = p /\ DOMAIN tree.leaves = 1 .. p
      /\ \A j \in 1 .. p : tree.leaves[j] = deposits[f + j]
  BY TreeOverType
<1>3. \A j \in 1 .. p : f + j \in 1 .. Len(deposits) /\ deposits[f + j].deposit = f + j
  <2>1. \A j \in 1 .. p : f + j \in 1 .. Len(deposits)
    BY <1>1
  <2> QED
    BY <2>1 DEF IsHistory
<1> HIDE DEF tree, p
<1>4. \A j \in 1 .. p : tree.leaves[j].deposit = f + j
  BY <1>2, <1>3
<1>5. 1 \in 1 .. p /\ p \in 1 .. p
  BY <1>1
<1>6. tree.leaves[1].deposit = f + 1 /\ tree.leaves[p].deposit = f + p
  BY <1>4, <1>5
<1>7. \A i \in DOMAIN tree.leaves :
         /\ tree.leaves[i].deposit = tree.leaves[1].deposit + i - 1
         /\ tree.leaves[i] = deposits[tree.leaves[i].deposit]
  <2>1. \A i \in 1 .. p : f + i = f + 1 + i - 1
    BY <1>1
  <2> QED
    BY <1>2, <1>4, <1>6, <2>1
<1>8. IsFullRun(tree)
  BY <1>2, <1>7 DEF IsFullRun, p
<1> QED
  BY <1>2, <1>6, <1>8 DEF FirstOf, LastOf, tree, p

LEMMA DoneType ==
    ASSUME HubbleInv
    PROVE  /\ IsHistory(deposits) /\ Len(deposits) \in Nat
           /\ depositCount \in Nat /\ depositCount < GovMaxSubtreeSize
           /\ Len(deposits) - depositCount \in Nat
           /\ Len(deposits) - depositCount <= Len(deposits)
<1>1. Len(deposits) \in Nat
  BY LenProperties DEF HubbleInv, DepositsInv, IsHistory
<1> QED
  BY <1>1 DEF HubbleInv, DepositsInv

LEMMA FullSubtreesHold == IInv /\ HubbleInv => SubtreesAreFull
<1> SUFFICES ASSUME IInv, HubbleInv PROVE SubtreesAreFull
  OBVIOUS
<1>1. ASSUME NEW root \in arrived
      PROVE  IsFullRun(root) /\ root.height = SubtreeDepth
  <2>1. PICK f \in Nat : /\ f + GovMaxSubtreeSize <= Len(deposits) - depositCount
                         /\ root = TreeOver(deposits, SubtreeDepth, f)
    BY DEF HubbleInv, ArrivedInv, IsSupply
  <2>2. f + TwoTo[SubtreeDepth] <= Len(deposits)
    BY <2>1, DoneType, SizeType
  <2> QED
    BY <2>1, <2>2, DoneType, SizeType, TreeIsFullRun
<1>2. subtreeQueue \in Seq(arrived)
      /\ submittedSubtree \in [BatchIDs -> arrived \union {NoSubtree}]
  BY DEF IInv, SubtreeInv, SubtreesTypeOK, OnlyHolds
<1>3. \A k \in 1 .. Len(subtreeQueue) : subtreeQueue[k] \in arrived
  BY <1>2, LenProperties
<1>4. \A b \in BatchIDs : submittedSubtree[b] # NoSubtree => submittedSubtree[b] \in arrived
  BY <1>2
<1> QED
  BY <1>1, <1>3, <1>4 DEF SubtreesAreFull

(* Every subtree that waits or stands is the full tree of the governed     *)
(* depth over consecutive deposits in order.                               *)
THEOREM SubtreesAlwaysFull == HubbleSpec => []SubtreesAreFull
BY HubbleInvariant, FullSubtreesHold, PTL

LEMMA BinaryCountHolds == HubbleInv => BabyTreesCountInBinary
<1> SUFFICES ASSUME HubbleInv PROVE BabyTreesCountInBinary
  OBVIOUS
<1>0. PICK n \in Nat : \E h, first : Grove(babyTrees, deposits, depositCount, n, h, first)
  BY DEF HubbleInv, DepositsInv
<1>1. PICK h, first : Grove(babyTrees, deposits, depositCount, n, h, first)
  BY <1>0
<1>2. /\ n = Len(babyTrees) /\ Falling(h, n)
      /\ first \in [1 .. n + 1 -> 0 .. Len(deposits)]
      /\ first[1] = Len(deposits) - depositCount /\ first[n + 1] = Len(deposits)
      /\ \A i \in 1 .. n : first[i + 1] = first[i] + TwoTo[h[i]]
      /\ \A i \in 1 .. n : babyTrees[i] = TreeOver(deposits, h[i], first[i])
      /\ \A k \in Nat : IsSet(depositCount, k) <=> \E i \in 1 .. n : h[i] = k
  BY <1>1 DEF Grove
<1>3. ASSUME NEW i \in 1 .. n
      PROVE  /\ IsFullRun(babyTrees[i]) /\ babyTrees[i].height = h[i]
             /\ FirstOf(babyTrees[i]) = first[i] + 1
             /\ LastOf(babyTrees[i]) = first[i + 1]
  <2>1. PICK x \in Nat : x = h[i]
    BY <1>2 DEF Falling
  <2>2. first[i] \in 0 .. Len(deposits) /\ first[i + 1] \in 0 .. Len(deposits)
    <3>1. i \in 1 .. n + 1 /\ i + 1 \in 1 .. n + 1
      OBVIOUS
    <3> QED
      BY <1>2, <3>1
  <2>3. PICK f \in Nat : f = first[i]
    BY <2>2, DoneType
  <2>4. first[i + 1] = f + TwoTo[x] /\ babyTrees[i] = TreeOver(deposits, x, f)
    BY <1>2, <2>1, <2>3
  <2>5. f + TwoTo[x] <= Len(deposits)
    BY <2>2, <2>4, DoneType
  <2>6. /\ IsFullRun(TreeOver(deposits, x, f)) /\ TreeOver(deposits, x, f).height = x
        /\ FirstOf(TreeOver(deposits, x, f)) = f + 1
        /\ LastOf(TreeOver(deposits, x, f)) = f + TwoTo[x]
    BY <2>5, DoneType, TreeIsFullRun
  <2> QED
    BY <2>1, <2>3, <2>4, <2>6
<1> DEFINE end(i) == IF i = 0 THEN Len(deposits) - depositCount ELSE LastOf(babyTrees[i])
<1>4. \A i \in 0 .. n : end(i) = first[i + 1]
  <2>1. end(0) = first[0 + 1]
    BY <1>2
  <2>2. \A i \in 1 .. n : end(i) = first[i + 1]
    BY <1>3
  <2>3. \A i \in 0 .. n : i = 0 \/ i \in 1 .. n
    OBVIOUS
  <2> QED
    BY <2>1, <2>2, <2>3
<1> HIDE DEF end
<1>5. \A i \in 1 .. n : IsFullRun(babyTrees[i]) /\ FirstOf(babyTrees[i]) = end(i - 1) + 1
  <2>1. \A i \in 1 .. n : i - 1 \in 0 .. n /\ i - 1 + 1 = i
    OBVIOUS
  <2> QED
    BY <1>3, <1>4, <2>1
<1>6. end(n) = Len(deposits)
  BY <1>2, <1>4
<1>7. \A i, j \in 1 .. n : i < j => babyTrees[i].height > babyTrees[j].height
  BY <1>2, <1>3 DEF Falling
<1>8. \A k \in 0 .. SubtreeDepth :
         IsSet(depositCount, k) <=> \E i \in 1 .. n : babyTrees[i].height = k
  <2>1. \A k \in 0 .. SubtreeDepth : k \in Nat
    BY SizeType
  <2>2. \A k \in Nat : IsSet(depositCount, k) <=> \E i \in 1 .. n : h[i] = k
    BY <1>2
  <2>3. \A i \in 1 .. n : babyTrees[i].height = h[i]
    BY <1>3
  <2> QED
    BY ONLY <2>1, <2>2, <2>3
<1>9. depositCount < GovMaxSubtreeSize
  BY DoneType
<1> QED
  BY <1>2, <1>5, <1>6, <1>7, <1>8, <1>9 DEF BabyTreesCountInBinary, end

(* The baby trees are the binary digits of depositCount, over the newest   *)
(* deposits and without a gap, whatever the depth of a subtree.            *)
THEOREM BabyTreesAlwaysCount == HubbleSpec => []BabyTreesCountInBinary
BY HubbleInvariant, BinaryCountHolds, PTL
-----------------------------------------------------------------------------
(* A number between the ends of a rising list is in one of its steps.      *)
Rising(first, n) ==
    /\ first \in [1 .. n + 1 -> Nat]
    /\ \A i \in 1 .. n : first[i] <= first[i + 1]

LEMMA RisingOrder ==
    ASSUME NEW n \in Nat, NEW first, Rising(first, n),
           NEW i \in 1 .. n + 1, NEW j \in 1 .. n + 1, i <= j
    PROVE  first[i] <= first[j]
<1> DEFINE l == j - i
           T == {k \in 0 .. l : first[i] <= first[i + k]}
<1>1. l \in Nat /\ i + l = j
  OBVIOUS
<1>2. \A k \in 0 .. l : i + k \in 1 .. n + 1
  OBVIOUS
<1>3. \A e \in 1 .. n + 1 : first[e] \in Nat
  BY DEF Rising
<1> HIDE DEF l
<1>4. 0 \in T
  <2>1. i + 0 = i
    OBVIOUS
  <2> QED
    BY <1>1, <1>3, <2>1
<1>5. ASSUME NEW k \in 1 .. l, k - 1 \in T PROVE k \in T
  <2>1. PICK e \in 1 .. n : e = i + (k - 1) /\ e + 1 = i + k
    <3>1. i + k \in 1 .. n + 1 /\ i + (k - 1) \in 1 .. n + 1
      BY <1>1, <1>2
    <3> QED
      BY <1>1, <3>1
  <2>2. first[e] <= first[e + 1] /\ first[i] <= first[e]
    BY <1>5, <2>1 DEF Rising
  <2>3. first[i] \in Nat /\ first[e] \in Nat /\ first[e + 1] \in Nat
    BY <1>3
  <2>4. first[i] <= first[e + 1]
    BY <2>2, <2>3
  <2> QED
    BY <2>1, <2>4
<1> HIDE DEF T
<1>6. l \in T
  BY <1>1, <1>4, <1>5, LoopInduction
<1> QED
  BY <1>1, <1>6 DEF T

LEMMA OneStep ==
    ASSUME NEW n \in Nat, NEW first, Rising(first, n), NEW d \in Nat,
           first[1] < d, d <= first[n + 1]
    PROVE  \E i \in 1 .. n : /\ first[i] < d /\ d <= first[i + 1]
                             /\ \A j \in 1 .. n :
                                   first[j] < d /\ d <= first[j + 1] => j = i
<1>1. \A e \in 1 .. n + 1 : first[e] \in Nat
  BY DEF Rising
<1> DEFINE T == {k \in 0 .. n : first[k + 1] < d}
<1>2. 0 \in T
  OBVIOUS
<1>3. n \notin T
  BY <1>1
<1>4. PICK i \in 1 .. n : i - 1 \in T /\ i \notin T
  <2> HIDE DEF T
  <2>1. n \in 0 .. n
    OBVIOUS
  <2> QED
    BY <1>2, <1>3, <2>1, LoopInduction
<1>5. first[i] < d /\ d <= first[i + 1]
  <2>1. i - 1 + 1 = i /\ i + 1 \in 1 .. n + 1 /\ i \in 0 .. n
    OBVIOUS
  <2> QED
    BY <1>1, <1>4, <2>1
<1>6. ASSUME NEW j \in 1 .. n, first[j] < d, d <= first[j + 1] PROVE j = i
  <2>1. i \in 1 .. n + 1 /\ i + 1 \in 1 .. n + 1 /\ j \in 1 .. n + 1 /\ j + 1 \in 1 .. n + 1
    OBVIOUS
  <2>2. ASSUME j < i PROVE FALSE
    <3>1. first[j + 1] <= first[i]
      BY <2>1, <2>2, RisingOrder
    <3> QED
      BY <1>1, <1>5, <1>6, <2>1, <3>1
  <2>3. ASSUME i < j PROVE FALSE
    <3>1. first[i + 1] <= first[j]
      BY <2>1, <2>3, RisingOrder
    <3> QED
      BY <1>1, <1>5, <1>6, <2>1, <3>1
  <2> QED
    BY <2>2, <2>3
<1> QED
  BY <1>5, <1>6

(* Where a deposit is.                                                     *)
LEMMA IsInTree ==
    ASSUME IsHistory(deposits), NEW h \in Nat, NEW f \in Nat,
           f + TwoTo[h] <= Len(deposits), NEW d \in 1 .. Len(deposits)
    PROVE  IsIn(deposits[d], TreeOver(deposits, h, f)) <=> f < d /\ d <= f + TwoTo[h]
<1> DEFINE tree == TreeOver(deposits, h, f)
           p == TwoTo[h]
<1>1. p \in Nat /\ Len(deposits) \in Nat
  <2>1. p \in Nat
    BY TwoToIs
  <2>2. Len(deposits) \in Nat
    BY LenProperties DEF IsHistory
  <2> QED
    BY <2>1, <2>2
<1>2. /\ DOMAIN tree.leaves = 1 .. p
      /\ \A j \in 1 .. p : tree.leaves[j] = deposits[f + j]
  BY TreeOverType
<1>3. \A e \in 1 .. Len(deposits) : deposits[e].deposit = e
  BY DEF IsHistory
<1>4. \A j \in 1 .. p : f + j \in 1 .. Len(deposits)
  BY <1>1
<1> HIDE DEF tree, p
<1>5. ASSUME f < d, d <= f + p PROVE \E j \in 1 .. p : tree.leaves[j] = deposits[d]
  <2>1. d - f \in 1 .. p /\ f + (d - f) = d
    BY <1>1, <1>5
  <2> QED
    BY <1>2, <2>1
<1>6. ASSUME NEW j \in 1 .. p, tree.leaves[j] = deposits[d] PROVE f < d /\ d <= f + p
  <2>1. deposits[f + j] = deposits[d]
    BY <1>2, <1>6
  <2>2. f + j = d
    BY <1>3, <1>4, <2>1
  <2> QED
    BY <1>1, <2>2
<1>7. IsIn(deposits[d], tree) <=> \E j \in 1 .. p : tree.leaves[j] = deposits[d]
  BY <1>2 DEF IsIn
<1> QED
  BY <1>5, <1>6, <1>7 DEF tree, p

LEMMA OneIs ==
    ASSUME NEW S, NEW x \in S, \A y \in S : y = x
    PROVE  Cardinality(S) = 1
<1>1. S = {x}
  OBVIOUS
<1> QED
  BY <1>1, FS_Singleton

LEMMA NoneAre ==
    ASSUME NEW S, \A y : y \notin S
    PROVE  Cardinality(S) = 0
<1>1. S = {}
  OBVIOUS
<1> QED
  BY <1>1, FS_EmptySet
-----------------------------------------------------------------------------
InBabies(leaf) == {i \in 1 .. Len(babyTrees) : IsIn(leaf, babyTrees[i])}
InQueue(leaf) == {k \in 1 .. Len(subtreeQueue) : IsIn(leaf, subtreeQueue[k])}
InBatches(leaf) == {batchID \in BatchIDs : /\ submittedSubtree[batchID] # NoSubtree
                                           /\ IsIn(leaf, submittedSubtree[batchID])}

(* A deposit whose subtree is not finished is in one baby tree, any other  *)
(* in none.                                                                *)
LEMMA BabiesHold ==
    ASSUME HubbleInv, NEW d \in 1 .. Len(deposits)
    PROVE  Cardinality(InBabies(deposits[d]))
              = IF d > Len(deposits) - depositCount THEN 1 ELSE 0
<1>0. PICK n \in Nat : \E h, first : Grove(babyTrees, deposits, depositCount, n, h, first)
  BY DEF HubbleInv, DepositsInv
<1>1. PICK h, first : Grove(babyTrees, deposits, depositCount, n, h, first)
  BY <1>0
<1>2. /\ n = Len(babyTrees) /\ Falling(h, n)
      /\ first \in [1 .. n + 1 -> 0 .. Len(deposits)]
      /\ first[1] = Len(deposits) - depositCount /\ first[n + 1] = Len(deposits)
      /\ \A i \in 1 .. n : first[i + 1] = first[i] + TwoTo[h[i]]
      /\ \A i \in 1 .. n : babyTrees[i] = TreeOver(deposits, h[i], first[i])
  BY <1>1 DEF Grove
<1>3. \A i \in 1 .. n + 1 : first[i] \in Nat /\ first[i] <= Len(deposits)
  <2>1. \A i \in 1 .. n + 1 : first[i] \in 0 .. Len(deposits)
    BY <1>2
  <2> QED
    BY <2>1, DoneType
<1>4. ASSUME NEW i \in 1 .. n
      PROVE  /\ IsIn(deposits[d], babyTrees[i]) <=> first[i] < d /\ d <= first[i + 1]
             /\ first[i] <= first[i + 1]
  <2>1. PICK x \in Nat : x = h[i]
    BY <1>2 DEF Falling
  <2>2. i \in 1 .. n + 1 /\ i + 1 \in 1 .. n + 1
    OBVIOUS
  <2>3. PICK f \in Nat : f = first[i]
    BY <1>3, <2>2
  <2>4. first[i + 1] = f + TwoTo[x] /\ babyTrees[i] = TreeOver(deposits, x, f)
    BY <1>2, <2>1, <2>3
  <2>5. f + TwoTo[x] <= Len(deposits)
    BY <1>3, <2>2, <2>4
  <2>6. IsIn(deposits[d], TreeOver(deposits, x, f)) <=> f < d /\ d <= f + TwoTo[x]
    BY <2>5, DoneType, IsInTree
  <2>7. TwoTo[x] \in Nat
    BY TwoToIs
  <2> QED
    BY <2>3, <2>4, <2>6, <2>7
<1>5. Rising(first, n)
  <2>1. first \in [1 .. n + 1 -> Nat]
    BY <1>2, DoneType
  <2> QED
    BY <1>4, <2>1 DEF Rising
<1>6. d \in Nat /\ d <= first[n + 1]
  BY <1>2, DoneType
<1>7. CASE d > Len(deposits) - depositCount
  <2>1. first[1] < d
    BY <1>2, <1>7, DoneType
  <2>2. PICK i \in 1 .. n : /\ first[i] < d /\ d <= first[i + 1]
                            /\ \A j \in 1 .. n :
                                  first[j] < d /\ d <= first[j + 1] => j = i
    BY <1>5, <1>6, <2>1, OneStep
  <2>3. i \in InBabies(deposits[d])
    BY <1>2, <1>4, <2>2 DEF InBabies
  <2>4. \A j \in InBabies(deposits[d]) : j = i
    BY <1>2, <1>4, <2>2 DEF InBabies
  <2>5. Cardinality(InBabies(deposits[d])) = 1
    BY <2>3, <2>4, OneIs
  <2> QED
    BY <1>7, <2>5
<1>8. CASE ~(d > Len(deposits) - depositCount)
  <2>1. ASSUME NEW i \in 1 .. n PROVE ~(first[i] < d)
    <3>1. 1 \in 1 .. n + 1 /\ i \in 1 .. n + 1 /\ 1 <= i
      OBVIOUS
    <3>2. first[1] <= first[i]
      BY <1>5, <3>1, RisingOrder
    <3> QED
      BY <1>2, <1>3, <1>6, <1>8, <3>1, <3>2, DoneType
  <2>2. \A i : i \notin InBabies(deposits[d])
    BY <1>2, <1>4, <2>1 DEF InBabies
  <2>3. Cardinality(InBabies(deposits[d])) = 0
    BY <2>2, NoneAre
  <2> QED
    BY <1>8, <2>3
<1> QED
  BY <1>7, <1>8

(* A deposit whose subtree is finished is in that one, which the queue or  *)
(* one batch holds.                                                        *)
LEMMA PlacesHold ==
    ASSUME IInv, HubbleInv, NEW d \in 1 .. Len(deposits)
    PROVE  /\ Cardinality(InQueue(deposits[d])) \in Nat
           /\ Cardinality(InBatches(deposits[d])) \in Nat
           /\ Cardinality(InQueue(deposits[d])) + Cardinality(InBatches(deposits[d]))
                 = IF d > Len(deposits) - depositCount THEN 0 ELSE 1
<1> DEFINE done == Len(deposits) - depositCount
           size == GovMaxSubtreeSize
           leaf == deposits[d]
           tree(f) == TreeOver(deposits, SubtreeDepth, f)
<1>1. /\ size \in Nat /\ size >= 1 /\ size = TwoTo[SubtreeDepth] /\ SubtreeDepth \in Nat
      /\ done \in Nat /\ done <= Len(deposits) /\ Len(deposits) \in Nat
  BY SizeType, DoneType
<1>2. /\ \A root \in arrived : \E f \in Nat : f + size <= done /\ root = tree(f)
      /\ \A e \in 1 .. done : \E f \in Nat :
            f < e /\ e <= f + size /\ f + size <= done /\ tree(f) \in arrived
      /\ \A f, g \in Nat, e \in 1 .. done :
            /\ f < e /\ e <= f + size /\ f + size <= done
            /\ g < e /\ e <= g + size /\ g + size <= done
            /\ tree(f) \in arrived /\ tree(g) \in arrived
            => f = g
  BY DEF HubbleInv, ArrivedInv, IsSupply
<1>3. \A f \in Nat : f + size <= done => (IsIn(leaf, tree(f)) <=> f < d /\ d <= f + size)
  <2>1. ASSUME NEW f \in Nat, f + size <= done
        PROVE  IsIn(leaf, tree(f)) <=> f < d /\ d <= f + size
    <3>1. f + TwoTo[SubtreeDepth] <= Len(deposits)
      BY <1>1, <2>1
    <3> QED
      BY <1>1, <3>1, DoneType, IsInTree
  <2> QED
    BY <2>1
<1>4. /\ subtreeQueue \in Seq(arrived)
      /\ submittedSubtree \in [BatchIDs -> arrived \union {NoSubtree}]
      /\ HoldsEachOnce(arrived)
  BY DEF IInv, SubtreeInv, SubtreesTypeOK, OnlyHolds, SubtreesConserved
<1>5. \A k \in 1 .. Len(subtreeQueue) : subtreeQueue[k] \in arrived
  BY <1>4, LenProperties
<1>6. \A b \in BatchIDs : submittedSubtree[b] # NoSubtree => submittedSubtree[b] \in arrived
  BY <1>4
<1> HIDE DEF tree, size, done, leaf
<1>7. CASE d > done
  <2>1. \A root \in arrived : ~IsIn(leaf, root)
    BY <1>1, <1>2, <1>3, <1>7
  <2>2. Cardinality(InQueue(leaf)) = 0
    <3>1. \A k : k \notin InQueue(leaf)
      BY <1>5, <2>1 DEF InQueue
    <3> QED
      BY <3>1, NoneAre
  <2>3. Cardinality(InBatches(leaf)) = 0
    <3>1. \A b : b \notin InBatches(leaf)
      BY <1>6, <2>1 DEF InBatches
    <3> QED
      BY <3>1, NoneAre
  <2> QED
    BY <1>7, <2>2, <2>3 DEF leaf, done
<1>8. CASE ~(d > done)
  <2>1. d \in 1 .. done
    BY <1>1, <1>8
  <2>2. PICK f \in Nat : f < d /\ d <= f + size /\ f + size <= done /\ tree(f) \in arrived
    BY <1>2, <2>1
  <2>3. PICK root \in arrived : root = tree(f)
    BY <2>2
  <2>4. IsIn(leaf, root)
    BY <1>3, <2>2, <2>3
  <2>5. ASSUME NEW r \in arrived, IsIn(leaf, r) PROVE r = root
    <3>1. PICK g \in Nat : g + size <= done /\ r = tree(g)
      BY <1>2
    <3>2. g < d /\ d <= g + size
      BY <1>3, <2>5, <3>1
    <3>3. f = g
      BY <1>2, <2>1, <2>2, <3>1, <3>2
    <3> QED
      BY <2>3, <3>1, <3>3
  <2>6. CASE \E k \in 1 .. Len(subtreeQueue) : subtreeQueue[k] = root
    <3>1. PICK k \in 1 .. Len(subtreeQueue) : subtreeQueue[k] = root
      BY <2>6
    <3>2. k \in InQueue(leaf)
      BY <2>4, <3>1 DEF InQueue
    <3>3. \A j \in InQueue(leaf) : j = k
      BY <1>4, <1>5, <2>5, <3>1 DEF InQueue, HoldsEachOnce
    <3>4. \A b : b \notin InBatches(leaf)
      BY <1>4, <1>6, <2>5, <3>1 DEF InBatches, HoldsEachOnce
    <3>5. Cardinality(InQueue(leaf)) = 1 /\ Cardinality(InBatches(leaf)) = 0
      BY <3>2, <3>3, <3>4, OneIs, NoneAre
    <3> QED
      BY <1>8, <3>5 DEF leaf, done
  <2>7. CASE ~ \E k \in 1 .. Len(subtreeQueue) : subtreeQueue[k] = root
    <3>1. PICK b \in BatchIDs : submittedSubtree[b] = root
      BY <1>4, <2>7 DEF HoldsEachOnce
    <3>2. root # NoSubtree
      BY NoSubtreeAssumption DEF IInv, SubtreeInv, SubtreesTypeOK
    <3>3. b \in InBatches(leaf)
      BY <2>4, <3>1, <3>2 DEF InBatches
    <3>4. \A a \in InBatches(leaf) : a = b
      BY <1>4, <1>6, <2>5, <3>1 DEF InBatches, HoldsEachOnce
    <3>5. \A k : k \notin InQueue(leaf)
      BY <1>5, <2>5, <2>7 DEF InQueue
    <3>6. Cardinality(InBatches(leaf)) = 1 /\ Cardinality(InQueue(leaf)) = 0
      BY <3>3, <3>4, <3>5, OneIs, NoneAre
    <3> QED
      BY <1>8, <3>6 DEF leaf, done
  <2> QED
    BY <2>6, <2>7
<1> QED
  BY <1>7, <1>8

LEMMA VaultHolds == IInv /\ HubbleInv => VaultBacksDeposits
<1> SUFFICES ASSUME IInv, HubbleInv PROVE VaultBacksDeposits
  OBVIOUS
<1>1. ASSUME NEW d \in 1 .. Len(deposits) PROVE Copies(deposits[d]) = 1
  <2>1. Copies(deposits[d]) = Cardinality(InBabies(deposits[d]))
                              + Cardinality(InQueue(deposits[d]))
                              + Cardinality(InBatches(deposits[d]))
    BY DEF Copies, InBabies, InQueue, InBatches
  <2>2. CASE d > Len(deposits) - depositCount
    <3>1. Cardinality(InBabies(deposits[d])) = 1
      BY <2>2, BabiesHold
    <3>2. /\ Cardinality(InQueue(deposits[d])) \in Nat
          /\ Cardinality(InBatches(deposits[d])) \in Nat
          /\ Cardinality(InQueue(deposits[d])) + Cardinality(InBatches(deposits[d])) = 0
      BY <2>2, PlacesHold
    <3> QED
      BY <2>1, <3>1, <3>2
  <2>3. CASE ~(d > Len(deposits) - depositCount)
    <3>1. Cardinality(InBabies(deposits[d])) = 0
      BY <2>3, BabiesHold
    <3>2. /\ Cardinality(InQueue(deposits[d])) \in Nat
          /\ Cardinality(InBatches(deposits[d])) \in Nat
          /\ Cardinality(InQueue(deposits[d])) + Cardinality(InBatches(deposits[d])) = 1
      BY <2>3, PlacesHold
    <3> QED
      BY <2>1, <3>1, <3>2
  <2> QED
    BY <2>2, <2>3
<1>2. ASSUME NEW token \in Tokens
      PROVE  vaultBalance[token]
                = Total([d \in 1 .. Len(deposits) |->
                            Worth(deposits[d], token) * Copies(deposits[d])])
  <2>1. ASSUME NEW d \in 1 .. Len(deposits)
        PROVE  Worth(deposits[d], token) * Copies(deposits[d]) = Worth(deposits[d], token)
    <3>1. PICK leaf \in DepositLeaf : leaf = deposits[d]
      BY DoneType, LenProperties DEF IsHistory
    <3>2. PICK x \in Nat : x = Worth(deposits[d], token)
      BY <3>1 DEF Worth, DepositLeaf
    <3>3. x * 1 = x
      OBVIOUS
    <3> QED
      BY <1>1, <3>2, <3>3
  <2>2. [d \in 1 .. Len(deposits) |-> Worth(deposits[d], token) * Copies(deposits[d])]
           = [d \in 1 .. Len(deposits) |-> Worth(deposits[d], token)]
    BY <2>1
  <2>3. vaultBalance[token] = Deposited(deposits, token)
    BY DEF HubbleInv, VaultInv
  <2> QED
    BY <2>2, <2>3 DEF Deposited
<1> QED
  BY <1>2 DEF VaultBacksDeposits

(* The vault holds what the deposits in baby trees, in the queue and in    *)
(* batches are worth, each counted for every place that holds it, after    *)
(* any number of deposits, batches and rollbacks.                          *)
THEOREM VaultAlwaysBacks == HubbleSpec => []VaultBacksDeposits
BY HubbleInvariant, VaultHolds, PTL
=============================================================================
