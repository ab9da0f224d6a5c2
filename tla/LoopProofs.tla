----------------------------- MODULE LoopProofs -----------------------------
(***************************************************************************)
(* Lemmas about loops: induction along a loop, what its steps compute, and *)
(* the sums, shifts and powers of two of module Loops.                     *)
(***************************************************************************)
EXTENDS Loops, SequenceTheorems, WellFoundedInduction, TLAPS

(* Induction along a loop, as a statement about a set of indices.          *)
LEMMA LoopInduction ==
    ASSUME NEW n \in Nat, NEW T,
           0 \in T,
           \A i \in 1 .. n : i - 1 \in T => i \in T
    PROVE  0 .. n \subseteq T
<1> DEFINE bad == (0 .. n) \ T
           less == OpToRel(<, Nat)
<1>1. less = {p \in Nat \X Nat : p[1] < p[2]}
  BY Zenon DEF OpToRel
<1>2. IsWellFoundedOn(less, Nat)
  BY NatLessThanWellFounded, Zenon
<1> HIDE DEF less
<1>3. \A x, y \in Nat : x < y => <<x, y>> \in less
  BY <1>1
<1>4. bad \subseteq Nat
  OBVIOUS
<1>5. ASSUME bad # {} PROVE FALSE
  <2>1. PICK m \in bad : \A k \in bad : ~ (<<k, m>> \in less)
    <3> HIDE DEF bad
    <3> QED
      BY <1>2, <1>4, <1>5, WFMin
  <2>2. m \in 1 .. n
    OBVIOUS
  <2>3. m - 1 \in bad
    BY <2>2
  <2> QED
    <3> HIDE DEF bad
    <3>1. <<m - 1, m>> \in less
      BY <1>3, <2>2
    <3> QED
      BY <2>1, <2>3, <3>1
<1> QED
  BY <1>5

(* The results that a loop reaches, from base on, in the set S.            *)
Runs(g, n, S, base, f) ==
    /\ g \in [0 .. n -> S]
    /\ g[0] = base
    /\ \A i \in 1 .. n : g[i] = f[i][g[i - 1]]

(* A loop has its intermediate results, whatever it computes.              *)
LEMMA Iterates ==
    ASSUME NEW n \in Nat, NEW S, NEW base \in S, NEW f \in [1 .. n -> [S -> S]]
    PROVE  \E g : Runs(g, n, S, base, f)
<1> DEFINE T == {m \in 0 .. n : \E g : Runs(g, m, S, base, f)}
<1>1. 0 \in T
  <2>1. Runs([i \in 0 .. 0 |-> base], 0, S, base, f)
    BY DEF Runs
  <2> QED
    BY <2>1
<1>2. ASSUME NEW k \in 1 .. n, k - 1 \in T PROVE k \in T
  <2>1. PICK g : Runs(g, k - 1, S, base, f)
    BY <1>2
  <2>2. /\ g \in [0 .. k - 1 -> S]
        /\ g[0] = base
        /\ \A i \in 1 .. k - 1 : g[i] = f[i][g[i - 1]]
    BY <2>1 DEF Runs
  <2>3. f[k][g[k - 1]] \in S
    BY <2>2
  <2> DEFINE h == [i \in 0 .. k |-> IF i < k THEN g[i] ELSE f[k][g[k - 1]]]
  <2>4. h \in [0 .. k -> S]
    BY <2>2, <2>3
  <2>5. \A i \in 1 .. k : h[i] = f[i][h[i - 1]]
    BY <2>2
  <2>6. h[0] = base
    BY <2>2
  <2> HIDE DEF h
  <2>7. Runs(h, k, S, base, f)
    BY <2>4, <2>5, <2>6 DEF Runs
  <2> QED
    BY <2>7
<1> HIDE DEF T
<1>3. 0 .. n \subseteq T
  BY <1>1, <1>2, LoopInduction
<1> QED
  BY <1>3 DEF T

(* Whatever is computed step by step like that is one of these results.    *)
Follows(h, n, S, base, f) ==
    /\ h[0] = base
    /\ \A i \in 1 .. n : h[i - 1] \in S => h[i] = f[i][h[i - 1]]

LEMMA SameLoop ==
    ASSUME NEW n \in Nat, NEW S, NEW base, NEW f,
           NEW g, Runs(g, n, S, base, f), NEW h, Follows(h, n, S, base, f)
    PROVE  h[n] = g[n]
<1> DEFINE T == {i \in 0 .. n : h[i] = g[i]}
<1>2. 0 \in T
  BY DEF Runs, Follows
<1>3. ASSUME NEW i \in 1 .. n, i - 1 \in T PROVE i \in T
  <2>1. h[i - 1] = g[i - 1] /\ g[i - 1] \in S
    BY <1>3 DEF Runs, Follows
  <2> QED
    BY <2>1 DEF Runs, Follows
<1> HIDE DEF T
<1>4. 0 .. n \subseteq T
  BY <1>2, <1>3, LoopInduction
<1> QED
  BY <1>4 DEF T

-----------------------------------------------------------------------------
(* A function that is a sequence.                                          *)
LEMMA Indexed ==
    ASSUME NEW n \in Nat, NEW S, NEW s \in [1 .. n -> S]
    PROVE  s \in Seq(S) /\ Len(s) = n
<1>1. s \in Seq(S)
  BY SeqDef
<1> QED
  BY <1>1, LenProperties

(* u holds the sums of the first numbers of v.                             *)
AddsUp(u, n, v) ==
    /\ u \in [0 .. n -> Int]
    /\ u[0] = 0
    /\ \A i \in 1 .. n : u[i] = u[i - 1] + v[i]

(* A sum is reached through the sums of the first numbers.                 *)
LEMMA TotalSums ==
    ASSUME NEW n \in Nat, NEW v \in [1 .. n -> Int]
    PROVE  \E u : AddsUp(u, n, v) /\ Total(v) = u[n]
<1> DEFINE add == [i \in 1 .. n |-> [sum \in Int |-> sum + v[i]]]
<1>1. /\ 0 \in Int
      /\ add \in [1 .. n -> [Int -> Int]]
      /\ \A i \in 1 .. n, sum \in Int : add[i][sum] = sum + v[i]
  OBVIOUS
<1> HIDE DEF add
<1>2. PICK g : Runs(g, n, Int, 0, add)
  BY <1>1, Iterates
<1> DEFINE Body(u, i) == IF i = 0 THEN 0 ELSE u[i - 1] + v[i]
           upTo == CHOOSE u : u = [i \in 0 .. n |-> Body(u, i)]
<1>3. g = [i \in 0 .. n |-> Body(g, i)]
  <2>1. \A i \in 1 .. n : g[i] = g[i - 1] + v[i]
    <3>1. \A i \in 1 .. n : g[i - 1] \in Int
      BY <1>2 DEF Runs
    <3> QED
      BY <1>1, <1>2, <3>1 DEF Runs
  <2>2. \A i \in 0 .. n : g[i] = Body(g, i)
    BY <1>2, <2>1 DEF Runs
  <2> HIDE DEF Body
  <2> QED
    BY <1>2, <2>2 DEF Runs
<1>4. upTo = [i \in 0 .. n |-> Body(upTo, i)]
  <2> HIDE DEF Body
  <2> QED
    BY <1>3
<1>5. Total(v) = upTo[n]
  BY Indexed DEF Total
<1> HIDE DEF upTo
<1>6. /\ upTo[0] = 0
      /\ \A i \in 1 .. n : upTo[i] = upTo[i - 1] + v[i]
  BY <1>4
<1> DEFINE T == {i \in 0 .. n : upTo[i] \in Int}
<1>7. 0 .. n \subseteq T
  <2>1. 0 \in T
    BY <1>6
  <2>2. ASSUME NEW i \in 1 .. n, i - 1 \in T PROVE i \in T
    BY <1>6, <2>2
  <2> HIDE DEF T
  <2> QED
    BY <2>1, <2>2, LoopInduction
<1>8. upTo \in [0 .. n -> Int]
  BY <1>4, <1>7
<1> QED
  BY <1>5, <1>6, <1>8 DEF AddsUp

(* Sums that are added up the same way are the total.                      *)
LEMMA TotalIs ==
    ASSUME NEW n \in Nat, NEW v \in [1 .. n -> Int], NEW u, AddsUp(u, n, v)
    PROVE  Total(v) = u[n]
<1>1. PICK w : AddsUp(w, n, v) /\ Total(v) = w[n]
  BY TotalSums
<1> DEFINE T == {i \in 0 .. n : u[i] = w[i]}
<1>2. 0 \in T
  BY <1>1 DEF AddsUp
<1>3. ASSUME NEW i \in 1 .. n, i - 1 \in T PROVE i \in T
  BY <1>1, <1>3 DEF AddsUp
<1> HIDE DEF T
<1>4. 0 .. n \subseteq T
  BY <1>2, <1>3, LoopInduction
<1> QED
  BY <1>1, <1>4 DEF T

LEMMA TotalType ==
    ASSUME NEW n \in Nat, NEW v \in [1 .. n -> Int]
    PROVE  Total(v) \in Int
BY TotalSums DEF AddsUp

LEMMA TotalIsNatural ==
    ASSUME NEW n \in Nat, NEW v \in [1 .. n -> Int], \A i \in 1 .. n : v[i] \in Nat
    PROVE  Total(v) \in Nat
<1>1. PICK u : AddsUp(u, n, v) /\ Total(v) = u[n]
  BY TotalSums
<1> DEFINE T == {i \in 0 .. n : u[i] \in Nat}
<1>2. 0 \in T
  BY <1>1 DEF AddsUp
<1>3. ASSUME NEW i \in 1 .. n, i - 1 \in T PROVE i \in T
  BY <1>1, <1>3 DEF AddsUp
<1> HIDE DEF T
<1>4. 0 .. n \subseteq T
  BY <1>2, <1>3, LoopInduction
<1> QED
  BY <1>1, <1>4 DEF T

(* x adds v and w, place by place.                                         *)
Adds(x, v, w, n) ==
    /\ v \in [1 .. n -> Int] /\ w \in [1 .. n -> Int] /\ x \in [1 .. n -> Int]
    /\ \A i \in 1 .. n : x[i] = v[i] + w[i]

LEMMA TotalPlus ==
    ASSUME NEW n \in Nat, NEW v, NEW w, NEW x, Adds(x, v, w, n)
    PROVE  Total(x) = Total(v) + Total(w)
<1>1. PICK a : AddsUp(a, n, v) /\ Total(v) = a[n]
  BY TotalSums DEF Adds
<1>2. PICK b : AddsUp(b, n, w) /\ Total(w) = b[n]
  BY TotalSums DEF Adds
<1> DEFINE u == [i \in 0 .. n |-> a[i] + b[i]]
<1>3. AddsUp(u, n, x)
  <2>1. /\ a \in [0 .. n -> Int] /\ a[0] = 0
        /\ b \in [0 .. n -> Int] /\ b[0] = 0
    BY <1>1, <1>2 DEF AddsUp
  <2>2. \A i \in 1 .. n :
           /\ v[i] \in Int /\ w[i] \in Int /\ x[i] = v[i] + w[i]
           /\ a[i] = a[i - 1] + v[i]
           /\ b[i] = b[i - 1] + w[i]
    BY <1>1, <1>2 DEF AddsUp, Adds
  <2>3. u \in [0 .. n -> Int] /\ u[0] = 0
    BY <2>1
  <2>4. \A i \in 1 .. n : u[i] = u[i - 1] + x[i]
    <3>1. \A i \in 1 .. n : i \in 0 .. n /\ i - 1 \in 0 .. n
      OBVIOUS
    <3>2. \A i \in 0 .. n : a[i] \in Int /\ b[i] \in Int /\ u[i] = a[i] + b[i]
      BY <2>1
    <3> HIDE DEF u
    <3> QED
      BY <2>2, <3>1, <3>2
  <2> QED
    BY <2>3, <2>4 DEF AddsUp
<1>4. u[n] = a[n] + b[n]
  OBVIOUS
<1> HIDE DEF u
<1> QED
  BY <1>1, <1>2, <1>3, <1>4, TotalIs DEF Adds

(* One number more.                                                        *)
LEMMA TotalOneMore ==
    ASSUME NEW n \in Nat, NEW v \in [1 .. n -> Int], NEW x \in [1 .. n + 1 -> Int],
           \A i \in 1 .. n : x[i] = v[i]
    PROVE  Total(x) = Total(v) + x[n + 1]
<1>1. PICK a : AddsUp(a, n, v) /\ Total(v) = a[n]
  BY TotalSums
<1> DEFINE u == [i \in 0 .. n + 1 |-> IF i <= n THEN a[i] ELSE a[n] + x[n + 1]]
<1>2. AddsUp(u, n + 1, x)
  <2>1. a \in [0 .. n -> Int] /\ a[0] = 0
    BY <1>1 DEF AddsUp
  <2>2. \A i \in 1 .. n : a[i] = a[i - 1] + x[i]
    BY <1>1 DEF AddsUp
  <2>3. x[n + 1] \in Int
    OBVIOUS
  <2>4. u \in [0 .. n + 1 -> Int] /\ u[0] = 0
    BY <2>1, <2>3
  <2>5. \A i \in 1 .. n + 1 : u[i] = u[i - 1] + x[i]
    BY <2>1, <2>2, <2>3
  <2> QED
    BY <2>4, <2>5 DEF AddsUp
<1>3. u[n + 1] = a[n] + x[n + 1]
  OBVIOUS
<1> HIDE DEF u
<1> QED
  BY <1>1, <1>2, <1>3, TotalIs

(* Nothing adds up to nothing.                                             *)
LEMMA TotalZero ==
    ASSUME NEW n \in Nat, NEW v \in [1 .. n -> Int], \A i \in 1 .. n : v[i] = 0
    PROVE  Total(v) = 0
<1> DEFINE u == [i \in 0 .. n |-> 0]
<1>1. AddsUp(u, n, v) /\ u[n] = 0
  BY DEF AddsUp
<1> HIDE DEF u
<1> QED
  BY <1>1, TotalIs

(* Lesser numbers.                                                         *)
LEMMA TotalAtMost ==
    ASSUME NEW n \in Nat, NEW v \in [1 .. n -> Int], NEW w \in [1 .. n -> Int],
           \A i \in 1 .. n : v[i] <= w[i]
    PROVE  Total(v) <= Total(w)
<1> DEFINE d == [i \in 1 .. n |-> w[i] - v[i]]
<1>1. d \in [1 .. n -> Int] /\ \A i \in 1 .. n : d[i] \in Nat /\ w[i] = v[i] + d[i]
  <2>1. \A i \in 1 .. n : v[i] \in Int /\ w[i] \in Int
    OBVIOUS
  <2> QED
    BY <2>1
<1> HIDE DEF d
<1>2. Adds(w, v, d, n)
  BY <1>1 DEF Adds
<1>3. Total(w) = Total(v) + Total(d)
  BY <1>2, TotalPlus
<1>4. Total(d) \in Nat /\ Total(v) \in Int
  BY <1>1, TotalIsNatural, TotalType
<1> QED
  BY <1>3, <1>4

(* One number changes.                                                     *)
LEMMA TotalChange ==
    ASSUME NEW n \in Nat, NEW v \in [1 .. n -> Int], NEW x \in [1 .. n -> Int],
           NEW k \in 1 .. n, \A i \in 1 .. n : i # k => x[i] = v[i]
    PROVE  Total(x) = Total(v) + x[k] - v[k]
<1>1. PICK a : AddsUp(a, n, v) /\ Total(v) = a[n]
  BY TotalSums
<1> DEFINE u == [i \in 0 .. n |-> IF i < k THEN a[i] ELSE a[i] + x[k] - v[k]]
<1>2. AddsUp(u, n, x)
  <2>1. a \in [0 .. n -> Int] /\ a[0] = 0
    BY <1>1 DEF AddsUp
  <2>2. \A i \in 1 .. n : a[i] = a[i - 1] + v[i]
    BY <1>1 DEF AddsUp
  <2>3. x[k] \in Int /\ v[k] \in Int
    OBVIOUS
  <2>4. u \in [0 .. n -> Int] /\ u[0] = 0
    BY <2>1, <2>3
  <2>5. ASSUME NEW i \in 1 .. n PROVE u[i] = u[i - 1] + x[i]
    <3>1. /\ a[i] \in Int /\ a[i - 1] \in Int /\ v[i] \in Int
          /\ a[i] = a[i - 1] + v[i]
      BY <2>1, <2>2
    <3>2. CASE i < k
      BY <3>1, <3>2
    <3>3. CASE i = k
      BY <2>3, <3>1, <3>3
    <3>4. CASE i > k
      BY <2>3, <3>1, <3>4
    <3> QED
      BY <3>2, <3>3, <3>4
  <2> HIDE DEF u
  <2> QED
    BY <2>4, <2>5 DEF AddsUp
<1>3. u[n] = a[n] + x[k] - v[k]
  OBVIOUS
<1> HIDE DEF u
<1> QED
  BY <1>1, <1>2, <1>3, TotalIs
-----------------------------------------------------------------------------
(* A loop without an end has its intermediate results as well.             *)
RunsOn(g, S, base, f) ==
    /\ g \in [Nat -> S]
    /\ g[0] = base
    /\ \A i \in Nat : g[i + 1] = f[i + 1][g[i]]

LEMMA IteratesOn ==
    ASSUME NEW S, NEW base \in S, NEW f \in [Nat -> [S -> S]]
    PROVE  \E g : RunsOn(g, S, base, f)
<1> DEFINE h(n) == CHOOSE g : Runs(g, n, S, base, f)
           g == [n \in Nat |-> h(n)[n]]
<1>1. \A n \in Nat : Runs(h(n), n, S, base, f)
  <2>1. ASSUME NEW n \in Nat PROVE \E u : Runs(u, n, S, base, f)
    <3> DEFINE e == [i \in 1 .. n |-> f[i]]
    <3>1. e \in [1 .. n -> [S -> S]] /\ \A i \in 1 .. n : e[i] = f[i]
      OBVIOUS
    <3> HIDE DEF e
    <3>2. PICK u : Runs(u, n, S, base, e)
      BY <3>1, Iterates
    <3> QED
      BY <3>1, <3>2 DEF Runs
  <2> QED
    BY <2>1
<1> HIDE DEF h
<1>2. \A n \in Nat : h(n + 1)[n] = h(n)[n]
  <2>1. ASSUME NEW n \in Nat PROVE h(n + 1)[n] = h(n)[n]
    <3>1. Runs(h(n), n, S, base, f) /\ Runs(h(n + 1), n + 1, S, base, f)
      BY <1>1
    <3>2. Follows(h(n + 1), n, S, base, f)
      BY <3>1 DEF Runs, Follows
    <3> QED
      BY <3>1, <3>2, SameLoop
  <2> QED
    BY <2>1
<1>3. g \in [Nat -> S]
  BY <1>1 DEF Runs
<1>4. g[0] = base
  BY <1>1 DEF Runs
<1>5. \A i \in Nat : g[i + 1] = f[i + 1][g[i]]
  <2>1. ASSUME NEW i \in Nat PROVE g[i + 1] = f[i + 1][g[i]]
    <3>1. Runs(h(i + 1), i + 1, S, base, f) /\ i + 1 \in Nat /\ i + 1 \in 1 .. i + 1
      BY <1>1
    <3>2. h(i + 1)[i + 1] = f[i + 1][h(i + 1)[i + 1 - 1]]
      BY <3>1 DEF Runs
    <3>3. h(i + 1)[i + 1] = f[i + 1][h(i + 1)[i]]
      BY <3>2
    <3> QED
      BY <1>2, <3>3
  <2> QED
    BY <2>1
<1> HIDE DEF g
<1>6. RunsOn(g, S, base, f)
  BY <1>3, <1>4, <1>5 DEF RunsOn
<1> QED
  BY <1>6

LEMMA TwoToIs ==
    /\ TwoTo \in [Nat -> Nat]
    /\ TwoTo[0] = 1
    /\ \A k \in Nat : TwoTo[k] >= 1 /\ TwoTo[k + 1] = 2 * TwoTo[k]
<1> DEFINE double == [i \in Nat |-> [x \in Nat |-> 2 * x]]
           Body(u, k) == IF k = 0 THEN 1 ELSE 2 * u[k - 1]
           power == CHOOSE u : u = [k \in Nat |-> Body(u, k)]
<1>1. 1 \in Nat /\ double \in [Nat -> [Nat -> Nat]]
      /\ \A i \in Nat, x \in Nat : double[i][x] = 2 * x
  OBVIOUS
<1> HIDE DEF double
<1>2. PICK g : RunsOn(g, Nat, 1, double)
  BY <1>1, IteratesOn
<1>3. g \in [Nat -> Nat] /\ g[0] = 1 /\ \A i \in Nat : g[i + 1] = 2 * g[i]
  <2>1. /\ g \in [Nat -> Nat] /\ g[0] = 1
        /\ \A i \in Nat : g[i + 1] = double[i + 1][g[i]]
    BY <1>2 DEF RunsOn
  <2>2. ASSUME NEW i \in Nat PROVE g[i + 1] = 2 * g[i]
    <3>1. i + 1 \in Nat /\ g[i] \in Nat
      BY <2>1
    <3> QED
      BY <1>1, <2>1, <3>1
  <2> QED
    BY <2>1, <2>2
<1>4. g = [k \in Nat |-> Body(g, k)]
  <2>1. \A k \in Nat : g[k] = Body(g, k)
    <3>1. ASSUME NEW k \in Nat, k # 0 PROVE g[k] = 2 * g[k - 1]
      <4>1. k - 1 \in Nat /\ k - 1 + 1 = k
        BY <3>1
      <4> QED
        BY <1>3, <4>1
    <3> QED
      BY <1>3, <3>1
  <2> HIDE DEF Body
  <2> QED
    BY <1>3, <2>1
<1>5. power = [k \in Nat |-> Body(power, k)]
  <2> HIDE DEF Body
  <2> QED
    BY <1>4
<1>6. TwoTo = power
  BY DEF TwoTo
<1> HIDE DEF power
<1>7. TwoTo[0] = 1 /\ \A k \in Nat : TwoTo[k + 1] = 2 * TwoTo[k]
  <2>1. \A k \in Nat : power[k] = Body(power, k)
    BY <1>5
  <2>2. \A k \in Nat : k + 1 \in Nat /\ k + 1 # 0 /\ k + 1 - 1 = k
    OBVIOUS
  <2> QED
    BY <1>6, <2>1, <2>2
<1>8. \A k \in Nat : TwoTo[k] \in Nat /\ TwoTo[k] >= 1
  <2>1. ASSUME NEW k \in Nat PROVE TwoTo[k] \in Nat /\ TwoTo[k] >= 1
    <3> DEFINE T == {i \in 0 .. k : TwoTo[i] \in Nat /\ TwoTo[i] >= 1}
    <3>1. 0 \in T
      BY <1>7
    <3>2. ASSUME NEW i \in 1 .. k, i - 1 \in T PROVE i \in T
      <4>1. i - 1 \in Nat /\ i - 1 + 1 = i
        OBVIOUS
      <4> QED
        BY <1>7, <3>2, <4>1
    <3> HIDE DEF T
    <3>3. 0 .. k \subseteq T
      BY <3>1, <3>2, LoopInduction
    <3> QED
      BY <3>3 DEF T
  <2> QED
    BY <2>1
<1> QED
  BY <1>5, <1>6, <1>7, <1>8

(* A shift by one more bit is half of the shift, rounded down.             *)
LEMMA ShiftedIs ==
    ASSUME NEW number \in Nat
    PROVE  /\ Shifted(number, 0) = number
           /\ \A k \in Nat : /\ Shifted(number, k) \in Nat
                             /\ Shifted(number, k + 1) = Shifted(number, k) \div 2
<1> DEFINE half == [i \in Nat |-> [x \in Nat |-> x \div 2]]
           Body(u, i) == IF i = 0 THEN number ELSE u[i - 1] \div 2
           after(k) == CHOOSE u : u = [i \in 0 .. k |-> Body(u, i)]
<1>1. half \in [Nat -> [Nat -> Nat]] /\ \A i \in Nat, x \in Nat : half[i][x] = x \div 2
  <2>1. \A x \in Nat : x \div 2 \in Nat
    OBVIOUS
  <2> QED
    BY <2>1
<1> HIDE DEF half
<1>2. PICK g : RunsOn(g, Nat, number, half)
  BY <1>1, IteratesOn
<1>3. g \in [Nat -> Nat] /\ g[0] = number /\ \A i \in Nat : g[i + 1] = g[i] \div 2
  <2>1. /\ g \in [Nat -> Nat] /\ g[0] = number
        /\ \A i \in Nat : g[i + 1] = half[i + 1][g[i]]
    BY <1>2 DEF RunsOn
  <2>2. ASSUME NEW i \in Nat PROVE g[i + 1] = g[i] \div 2
    <3>1. i + 1 \in Nat /\ g[i] \in Nat
      BY <2>1
    <3> QED
      BY <1>1, <2>1, <3>1
  <2> QED
    BY <2>1, <2>2
<1>4. \A k \in Nat : Shifted(number, k) = g[k]
  <2>1. ASSUME NEW k \in Nat PROVE Shifted(number, k) = g[k]
    <3> DEFINE u == [i \in 0 .. k |-> g[i]]
               w == after(k)
    <3>1. \A i \in 1 .. k : i - 1 \in Nat /\ i - 1 + 1 = i
      OBVIOUS
    <3>2. \A i \in 1 .. k : g[i] = g[i - 1] \div 2
      BY <1>3, <3>1
    <3>3. u = [i \in 0 .. k |-> Body(u, i)]
      <4>1. \A i \in 1 .. k : u[i] = u[i - 1] \div 2
        BY <3>2
      <4>2. u[0] = number
        BY <1>3
      <4>3. \A i \in 0 .. k : u[i] = Body(u, i)
        <5> HIDE DEF u
        <5> QED
          BY <4>1, <4>2
      <4> HIDE DEF Body
      <4> QED
        BY <4>3
    <3>4. w = [i \in 0 .. k |-> Body(w, i)]
      <4> HIDE DEF Body, u
      <4> QED
        BY <3>3
    <3>5. Shifted(number, k) = w[k]
      BY DEF Shifted
    <3> HIDE DEF w
    <3>6. w[0] = number /\ \A i \in 1 .. k : w[i] = w[i - 1] \div 2
      <4>1. \A i \in 0 .. k : w[i] = Body(w, i)
        <5> HIDE DEF Body
        <5> QED
          BY <3>4
      <4>2. Body(w, 0) = number /\ \A i \in 1 .. k : Body(w, i) = w[i - 1] \div 2
        OBVIOUS
      <4> QED
        BY <4>1, <4>2
    <3> DEFINE T == {i \in 0 .. k : w[i] = g[i]}
    <3>7. 0 \in T
      BY <1>3, <3>6
    <3>8. \A i \in 1 .. k : i - 1 \in T => i \in T
      BY <3>2, <3>6
    <3> HIDE DEF T
    <3>9. 0 .. k \subseteq T
      BY <3>7, <3>8, LoopInduction
    <3> QED
      BY <3>5, <3>9 DEF T
  <2> QED
    BY <2>1
<1> QED
  BY <1>3, <1>4

(* Enough shifts leave nothing.                                            *)
LEMMA ShiftedOut ==
    ASSUME NEW number \in Nat
    PROVE  Shifted(number, number) = 0
<1> DEFINE T == {i \in 0 .. number : Shifted(number, i) + i <= number \/ Shifted(number, i) = 0}
<1>1. 0 \in T
  BY ShiftedIs
<1>2. ASSUME NEW i \in 1 .. number, i - 1 \in T PROVE i \in T
  <2>1. i - 1 \in Nat /\ i - 1 + 1 = i
    OBVIOUS
  <2>2. /\ Shifted(number, i - 1) \in Nat
        /\ Shifted(number, i) = Shifted(number, i - 1) \div 2
    BY <2>1, ShiftedIs
  <2> QED
    BY <1>2, <2>1, <2>2
<1> HIDE DEF T
<1>3. number \in T
  BY <1>1, <1>2, LoopInduction
<1>4. Shifted(number, number) \in Nat
  BY ShiftedIs
<1> QED
  BY <1>3, <1>4 DEF T

LEMMA ShiftedZero ==
    ASSUME NEW k \in Nat
    PROVE  Shifted(0, k) = 0
<1> DEFINE T == {i \in 0 .. k : Shifted(0, i) = 0}
<1>1. 0 \in T
  BY ShiftedIs
<1>2. ASSUME NEW i \in 1 .. k, i - 1 \in T PROVE i \in T
  <2>1. i - 1 \in Nat /\ i - 1 + 1 = i /\ 0 \in Nat
    OBVIOUS
  <2>2. Shifted(0, i) = Shifted(0, i - 1) \div 2
    BY <2>1, ShiftedIs
  <2> QED
    BY <1>2, <2>2
<1> HIDE DEF T
<1>3. 0 .. k \subseteq T
  BY <1>1, <1>2, LoopInduction
<1> QED
  BY <1>3 DEF T

(* The bits below the lowest one that is clear are carried.                *)
LEMMA Carry ==
    ASSUME NEW c \in Nat, NEW m \in Nat, \A j \in 0 .. m - 1 : IsSet(c, j), ~IsSet(c, m)
    PROVE  /\ \A j \in 0 .. m : Shifted(c + 1, j) = Shifted(c, j) + 1
           /\ \A j \in 0 .. m - 1 : ~IsSet(c + 1, j)
           /\ IsSet(c + 1, m)
           /\ \A j \in Nat : j > m => Shifted(c + 1, j) = Shifted(c, j)
<1> DEFINE T == {j \in 0 .. m : Shifted(c + 1, j) = Shifted(c, j) + 1}
<1>0. c + 1 \in Nat
  OBVIOUS
<1>1. 0 \in T
  BY <1>0, ShiftedIs
<1>2. ASSUME NEW j \in 1 .. m, j - 1 \in T PROVE j \in T
  <2>1. j - 1 \in Nat /\ j - 1 + 1 = j /\ j - 1 \in 0 .. m - 1
    OBVIOUS
  <2>2. /\ Shifted(c, j - 1) \in Nat /\ Shifted(c, j) = Shifted(c, j - 1) \div 2
        /\ Shifted(c + 1, j) = Shifted(c + 1, j - 1) \div 2
    BY <1>0, <2>1, ShiftedIs
  <2>3. Shifted(c, j - 1) % 2 = 1
    BY <2>1 DEF IsSet
  <2>4. Shifted(c + 1, j - 1) = Shifted(c, j - 1) + 1
    BY <1>2
  <2>5. \A x \in Nat : x % 2 = 1 => (x + 1) \div 2 = (x \div 2) + 1
    OBVIOUS
  <2> QED
    BY <2>2, <2>3, <2>4, <2>5
<1> HIDE DEF T
<1>3. 0 .. m \subseteq T
  BY <1>1, <1>2, LoopInduction
<1>4. \A j \in 0 .. m : Shifted(c + 1, j) = Shifted(c, j) + 1 /\ Shifted(c, j) \in Nat
  <2>1. \A j \in 0 .. m : Shifted(c + 1, j) = Shifted(c, j) + 1
    BY <1>3 DEF T
  <2>2. \A k \in Nat : Shifted(c, k) \in Nat
    BY ShiftedIs
  <2> QED
    BY <2>1, <2>2
<1>5. \A j \in 0 .. m - 1 : ~IsSet(c + 1, j)
  <2>1. ASSUME NEW j \in 0 .. m - 1 PROVE ~(Shifted(c + 1, j) % 2 = 1)
    <3>1. j \in 0 .. m /\ Shifted(c, j) % 2 = 1
      BY DEF IsSet
    <3>2. \A x \in Nat : x % 2 = 1 => (x + 1) % 2 = 0
      OBVIOUS
    <3> QED
      BY <1>4, <3>1, <3>2
  <2> QED
    BY <2>1 DEF IsSet
<1>6. IsSet(c + 1, m)
  <2>1. \A x \in Nat : x % 2 # 1 => (x + 1) % 2 = 1
    OBVIOUS
  <2>2. Shifted(c, m) \in Nat /\ Shifted(c, m) % 2 # 1
        /\ Shifted(c + 1, m) = Shifted(c, m) + 1
    BY <1>4 DEF IsSet
  <2> QED
    BY <2>1, <2>2 DEF IsSet
<1>7. ASSUME NEW j \in Nat, j > m PROVE Shifted(c + 1, j) = Shifted(c, j)
  <2> DEFINE U == {i \in 0 .. j - m - 1 :
                      Shifted(c + 1, m + 1 + i) = Shifted(c, m + 1 + i)}
  <2>1. 0 \in U
    <3>1. Shifted(c, m) \in Nat /\ Shifted(c, m) % 2 # 1
          /\ Shifted(c + 1, m) = Shifted(c, m) + 1
      BY <1>4 DEF IsSet
    <3>2. \A x \in Nat : x % 2 # 1 => (x + 1) \div 2 = x \div 2
      OBVIOUS
    <3>3. /\ Shifted(c, m + 1) = Shifted(c, m) \div 2
          /\ Shifted(c + 1, m + 1) = Shifted(c + 1, m) \div 2
      BY <1>0, ShiftedIs
    <3>4. Shifted(c + 1, m + 1) = Shifted(c, m + 1)
      BY <3>1, <3>2, <3>3
    <3>5. m + 1 + 0 = m + 1 /\ 0 \in 0 .. j - m - 1
      BY <1>7
    <3> QED
      BY <3>4, <3>5
  <2>2. ASSUME NEW i \in 1 .. j - m - 1, i - 1 \in U PROVE i \in U
    <3>1. PICK x \in Nat : x = m + 1 + (i - 1) /\ x + 1 = m + 1 + i
      OBVIOUS
    <3>2. /\ Shifted(c, x + 1) = Shifted(c, x) \div 2
          /\ Shifted(c + 1, x + 1) = Shifted(c + 1, x) \div 2
      BY <1>0, ShiftedIs
    <3> QED
      BY <2>2, <3>1, <3>2
  <2> HIDE DEF U
  <2>3. j - m - 1 \in Nat
    BY <1>7
  <2>4. j - m - 1 \in U
    BY <2>1, <2>2, <2>3, LoopInduction
  <2>5. m + 1 + (j - m - 1) = j
    OBVIOUS
  <2> QED
    BY <2>4, <2>5 DEF U
<1> QED
  BY <1>4, <1>5, <1>6, <1>7

(* A number has a lowest bit that is clear.                                *)
LEMMA LowestClear ==
    ASSUME NEW c \in Nat
    PROVE  \E m \in 0 .. c : (\A j \in 0 .. m - 1 : IsSet(c, j)) /\ ~IsSet(c, m)
<1> DEFINE T == {i \in 0 .. c : \A j \in 0 .. i : IsSet(c, j)}
<1>1. ~IsSet(c, c)
  BY ShiftedOut DEF IsSet
<1>2. c \notin T
  BY <1>1
<1>3. CASE 0 \notin T
  <2>1. ~IsSet(c, 0)
    BY <1>3
  <2> QED
    BY <2>1
<1>4. CASE 0 \in T
  <2>1. PICK i \in 1 .. c : i - 1 \in T /\ i \notin T
    <3> HIDE DEF T
    <3> QED
      BY <1>2, <1>4, LoopInduction
  <2>2. \A j \in 0 .. i - 1 : IsSet(c, j)
    BY <2>1
  <2>3. ~IsSet(c, i)
    <3>1. PICK j \in 0 .. i : ~IsSet(c, j)
      BY <2>1
    <3> QED
      BY <2>2, <3>1
  <2> QED
    BY <2>2, <2>3
<1> QED
  BY <1>3, <1>4

(* The bits of a power of two.                                             *)
LEMMA ShiftedPower ==
    ASSUME NEW d \in Nat
    PROVE  /\ \A k \in 0 .. d : Shifted(TwoTo[d], k) = TwoTo[d - k]
           /\ \A k \in Nat : IsSet(TwoTo[d], k) <=> k = d
<1> DEFINE p == TwoTo[d]
           T == {k \in 0 .. d : Shifted(p, k) = TwoTo[d - k]}
<1>1. p \in Nat /\ p >= 1
  BY TwoToIs
<1>2. \A x \in Nat : (2 * x) \div 2 = x /\ (2 * x) % 2 = 0
  OBVIOUS
<1>3. \A k \in 0 .. d - 1 : TwoTo[d - k] = 2 * TwoTo[d - (k + 1)] /\ TwoTo[d - (k + 1)] \in Nat
  <2>1. \A k \in 0 .. d - 1 : d - (k + 1) \in Nat /\ d - (k + 1) + 1 = d - k
    OBVIOUS
  <2> QED
    BY <2>1, TwoToIs
<1> HIDE DEF p
<1>4. 0 \in T
  <2>1. Shifted(p, 0) = p
    BY <1>1, ShiftedIs
  <2>2. d - 0 = d /\ 0 \in 0 .. d
    OBVIOUS
  <2> QED
    BY <2>1, <2>2 DEF p
<1>5. ASSUME NEW k \in 1 .. d, k - 1 \in T PROVE k \in T
  <2>1. k - 1 \in Nat /\ k - 1 + 1 = k /\ k - 1 \in 0 .. d - 1
    OBVIOUS
  <2>2. Shifted(p, k) = Shifted(p, k - 1) \div 2
    BY <1>1, <2>1, ShiftedIs
  <2>3. TwoTo[d - (k - 1)] = 2 * TwoTo[d - k] /\ TwoTo[d - k] \in Nat
    BY <1>3, <2>1
  <2> QED
    BY <1>2, <1>5, <2>2, <2>3
<1> HIDE DEF T
<1>6. 0 .. d \subseteq T
  BY <1>4, <1>5, LoopInduction
<1>7. \A k \in 0 .. d : Shifted(p, k) = TwoTo[d - k]
  BY <1>6 DEF T
<1>8. \A k \in 0 .. d - 1 : ~IsSet(p, k)
  <2>1. ASSUME NEW k \in 0 .. d - 1 PROVE ~(Shifted(p, k) % 2 = 1)
    BY <1>2, <1>3, <1>7
  <2> QED
    BY <2>1 DEF IsSet
<1>9. Shifted(p, d) = 1
  BY <1>7, TwoToIs
<1>10. \A k \in Nat : k > d => Shifted(p, k) = 0
  <2>1. ASSUME NEW k \in Nat, k > d PROVE Shifted(p, k) = 0
    <3> DEFINE U == {i \in 0 .. k - d - 1 : Shifted(p, d + 1 + i) = 0}
    <3>1. 0 \in U
      <4>1. Shifted(p, d + 1) = 1 \div 2
        BY <1>1, <1>9, ShiftedIs
      <4>2. d + 1 + 0 = d + 1 /\ 0 \in 0 .. k - d - 1
        BY <2>1
      <4> QED
        BY <4>1, <4>2
    <3>2. ASSUME NEW i \in 1 .. k - d - 1, i - 1 \in U PROVE i \in U
      <4>1. d + 1 + (i - 1) \in Nat /\ d + 1 + (i - 1) + 1 = d + 1 + i
        OBVIOUS
      <4>2. Shifted(p, d + 1 + i) = Shifted(p, d + 1 + (i - 1)) \div 2
        BY <1>1, <4>1, ShiftedIs
      <4> QED
        BY <3>2, <4>2
    <3> HIDE DEF U
    <3>3. k - d - 1 \in Nat
      BY <2>1
    <3>4. k - d - 1 \in U
      BY <3>1, <3>2, <3>3, LoopInduction
    <3>5. d + 1 + (k - d - 1) = k
      OBVIOUS
    <3> QED
      BY <3>4, <3>5 DEF U
  <2> QED
    BY <2>1
<1>11. \A k \in Nat : IsSet(p, k) <=> k = d
  BY <1>8, <1>9, <1>10 DEF IsSet
<1> QED
  BY <1>7, <1>11 DEF p

(* A number of k bits has no others.                                       *)
LEMMA ShiftedBelow ==
    ASSUME NEW k \in Nat, NEW number \in Nat, number < TwoTo[k]
    PROVE  Shifted(number, k) = 0
<1> DEFINE T == {i \in 0 .. k : Shifted(number, i) < TwoTo[k - i]}
<1>1. 0 \in T
  <2>1. Shifted(number, 0) = number /\ k - 0 = k /\ 0 \in 0 .. k
    BY ShiftedIs
  <2> QED
    BY <2>1
<1>2. ASSUME NEW i \in 1 .. k, i - 1 \in T PROVE i \in T
  <2>1. PICK j \in Nat : j = i - 1 /\ j + 1 = i
    OBVIOUS
  <2>2. Shifted(number, j) \in Nat /\ Shifted(number, i) = Shifted(number, j) \div 2
    <3>1. Shifted(number, j) \in Nat /\ Shifted(number, j + 1) = Shifted(number, j) \div 2
      BY ShiftedIs
    <3> QED
      BY <2>1, <3>1
  <2>3. k - i \in Nat /\ k - i + 1 = k - j
    BY <2>1
  <2>4. TwoTo[k - i] \in Nat /\ TwoTo[k - j] = 2 * TwoTo[k - i]
    BY <2>3, TwoToIs
  <2>5. Shifted(number, j) < TwoTo[k - j]
    BY <1>2, <2>1
  <2> QED
    BY <2>2, <2>4, <2>5
<1> HIDE DEF T
<1>3. k \in T
  BY <1>1, <1>2, LoopInduction
<1>4. Shifted(number, k) < TwoTo[k - k] /\ k - k = 0 /\ Shifted(number, k) \in Nat
  BY <1>3, ShiftedIs DEF T
<1> QED
  BY <1>4, TwoToIs

(* Blocks of s places, one after the other: which block, and which place.  *)
LEMMA BlockOf ==
    ASSUME NEW s \in Nat, s >= 1, NEW b \in Nat, NEW j \in 0 .. s - 1
    PROVE  (b * s + j) \div s = b /\ (b * s + j) % s = j
<1> DEFINE a == b * s + j
           q == a \div s
           m == a % s
<1>1. b * s \in Nat /\ a \in Nat
  OBVIOUS
<1> HIDE DEF a
<1>2. a = s * q + m /\ m \in 0 .. s - 1 /\ q \in Int
  BY <1>1
<1> HIDE DEF q, m
<1>3. a = s * b + j
  BY DEF a
<1>4. ASSUME NEW x \in Int, NEW y \in Int, x > y PROVE s * x >= s * y + s
  <2>1. PICK d \in Nat : x = y + 1 + d
    <3>1. x - y - 1 \in Nat /\ x = y + 1 + (x - y - 1)
      BY <1>4
    <3> QED
      BY <3>1
  <2>2. s * (y + 1 + d) = s * y + s + s * d /\ s * d >= 0
    OBVIOUS
  <2> QED
    BY <2>1, <2>2
<1>5. s * q \in Int /\ s * b \in Int
  BY <1>2
<1>6. ~(q > b)
  BY <1>2, <1>3, <1>4, <1>5
<1>7. ~(b > q)
  BY <1>2, <1>3, <1>4, <1>5
<1>8. q = b
  BY <1>2, <1>6, <1>7
<1>9. m = j
  BY <1>2, <1>3, <1>5, <1>8
<1> QED
  BY <1>8, <1>9 DEF q, m, a
=============================================================================
