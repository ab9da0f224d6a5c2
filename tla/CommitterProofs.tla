-------------------------- MODULE CommitterProofs ---------------------------
(***************************************************************************)
(* What holds of whoever deploys the system and then commits to it: what a *)
(* deployment leaves behind, whoever calls meanwhile; that what is written *)
(* is what is read, and what is processed off chain is what the contract   *)
(* processes; and what the proofs taken from a commitment's tree open.     *)
(***************************************************************************)
EXTENDS Committer, LoopProofs, FiniteSetTheorems

(* What is sent, and the calls that neither deploy nor register a name.    *)
Calls == {"deploy", "registerName", "requestRegistration", "finaliseRegistration",
          "setRollupAddress", "registerSpoke", "register"}
Contracts == {"paramManager", "clientFrontend", "nameRegistry", "governance", "logger",
              "blsAccountRegistry", "tokenRegistry", "massMigration", "transfer",
              "pob", "testToken", "spokeRegistry", "vault", "depositManager",
              "rollup", "withdrawManager"}
SentTx == [call : Calls, of : Contracts \union Range(Pubkeys)]
IsOther(tx) == tx.call \notin {"deploy", "registerName"}

(* The list has n transactions; each contract in it is deployed after the  *)
(* names of those that it looks up are registered; the names in known are  *)
(* registered; and the other calls are those of others, at their places.   *)
Scheduled(list, n, known, others) ==
    /\ list \in Seq(SentTx) /\ Len(list) = n /\ n \in Nat
    /\ \A i \in 1 .. n : list[i].call = "deploy" =>
          \A name \in LooksUp(list[i].of) :
             \E j \in 1 .. i - 1 : list[j] = RegisterName(name)
    /\ \A name \in known : \E j \in 1 .. n : list[j] = RegisterName(name)
    /\ \A i \in 1 .. n : IsOther(list[i]) => i \in others
    /\ others \subseteq 1 .. n

(* Such a list, which begins with the one before.                          *)
Continues(list, n, known, others, before, m) ==
    /\ Scheduled(list, n, known, others)
    /\ \A i \in 1 .. m : list[i] = before[i]

AddsCall(list, n, known, others, before, m, tx) ==
    Continues(list, n, known, others, before, m) /\ list[n] = tx

OneMorePlace(now, others, n) == now = others \union {n}

LEMMA TxType ==
    ASSUME NEW call \in Calls, NEW of \in Contracts \union Range(Pubkeys)
    PROVE  /\ [call |-> call, of |-> of] \in SentTx
           /\ [call |-> call, of |-> of].call = call
           /\ [call |-> call, of |-> of].of = of
BY DEF SentTx

LEMMA OneMoreTx ==
    ASSUME NEW list \in Seq(SentTx), NEW tx \in SentTx, NEW n \in Nat, Len(list) = n
    PROVE  /\ list \o <<tx>> \in Seq(SentTx) /\ Len(list \o <<tx>>) = n + 1
           /\ \A i \in 1 .. n : (list \o <<tx>>)[i] = list[i]
           /\ (list \o <<tx>>)[n + 1] = tx
<1>1. <<tx>> \in Seq(SentTx) /\ Len(<<tx>>) = 1 /\ <<tx>>[1] = tx
  OBVIOUS
<1> DEFINE one == <<tx>>
<1>2. one \in Seq(SentTx) /\ Len(one) = 1 /\ one[1] = tx
  BY <1>1
<1> HIDE DEF one
<1>3. /\ list \o one \in Seq(SentTx) /\ Len(list \o one) = Len(list) + Len(one)
      /\ \A i \in 1 .. Len(list) + Len(one) :
            (list \o one)[i] = IF i <= Len(list) THEN list[i] ELSE one[i - Len(list)]
  BY <1>2, ConcatProperties
<1>4. /\ list \o one \in Seq(SentTx) /\ Len(list \o one) = n + 1
      /\ \A i \in 1 .. n : (list \o one)[i] = list[i]
      /\ (list \o one)[n + 1] = tx
  BY <1>2, <1>3
<1> QED
  BY <1>4 DEF one

LEMMA TwoTxs ==
    ASSUME NEW tx \in SentTx, NEW next \in SentTx
    PROVE  <<tx, next>> = <<tx>> \o <<next>>
<1> DEFINE one == <<tx>>
           two == <<tx, next>>
<1>1. one \in Seq(SentTx) /\ Len(one) = 1 /\ one[1] = tx
  OBVIOUS
<1>2. two \in Seq(SentTx) /\ Len(two) = 2 /\ two[1] = tx /\ two[2] = next
  OBVIOUS
<1> HIDE DEF one, two
<1>3. /\ one \o <<next>> \in Seq(SentTx) /\ Len(one \o <<next>>) = 2
      /\ (one \o <<next>>)[1] = tx /\ (one \o <<next>>)[2] = next
  BY <1>1, OneMoreTx
<1>4. \A i \in 1 .. Len(two) : two[i] = (one \o <<next>>)[i]
  <2>1. \A i \in 1 .. 2 : i = 1 \/ i = 2
    OBVIOUS
  <2> QED
    BY <1>2, <1>3, <2>1
<1>5. two = one \o <<next>>
  BY <1>2, <1>3, <1>4, SeqEqual
<1> QED
  BY <1>5 DEF one, two

(* A further call, and a further contract.                                 *)
LEMMA OneMoreCall ==
    ASSUME NEW list, NEW n, NEW known, NEW others, Scheduled(list, n, known, others),
           NEW tx \in SentTx, IsOther(tx), NEW after, after = list \o <<tx>>,
           NEW m, m = n + 1, NEW now, OneMorePlace(now, others, m)
    PROVE  AddsCall(after, m, known, now, list, n, tx)
<1> DEFINE more == list \o <<tx>>
<1>1. list \in Seq(SentTx) /\ Len(list) = n /\ n \in Nat
  BY DEF Scheduled
<1>2. /\ more \in Seq(SentTx) /\ Len(more) = n + 1
      /\ \A i \in 1 .. n : more[i] = list[i]
      /\ more[n + 1] = tx
  BY <1>1, OneMoreTx
<1> HIDE DEF more
<1>3. ASSUME NEW i \in 1 .. n + 1, more[i].call = "deploy", NEW name \in LooksUp(more[i].of)
      PROVE  \E j \in 1 .. i - 1 : more[j] = RegisterName(name)
  <2>1. i \in 1 .. n
    BY <1>1, <1>2, <1>3 DEF IsOther
  <2>2. PICK j \in 1 .. i - 1 : list[j] = RegisterName(name)
    BY <1>2, <1>3, <2>1 DEF Scheduled
  <2>3. j \in 1 .. n
    BY <1>1, <2>1
  <2> QED
    BY <1>2, <2>2, <2>3
<1>4. ASSUME NEW name \in known PROVE \E j \in 1 .. n + 1 : more[j] = RegisterName(name)
  <2>1. PICK j \in 1 .. n : list[j] = RegisterName(name)
    BY DEF Scheduled
  <2>2. j \in 1 .. n + 1
    BY <1>1
  <2> QED
    BY <1>2, <2>1, <2>2
<1>5. ASSUME NEW i \in 1 .. n + 1, IsOther(more[i]) PROVE i \in others \union {n + 1}
  <2>1. i \in 1 .. n \/ i = n + 1
    BY <1>1
  <2>2. ASSUME i \in 1 .. n PROVE i \in others
    BY <1>2, <1>5, <2>2 DEF Scheduled
  <2> QED
    BY <2>1, <2>2
<1>6. others \union {n + 1} \subseteq 1 .. n + 1
  <2>1. others \subseteq 1 .. n
    BY DEF Scheduled
  <2> QED
    BY <1>1, <2>1
<1>7. Scheduled(more, n + 1, known, others \union {n + 1})
  <2>1. n + 1 \in Nat
    BY <1>1
  <2> QED
    BY <1>2, <1>3, <1>4, <1>5, <1>6, <2>1 DEF Scheduled
<1>8. /\ Continues(more, n + 1, known, others \union {n + 1}, list, n)
      /\ more[n + 1] = tx
  BY <1>2, <1>7 DEF Continues
<1> QED
  BY <1>8 DEF more, OneMorePlace, AddsCall

LEMMA OneMoreContract ==
    ASSUME NEW list, NEW n, NEW known, NEW others, Scheduled(list, n, known, others),
           NEW contract \in Contracts, LooksUp(contract) \subseteq known,
           NEW after, after = list \o waitAndRegister(contract), NEW m, m = n + 2,
           NEW now, now \subseteq known \union {contract}
    PROVE  Continues(after, m, now, others, list, n)
<1> DEFINE one == Deploy(contract)
           two == RegisterName(contract)
           half == list \o <<one>>
           more == half \o <<two>>
<1>1. list \in Seq(SentTx) /\ Len(list) = n /\ n \in Nat
  BY DEF Scheduled
<1>2. /\ one \in SentTx /\ one.call = "deploy" /\ one.of = contract
      /\ two \in SentTx /\ two = RegisterName(contract) /\ two.call = "registerName"
  <2>1. one \in SentTx /\ two \in SentTx
    BY TxType DEF Calls, Deploy, RegisterName
  <2>2. one.call = "deploy" /\ one.of = contract
    BY DEF Deploy
  <2>3. two.call = "registerName"
    BY DEF RegisterName
  <2> QED
    BY <2>1, <2>2, <2>3
<1>3. /\ half \in Seq(SentTx) /\ Len(half) = n + 1
      /\ \A i \in 1 .. n : half[i] = list[i]
      /\ half[n + 1] = one
  BY <1>1, <1>2, OneMoreTx
<1>4. list \o waitAndRegister(contract) = more
  <2>1. <<one>> \in Seq(SentTx) /\ <<two>> \in Seq(SentTx)
    BY <1>2
  <2>2. waitAndRegister(contract) = <<one>> \o <<two>>
    <3> HIDE DEF one, two
    <3>1. <<one, two>> = <<one>> \o <<two>>
      BY <1>2, TwoTxs
    <3> QED
      BY <3>1 DEF waitAndRegister, one, two
  <2> HIDE DEF one, two
  <2> QED
    BY <1>1, <2>1, <2>2, ConcatAssociative
<1> HIDE DEF half, one, two
<1>5. /\ more \in Seq(SentTx) /\ Len(more) = n + 1 + 1
      /\ \A i \in 1 .. n + 1 : more[i] = half[i]
      /\ more[n + 1 + 1] = two
  <2>1. n + 1 \in Nat
    BY <1>1
  <2> QED
    BY <1>2, <1>3, <2>1, OneMoreTx
<1> HIDE DEF more
<1>6. /\ Len(more) = n + 2 /\ n + 2 \in Nat
      /\ \A i \in 1 .. n : more[i] = list[i]
      /\ more[n + 1] = one /\ more[n + 2] = two
      /\ \A i \in 1 .. n + 2 : i \in 1 .. n \/ i = n + 1 \/ i = n + 2
      /\ \A i \in 1 .. n : i \in 1 .. n + 2
  BY <1>1, <1>3, <1>5
<1>7. ASSUME NEW i \in 1 .. n + 2, more[i].call = "deploy", NEW name \in LooksUp(more[i].of)
      PROVE  \E j \in 1 .. i - 1 : more[j] = RegisterName(name)
  <2>1. CASE i \in 1 .. n
    <3>1. PICK j \in 1 .. i - 1 : list[j] = RegisterName(name)
      BY <1>6, <1>7, <2>1 DEF Scheduled
    <3>2. j \in 1 .. n
      BY <1>1, <2>1
    <3> QED
      BY <1>6, <3>1, <3>2
  <2>2. CASE i = n + 1
    <3>1. name \in known
      BY <1>2, <1>6, <1>7, <2>2
    <3>2. PICK j \in 1 .. n : list[j] = RegisterName(name)
      BY <3>1 DEF Scheduled
    <3>3. j \in 1 .. i - 1
      BY <1>1, <2>2
    <3> QED
      BY <1>6, <3>2, <3>3
  <2>3. i # n + 2
    BY <1>2, <1>6, <1>7
  <2> QED
    BY <1>6, <2>1, <2>2, <2>3
<1>8. ASSUME NEW name \in now
      PROVE  \E j \in 1 .. n + 2 : more[j] = RegisterName(name)
  <2>1. CASE name \in known
    <3>1. PICK j \in 1 .. n : list[j] = RegisterName(name)
      BY <2>1 DEF Scheduled
    <3> QED
      BY <1>6, <3>1
  <2>2. CASE name = contract
    <3>1. n + 2 \in 1 .. n + 2
      BY <1>1
    <3> QED
      BY <1>2, <1>6, <2>2, <3>1
  <2> QED
    BY <2>1, <2>2
<1>9. ASSUME NEW i \in 1 .. n + 2, IsOther(more[i]) PROVE i \in others
  <2>1. i \in 1 .. n
    BY <1>2, <1>6, <1>9 DEF IsOther
  <2> QED
    BY <1>6, <1>9, <2>1 DEF Scheduled
<1>10. others \subseteq 1 .. n + 2
  <2>1. others \subseteq 1 .. n
    BY DEF Scheduled
  <2> QED
    BY <1>6, <2>1
<1>11. Scheduled(more, n + 2, now, others)
  BY <1>5, <1>6, <1>7, <1>8, <1>9, <1>10 DEF Scheduled
<1> QED
  BY <1>4, <1>6, <1>11 DEF Continues
-----------------------------------------------------------------------------
(* The transactions of the script, and where the calls stand in them.      *)
LEMMA DeploySchedule ==
    /\ \E known : Scheduled(deployAll, 33, known, {20, 21, 30, 33})
    /\ deployAll[20] = Call("requestRegistration", "testToken")
    /\ deployAll[21] = Call("finaliseRegistration", "testToken")
    /\ deployAll[30] = Call("setRollupAddress", "vault")
    /\ deployAll[33] = Call("registerSpoke", "withdrawManager")
    /\ \E j \in 1 .. 29 : deployAll[j] = RegisterName("rollup")
<1> DEFINE p1 == <<Deploy("paramManager")>>
           p2 == p1 \o <<Deploy("clientFrontend")>>
           p3 == <<Deploy("paramManager"), Deploy("clientFrontend"), Deploy("nameRegistry")>>
           p5 == p3 \o waitAndRegister("governance")
           p7 == p5 \o waitAndRegister("logger")
           p9 == p7 \o waitAndRegister("blsAccountRegistry")
           p11 == p9 \o waitAndRegister("tokenRegistry")
           p13 == p11 \o waitAndRegister("massMigration")
           p15 == p13 \o waitAndRegister("transfer")
           p17 == p15 \o waitAndRegister("pob")
           p19 == p17 \o waitAndRegister("testToken")
           p20 == p19 \o <<Call("requestRegistration", "testToken")>>
           p21 == p20 \o <<Call("finaliseRegistration", "testToken")>>
           p23 == p21 \o waitAndRegister("spokeRegistry")
           p25 == p23 \o waitAndRegister("vault")
           p27 == p25 \o waitAndRegister("depositManager")
           p29 == p27 \o waitAndRegister("rollup")
           p30 == p29 \o <<Call("setRollupAddress", "vault")>>
           p32 == p30 \o waitAndRegister("withdrawManager")
           p33 == p32 \o <<Call("registerSpoke", "withdrawManager")>>
           k5 == {"governance"}
           k7 == {"governance", "logger"}
           k9 == {"governance", "logger", "blsAccountRegistry"}
           k11 == {"governance", "logger", "blsAccountRegistry",
                   "tokenRegistry"}
           k13 == {"governance", "logger", "blsAccountRegistry",
                   "tokenRegistry", "massMigration"}
           k15 == {"governance", "logger", "blsAccountRegistry",
                   "tokenRegistry", "massMigration", "transfer"}
           k23 == {"governance", "logger", "blsAccountRegistry",
                   "tokenRegistry", "massMigration", "transfer",
                   "spokeRegistry"}
           k25 == {"governance", "logger", "blsAccountRegistry",
                   "tokenRegistry", "massMigration", "transfer",
                   "spokeRegistry", "vault"}
           k27 == {"governance", "logger", "blsAccountRegistry",
                   "tokenRegistry", "massMigration", "transfer",
                   "spokeRegistry", "vault", "depositManager"}
           k29 == {"governance", "logger", "blsAccountRegistry",
                   "tokenRegistry", "massMigration", "transfer",
                   "spokeRegistry", "vault", "depositManager", "rollup"}
<1> HIDE DEF p5, p7, p9, p11, p13, p15, p17, p19, p20, p21, p23, p25, p27, p29, p30, p32, p33
<1>3. Scheduled(p3, 3, {}, {})
  <2>1. /\ Deploy("paramManager") \in SentTx /\ Deploy("clientFrontend") \in SentTx
        /\ Deploy("nameRegistry") \in SentTx
    BY TxType DEF Deploy, Calls, Contracts
  <2>2. p3 \in Seq(SentTx) /\ Len(p3) = 3
    BY <2>1
  <2>3. \A i \in 1 .. 3 : LooksUp(p3[i].of) = {} /\ ~IsOther(p3[i])
    <3>1. \A i \in 1 .. 3 : i = 1 \/ i = 2 \/ i = 3
      OBVIOUS
    <3>2. /\ LooksUp(p3[1].of) = {} /\ ~IsOther(p3[1])
          /\ LooksUp(p3[2].of) = {} /\ ~IsOther(p3[2])
          /\ LooksUp(p3[3].of) = {} /\ ~IsOther(p3[3])
      BY DEF Deploy, LooksUp, IsOther
    <3> HIDE DEF p3
    <3> QED
      BY <3>1, <3>2
  <2> HIDE DEF p3
  <2> QED
    BY <2>2, <2>3 DEF Scheduled
<1>5. Continues(p5, 5, k5, {}, p3, 3)
  <2>1. "governance" \in Contracts /\ LooksUp("governance") \subseteq {}
    BY DEF Contracts, LooksUp
  <2>2. k5 \subseteq {} \union {"governance"}
    OBVIOUS
  <2> HIDE DEF k5
  <2>3. 5 = 3 + 2
    OBVIOUS
  <2>4. p5 = p3 \o waitAndRegister("governance")
    BY DEF p5
  <2>5. Scheduled(p3, 3, {}, {})
    BY <1>3
  <2> QED
    BY ONLY <2>1, <2>2, <2>3, <2>4, <2>5, OneMoreContract, Zenon
<1>7. Continues(p7, 7, k7, {}, p5, 5)
  <2>1. "logger" \in Contracts /\ LooksUp("logger") \subseteq k5
    BY DEF Contracts, LooksUp
  <2>2. k7 \subseteq k5 \union {"logger"}
    OBVIOUS
  <2> HIDE DEF k5, k7
  <2>3. 7 = 5 + 2
    OBVIOUS
  <2>4. p7 = p5 \o waitAndRegister("logger")
    BY DEF p7
  <2>5. Scheduled(p5, 5, k5, {})
    BY <1>5 DEF Continues
  <2> QED
    BY ONLY <2>1, <2>2, <2>3, <2>4, <2>5, OneMoreContract, Zenon
<1>9. Continues(p9, 9, k9, {}, p7, 7)
  <2>1. "blsAccountRegistry" \in Contracts /\ LooksUp("blsAccountRegistry") \subseteq k7
    BY DEF Contracts, LooksUp
  <2>2. k9 \subseteq k7 \union {"blsAccountRegistry"}
    OBVIOUS
  <2> HIDE DEF k7, k9
  <2>3. 9 = 7 + 2
    OBVIOUS
  <2>4. p9 = p7 \o waitAndRegister("blsAccountRegistry")
    BY DEF p9
  <2>5. Scheduled(p7, 7, k7, {})
    BY <1>7 DEF Continues
  <2> QED
    BY ONLY <2>1, <2>2, <2>3, <2>4, <2>5, OneMoreContract, Zenon
<1>11. Continues(p11, 11, k11, {}, p9, 9)
  <2>1. "tokenRegistry" \in Contracts /\ LooksUp("tokenRegistry") \subseteq k9
    BY DEF Contracts, LooksUp
  <2>2. k11 \subseteq k9 \union {"tokenRegistry"}
    OBVIOUS
  <2> HIDE DEF k11, k9
  <2>3. 11 = 9 + 2
    OBVIOUS
  <2>4. p11 = p9 \o waitAndRegister("tokenRegistry")
    BY DEF p11
  <2>5. Scheduled(p9, 9, k9, {})
    BY <1>9 DEF Continues
  <2> QED
    BY ONLY <2>1, <2>2, <2>3, <2>4, <2>5, OneMoreContract, Zenon
<1>13. Continues(p13, 13, k13, {}, p11, 11)
  <2>1. "massMigration" \in Contracts /\ LooksUp("massMigration") \subseteq k11
    BY DEF Contracts, LooksUp
  <2>2. k13 \subseteq k11 \union {"massMigration"}
    OBVIOUS
  <2> HIDE DEF k11, k13
  <2>3. 13 = 11 + 2
    OBVIOUS
  <2>4. p13 = p11 \o waitAndRegister("massMigration")
    BY DEF p13
  <2>5. Scheduled(p11, 11, k11, {})
    BY <1>11 DEF Continues
  <2> QED
    BY ONLY <2>1, <2>2, <2>3, <2>4, <2>5, OneMoreContract, Zenon
<1>15. Continues(p15, 15, k15, {}, p13, 13)
  <2>1. "transfer" \in Contracts /\ LooksUp("transfer") \subseteq k13
    BY DEF Contracts, LooksUp
  <2>2. k15 \subseteq k13 \union {"transfer"}
    OBVIOUS
  <2> HIDE DEF k13, k15
  <2>3. 15 = 13 + 2
    OBVIOUS
  <2>4. p15 = p13 \o waitAndRegister("transfer")
    BY DEF p15
  <2>5. Scheduled(p13, 13, k13, {})
    BY <1>13 DEF Continues
  <2> QED
    BY ONLY <2>1, <2>2, <2>3, <2>4, <2>5, OneMoreContract, Zenon
<1>17. Continues(p17, 17, k15, {}, p15, 15)
  <2>1. "pob" \in Contracts /\ LooksUp("pob") \subseteq k15
    BY DEF Contracts, LooksUp
  <2>2. k15 \subseteq k15 \union {"pob"}
    OBVIOUS
  <2> HIDE DEF k15
  <2>3. 17 = 15 + 2
    OBVIOUS
  <2>4. p17 = p15 \o waitAndRegister("pob")
    BY DEF p17
  <2>5. Scheduled(p15, 15, k15, {})
    BY <1>15 DEF Continues
  <2> QED
    BY ONLY <2>1, <2>2, <2>3, <2>4, <2>5, OneMoreContract, Zenon
<1>19. Continues(p19, 19, k15, {}, p17, 17)
  <2>1. "testToken" \in Contracts /\ LooksUp("testToken") \subseteq k15
    BY DEF Contracts, LooksUp
  <2>2. k15 \subseteq k15 \union {"testToken"}
    OBVIOUS
  <2> HIDE DEF k15
  <2>3. 19 = 17 + 2
    OBVIOUS
  <2>4. p19 = p17 \o waitAndRegister("testToken")
    BY DEF p19
  <2>5. Scheduled(p17, 17, k15, {})
    BY <1>17 DEF Continues
  <2> QED
    BY ONLY <2>1, <2>2, <2>3, <2>4, <2>5, OneMoreContract, Zenon
<1>20. /\ Continues(p20, 20, k15, {20}, p19, 19)
      /\ p20[20] = Call("requestRegistration", "testToken")
  <2> DEFINE tx == Call("requestRegistration", "testToken")
  <2>1. tx \in SentTx /\ IsOther(tx)
    BY TxType DEF Calls, Contracts, Call, IsOther
  <2>2. OneMorePlace({20}, {}, 20)
    BY DEF OneMorePlace
  <2> HIDE DEF k15
  <2>3. 20 = 19 + 1
    OBVIOUS
  <2>4. p20 = p19 \o <<tx>>
    BY DEF p20
  <2>5. Scheduled(p19, 19, k15, {})
    BY <1>19 DEF Continues
  <2> HIDE DEF tx
  <2>6. AddsCall(p20, 20, k15, {20}, p19, 19, tx)
    BY ONLY <2>1, <2>2, <2>3, <2>4, <2>5, OneMoreCall, Zenon
  <2> QED
    BY <2>6 DEF tx, AddsCall
<1>21. /\ Continues(p21, 21, k15, {20, 21}, p20, 20)
      /\ p21[21] = Call("finaliseRegistration", "testToken")
  <2> DEFINE tx == Call("finaliseRegistration", "testToken")
  <2>1. tx \in SentTx /\ IsOther(tx)
    BY TxType DEF Calls, Contracts, Call, IsOther
  <2>2. OneMorePlace({20, 21}, {20}, 21)
    BY DEF OneMorePlace
  <2> HIDE DEF k15
  <2>3. 21 = 20 + 1
    OBVIOUS
  <2>4. p21 = p20 \o <<tx>>
    BY DEF p21
  <2>5. Scheduled(p20, 20, k15, {20})
    BY <1>20 DEF Continues
  <2> HIDE DEF tx
  <2>6. AddsCall(p21, 21, k15, {20, 21}, p20, 20, tx)
    BY ONLY <2>1, <2>2, <2>3, <2>4, <2>5, OneMoreCall, Zenon
  <2> QED
    BY <2>6 DEF tx, AddsCall
<1>23. Continues(p23, 23, k23, {20, 21}, p21, 21)
  <2>1. "spokeRegistry" \in Contracts /\ LooksUp("spokeRegistry") \subseteq k15
    BY DEF Contracts, LooksUp
  <2>2. k23 \subseteq k15 \union {"spokeRegistry"}
    OBVIOUS
  <2> HIDE DEF k15, k23
  <2>3. 23 = 21 + 2
    OBVIOUS
  <2>4. p23 = p21 \o waitAndRegister("spokeRegistry")
    BY DEF p23
  <2>5. Scheduled(p21, 21, k15, {20, 21})
    BY <1>21 DEF Continues
  <2> QED
    BY ONLY <2>1, <2>2, <2>3, <2>4, <2>5, OneMoreContract, Zenon
<1>25. Continues(p25, 25, k25, {20, 21}, p23, 23)
  <2>1. "vault" \in Contracts /\ LooksUp("vault") \subseteq k23
    BY DEF Contracts, LooksUp
  <2>2. k25 \subseteq k23 \union {"vault"}
    OBVIOUS
  <2> HIDE DEF k23, k25
  <2>3. 25 = 23 + 2
    OBVIOUS
  <2>4. p25 = p23 \o waitAndRegister("vault")
    BY DEF p25
  <2>5. Scheduled(p23, 23, k23, {20, 21})
    BY <1>23 DEF Continues
  <2> QED
    BY ONLY <2>1, <2>2, <2>3, <2>4, <2>5, OneMoreContract, Zenon
<1>27. Continues(p27, 27, k27, {20, 21}, p25, 25)
  <2>1. "depositManager" \in Contracts /\ LooksUp("depositManager") \subseteq k25
    BY DEF Contracts, LooksUp
  <2>2. k27 \subseteq k25 \union {"depositManager"}
    OBVIOUS
  <2> HIDE DEF k25, k27
  <2>3. 27 = 25 + 2
    OBVIOUS
  <2>4. p27 = p25 \o waitAndRegister("depositManager")
    BY DEF p27
  <2>5. Scheduled(p25, 25, k25, {20, 21})
    BY <1>25 DEF Continues
  <2> QED
    BY ONLY <2>1, <2>2, <2>3, <2>4, <2>5, OneMoreContract, Zenon
<1>29. Continues(p29, 29, k29, {20, 21}, p27, 27)
  <2>1. "rollup" \in Contracts /\ LooksUp("rollup") \subseteq k27
    BY DEF Contracts, LooksUp
  <2>2. k29 \subseteq k27 \union {"rollup"}
    OBVIOUS
  <2> HIDE DEF k27, k29
  <2>3. 29 = 27 + 2
    OBVIOUS
  <2>4. p29 = p27 \o waitAndRegister("rollup")
    BY DEF p29
  <2>5. Scheduled(p27, 27, k27, {20, 21})
    BY <1>27 DEF Continues
  <2> QED
    BY ONLY <2>1, <2>2, <2>3, <2>4, <2>5, OneMoreContract, Zenon
<1>30. /\ Continues(p30, 30, k29, {20, 21, 30}, p29, 29)
      /\ p30[30] = Call("setRollupAddress", "vault")
  <2> DEFINE tx == Call("setRollupAddress", "vault")
  <2>1. tx \in SentTx /\ IsOther(tx)
    BY TxType DEF Calls, Contracts, Call, IsOther
  <2>2. OneMorePlace({20, 21, 30}, {20, 21}, 30)
    BY DEF OneMorePlace
  <2> HIDE DEF k29
  <2>3. 30 = 29 + 1
    OBVIOUS
  <2>4. p30 = p29 \o <<tx>>
    BY DEF p30
  <2>5. Scheduled(p29, 29, k29, {20, 21})
    BY <1>29 DEF Continues
  <2> HIDE DEF tx
  <2>6. AddsCall(p30, 30, k29, {20, 21, 30}, p29, 29, tx)
    BY ONLY <2>1, <2>2, <2>3, <2>4, <2>5, OneMoreCall, Zenon
  <2> QED
    BY <2>6 DEF tx, AddsCall
<1>32. Continues(p32, 32, k29, {20, 21, 30}, p30, 30)
  <2>1. "withdrawManager" \in Contracts /\ LooksUp("withdrawManager") \subseteq k29
    BY DEF Contracts, LooksUp
  <2>2. k29 \subseteq k29 \union {"withdrawManager"}
    OBVIOUS
  <2> HIDE DEF k29
  <2>3. 32 = 30 + 2
    OBVIOUS
  <2>4. p32 = p30 \o waitAndRegister("withdrawManager")
    BY DEF p32
  <2>5. Scheduled(p30, 30, k29, {20, 21, 30})
    BY <1>30 DEF Continues
  <2> QED
    BY ONLY <2>1, <2>2, <2>3, <2>4, <2>5, OneMoreContract, Zenon
<1>33. /\ Continues(p33, 33, k29, {20, 21, 30, 33}, p32, 32)
      /\ p33[33] = Call("registerSpoke", "withdrawManager")
  <2> DEFINE tx == Call("registerSpoke", "withdrawManager")
  <2>1. tx \in SentTx /\ IsOther(tx)
    BY TxType DEF Calls, Contracts, Call, IsOther
  <2>2. OneMorePlace({20, 21, 30, 33}, {20, 21, 30}, 33)
    BY DEF OneMorePlace
  <2> HIDE DEF k29
  <2>3. 33 = 32 + 1
    OBVIOUS
  <2>4. p33 = p32 \o <<tx>>
    BY DEF p33
  <2>5. Scheduled(p32, 32, k29, {20, 21, 30})
    BY <1>32 DEF Continues
  <2> HIDE DEF tx
  <2>6. AddsCall(p33, 33, k29, {20, 21, 30, 33}, p32, 32, tx)
    BY ONLY <2>1, <2>2, <2>3, <2>4, <2>5, OneMoreCall, Zenon
  <2> QED
    BY <2>6 DEF tx, AddsCall
<1>34. p19 \o registerTestToken = p21
  <2> DEFINE one == Call("requestRegistration", "testToken")
             two == Call("finaliseRegistration", "testToken")
  <2>1. one \in SentTx /\ two \in SentTx
    BY TxType DEF Calls, Contracts, Call
  <2>2. registerTestToken = <<one, two>>
    BY DEF registerTestToken
  <2>3. p20 = p19 \o <<one>> /\ p21 = p20 \o <<two>>
    BY DEF p20, p21
  <2> HIDE DEF one, two
  <2>4. <<one>> \in Seq(SentTx) /\ <<two>> \in Seq(SentTx) /\ p19 \in Seq(SentTx)
    BY <1>19, <2>1 DEF Scheduled, Continues
  <2>5. registerTestToken = <<one>> \o <<two>>
    BY <2>1, <2>2, TwoTxs
  <2>6. (p19 \o <<one>>) \o <<two>> = p19 \o (<<one>> \o <<two>>)
    BY <2>4, ConcatAssociative
  <2> QED
    BY <2>3, <2>5, <2>6
<1>35. p21 \o deployVault = p25
  <2> DEFINE one == waitAndRegister("spokeRegistry")
             two == waitAndRegister("vault")
  <2>1. one \in Seq(SentTx) /\ two \in Seq(SentTx)
    <3>1. /\ Deploy("spokeRegistry") \in SentTx /\ RegisterName("spokeRegistry") \in SentTx
          /\ Deploy("vault") \in SentTx /\ RegisterName("vault") \in SentTx
      BY TxType DEF Calls, Contracts, Deploy, RegisterName
    <3> QED
      BY <3>1 DEF waitAndRegister
  <2>2. deployVault = one \o two
    BY DEF deployVault
  <2>3. p23 = p21 \o one /\ p25 = p23 \o two
    BY DEF p23, p25
  <2>4. p21 \in Seq(SentTx)
    BY <1>21 DEF Scheduled, Continues
  <2> HIDE DEF one, two
  <2>5. (p21 \o one) \o two = p21 \o (one \o two)
    BY <2>1, <2>4, ConcatAssociative
  <2> QED
    BY <2>2, <2>3, <2>5
<1>36. deployAll = p33
  <2>1. deployAll = p21 \o deployVault \o waitAndRegister("depositManager")
            \o waitAndRegister("rollup") \o <<Call("setRollupAddress", "vault")>>
            \o waitAndRegister("withdrawManager")
            \o <<Call("registerSpoke", "withdrawManager")>>
    BY <1>34 DEF deployAll, p19, p17, p15, p13, p11, p9, p7, p5
  <2> QED
    BY <1>35, <2>1 DEF p33, p32, p30, p29, p27
<1>37. \A i \in 1 .. 21 : i \in 1 .. 23 /\ i \in 1 .. 25 /\ i \in 1 .. 27
                         /\ i \in 1 .. 29 /\ i \in 1 .. 30 /\ i \in 1 .. 32
  OBVIOUS
<1>38. \A i \in 1 .. 21 : p33[i] = p21[i]
  BY <1>23, <1>25, <1>27, <1>29, <1>30, <1>32, <1>33, <1>37 DEF Continues
<1>39. p21[20] = p20[20] /\ p33[30] = p30[30]
  <2>1. 20 \in 1 .. 20 /\ 30 \in 1 .. 30 /\ 30 \in 1 .. 32
    OBVIOUS
  <2> QED
    BY <1>21, <1>32, <1>33, <2>1 DEF Continues
<1>40. /\ p33[20] = Call("requestRegistration", "testToken")
       /\ p33[21] = Call("finaliseRegistration", "testToken")
       /\ p33[30] = Call("setRollupAddress", "vault")
       /\ p33[33] = Call("registerSpoke", "withdrawManager")
  <2>1. 20 \in 1 .. 21 /\ 21 \in 1 .. 21
    OBVIOUS
  <2> QED
    BY <1>20, <1>21, <1>30, <1>33, <1>38, <1>39, <2>1
<1>41. \E j \in 1 .. 29 : p33[j] = RegisterName("rollup")
  <2>1. "rollup" \in k29
    OBVIOUS
  <2> HIDE DEF k29
  <2>2. PICK j \in 1 .. 29 : p29[j] = RegisterName("rollup")
    BY <1>29, <2>1 DEF Scheduled, Continues
  <2>3. j \in 1 .. 30 /\ j \in 1 .. 32
    OBVIOUS
  <2> QED
    BY <1>30, <1>32, <1>33, <2>2, <2>3 DEF Continues
<1> HIDE DEF k29
<1> QED
  BY <1>33, <1>36, <1>40, <1>41 DEF Continues

(* The same of the whole script, and of the keys at its end.               *)
LEMMA Schedule ==
    /\ Transactions \in Seq(SentTx)
    /\ Len(Transactions) = 33 + Len(Pubkeys) /\ Len(Pubkeys) \in Nat
    /\ \A i \in 1 .. Len(Transactions) : Transactions[i].call = "deploy" =>
          \A name \in LooksUp(Transactions[i].of) :
             \E j \in 1 .. i - 1 : Transactions[j] = RegisterName(name)
    /\ \A i \in 1 .. 33 : IsOther(Transactions[i]) => i \in {20, 21, 30, 33}
    /\ Transactions[20] = Call("requestRegistration", "testToken")
    /\ Transactions[21] = Call("finaliseRegistration", "testToken")
    /\ Transactions[30] = Call("setRollupAddress", "vault")
    /\ Transactions[33] = Call("registerSpoke", "withdrawManager")
    /\ \A k \in 1 .. Len(Pubkeys) : Transactions[33 + k] = Call("register", Pubkeys[k])
    /\ \E j \in 1 .. 29 : Transactions[j] = RegisterName("rollup")
<1> DEFINE own == [i \in DOMAIN Pubkeys |-> Call("register", Pubkeys[i])]
<1>1. /\ DOMAIN Pubkeys = 1 .. Len(Pubkeys) /\ Len(Pubkeys) \in Nat
      /\ \A k \in 1 .. Len(Pubkeys) : Pubkeys[k] \in Range(Pubkeys)
  BY KeysAssumption, LenProperties
<1>2. /\ own \in Seq(SentTx) /\ Len(own) = Len(Pubkeys)
      /\ \A k \in 1 .. Len(Pubkeys) : own[k] = Call("register", Pubkeys[k])
  <2>1. \A k \in 1 .. Len(Pubkeys) : Call("register", Pubkeys[k]) \in SentTx
    BY <1>1, TxType DEF Calls, Call
  <2> QED
    BY <1>1, <2>1
<1>3. PICK known : Scheduled(deployAll, 33, known, {20, 21, 30, 33})
  BY DeploySchedule
<1>4. deployAll \in Seq(SentTx) /\ Len(deployAll) = 33
  BY <1>3 DEF Scheduled
<1> HIDE DEF own
<1>5. Transactions = deployAll \o own
  BY DEF Transactions, own
<1>6. /\ Transactions \in Seq(SentTx) /\ Len(Transactions) = 33 + Len(Pubkeys)
      /\ \A i \in 1 .. 33 + Len(Pubkeys) :
            Transactions[i] = IF i <= 33 THEN deployAll[i] ELSE own[i - 33]
  <2> DEFINE all == deployAll \o own
  <2>1. /\ all \in Seq(SentTx) /\ Len(all) = Len(deployAll) + Len(own)
        /\ \A i \in 1 .. Len(deployAll) + Len(own) :
              all[i] = IF i <= Len(deployAll) THEN deployAll[i]
                       ELSE own[i - Len(deployAll)]
    <3>1. deployAll \in Seq(SentTx) /\ own \in Seq(SentTx)
      BY <1>2, <1>4
    <3> QED
      BY ONLY <3>1, ConcatProperties
  <2> HIDE DEF all
  <2>2. Transactions = all
    BY <1>5 DEF all
  <2> QED
    BY <1>2, <1>4, <2>1, <2>2
<1>7. \A i \in 1 .. 33 : Transactions[i] = deployAll[i]
  <2>1. \A i \in 1 .. 33 : i \in 1 .. 33 + Len(Pubkeys) /\ i <= 33
    BY <1>1
  <2> QED
    BY <1>6, <2>1
<1>8. \A k \in 1 .. Len(Pubkeys) : Transactions[33 + k] = Call("register", Pubkeys[k])
  BY <1>1, <1>2, <1>6
<1>9. ASSUME NEW i \in 1 .. Len(Transactions), Transactions[i].call = "deploy",
             NEW name \in LooksUp(Transactions[i].of)
      PROVE  \E j \in 1 .. i - 1 : Transactions[j] = RegisterName(name)
  <2>1. i \in 1 .. 33
    <3>1. ASSUME i > 33 PROVE FALSE
      <4>1. i - 33 \in 1 .. Len(Pubkeys) /\ 33 + (i - 33) = i
        BY <1>1, <1>6, <3>1
      <4>2. Transactions[i] = Call("register", Pubkeys[i - 33])
        BY <1>8, <4>1
      <4> QED
        BY <1>9, <4>2 DEF Call
    <3> QED
      BY <1>1, <1>6, <3>1
  <2>2. PICK j \in 1 .. i - 1 : deployAll[j] = RegisterName(name)
    <3>1. deployAll[i] = Transactions[i]
      BY <1>7, <2>1
    <3>2. deployAll[i].call = "deploy" /\ name \in LooksUp(deployAll[i].of)
      BY <1>9, <3>1
    <3> QED
      BY <1>3, <2>1, <3>2 DEF Scheduled
  <2>3. j \in 1 .. 33
    BY <2>1
  <2> QED
    BY <1>7, <2>2, <2>3
<1>10. \A i \in 1 .. 33 : IsOther(Transactions[i]) => i \in {20, 21, 30, 33}
  BY <1>3, <1>7 DEF Scheduled
<1>11. \E j \in 1 .. 29 : Transactions[j] = RegisterName("rollup")
  <2>1. PICK j \in 1 .. 29 : deployAll[j] = RegisterName("rollup")
    BY DeploySchedule
  <2>2. j \in 1 .. 33
    OBVIOUS
  <2> QED
    BY <1>7, <2>1, <2>2
<1>12. 20 \in 1 .. 33 /\ 21 \in 1 .. 33 /\ 30 \in 1 .. 33 /\ 33 \in 1 .. 33
  OBVIOUS
<1> QED
  BY <1>1, <1>6, <1>7, <1>8, <1>9, <1>10, <1>11, <1>12, DeploySchedule
-----------------------------------------------------------------------------
(* Where each of the other calls stands.                                   *)
LEMMA CallsAt ==
    ASSUME NEW i \in 1 .. Len(Transactions)
    PROVE  /\ i \in Nat
           /\ Transactions[i].call = "requestRegistration" <=> i = 20
           /\ Transactions[i].call = "finaliseRegistration" <=> i = 21
           /\ Transactions[i].call = "setRollupAddress" <=> i = 30
           /\ Transactions[i].call = "registerSpoke" <=> i = 33
           /\ Transactions[i].call = "register" <=> i > 33
           /\ i > 33 => /\ i - 33 \in 1 .. Len(Pubkeys)
                        /\ Transactions[i] = Call("register", Pubkeys[i - 33])
           /\ Transactions[i].call # "deploy" /\ Transactions[i].call # "registerName"
                 => i \in {20, 21, 30, 33} \/ i > 33
<1>1. /\ i \in Nat /\ i >= 1 /\ Len(Transactions) = 33 + Len(Pubkeys)
      /\ Len(Pubkeys) \in Nat /\ i <= Len(Transactions)
  BY Schedule
<1>2. ASSUME i > 33
      PROVE  /\ i - 33 \in 1 .. Len(Pubkeys)
             /\ Transactions[i] = Call("register", Pubkeys[i - 33])
             /\ Transactions[i].call = "register"
  <2>1. i - 33 \in 1 .. Len(Pubkeys) /\ 33 + (i - 33) = i
    BY <1>1, <1>2
  <2>2. Transactions[i] = Call("register", Pubkeys[i - 33])
    BY <2>1, Schedule
  <2> QED
    BY <2>1, <2>2 DEF Call
<1>3. ASSUME ~(i > 33), IsOther(Transactions[i]) PROVE i \in {20, 21, 30, 33}
  <2>1. i \in 1 .. 33
    BY <1>1, <1>3
  <2> QED
    BY <1>3, <2>1, Schedule
<1>4. /\ Transactions[20].call = "requestRegistration"
      /\ Transactions[21].call = "finaliseRegistration"
      /\ Transactions[30].call = "setRollupAddress"
      /\ Transactions[33].call = "registerSpoke"
  BY Schedule DEF Call
<1>5. i \in {20, 21, 30, 33} \/ i > 33 \/ Transactions[i].call \in {"deploy", "registerName"}
  BY <1>1, <1>3 DEF IsOther
<1>6. CASE i > 33
  BY <1>1, <1>2, <1>6
<1>7. CASE i \in {20, 21, 30, 33}
  BY <1>1, <1>4, <1>7
<1>8. CASE Transactions[i].call \in {"deploy", "registerName"}
  BY <1>1, <1>2, <1>4, <1>8
<1> QED
  BY <1>5, <1>6, <1>7, <1>8
-----------------------------------------------------------------------------
(* The invariant: how many transactions are mined tells what has been      *)
(* registered, but for what others have.                                   *)
mined == sent - Len(pending)
keysMined == IF mined > 33 THEN mined - 33 ELSE 0

QueueInv ==
    /\ sent \in 0 .. Len(Transactions)
    /\ pending \in Seq(SentTx) /\ Len(pending) <= sent
    /\ \A i \in 1 .. Len(pending) : pending[i] = Transactions[mined + i]
    /\ outsiderCalls \in Nat

NamesInv ==
    /\ \A name \in DOMAIN names : names[name] = name
    /\ \A i \in 1 .. mined : Transactions[i].call = "registerName"
          => Transactions[i].of \in DOMAIN names

WiresInv ==
    /\ \A contract \in DOMAIN references :
          \A name \in DOMAIN references[contract] : references[contract][name] = name
    /\ mined >= 30 => rollupOfVault = "rollup"

(* One list of ids: what is registered by the script, once a transaction   *)
(* is mined, and what others register.                                     *)
IdsInv(list, type, what, isMined, calls) ==
    /\ list \in Seq(type) /\ what \in type
    /\ Len(list) <= calls + (IF isMined THEN 1 ELSE 0)
    /\ isMined => \E i \in 1 .. Len(list) : list[i] = what /\ i <= 1 + calls
    /\ calls = 0 => list = IF isMined THEN <<what>> ELSE <<>>

Spokes == SpokeContracts \union {"withdrawManager"}
Tokens == TokenContracts \union {"testToken"}
SpokesInv == IdsInv(registeredSpokes, Spokes, "withdrawManager", mined >= 33, outsiderCalls)
TokensInv ==
    /\ IdsInv(registeredTokens, Tokens, "testToken", mined >= 21, outsiderCalls)
    /\ mined >= 20 => "testToken" \in pendingRegistrations
    /\ outsiderCalls = 0 =>
          pendingRegistrations = IF mined >= 20 THEN {"testToken"} ELSE {}

(* The keys of the script are in their order, and no later than others     *)
(* have registered before.                                                 *)
Placed(list, n, placeOf, calls) ==
    /\ placeOf \in [1 .. n -> 1 .. Len(list)]
    /\ \A k \in 1 .. n : list[placeOf[k]] = Pubkeys[k] /\ placeOf[k] \in k .. k + calls
    /\ \A j, k \in 1 .. n : j < k => placeOf[j] < placeOf[k]
    /\ \A i \in 1 .. Len(list) : (\A k \in 1 .. n : placeOf[k] # i) => list[i] = OtherKey
AccountsInv ==
    /\ accounts \in Seq(Range(Pubkeys) \union {OtherKey})
    /\ ~Deployed => Len(accounts) <= keysMined + outsiderCalls
    /\ \E placeOf : Placed(accounts, keysMined, placeOf, outsiderCalls)

DeployInv ==
    QueueInv /\ NamesInv /\ WiresInv /\ SpokesInv /\ TokensInv /\ AccountsInv

LEMMA DeployStarts == DeployInit => DeployInv
<1> SUFFICES ASSUME DeployInit PROVE DeployInv
  OBVIOUS
<1>1. /\ sent = 0 /\ pending = <<>> /\ names = <<>> /\ references = <<>>
      /\ registeredSpokes = <<>> /\ registeredTokens = <<>>
      /\ pendingRegistrations = {} /\ accounts = <<>> /\ outsiderCalls = 0
  BY DEF DeployInit
<1>2. \A S : <<>> \in Seq(S) /\ Len(<<>>) = 0 /\ DOMAIN <<>> = {}
  OBVIOUS
<1>3. mined = 0 /\ keysMined = 0
  <2>1. sent = 0 /\ Len(pending) = 0
    BY <1>1, <1>2
  <2>2. mined = 0
    BY <2>1 DEF mined
  <2> QED
    BY <2>2 DEF keysMined
<1>4. Len(Transactions) \in Nat
  BY Schedule
<1>5. QueueInv
  BY <1>1, <1>2, <1>4 DEF QueueInv
<1>6. NamesInv /\ WiresInv
  BY <1>1, <1>2, <1>3 DEF NamesInv, WiresInv
<1>7. SpokesInv /\ TokensInv
  BY <1>1, <1>2, <1>3 DEF SpokesInv, TokensInv, IdsInv, Spokes, Tokens
<1>8. AccountsInv
  <2> DEFINE placeOf == [k \in 1 .. 0 |-> 1]
  <2>1. Placed(<<>>, 0, placeOf, 0)
    BY <1>2 DEF Placed
  <2> HIDE DEF placeOf
  <2> QED
    BY <1>1, <1>2, <1>3, <2>1 DEF AccountsInv
<1> QED
  BY <1>5, <1>6, <1>7, <1>8 DEF DeployInv

(* What is read off the invariant.                                         *)
LEMMA CountsAre ==
    ASSUME QueueInv
    PROVE  /\ mined \in 0 .. Len(Transactions) /\ mined \in Nat /\ keysMined \in Nat
           /\ Len(pending) \in Nat /\ sent \in Nat /\ outsiderCalls \in Nat
<1>1. Len(pending) \in Nat /\ Len(Transactions) \in Nat
  BY Schedule, LenProperties DEF QueueInv
<1> QED
  BY <1>1 DEF QueueInv, mined, keysMined
(* The next transaction is mined.                                          *)
MinesNext ==
    /\ sent' = sent /\ mined' = mined + 1 /\ mined + 1 \in 1 .. Len(Transactions)
    /\ outsiderCalls' = outsiderCalls
    /\ pending # <<>> /\ Head(pending) = Transactions[mined + 1]

LEMMA MinedIsNext ==
    ASSUME QueueInv, pending # <<>>, pending' = Tail(pending),
           UNCHANGED <<sent, outsiderCalls>>
    PROVE  MinesNext /\ QueueInv'
<1>1. /\ pending \in Seq(SentTx) /\ sent \in Nat /\ Len(pending) \in Nat \ {0}
      /\ Len(pending) <= sent /\ sent <= Len(Transactions) /\ Len(Transactions) \in Nat
  <2>1. pending \in Seq(SentTx) /\ Len(pending) \in Nat \ {0}
    BY EmptySeq DEF QueueInv
  <2>2. Len(Transactions) \in Nat
    BY Schedule
  <2> QED
    BY <2>1, <2>2 DEF QueueInv
<1>2. /\ Tail(pending) \in Seq(SentTx) /\ Len(Tail(pending)) = Len(pending) - 1
      /\ \A i \in 1 .. Len(Tail(pending)) : Tail(pending)[i] = pending[i + 1]
  BY <1>1, HeadTailProperties
<1>3. Head(pending) = pending[1]
  BY <1>1
<1>4. mined' = mined + 1 /\ mined + 1 \in 1 .. Len(Transactions) /\ mined \in Nat
  BY <1>1, <1>2 DEF mined
<1>5. \A i \in 1 .. Len(pending) : pending[i] = Transactions[mined + i]
  BY DEF QueueInv
<1>6. Head(pending) = Transactions[mined + 1]
  BY <1>1, <1>3, <1>5
<1>7. \A i \in 1 .. Len(pending') : pending'[i] = Transactions[mined' + i]
  <2>1. ASSUME NEW i \in 1 .. Len(pending') PROVE pending'[i] = Transactions[mined' + i]
    <3>1. i + 1 \in 1 .. Len(pending) /\ mined + (i + 1) = mined' + i
      BY <1>1, <1>2, <1>4
    <3>2. pending'[i] = pending[i + 1]
      BY <1>2
    <3> QED
      BY <1>5, <3>1, <3>2
  <2> QED
    BY <2>1
<1>8. sent' \in 0 .. Len(Transactions) /\ Len(pending') <= sent' /\ outsiderCalls' \in Nat
  BY <1>1, <1>2 DEF QueueInv
<1>9. QueueInv'
  BY <1>2, <1>7, <1>8 DEF QueueInv
<1> QED
  BY <1>4, <1>6, <1>9 DEF MinesNext

(* Steps that leave one list of ids alone.                                 *)
LEMMA IdsStay ==
    ASSUME NEW list, NEW type, NEW what, NEW isMined, NEW calls \in Nat,
           NEW more \in Nat, more >= calls, IdsInv(list, type, what, isMined, calls)
    PROVE  IdsInv(list, type, what, isMined, more)
<1>1. Len(list) \in Nat
  BY LenProperties DEF IdsInv
<1>2. Len(list) <= more + (IF isMined THEN 1 ELSE 0)
  BY <1>1 DEF IdsInv
<1>3. isMined => \E i \in 1 .. Len(list) : list[i] = what /\ i <= 1 + more
  BY <1>1 DEF IdsInv
<1>4. more = 0 => calls = 0
  OBVIOUS
<1> QED
  BY <1>2, <1>3, <1>4 DEF IdsInv

(* The id that the script registers, and one that another does.            *)
LEMMA IdsMined ==
    ASSUME NEW list, NEW type, NEW what, NEW calls \in Nat,
           IdsInv(list, type, what, FALSE, calls)
    PROVE  IdsInv(Append(list, what), type, what, TRUE, calls)
<1>1. list \in Seq(type) /\ what \in type /\ Len(list) \in Nat /\ Len(list) <= calls
  <2>1. list \in Seq(type) /\ what \in type /\ Len(list) <= calls + 0
    BY DEF IdsInv
  <2>2. Len(list) \in Nat
    BY <2>1, LenProperties
  <2> QED
    BY <2>1, <2>2
<1>2. /\ Append(list, what) \in Seq(type) /\ Len(Append(list, what)) = Len(list) + 1
      /\ Append(list, what)[Len(list) + 1] = what
  BY <1>1, AppendProperties
<1>3. calls = 0 => Append(list, what) = <<what>>
  <2>1. calls = 0 => list = <<>>
    BY DEF IdsInv
  <2>2. Append(<<>>, what) = <<what>>
    OBVIOUS
  <2> QED
    BY <2>1, <2>2
<1>4. \E i \in 1 .. Len(Append(list, what)) : Append(list, what)[i] = what /\ i <= 1 + calls
  <2>1. Len(list) + 1 \in 1 .. Len(Append(list, what)) /\ Len(list) + 1 <= 1 + calls
    BY <1>1, <1>2
  <2> QED
    BY <1>2, <2>1
<1> QED
  BY <1>1, <1>2, <1>3, <1>4 DEF IdsInv

LEMMA IdsByOther ==
    ASSUME NEW list, NEW type, NEW what, NEW isMined, NEW calls \in Nat,
           NEW other \in type, IdsInv(list, type, what, isMined, calls)
    PROVE  IdsInv(Append(list, other), type, what, isMined, calls + 1)
<1>1. list \in Seq(type) /\ what \in type /\ Len(list) \in Nat
      /\ Len(list) <= calls + (IF isMined THEN 1 ELSE 0)
  BY LenProperties DEF IdsInv
<1>2. /\ Append(list, other) \in Seq(type) /\ Len(Append(list, other)) = Len(list) + 1
      /\ \A i \in 1 .. Len(list) : Append(list, other)[i] = list[i]
  BY <1>1, AppendProperties
<1>3. isMined => \E i \in 1 .. Len(Append(list, other)) :
                    Append(list, other)[i] = what /\ i <= 1 + (calls + 1)
  <2>1. ASSUME isMined
        PROVE  \E i \in 1 .. Len(Append(list, other)) :
                  Append(list, other)[i] = what /\ i <= 1 + (calls + 1)
    <3>1. PICK i \in 1 .. Len(list) : list[i] = what /\ i <= 1 + calls
      BY <2>1 DEF IdsInv
    <3>2. i \in 1 .. Len(Append(list, other)) /\ i <= 1 + (calls + 1)
      BY <1>1, <1>2, <3>1
    <3> QED
      BY <1>2, <3>1, <3>2
  <2> QED
    BY <2>1
<1>4. Len(Append(list, other)) <= calls + 1 + (IF isMined THEN 1 ELSE 0)
  BY <1>1, <1>2
<1> QED
  BY <1>1, <1>2, <1>3, <1>4 DEF IdsInv
-----------------------------------------------------------------------------
(* The places of the keys.                                                 *)
LEMMA KeysStay ==
    ASSUME NEW list, NEW n \in Nat, NEW placeOf, NEW calls \in Nat, NEW more \in Nat,
           more >= calls, Placed(list, n, placeOf, calls)
    PROVE  Placed(list, n, placeOf, more)
<1>1. \A k \in 1 .. n : placeOf[k] \in k .. k + more
  BY DEF Placed
<1> QED
  BY <1>1 DEF Placed

LEMMA KeyByOther ==
    ASSUME NEW list \in Seq(Range(Pubkeys) \union {OtherKey}), NEW n \in Nat,
           NEW placeOf, NEW calls \in Nat, Placed(list, n, placeOf, calls)
    PROVE  Placed(Append(list, OtherKey), n, placeOf, calls)
<1> DEFINE more == Append(list, OtherKey)
<1>1. /\ Len(list) \in Nat /\ Len(more) = Len(list) + 1
      /\ \A i \in 1 .. Len(list) : more[i] = list[i]
      /\ more[Len(list) + 1] = OtherKey
  BY LenProperties, AppendProperties
<1> HIDE DEF more
<1>2. \A i \in 1 .. Len(list) : i \in 1 .. Len(more)
  BY <1>1
<1>3. placeOf \in [1 .. n -> 1 .. Len(more)]
  BY <1>2 DEF Placed
<1>4. \A k \in 1 .. n : more[placeOf[k]] = Pubkeys[k] /\ placeOf[k] \in k .. k + calls
  BY <1>1 DEF Placed
<1>5. ASSUME NEW i \in 1 .. Len(more), \A k \in 1 .. n : placeOf[k] # i
      PROVE  more[i] = OtherKey
  <2>1. i \in 1 .. Len(list) \/ i = Len(list) + 1
    BY <1>1
  <2>2. CASE i \in 1 .. Len(list)
    BY <1>1, <1>5, <2>2 DEF Placed
  <2> QED
    BY <1>1, <2>1, <2>2
<1>6. Placed(more, n, placeOf, calls)
  BY <1>3, <1>4, <1>5 DEF Placed
<1> QED
  BY <1>6 DEF more

LEMMA KeyMined ==
    ASSUME NEW list \in Seq(Range(Pubkeys) \union {OtherKey}), NEW n \in Nat,
           NEW placeOf, NEW calls \in Nat, Placed(list, n, placeOf, calls),
           Len(list) <= n + calls, n + 1 \in 1 .. Len(Pubkeys)
    PROVE  \E now : Placed(Append(list, Pubkeys[n + 1]), n + 1, now, calls)
<1> DEFINE more == Append(list, Pubkeys[n + 1])
           now == [k \in 1 .. n + 1 |-> IF k <= n THEN placeOf[k] ELSE Len(list) + 1]
<1>1. /\ Len(list) \in Nat /\ Len(more) = Len(list) + 1
      /\ \A i \in 1 .. Len(list) : more[i] = list[i]
      /\ more[Len(list) + 1] = Pubkeys[n + 1]
  <2>1. Pubkeys[n + 1] \in Range(Pubkeys) \union {OtherKey}
    BY KeysAssumption, LenProperties
  <2> QED
    BY <2>1, LenProperties, AppendProperties
<1>2. /\ \A k \in 1 .. n : now[k] = placeOf[k] /\ k \in 1 .. n + 1
      /\ now[n + 1] = Len(list) + 1
      /\ \A k \in 1 .. n + 1 : k \in 1 .. n \/ k = n + 1
  OBVIOUS
<1>3. \A k \in 1 .. n : placeOf[k] \in 1 .. Len(list) /\ placeOf[k] \in k .. k + calls
  BY DEF Placed
<1>4. n <= Len(list)
  <2>1. CASE n = 0
    BY <1>1, <2>1
  <2>2. CASE n > 0
    <3>1. n \in 1 .. n
      BY <2>2
    <3>2. placeOf[n] \in 1 .. Len(list) /\ placeOf[n] >= n
      BY <1>3, <3>1
    <3> QED
      BY <1>1, <3>2
  <2> QED
    BY <2>1, <2>2
<1>5. DOMAIN now = 1 .. n + 1
  OBVIOUS
<1>6. now = [k \in 1 .. n + 1 |-> now[k]]
  OBVIOUS
<1> HIDE DEF more, now
<1>7. now \in [1 .. n + 1 -> 1 .. Len(more)]
  <2>1. \A k \in 1 .. n : now[k] \in 1 .. Len(list)
    BY <1>2, <1>3
  <2>2. now[n + 1] \in 1 .. Len(more)
    BY <1>1, <1>2
  <2>3. \A i \in 1 .. Len(list) : i \in 1 .. Len(more)
    BY <1>1
  <2>4. \A k \in 1 .. n + 1 : now[k] \in 1 .. Len(more)
    BY <1>2, <2>1, <2>2, <2>3
  <2> QED
    BY <1>6, <2>4
<1>8. \A k \in 1 .. n + 1 : more[now[k]] = Pubkeys[k] /\ now[k] \in k .. k + calls
  <2>1. \A k \in 1 .. n : more[now[k]] = Pubkeys[k] /\ now[k] \in k .. k + calls
    BY <1>1, <1>2, <1>3 DEF Placed
  <2>2. more[now[n + 1]] = Pubkeys[n + 1] /\ now[n + 1] \in n + 1 .. n + 1 + calls
    BY <1>1, <1>2, <1>4
  <2> QED
    BY <1>2, <2>1, <2>2
<1>9. \A j, k \in 1 .. n + 1 : j < k => now[j] < now[k]
  <2>1. ASSUME NEW j \in 1 .. n + 1, NEW k \in 1 .. n + 1, j < k PROVE now[j] < now[k]
    <3>1. j \in 1 .. n
      BY <2>1
    <3>2. CASE k \in 1 .. n
      BY <1>2, <2>1, <3>1, <3>2 DEF Placed
    <3>3. CASE k = n + 1
      <4>1. now[j] = placeOf[j] /\ placeOf[j] \in 1 .. Len(list)
        BY <1>2, <1>3, <3>1
      <4>2. now[k] = Len(list) + 1
        BY <1>2, <3>3
      <4> QED
        BY <1>1, <4>1, <4>2
    <3> QED
      BY <1>2, <3>2, <3>3
  <2> QED
    BY <2>1
<1>10. ASSUME NEW i \in 1 .. Len(more), \A k \in 1 .. n + 1 : now[k] # i
       PROVE  more[i] = OtherKey
  <2>1. i # Len(list) + 1
    <3>1. n + 1 \in 1 .. n + 1
      OBVIOUS
    <3> QED
      BY <1>2, <1>10, <3>1
  <2>2. i \in 1 .. Len(list)
    BY <1>1, <2>1
  <2>3. \A k \in 1 .. n : placeOf[k] # i
    BY <1>2, <1>10
  <2> QED
    BY <1>1, <2>2, <2>3 DEF Placed
<1>11. Placed(more, n + 1, now, calls)
  BY <1>7, <1>8, <1>9, <1>10 DEF Placed
<1> QED
  BY <1>11 DEF more
-----------------------------------------------------------------------------
(* A transaction that is mined disturbs only what it is about.             *)
LEMMA NamesStay ==
    ASSUME QueueInv, NamesInv, MinesNext, names' = names,
           Transactions[mined + 1].call # "registerName"
    PROVE  NamesInv'
<1>1. mined \in Nat /\ mined' = mined + 1
  BY CountsAre DEF MinesNext
<1>2. \A i \in 1 .. mined' : i \in 1 .. mined \/ i = mined + 1
  BY <1>1
<1> QED
  BY <1>2 DEF NamesInv

LEMMA WiresStay ==
    ASSUME QueueInv, WiresInv, MinesNext, mined + 1 # 30,
           UNCHANGED <<references, rollupOfVault>>
    PROVE  WiresInv'
<1>1. mined \in Nat /\ mined' = mined + 1
  BY CountsAre DEF MinesNext
<1>2. mined' >= 30 => mined >= 30
  BY <1>1
<1> QED
  BY <1>2 DEF WiresInv

LEMMA SpokesStay ==
    ASSUME QueueInv, SpokesInv, MinesNext, mined + 1 # 33,
           UNCHANGED registeredSpokes
    PROVE  SpokesInv'
<1>1. mined \in Nat /\ mined' = mined + 1 /\ outsiderCalls' = outsiderCalls
  BY CountsAre DEF MinesNext
<1>2. mined' >= 33 <=> mined >= 33
  BY <1>1
<1> QED
  BY <1>1, <1>2 DEF SpokesInv, IdsInv

LEMMA TokensStay ==
    ASSUME QueueInv, TokensInv, MinesNext, mined + 1 # 20, mined + 1 # 21,
           UNCHANGED <<registeredTokens, pendingRegistrations>>
    PROVE  TokensInv'
<1>1. mined \in Nat /\ mined' = mined + 1 /\ outsiderCalls' = outsiderCalls
  BY CountsAre DEF MinesNext
<1>2. (mined' >= 20 <=> mined >= 20) /\ (mined' >= 21 <=> mined >= 21)
  BY <1>1
<1> QED
  BY <1>1, <1>2 DEF TokensInv, IdsInv

LEMMA AccountsStay ==
    ASSUME QueueInv, AccountsInv, MinesNext, ~(mined + 1 > 33), UNCHANGED accounts
    PROVE  AccountsInv'
<1>1. mined \in Nat /\ mined' = mined + 1 /\ outsiderCalls' = outsiderCalls
  BY CountsAre DEF MinesNext
<1>2. keysMined' = keysMined
  BY <1>1 DEF keysMined
<1>3. ~Deployed
  BY DEF Deployed, MinesNext
<1> QED
  BY <1>1, <1>2, <1>3 DEF AccountsInv

(* The transactions, one kind after the other.                             *)
LEMMA MinedIs ==
    ASSUME QueueInv, NEW call, Mined(call)
    PROVE  /\ MinesNext /\ QueueInv' /\ Transactions[mined + 1].call = call
           /\ Argument = Transactions[mined + 1].of /\ mined \in Nat
           /\ outsiderCalls \in Nat
<1>1. MinesNext /\ QueueInv'
  BY MinedIsNext DEF Mined
<1> QED
  BY <1>1, CountsAre DEF MinesNext, Mined, Argument

LEMMA MineDeployKeeps ==
    ASSUME DeployInv, MineDeploy
    PROVE  DeployInv'
<1>1. /\ MinesNext /\ QueueInv' /\ Transactions[mined + 1].call = "deploy"
      /\ Argument = Transactions[mined + 1].of /\ mined \in Nat /\ QueueInv
  BY MinedIs DEF DeployInv, MineDeploy
<1>2. /\ mined + 1 # 20 /\ mined + 1 # 21 /\ mined + 1 # 30 /\ mined + 1 # 33
      /\ ~(mined + 1 > 33) /\ mined + 1 \in 1 .. Len(Transactions)
  <2>1. mined + 1 \in 1 .. Len(Transactions)
    BY <1>1 DEF MinesNext
  <2>2. /\ ~(mined + 1 = 20) /\ ~(mined + 1 = 21) /\ ~(mined + 1 = 30) /\ ~(mined + 1 = 33)
        /\ ~(mined + 1 > 33)
    BY <1>1, <2>1, CallsAt
  <2> QED
    BY <2>1, <2>2
<1>3. NamesInv' /\ SpokesInv' /\ TokensInv' /\ AccountsInv'
  BY <1>1, <1>2, NamesStay, SpokesStay, TokensStay, AccountsStay
     DEF DeployInv, MineDeploy, registryVars
<1>4. WiresInv'
  <2>1. ASSUME NEW name \in LooksUp(Argument) PROVE getContractDetails(name) = name
    <3> DEFINE here == mined + 1
    <3>1. /\ here \in 1 .. Len(Transactions) /\ Transactions[here].call = "deploy"
          /\ name \in LooksUp(Transactions[here].of)
      BY <1>1, <1>2, <2>1
    <3> HIDE DEF here
    <3>2. PICK j \in 1 .. here - 1 : Transactions[j] = RegisterName(name)
      BY <3>1, Schedule
    <3>3. j \in 1 .. mined
      BY <1>1, <3>2 DEF here
    <3>4. name \in DOMAIN names
      BY <3>2, <3>3 DEF DeployInv, NamesInv, RegisterName
    <3> QED
      BY <3>4 DEF DeployInv, NamesInv, getContractDetails
  <2>2. \A contract \in DOMAIN references' :
           \A name \in DOMAIN references'[contract] : references'[contract][name] = name
    <3> DEFINE found == [name \in LooksUp(Argument) |-> getContractDetails(name)]
    <3>1. \A name \in DOMAIN found : found[name] = name
      BY <2>1
    <3>2. references' = Entered(references, Argument, found)
      BY DEF MineDeploy
    <3> HIDE DEF found
    <3>3. ASSUME NEW contract \in DOMAIN references'
          PROVE  \A name \in DOMAIN references'[contract] :
                    references'[contract][name] = name
      <4>1. \/ contract \in DOMAIN references
               /\ references'[contract] = references[contract]
            \/ references'[contract] = found
        BY <3>2 DEF Entered
      <4> QED
        BY <3>1, <4>1 DEF DeployInv, WiresInv
    <3> QED
      BY <3>3
  <2>3. rollupOfVault' = rollupOfVault
    BY DEF MineDeploy
  <2>4. mined' >= 30 => mined >= 30
    BY <1>1, <1>2 DEF MinesNext
  <2> QED
    BY <2>2, <2>3, <2>4 DEF DeployInv, WiresInv
<1> QED
  BY <1>1, <1>3, <1>4 DEF DeployInv

LEMMA MineRegisterNameKeeps ==
    ASSUME DeployInv, MineRegisterName
    PROVE  DeployInv'
<1>1. /\ MinesNext /\ QueueInv' /\ Transactions[mined + 1].call = "registerName"
      /\ Argument = Transactions[mined + 1].of /\ mined \in Nat /\ QueueInv
  BY MinedIs DEF DeployInv, MineRegisterName
<1>2. /\ mined + 1 # 20 /\ mined + 1 # 21 /\ mined + 1 # 30 /\ mined + 1 # 33
      /\ ~(mined + 1 > 33) /\ mined + 1 \in 1 .. Len(Transactions)
  <2>1. mined + 1 \in 1 .. Len(Transactions)
    BY <1>1 DEF MinesNext
  <2>2. /\ ~(mined + 1 = 20) /\ ~(mined + 1 = 21) /\ ~(mined + 1 = 30) /\ ~(mined + 1 = 33)
        /\ ~(mined + 1 > 33)
    BY <1>1, <2>1, CallsAt
  <2> QED
    BY <2>1, <2>2
<1>3. WiresInv' /\ SpokesInv' /\ TokensInv' /\ AccountsInv'
  BY <1>1, <1>2, WiresStay, SpokesStay, TokensStay, AccountsStay
     DEF DeployInv, MineRegisterName, registryVars
<1>4. NamesInv'
  <2>1. /\ DOMAIN names' = DOMAIN names \union {Argument}
        /\ \A name \in DOMAIN names' :
              names'[name] = IF name \in DOMAIN names THEN names[name] ELSE Argument
    BY DEF MineRegisterName, Entered
  <2>2. \A name \in DOMAIN names' : names'[name] = name
    BY <2>1 DEF DeployInv, NamesInv
  <2>3. \A i \in 1 .. mined' : i \in 1 .. mined \/ i = mined + 1
    BY <1>1 DEF MinesNext
  <2>4. \A i \in 1 .. mined' : Transactions[i].call = "registerName"
           => Transactions[i].of \in DOMAIN names'
    BY <1>1, <2>1, <2>3 DEF DeployInv, NamesInv
  <2> QED
    BY <2>2, <2>4 DEF NamesInv
<1> QED
  BY <1>1, <1>3, <1>4 DEF DeployInv
LEMMA MineRequestKeeps ==
    ASSUME DeployInv, Mined("requestRegistration"),
           Register(RequestRegistration(Argument))
    PROVE  DeployInv'
<1>1. /\ MinesNext /\ QueueInv' /\ Transactions[mined + 1].call = "requestRegistration"
      /\ Argument = Transactions[mined + 1].of /\ mined \in Nat /\ QueueInv
      /\ mined + 1 \in 1 .. Len(Transactions) /\ outsiderCalls' = outsiderCalls
  BY MinedIs DEF DeployInv, MinesNext
<1>2. mined + 1 = 20
  BY <1>1, CallsAt
<1>3. Argument = "testToken"
  BY <1>1, <1>2, Schedule DEF Call
<1>4. NamesInv' /\ WiresInv' /\ SpokesInv' /\ AccountsInv'
  <2>1. UNCHANGED <<names, references, rollupOfVault, registeredSpokes, accounts>>
    BY DEF Register, RequestRegistration
  <2>2. mined + 1 # 30 /\ mined + 1 # 33 /\ ~(mined + 1 > 33)
    BY <1>2
  <2> QED
    BY <1>1, <2>1, <2>2, NamesStay, WiresStay, SpokesStay, AccountsStay DEF DeployInv
<1>5. TokensInv'
  <2>1. /\ registeredTokens' = registeredTokens
        /\ pendingRegistrations' = pendingRegistrations \union {"testToken"}
    BY <1>3 DEF Register, RequestRegistration
  <2>2. /\ ~(mined >= 20) /\ mined' >= 20
        /\ mined' >= 21 <=> mined >= 21
    BY <1>1, <1>2 DEF MinesNext
  <2>3. IdsInv(registeredTokens', Tokens, "testToken", mined' >= 21, outsiderCalls')
    BY <1>1, <2>1, <2>2 DEF DeployInv, TokensInv, IdsInv
  <2>4. outsiderCalls' = 0 => pendingRegistrations' = {"testToken"}
    BY <1>1, <2>1, <2>2 DEF DeployInv, TokensInv
  <2> QED
    BY <2>1, <2>2, <2>3, <2>4 DEF TokensInv
<1> QED
  BY <1>1, <1>4, <1>5 DEF DeployInv

LEMMA MineFinaliseKeeps ==
    ASSUME DeployInv, Mined("finaliseRegistration"),
           Register(FinaliseRegistration(Argument))
    PROVE  DeployInv'
<1>1. /\ MinesNext /\ QueueInv' /\ Transactions[mined + 1].call = "finaliseRegistration"
      /\ Argument = Transactions[mined + 1].of /\ mined \in Nat /\ QueueInv
      /\ mined + 1 \in 1 .. Len(Transactions) /\ outsiderCalls' = outsiderCalls
      /\ outsiderCalls \in Nat
  BY MinedIs DEF DeployInv, MinesNext
<1>2. mined + 1 = 21
  BY <1>1, CallsAt
<1>3. Argument = "testToken"
  BY <1>1, <1>2, Schedule DEF Call
<1>4. NamesInv' /\ WiresInv' /\ SpokesInv' /\ AccountsInv'
  <2>1. UNCHANGED <<names, references, rollupOfVault, registeredSpokes, accounts>>
    BY DEF Register, FinaliseRegistration
  <2>2. mined + 1 # 30 /\ mined + 1 # 33 /\ ~(mined + 1 > 33)
    BY <1>2
  <2> QED
    BY <1>1, <2>1, <2>2, NamesStay, WiresStay, SpokesStay, AccountsStay DEF DeployInv
<1>5. TokensInv'
  <2>1. /\ registeredTokens' = Append(registeredTokens, "testToken")
        /\ pendingRegistrations' = pendingRegistrations
    BY <1>3 DEF Register, FinaliseRegistration
  <2>2. ~(mined >= 21) /\ mined' >= 21 /\ mined' >= 20 /\ mined >= 20
    BY <1>1, <1>2 DEF MinesNext
  <2>3. IdsInv(registeredTokens, Tokens, "testToken", FALSE, outsiderCalls)
    BY <2>2 DEF DeployInv, TokensInv, IdsInv
  <2>4. IdsInv(registeredTokens', Tokens, "testToken", TRUE, outsiderCalls')
    BY <1>1, <2>1, <2>3, IdsMined
  <2>5. IdsInv(registeredTokens', Tokens, "testToken", mined' >= 21, outsiderCalls')
    BY <2>2, <2>4 DEF IdsInv
  <2> QED
    BY <1>1, <2>1, <2>2, <2>5 DEF DeployInv, TokensInv
<1> QED
  BY <1>1, <1>4, <1>5 DEF DeployInv

LEMMA MineSpokeKeeps ==
    ASSUME DeployInv, Mined("registerSpoke"), Register(RegisterSpoke(Argument))
    PROVE  DeployInv'
<1>1. /\ MinesNext /\ QueueInv' /\ Transactions[mined + 1].call = "registerSpoke"
      /\ Argument = Transactions[mined + 1].of /\ mined \in Nat /\ QueueInv
      /\ mined + 1 \in 1 .. Len(Transactions) /\ outsiderCalls' = outsiderCalls
      /\ outsiderCalls \in Nat
  BY MinedIs DEF DeployInv, MinesNext
<1>2. mined + 1 = 33
  BY <1>1, CallsAt
<1>3. Argument = "withdrawManager"
  BY <1>1, <1>2, Schedule DEF Call
<1>4. NamesInv' /\ WiresInv' /\ TokensInv' /\ AccountsInv'
  <2>1. UNCHANGED <<names, references, rollupOfVault, registeredTokens,
                    pendingRegistrations, accounts>>
    BY DEF Register, RegisterSpoke
  <2>2. mined + 1 # 20 /\ mined + 1 # 21 /\ mined + 1 # 30 /\ ~(mined + 1 > 33)
    BY <1>2
  <2> QED
    BY <1>1, <2>1, <2>2, NamesStay, WiresStay, TokensStay, AccountsStay DEF DeployInv
<1>5. SpokesInv'
  <2>1. registeredSpokes' = Append(registeredSpokes, "withdrawManager")
    BY <1>3 DEF Register, RegisterSpoke
  <2>2. ~(mined >= 33) /\ mined' >= 33
    BY <1>1, <1>2 DEF MinesNext
  <2>3. IdsInv(registeredSpokes, Spokes, "withdrawManager", FALSE, outsiderCalls)
    BY <2>2 DEF DeployInv, SpokesInv, IdsInv
  <2>4. IdsInv(registeredSpokes', Spokes, "withdrawManager", TRUE, outsiderCalls')
    BY <1>1, <2>1, <2>3, IdsMined
  <2> QED
    BY <2>2, <2>4 DEF SpokesInv, IdsInv
<1> QED
  BY <1>1, <1>4, <1>5 DEF DeployInv

(* Once the rollup is registered the vault learns of it, whoever asks.     *)
LEMMA RollupIsFound ==
    ASSUME QueueInv, NamesInv, mined >= 29
    PROVE  getContractDetails("rollup") = "rollup"
<1>1. PICK j \in 1 .. 29 : Transactions[j] = RegisterName("rollup")
  BY Schedule
<1>2. j \in 1 .. mined
  BY CountsAre
<1>3. "rollup" \in DOMAIN names
  BY <1>1, <1>2 DEF NamesInv, RegisterName
<1> QED
  BY <1>3 DEF NamesInv, getContractDetails

LEMMA MineSetRollupKeeps ==
    ASSUME DeployInv, Mined("setRollupAddress"), setRollupAddress
    PROVE  DeployInv'
<1>1. /\ MinesNext /\ QueueInv' /\ Transactions[mined + 1].call = "setRollupAddress"
      /\ mined \in Nat /\ QueueInv /\ mined + 1 \in 1 .. Len(Transactions)
  BY MinedIs DEF DeployInv, MinesNext
<1>2. mined + 1 = 30
  BY <1>1, CallsAt
<1>3. NamesInv' /\ SpokesInv' /\ TokensInv' /\ AccountsInv'
  <2>1. UNCHANGED <<names, registeredSpokes, registeredTokens, pendingRegistrations, accounts>>
    BY DEF setRollupAddress, registryVars
  <2>2. mined + 1 # 20 /\ mined + 1 # 21 /\ mined + 1 # 33 /\ ~(mined + 1 > 33)
    BY <1>2
  <2> QED
    BY <1>1, <2>1, <2>2, NamesStay, SpokesStay, TokensStay, AccountsStay DEF DeployInv
<1>4. WiresInv'
  <2>1. mined >= 29
    BY <1>1, <1>2
  <2>2. rollupOfVault' = "rollup" /\ references' = references
    BY <1>1, <2>1, RollupIsFound DEF DeployInv, setRollupAddress
  <2> QED
    BY <2>2 DEF DeployInv, WiresInv
<1> QED
  BY <1>1, <1>3, <1>4 DEF DeployInv

LEMMA MineKeyKeeps ==
    ASSUME DeployInv, Mined("register"), register(Argument)
    PROVE  DeployInv'
<1>1. /\ MinesNext /\ QueueInv' /\ Transactions[mined + 1].call = "register"
      /\ Argument = Transactions[mined + 1].of /\ mined \in Nat /\ QueueInv
      /\ mined + 1 \in 1 .. Len(Transactions) /\ outsiderCalls' = outsiderCalls
      /\ outsiderCalls \in Nat
  BY MinedIs DEF DeployInv, MinesNext
<1>2. /\ mined + 1 > 33 /\ mined + 1 - 33 \in 1 .. Len(Pubkeys)
      /\ Transactions[mined + 1] = Call("register", Pubkeys[mined + 1 - 33])
  BY <1>1, CallsAt
<1>3. Argument = Pubkeys[mined + 1 - 33]
  BY <1>1, <1>2 DEF Call
<1>4. NamesInv' /\ WiresInv' /\ SpokesInv' /\ TokensInv'
  <2>1. UNCHANGED <<names, references, rollupOfVault, registeredSpokes, registeredTokens,
                    pendingRegistrations>>
    BY DEF register, registryVars
  <2>2. mined + 1 # 20 /\ mined + 1 # 21 /\ mined + 1 # 30 /\ mined + 1 # 33
    BY <1>1, <1>2
  <2> QED
    BY <1>1, <2>1, <2>2, NamesStay, WiresStay, SpokesStay, TokensStay DEF DeployInv
<1>5. AccountsInv'
  <2>1. /\ keysMined \in Nat /\ keysMined' = keysMined + 1
        /\ keysMined + 1 = mined + 1 - 33
    BY <1>1, <1>2 DEF keysMined, MinesNext
  <2>2. accounts' = Append(accounts, Pubkeys[keysMined + 1])
    BY <1>3, <2>1 DEF register
  <2>3. ~Deployed
    BY <1>1 DEF Deployed, MinesNext
  <2>4. /\ accounts \in Seq(Range(Pubkeys) \union {OtherKey})
        /\ Len(accounts) <= keysMined + outsiderCalls
    BY <2>3 DEF DeployInv, AccountsInv
  <2>5. PICK placeOf : Placed(accounts, keysMined, placeOf, outsiderCalls)
    BY DEF DeployInv, AccountsInv
  <2>6. keysMined + 1 \in 1 .. Len(Pubkeys)
    BY <1>2, <2>1
  <2>7. \E now : Placed(accounts', keysMined + 1, now, outsiderCalls)
    BY <1>1, <2>1, <2>2, <2>4, <2>5, <2>6, KeyMined
  <2>8. Pubkeys[keysMined + 1] \in Range(Pubkeys) \union {OtherKey}
    BY <2>6, KeysAssumption, LenProperties
  <2>9. /\ accounts' \in Seq(Range(Pubkeys) \union {OtherKey})
        /\ Len(accounts') = Len(accounts) + 1 /\ Len(accounts) \in Nat
    BY <2>2, <2>4, <2>8, AppendProperties, LenProperties
  <2>10. Len(accounts') <= keysMined' + outsiderCalls'
    BY <1>1, <2>1, <2>4, <2>9
  <2> QED
    BY <1>1, <2>1, <2>7, <2>9, <2>10 DEF AccountsInv
<1> QED
  BY <1>1, <1>4, <1>5 DEF DeployInv

(* No call is reverted but the request for a token that another has asked  *)
(* for already.                                                            *)
LEMMA MineRevertedKeeps ==
    ASSUME DeployInv, MineReverted
    PROVE  DeployInv'
<1>1. /\ MinesNext /\ QueueInv' /\ Head(pending) = Transactions[mined + 1]
      /\ mined \in Nat /\ QueueInv
      /\ mined + 1 \in 1 .. Len(Transactions) /\ outsiderCalls' = outsiderCalls
  <2>1. QueueInv
    BY DEF DeployInv
  <2>2. MinesNext /\ QueueInv'
    BY <2>1, MinedIsNext DEF MineReverted
  <2> QED
    BY <2>1, <2>2, CountsAre DEF MinesNext
<1> DEFINE tx == Transactions[mined + 1]
<1>2. /\ tx.call = "registerName" => FALSE
      /\ mined + 1 = 20 => "testToken" \in pendingRegistrations
      /\ mined + 1 \notin {21, 30, 33} /\ ~(mined + 1 > 33)
  <2>1. WouldRevert(tx)
    BY <1>1 DEF MineReverted
  <2>2. /\ tx.call \in {"deploy", "requestRegistration", "finaliseRegistration"}
        /\ tx.call = "requestRegistration" => tx.of \in pendingRegistrations
        /\ tx.call = "finaliseRegistration" => tx.of \notin pendingRegistrations
    BY <2>1 DEF WouldRevert
  <2>3. mined + 1 = 20 => "testToken" \in pendingRegistrations
    <3>1. /\ Transactions[20].call = "requestRegistration"
          /\ Transactions[20].of = "testToken"
      BY Schedule DEF Call
    <3> QED
      BY <2>2, <3>1
  <2>4. mined + 1 # 21
    <3>1. ASSUME mined + 1 = 21 PROVE FALSE
      <4>1. /\ Transactions[21].call = "finaliseRegistration"
            /\ Transactions[21].of = "testToken"
        BY Schedule DEF Call
      <4>2. "testToken" \notin pendingRegistrations
        BY <2>2, <3>1, <4>1
      <4>3. mined >= 20
        BY <1>1, <3>1
      <4> QED
        BY <4>2, <4>3 DEF DeployInv, TokensInv
    <3> QED
      BY <3>1
  <2>5. mined + 1 # 30 /\ mined + 1 # 33 /\ ~(mined + 1 > 33)
    <3>1. /\ mined + 1 = 30 => tx.call = "setRollupAddress"
          /\ mined + 1 = 33 => tx.call = "registerSpoke"
          /\ mined + 1 > 33 => tx.call = "register"
      BY <1>1, CallsAt
    <3> HIDE DEF tx
    <3> QED
      BY <2>2, <3>1
  <2> HIDE DEF tx
  <2> QED
    BY <2>2, <2>3, <2>4, <2>5
<1>3. /\ UNCHANGED <<names, references, rollupOfVault, registeredSpokes, registeredTokens,
                     pendingRegistrations, accounts>>
  BY DEF MineReverted, registryVars
<1>4. NamesInv' /\ WiresInv' /\ SpokesInv' /\ AccountsInv'
  BY <1>1, <1>2, <1>3, NamesStay, WiresStay, SpokesStay, AccountsStay DEF DeployInv
<1>5. TokensInv'
  <2>1. CASE mined + 1 # 20
    BY <1>1, <1>2, <1>3, <2>1, TokensStay DEF DeployInv
  <2>2. CASE mined + 1 = 20
    <3>1. ~(mined >= 20) /\ mined' >= 20 /\ (mined' >= 21 <=> mined >= 21)
      BY <1>1, <2>2 DEF MinesNext
    <3>2. outsiderCalls # 0
      BY <1>2, <2>2, <3>1 DEF DeployInv, TokensInv
    <3> QED
      BY <1>1, <1>2, <1>3, <2>2, <3>1, <3>2 DEF DeployInv, TokensInv, IdsInv
  <2> QED
    BY <2>1, <2>2
<1> QED
  BY <1>1, <1>4, <1>5 DEF DeployInv
-----------------------------------------------------------------------------
(* Steps that mine nothing.                                                *)
LEMMA NothingMined ==
    ASSUME QueueInv, UNCHANGED <<sent, pending>>, outsiderCalls' \in Nat
    PROVE  /\ QueueInv' /\ mined' = mined /\ keysMined' = keysMined
           /\ Deployed' = Deployed
<1>1. mined' = mined
  BY DEF mined
<1>2. keysMined' = keysMined
  BY <1>1 DEF keysMined
<1>3. Deployed' = Deployed
  BY DEF Deployed, Returned
<1>4. QueueInv'
  BY <1>1 DEF QueueInv
<1> QED
  BY <1>1, <1>2, <1>3, <1>4

LEMMA SendKeeps ==
    ASSUME DeployInv, Send
    PROVE  DeployInv'
<1>1. /\ QueueInv /\ ~Returned /\ sent' = sent + 1 /\ outsiderCalls' = outsiderCalls
      /\ pending' = Append(pending, Transactions[sent + 1])
      /\ UNCHANGED <<registeredSpokes, registeredTokens, pendingRegistrations, names,
                     references, rollupOfVault, accounts>>
  BY DEF DeployInv, Send, registryVars
<1>2. /\ mined \in Nat /\ Len(pending) \in Nat /\ sent \in Nat /\ outsiderCalls \in Nat
      /\ sent + 1 \in 1 .. Len(Transactions) /\ pending \in Seq(SentTx)
  <2>1. /\ mined \in Nat /\ Len(pending) \in Nat /\ sent \in Nat /\ outsiderCalls \in Nat
    BY <1>1, CountsAre
  <2>2. Len(Transactions) \in Nat
    BY Schedule
  <2> QED
    BY <1>1, <2>1, <2>2 DEF QueueInv, Returned
<1>3. Transactions[sent + 1] \in SentTx
  BY <1>2, Schedule, LenProperties
<1>4. /\ pending' \in Seq(SentTx) /\ Len(pending') = Len(pending) + 1
      /\ \A i \in 1 .. Len(pending) : pending'[i] = pending[i]
      /\ pending'[Len(pending) + 1] = Transactions[sent + 1]
  BY <1>1, <1>2, <1>3, AppendProperties
<1>5. mined' = mined /\ mined + (Len(pending) + 1) = sent + 1
  BY <1>1, <1>2, <1>4 DEF mined
<1>6. keysMined' = keysMined
  BY <1>5 DEF keysMined
<1>7. ASSUME NEW i \in 1 .. Len(pending') PROVE pending'[i] = Transactions[mined' + i]
  <2>1. i \in 1 .. Len(pending) \/ i = Len(pending) + 1
    BY <1>2, <1>4
  <2>2. CASE i \in 1 .. Len(pending)
    BY <1>1, <1>4, <1>5, <2>2 DEF QueueInv
  <2>3. CASE i = Len(pending) + 1
    BY <1>4, <1>5, <2>3
  <2> QED
    BY <2>1, <2>2, <2>3
<1>8. QueueInv'
  <2>1. sent' \in 0 .. Len(Transactions) /\ Len(pending') <= sent'
    BY <1>1, <1>2, <1>4 DEF QueueInv
  <2> QED
    BY <1>1, <1>2, <1>4, <1>7, <2>1 DEF QueueInv
<1>9. ~Deployed
  BY <1>1 DEF Deployed
<1>10. NamesInv' /\ WiresInv' /\ SpokesInv' /\ TokensInv' /\ AccountsInv'
  BY <1>1, <1>5, <1>6, <1>9
     DEF DeployInv, NamesInv, WiresInv, SpokesInv, TokensInv, IdsInv, AccountsInv
<1> QED
  BY <1>8, <1>10 DEF DeployInv

(* What a call of another leaves as it was, whichever it is.               *)
LEMMA AccountsOutlast ==
    ASSUME QueueInv, AccountsInv, UNCHANGED <<sent, pending>>,
           outsiderCalls' = outsiderCalls + 1,
           accounts' = accounts \/ accounts' = Append(accounts, OtherKey)
    PROVE  AccountsInv'
<1>1. /\ outsiderCalls \in Nat /\ outsiderCalls + 1 \in Nat /\ keysMined \in Nat
      /\ outsiderCalls + 1 >= outsiderCalls
  BY CountsAre
<1>2. keysMined' = keysMined /\ Deployed' = Deployed
  BY <1>1, NothingMined
<1>3. accounts \in Seq(Range(Pubkeys) \union {OtherKey}) /\ Len(accounts) \in Nat
  BY LenProperties DEF AccountsInv
<1>4. /\ accounts' \in Seq(Range(Pubkeys) \union {OtherKey})
      /\ Len(accounts') <= Len(accounts) + 1 /\ Len(accounts') \in Nat
  <2>1. CASE accounts' = accounts
    BY <1>3, <2>1
  <2>2. CASE accounts' = Append(accounts, OtherKey)
    <3>1. /\ Append(accounts, OtherKey) \in Seq(Range(Pubkeys) \union {OtherKey})
          /\ Len(Append(accounts, OtherKey)) = Len(accounts) + 1
      BY <1>3, AppendProperties
    <3> QED
      BY <1>3, <2>2, <3>1
  <2> QED
    BY <2>1, <2>2
<1>5. PICK placeOf : Placed(accounts, keysMined, placeOf, outsiderCalls)
  BY DEF AccountsInv
<1>6. Placed(accounts, keysMined, placeOf, outsiderCalls + 1)
  BY <1>1, <1>5, KeysStay
<1>7. Placed(accounts', keysMined, placeOf, outsiderCalls + 1)
  <2>1. Placed(Append(accounts, OtherKey), keysMined, placeOf, outsiderCalls + 1)
    BY <1>1, <1>3, <1>6, KeyByOther
  <2> QED
    BY <1>6, <2>1
<1>8. ~Deployed' => Len(accounts') <= keysMined' + outsiderCalls'
  BY <1>1, <1>2, <1>3, <1>4 DEF AccountsInv
<1> QED
  BY <1>2, <1>4, <1>7, <1>8 DEF AccountsInv

LEMMA ListOutlasts ==
    ASSUME NEW list, NEW after, NEW type, NEW what, NEW isMined,
           NEW calls \in Nat, IdsInv(list, type, what, isMined, calls),
           after = list \/ \E other \in type : after = Append(list, other)
    PROVE  IdsInv(after, type, what, isMined, calls + 1)
<1>1. CASE after = list
  <2>1. calls + 1 \in Nat /\ calls + 1 >= calls
    OBVIOUS
  <2> QED
    BY <1>1, <2>1, IdsStay
<1>2. CASE \E other \in type : after = Append(list, other)
  BY <1>2, IdsByOther
<1> QED
  BY <1>1, <1>2

LEMMA OutsiderKeeps ==
    ASSUME DeployInv, OutsiderCalls
    PROVE  DeployInv'
<1>1. /\ QueueInv /\ UNCHANGED <<sent, pending>> /\ outsiderCalls' = outsiderCalls + 1
      /\ outsiderCalls \in Nat /\ outsiderCalls' \in Nat /\ outsiderCalls' # 0
  <2>1. QueueInv
    BY DEF DeployInv
  <2>2. outsiderCalls \in Nat
    BY <2>1 DEF QueueInv
  <2> QED
    BY <2>1, <2>2 DEF OutsiderCalls
<1>2. QueueInv' /\ mined' = mined /\ keysMined' = keysMined /\ Deployed' = Deployed
  BY <1>1, NothingMined
<1>3. UNCHANGED <<names, references>>
  BY DEF OutsiderCalls, setRollupAddress, register, Register
<1>4. rollupOfVault' = rollupOfVault \/ rollupOfVault' = getContractDetails("rollup")
  BY DEF OutsiderCalls, setRollupAddress, register, Register
<1>5. /\ accounts' = accounts \/ accounts' = Append(accounts, OtherKey)
      /\ \/ registeredSpokes' = registeredSpokes
         \/ \E spoke \in Spokes : registeredSpokes' = Append(registeredSpokes, spoke)
      /\ \/ registeredTokens' = registeredTokens
         \/ \E token \in Tokens : registeredTokens' = Append(registeredTokens, token)
      /\ pendingRegistrations \subseteq pendingRegistrations'
  <2>1. CASE setRollupAddress
    BY <2>1 DEF setRollupAddress, registryVars
  <2>2. CASE register(OtherKey)
    BY <2>2 DEF register, registryVars
  <2>3. CASE \E spoke \in SpokeContracts : Register(RegisterSpoke(spoke))
    BY <2>3 DEF Register, RegisterSpoke, Spokes
  <2>4. CASE \E token \in TokenContracts :
                \/ Register(RequestRegistration(token))
                \/ Register(FinaliseRegistration(token))
    BY <2>4 DEF Register, RequestRegistration, FinaliseRegistration, Tokens
  <2> QED
    BY <2>1, <2>2, <2>3, <2>4 DEF OutsiderCalls
<1>6. NamesInv'
  BY <1>2, <1>3 DEF DeployInv, NamesInv
<1>7. WiresInv'
  <2>1. mined >= 30 => rollupOfVault' = "rollup"
    <3>1. mined >= 30 => mined >= 29
      BY <1>1, CountsAre
    <3> QED
      BY <1>1, <1>4, <3>1, RollupIsFound DEF DeployInv, WiresInv
  <2> QED
    BY <1>2, <1>3, <2>1 DEF DeployInv, WiresInv
<1>8. SpokesInv'
  <2>1. IdsInv(registeredSpokes', Spokes, "withdrawManager", mined >= 33, outsiderCalls + 1)
    BY <1>1, <1>5, ListOutlasts DEF DeployInv, SpokesInv
  <2> QED
    BY <1>1, <1>2, <2>1 DEF SpokesInv
<1>9. TokensInv'
  <2>1. IdsInv(registeredTokens', Tokens, "testToken", mined >= 21, outsiderCalls + 1)
    BY <1>1, <1>5, ListOutlasts DEF DeployInv, TokensInv
  <2>2. mined >= 20 => "testToken" \in pendingRegistrations'
    BY <1>5 DEF DeployInv, TokensInv
  <2> QED
    BY <1>1, <1>2, <2>1, <2>2 DEF TokensInv
<1>10. AccountsInv'
  BY <1>1, <1>5, AccountsOutlast DEF DeployInv
<1> QED
  BY <1>2, <1>6, <1>7, <1>8, <1>9, <1>10 DEF DeployInv

(* The committer registers keys and calls nothing else of a deployment.    *)
LEMMA CommittingKeeps ==
    ASSUME DeployInv, Committing
    PROVE  DeployInv'
<1>1. /\ QueueInv /\ UNCHANGED <<sent, pending, outsiderCalls, names, references,
                                 rollupOfVault, registeredSpokes, registeredTokens,
                                 pendingRegistrations>>
      /\ accounts' = accounts \/ accounts' = Append(accounts, OtherKey)
      /\ Deployed
  BY DEF DeployInv, Committing, registryVars
<1>2. outsiderCalls \in Nat /\ keysMined \in Nat
  BY <1>1, CountsAre
<1>3. QueueInv' /\ mined' = mined /\ keysMined' = keysMined /\ Deployed' = Deployed
  BY <1>1, <1>2, NothingMined
<1>4. NamesInv' /\ WiresInv' /\ SpokesInv' /\ TokensInv'
  BY <1>1, <1>3 DEF DeployInv, NamesInv, WiresInv, SpokesInv, TokensInv, IdsInv
<1>5. AccountsInv'
  <2>1. PICK placeOf : Placed(accounts, keysMined, placeOf, outsiderCalls)
    BY DEF DeployInv, AccountsInv
  <2>2. accounts \in Seq(Range(Pubkeys) \union {OtherKey})
    BY DEF DeployInv, AccountsInv
  <2>3. Placed(Append(accounts, OtherKey), keysMined, placeOf, outsiderCalls)
    BY <1>2, <2>1, <2>2, KeyByOther
  <2>4. Append(accounts, OtherKey) \in Seq(Range(Pubkeys) \union {OtherKey})
    BY <2>2, AppendProperties
  <2>5. /\ accounts' \in Seq(Range(Pubkeys) \union {OtherKey})
        /\ Placed(accounts', keysMined, placeOf, outsiderCalls)
    BY <1>1, <2>1, <2>2, <2>3, <2>4
  <2> QED
    BY <1>1, <1>3, <2>5 DEF AccountsInv
<1> QED
  BY <1>3, <1>4, <1>5 DEF DeployInv

LEMMA DeployStutterKeeps ==
    ASSUME DeployInv, UNCHANGED deployVars
    PROVE  DeployInv'
<1>1. UNCHANGED <<sent, pending, outsiderCalls, names, references, rollupOfVault,
                  registeredSpokes, registeredTokens, pendingRegistrations, accounts>>
  BY DEF deployVars, registryVars
<1>2. QueueInv /\ outsiderCalls \in Nat
  BY DEF DeployInv, QueueInv
<1>3. QueueInv' /\ mined' = mined /\ keysMined' = keysMined /\ Deployed' = Deployed
  BY <1>1, <1>2, NothingMined
<1> QED
  BY <1>1, <1>3
     DEF DeployInv, NamesInv, WiresInv, SpokesInv, TokensInv, IdsInv, AccountsInv

LEMMA DeployNextKeeps ==
    ASSUME DeployInv, DeployNext
    PROVE  DeployInv'
<1>1. CASE Send
  BY <1>1, SendKeeps
<1>2. CASE MineDeploy
  BY <1>2, MineDeployKeeps
<1>3. CASE MineRegisterName
  BY <1>3, MineRegisterNameKeeps
<1>4. CASE MineCall
  BY <1>4, MineRequestKeeps, MineFinaliseKeeps, MineSpokeKeeps, MineSetRollupKeeps,
     MineKeyKeeps DEF MineCall
<1>5. CASE MineReverted
  BY <1>5, MineRevertedKeeps
<1>6. CASE OutsiderCalls
  BY <1>6, OutsiderKeeps
<1> QED
  BY <1>1, <1>2, <1>3, <1>4, <1>5, <1>6 DEF DeployNext, Mine
-----------------------------------------------------------------------------
(* What the invariant says of a deployment that is over.                   *)
LEMMA AllIsMined ==
    ASSUME DeployInv, Deployed
    PROVE  /\ mined >= 33 /\ mined >= 30 /\ mined >= 21 /\ mined >= 20
           /\ keysMined = Len(Pubkeys) /\ outsiderCalls \in Nat
<1>1. sent = 33 + Len(Pubkeys) /\ Len(Pubkeys) \in Nat /\ pending = <<>>
  BY Schedule DEF Deployed, Returned
<1>2. Len(pending) = 0
  BY <1>1
<1>3. mined = 33 + Len(Pubkeys)
  BY <1>1, <1>2 DEF mined
<1> QED
  BY <1>1, <1>3 DEF keysMined, DeployInv, QueueInv

LEMMA WiredByInv == DeployInv => WiredAtReturn
<1> SUFFICES ASSUME DeployInv PROVE WiredAtReturn
  OBVIOUS
<1>1. Deployed => mined >= 30
  BY AllIsMined
<1> QED
  BY <1>1 DEF DeployInv, WiresInv, WiredAtReturn

LEMMA IdsByInv == DeployInv => IdsAsAssumed
<1> SUFFICES ASSUME DeployInv, Deployed PROVE IdsAsAssumed
  BY DEF IdsAsAssumed
<1>1. /\ mined >= 33 /\ mined >= 21 /\ mined >= 20
      /\ keysMined = Len(Pubkeys) /\ outsiderCalls \in Nat
  BY AllIsMined
<1>2. outsiderCalls = 0 => RegistryInit("testToken", "withdrawManager")
  BY <1>1 DEF DeployInv, SpokesInv, TokensInv, IdsInv, RegistryInit
<1>3. \E i \in DOMAIN registeredSpokes :
         registeredSpokes[i] = "withdrawManager" /\ i \in 1 .. 1 + outsiderCalls
  <2>1. registeredSpokes \in Seq(Spokes)
    BY DEF DeployInv, SpokesInv, IdsInv
  <2>2. PICK i \in 1 .. Len(registeredSpokes) :
           registeredSpokes[i] = "withdrawManager" /\ i <= 1 + outsiderCalls
    BY <1>1 DEF DeployInv, SpokesInv, IdsInv
  <2>3. i \in DOMAIN registeredSpokes /\ i \in 1 .. 1 + outsiderCalls
    BY <1>1, <2>1, <2>2, LenProperties
  <2> QED
    BY <2>2, <2>3
<1>4. \E i \in DOMAIN registeredTokens :
         registeredTokens[i] = "testToken" /\ i \in 1 .. 1 + outsiderCalls
  <2>1. registeredTokens \in Seq(Tokens)
    BY DEF DeployInv, TokensInv, IdsInv
  <2>2. PICK i \in 1 .. Len(registeredTokens) :
           registeredTokens[i] = "testToken" /\ i <= 1 + outsiderCalls
    BY <1>1 DEF DeployInv, TokensInv, IdsInv
  <2>3. i \in DOMAIN registeredTokens /\ i \in 1 .. 1 + outsiderCalls
    BY <1>1, <2>1, <2>2, LenProperties
  <2> QED
    BY <2>2, <2>3
<1>5. \E placeOf \in [DOMAIN Pubkeys -> DOMAIN accounts] :
         /\ \A k \in DOMAIN Pubkeys : /\ accounts[placeOf[k]] = Pubkeys[k]
                                      /\ placeOf[k] \in k .. k + outsiderCalls
         /\ \A j, k \in DOMAIN Pubkeys : j < k => placeOf[j] < placeOf[k]
         /\ \A i \in DOMAIN accounts \ Range(placeOf) : accounts[i] = OtherKey
  <2>1. DOMAIN Pubkeys = 1 .. Len(Pubkeys)
    BY KeysAssumption, LenProperties
  <2>2. DOMAIN accounts = 1 .. Len(accounts)
    BY LenProperties DEF DeployInv, AccountsInv
  <2>3. PICK placeOf : Placed(accounts, Len(Pubkeys), placeOf, outsiderCalls)
    BY <1>1 DEF DeployInv, AccountsInv
  <2>4. placeOf \in [DOMAIN Pubkeys -> DOMAIN accounts]
    BY <2>1, <2>2, <2>3 DEF Placed
  <2>5. \A i \in DOMAIN accounts \ Range(placeOf) : accounts[i] = OtherKey
    <3>1. ASSUME NEW i \in DOMAIN accounts \ Range(placeOf) PROVE accounts[i] = OtherKey
      <4>1. \A k \in 1 .. Len(Pubkeys) : placeOf[k] # i
        BY <2>1, <2>4, <3>1 DEF Range
      <4> QED
        BY <2>2, <2>3, <3>1, <4>1 DEF Placed
    <3> QED
      BY <3>1
  <2> QED
    BY <2>1, <2>3, <2>4, <2>5 DEF Placed
<1> QED
  BY <1>2, <1>3, <1>4, <1>5 DEF IdsAsAssumed
-----------------------------------------------------------------------------
(* How many of the script's transactions are mined tells what is           *)
(* registered, but for what others have registered, in every state of a    *)
(* deployment and of the committer after it: deployAll() of ts/deploy.ts.  *)
THEOREM DeploymentInvariant == CommitterSpec => []DeployInv
<1>1. CommitterInit => DeployInv
  BY DeployStarts DEF CommitterInit
<1>2. DeployInv /\ [CommitterNext]_committerVars => DeployInv'
  <2> SUFFICES ASSUME DeployInv, [CommitterNext]_committerVars PROVE DeployInv'
    OBVIOUS
  <2>1. CASE Deploying
    BY <2>1, DeployNextKeeps DEF Deploying
  <2>2. CASE Committing
    BY <2>2, CommittingKeeps
  <2>3. CASE UNCHANGED committerVars
    BY <2>3, DeployStutterKeeps DEF committerVars
  <2> QED
    BY <2>1, <2>2, <2>3 DEF CommitterNext
<1> QED
  BY <1>1, <1>2, PTL DEF CommitterSpec

(* A constructor never keeps the zero address, or another contract, for a  *)
(* name that it looks up, and the vault ends up with the rollup, whenever  *)
(* others call setRollupAddress(): constructors of contracts/Rollup.sol,   *)
(* DepositManager.sol, Vault.sol, and the order of ts/deploy.ts.           *)
THEOREM WiredAlways == CommitterSpec => []WiredAtReturn
BY DeploymentInvariant, WiredByInv, PTL

(* The token, the spoke and the keys have the ids that the genesis states  *)
(* name, moved up by no more than others have registered, and the keys in  *)
(* their order: ts/deploy.ts, scripts/deploy.ts.                           *)
THEOREM IdsAlwaysAsAssumed == CommitterSpec => []IdsAsAssumed
BY DeploymentInvariant, IdsByInv, PTL
-----------------------------------------------------------------------------
(* The lemmas about trees, for the state tree of the genesis.              *)
Trees == INSTANCE TreeProofs WITH Zero <- ZERO_BYTES32

LEMMA SameTrees ==
    /\ Trees!TwoTo = TwoTo
    /\ \A d : StateTree!New(d) = Trees!New(d)
    /\ \A t, offset, data : StateTree!updateBatch(t, offset, data) = Trees!updateBatch(t, offset, data)
    /\ \A t, index, d : StateTree!witness(t, index, d) = Trees!witness(t, index, d)
    /\ \A top, leaf, path, beside :
          OnChain!verify(top, leaf, path, beside) <=> Trees!verify(top, leaf, path, beside)
<1>1. Trees!TwoTo = TwoTo /\ StateTree!TwoTo = TwoTo
  BY DEF Trees!TwoTo, StateTree!TwoTo, TwoTo
<1>2. \A d : StateTree!New(d) = Trees!New(d)
  BY DEF StateTree!New, Trees!New, StateTree!zeros, Trees!zeros, StateTree!hash2, Trees!hash2
<1>3. \A t, offset, len : StateTree!ascend(t, offset, len) = Trees!ascend(t, offset, len)
  BY DEF StateTree!ascend, Trees!ascend, StateTree!updateCouples, Trees!updateCouples,
      StateTree!hash2, Trees!hash2, StateTree!Put, Trees!Put, StateTree!Widened, Trees!Widened,
      StateTree!getNode, Trees!getNode
<1>4. \A t, offset, data : StateTree!updateBatch(t, offset, data) = Trees!updateBatch(t, offset, data)
  BY <1>1, <1>3 DEF StateTree!updateBatch, Trees!updateBatch, StateTree!Put, Trees!Put
<1>5. \A t, index, d : StateTree!witness(t, index, d) = Trees!witness(t, index, d)
  BY DEF StateTree!witness, Trees!witness, StateTree!Sibling, Trees!Sibling, StateTree!getNode,
      Trees!getNode, StateTree!Shifted, Trees!Shifted
<1>6. \A top, leaf, path, beside :
          OnChain!verify(top, leaf, path, beside) <=> Trees!verify(top, leaf, path, beside)
  BY DEF OnChain!verify, Trees!verify, OnChain!computeRoot, Trees!computeRoot,
      OnChain!Hash, Trees!Hash, OnChain!IsSet, Trees!IsSet, OnChain!Shifted, Trees!Shifted
<1> QED
  BY <1>1, <1>2, <1>4, <1>5, <1>6

(* The rows of merklise() of ts/utils.ts, which it writes over each other. *)
RowOf(u, leaves, defaults, i) ==
    IF i = 0 THEN leaves
    ELSE IF i > 1 /\ Len(u[i - 1]) = 1 THEN u[i - 1]
    ELSE Util!Halved(u[i - 1], i - 1, defaults)
RowsOf(u, leaves, defaults, n) == u = [i \in 0 .. n |-> RowOf(u, leaves, defaults, i)]

LEMMA UtilRows ==
    ASSUME NEW d \in Nat, NEW leaves
    PROVE  \E u, defaults : /\ \A i \in 0 .. d : u[i] = RowOf(u, leaves, defaults, i)
                            /\ Util!merklise(leaves, d) = u[d][1]
<1> DEFINE defaults == Util!defaultHashes(d)
           T == {m \in 0 .. d : \E u : RowsOf(u, leaves, defaults, m)}
<1> HIDE DEF defaults
<1>1. 0 \in T
  <2> DEFINE u == [i \in 0 .. 0 |-> leaves]
  <2>1. u = [i \in 0 .. 0 |-> RowOf(u, leaves, defaults, i)]
    BY DEF RowOf
  <2> HIDE DEF u
  <2> QED
    BY <2>1 DEF RowsOf
<1>2. ASSUME NEW k \in 1 .. d, k - 1 \in T PROVE k \in T
  <2>1. PICK u : u = [i \in 0 .. k - 1 |-> RowOf(u, leaves, defaults, i)]
    BY <1>2 DEF RowsOf
  <2> DEFINE v == [i \in 0 .. k |-> IF i < k THEN u[i] ELSE RowOf(u, leaves, defaults, k)]
  <2>2. \A i \in 0 .. k : v[i] = RowOf(v, leaves, defaults, i)
    <3>1. \A i \in 0 .. k - 1 : u[i] = RowOf(u, leaves, defaults, i)
      BY <2>1
    <3>2. \A i \in 0 .. k - 1 : v[i] = u[i]
      OBVIOUS
    <3>3. v[k] = RowOf(u, leaves, defaults, k)
      OBVIOUS
    <3> HIDE DEF v
    <3>4. \A i \in 0 .. k : RowOf(v, leaves, defaults, i) = RowOf(u, leaves, defaults, i)
      <4>1. \A i \in 0 .. k : i = 0 \/ v[i - 1] = u[i - 1]
        BY <3>2
      <4> QED
        BY <4>1 DEF RowOf
    <3> QED
      BY <3>1, <3>2, <3>3, <3>4
  <2>3. v = [i \in 0 .. k |-> RowOf(v, leaves, defaults, i)]
    BY <2>2
  <2> HIDE DEF v
  <2> QED
    BY <2>3 DEF RowsOf
<1>3. d \in T
  <2> HIDE DEF T
  <2> QED
    BY <1>1, <1>2, LoopInduction
<1> DEFINE after == CHOOSE u : RowsOf(u, leaves, defaults, d)
<1>4. Util!merklise(leaves, d) = after[d][1]
  BY DEF Util!merklise, RowsOf, RowOf, defaults
<1>5. RowsOf(after, leaves, defaults, d)
  BY <1>3
<1> HIDE DEF after
<1>6. \A i \in 0 .. d : after[i] = RowOf(after, leaves, defaults, i)
  BY <1>5 DEF RowsOf
<1> QED
  BY <1>4, <1>6

(* A full row of that merklise() is a level of the tree with its leaves.   *)
RowServes(t, d, row, k) ==
    /\ Len(row) = TwoTo[d - k]
    /\ \A x \in Nat : x < TwoTo[d - k] => Trees!getNode(t, d - k, x) = row[x + 1]

LEMMA HalvedServes ==
    ASSUME NEW d \in Nat, NEW t, Trees!AllHashed(d, t), NEW k \in 1 .. d, NEW row,
           RowServes(t, d, row, k - 1), NEW defaults
    PROVE  Len(row) # 1 /\ RowServes(t, d, Util!Halved(row, k - 1, defaults), k)
<1>1. PICK h \in Nat : h = d - k /\ d - (k - 1) = h + 1 /\ h + 1 \in 1 .. d
  OBVIOUS
<1>2. PICK m \in Nat : m = TwoTo[h] /\ m >= 1 /\ TwoTo[h + 1] = 2 * m
  BY TwoToIs
<1>3. /\ Len(row) = 2 * m
      /\ \A x \in Nat : x < 2 * m => Trees!getNode(t, h + 1, x) = row[x + 1]
  BY <1>1, <1>2 DEF RowServes
<1> DEFINE next == [i \in 1 .. m |-> <<row[2 * i - 1], row[2 * i]>>]
<1>4. Util!Halved(row, k - 1, defaults) = next
  <2>1. (2 * m) % 2 = 0 /\ (2 * m + 1) \div 2 = m
    OBVIOUS
  <2> QED
    BY <1>3, <2>1 DEF Util!Halved, Util!getParentLeaf
<1>5. Len(next) = m
  OBVIOUS
<1>6. ASSUME NEW x \in Nat, x < m PROVE Trees!getNode(t, h, x) = next[x + 1]
  <2>1. x + 1 \in 1 .. m /\ 2 * (x + 1) - 1 = 2 * x + 1 /\ 2 * (x + 1) = 2 * x + 1 + 1
        /\ 2 * x \in Nat /\ 2 * x + 1 \in Nat /\ 2 * x < 2 * m /\ 2 * x + 1 < 2 * m
        /\ h + 1 - 1 = h
    BY <1>6
  <2>2. next[x + 1] = <<row[2 * x + 1], row[2 * x + 1 + 1]>>
    BY <2>1
  <2> HIDE DEF next
  <2>3. Trees!getNode(t, h, x)
           = <<Trees!getNode(t, h + 1, 2 * x), Trees!getNode(t, h + 1, 2 * x + 1)>>
    BY <1>1, <2>1 DEF Trees!AllHashed, Trees!Hashed
  <2> QED
    BY <1>3, <2>1, <2>2, <2>3
<1> HIDE DEF next
<1> QED
  BY <1>1, <1>2, <1>3, <1>4, <1>5, <1>6 DEF RowServes

LEMMA UtilAgrees ==
    ASSUME NEW d \in Nat \ {0}, NEW t, Trees!AllHashed(d, t), NEW leaves, RowServes(t, d, leaves, 0)
    PROVE  Util!merklise(leaves, d) = Trees!root(t)
<1>1. PICK u, defaults : /\ \A i \in 0 .. d : u[i] = RowOf(u, leaves, defaults, i)
                         /\ Util!merklise(leaves, d) = u[d][1]
  BY UtilRows
<1> DEFINE T == {k \in 0 .. d : RowServes(t, d, u[k], k)}
<1>2. 0 \in T
  BY <1>1 DEF RowOf
<1>3. ASSUME NEW k \in 1 .. d, k - 1 \in T PROVE k \in T
  <2>1. Len(u[k - 1]) # 1 /\ RowServes(t, d, Util!Halved(u[k - 1], k - 1, defaults), k)
    BY <1>3, HalvedServes
  <2>2. u[k] = Util!Halved(u[k - 1], k - 1, defaults)
    BY <1>1, <2>1 DEF RowOf
  <2> QED
    BY <2>1, <2>2
<1>4. 0 .. d \subseteq T
  <2> HIDE DEF T
  <2> QED
    BY <1>2, <1>3, LoopInduction
<1>5. RowServes(t, d, u[d], d)
  BY <1>4
<1>6. d - d = 0 /\ TwoTo[0] = 1 /\ 0 \in Nat /\ 0 < 1 /\ 0 + 1 = 1
  BY TwoToIs
<1>7. Trees!getNode(t, 0, 0) = u[d][1]
  BY <1>5, <1>6 DEF RowServes
<1> QED
  BY <1>1, <1>7 DEF Trees!root

(* What deployAll() makes as the genesis root is served by the state tree. *)
LEMMA GenesisOpens ==
    ASSUME NEW i \in 0 .. TwoTo[MAX_DEPTH] - 1
    PROVE  OnChain!verify(getMerkleRootWithCoordinatorAccount,
               IF i < 2 THEN State(i) ELSE ZERO_BYTES32, i,
               StateTree!witness(StateTree!updateBatch(StateTree!New(MAX_DEPTH), 0,
                                                       <<State(0), State(1)>>),
                                 i, MAX_DEPTH))
<1>1. PICK d \in Nat \ {0} : d = MAX_DEPTH
  BY DeploymentAssumption
<1>2. TwoTo[d] \in Nat /\ TwoTo[d] >= 2
  <2>1. PICK k \in Nat : d = k + 1
    <3>1. d - 1 \in Nat /\ d = d - 1 + 1
      OBVIOUS
    <3> QED
      BY <3>1
  <2>2. TwoTo[k] \in Nat /\ TwoTo[k] >= 1 /\ TwoTo[k + 1] = 2 * TwoTo[k]
    BY TwoToIs
  <2> QED
    BY <2>1, <2>2
<1>3. PICK data : data = <<State(0), State(1)>>
  OBVIOUS
<1>4. PICK n \in Nat : n = 2 /\ n >= 1 /\ Len(data) = n /\ data[1] = State(0) /\ data[2] = State(1)
  BY <1>3
<1> DEFINE s == Trees!New(d)
           t == Trees!updateBatch(s, 0, data)
<1>5. Trees!AllHashed(d, s) /\ \A x \in Nat : Trees!getNode(s, d, x) = ZERO_BYTES32
  BY Trees!NewIsHashed
<1> HIDE DEF s
<1>6. /\ Trees!AllHashed(d, t)
      /\ \A x \in Nat : Trees!getNode(t, d, x) =
             IF 0 <= x /\ x < 0 + n THEN data[x - 0 + 1] ELSE Trees!getNode(s, d, x)
  <2>1. 0 \in Nat /\ d \in Nat /\ 0 + n <= Trees!TwoTo[d]
    BY <1>2, <1>4, SameTrees
  <2>2. n >= 1 /\ Len(data) = n
    BY <1>4
  <2> QED
    BY ONLY <1>5, <2>1, <2>2, n \in Nat, Trees!updateBatchIs
<1> HIDE DEF t
<1>7. ASSUME NEW x \in Nat
      PROVE  Trees!getNode(t, d, x) = IF x < 2 THEN State(x) ELSE ZERO_BYTES32
  <2>1. x < 2 => (x = 0 /\ x - 0 + 1 = 1) \/ (x = 1 /\ x - 0 + 1 = 2)
    OBVIOUS
  <2>2. 0 <= x /\ x < 0 + n <=> x < 2
    BY <1>4
  <2> QED
    BY <1>4, <1>5, <1>6, <2>1, <2>2
<1> DEFINE leaves == [j \in 1 .. TwoTo[d] |-> IF j <= 2 THEN State(j - 1) ELSE ZERO_BYTES32]
<1>8. RowServes(t, d, leaves, 0)
  <2>1. PICK m \in Nat : m = TwoTo[d] /\ d - 0 = d
    BY <1>2
  <2>2. Len(leaves) = m
    BY <2>1
  <2>3. ASSUME NEW x \in Nat, x < m PROVE leaves[x + 1] = Trees!getNode(t, d, x)
    <3>1. x + 1 \in 1 .. m /\ (x + 1 <= 2 <=> x < 2) /\ x + 1 - 1 = x
      BY <2>3
    <3> QED
      BY <1>7, <2>1, <3>1
  <2> HIDE DEF leaves
  <2> QED
    BY <2>1, <2>2, <2>3 DEF RowServes
<1>9. getMerkleRootWithCoordinatorAccount = Trees!root(t)
  <2>1. getMerkleRootWithCoordinatorAccount = Util!merklise(leaves, d)
    BY <1>1 DEF getMerkleRootWithCoordinatorAccount
  <2> HIDE DEF leaves
  <2> QED
    BY <1>6, <1>8, <2>1, UtilAgrees
<1>10. Trees!verify(Trees!root(t), IF i < 2 THEN State(i) ELSE ZERO_BYTES32, i,
                    Trees!witness(t, i, d))
  <2>1. i \in Nat /\ i < Trees!TwoTo[d] /\ d \in Nat /\ d \in 1 .. d
    BY <1>1, <1>2, SameTrees
  <2>2. Trees!verify(Trees!root(t), Trees!getNode(t, d, i), i, Trees!witness(t, i, d))
    BY ONLY <1>6, <2>1, Trees!WitnessesAreTaken
  <2> QED
    BY <1>7, <2>1, <2>2
<1> QED
  BY <1>1, <1>3, <1>9, <1>10, SameTrees DEF s, t

(* The root that the rollup was deployed with.                             *)
GenesisInv ==
    IsDeployed("rollup") /\ genesisRoot \notin GivenRoots =>
        genesisRoot = getMerkleRootWithCoordinatorAccount

LEMMA GenesisKeeps ==
    ASSUME GenesisInv, [CommitterNext]_committerVars
    PROVE  GenesisInv'
<1>1. CASE UNCHANGED <<references, genesisRoot>>
  BY <1>1 DEF GenesisInv, IsDeployed
<1>2. CASE MineDeploy
  <2>1. /\ DOMAIN references' = DOMAIN references \union {Argument}
        /\ genesisRoot' \in IF Argument = "rollup"
                            THEN {getMerkleRootWithCoordinatorAccount} \union GivenRoots
                            ELSE {genesisRoot}
    BY <1>2 DEF MineDeploy, Entered
  <2> QED
    BY <2>1 DEF GenesisInv, IsDeployed
<1>3. [CommitterNext]_committerVars => UNCHANGED <<references, genesisRoot>> \/ MineDeploy
  BY DEF CommitterNext, Deploying, Committing, DeployNext, Send, Mine, MineRegisterName, MineCall,
     MineReverted, Register, setRollupAddress, register, OutsiderCalls, committerVars, deployVars
<1> QED
  BY <1>1, <1>2, <1>3

(* The genesis root that deployAll() of ts/deploy.ts makes with the        *)
(* client's merklise() is that of the state tree with its two states, and  *)
(* the proofs of every place open at it.                                   *)
THEOREM GenesisAlwaysServed == CommitterSpec => []GenesisIsServed
<1>1. CommitterInit => GenesisInv
  BY DEF CommitterInit, DeployInit, GenesisInv, IsDeployed
<1>2. GenesisInv /\ [CommitterNext]_committerVars => GenesisInv'
  BY GenesisKeeps
<1>3. GenesisInv => GenesisIsServed
  BY GenesisOpens DEF GenesisInv, GenesisIsServed
<1> QED
  BY <1>1, <1>2, <1>3, PTL DEF CommitterSpec
-----------------------------------------------------------------------------
(* The same lemmas, for the trees of the commitments of a batch.           *)
Commits == INSTANCE TreeProofs WITH ZERO_BYTES32 <- Zero

LEMMA SameCommitTrees ==
    /\ \A nodes : Contract!merklise(nodes) = Commits!merklise(nodes)
    /\ \A leaves : Client!merklize(leaves) = Commits!merklize(leaves)
    /\ \A t, index, d : Client!witness(t, index, d) = Commits!witness(t, index, d)
    /\ \A top, leaf, path, beside :
          Contract!verify(top, leaf, path, beside) <=> Commits!verify(top, leaf, path, beside)
<1>1. Commits!TwoTo = TwoTo /\ Client!TwoTo = TwoTo
  BY DEF Commits!TwoTo, Client!TwoTo, TwoTo
<1>2. \A d : Client!New(d) = Commits!New(d)
  BY DEF Client!New, Commits!New, Client!zeros, Commits!zeros, Client!hash2, Commits!hash2
<1>3. \A t, offset, len : Client!ascend(t, offset, len) = Commits!ascend(t, offset, len)
  BY DEF Client!ascend, Commits!ascend, Client!updateCouples, Commits!updateCouples,
      Client!hash2, Commits!hash2, Client!Put, Commits!Put, Client!Widened, Commits!Widened,
      Client!getNode, Commits!getNode
<1>4. \A t, offset, data : Client!updateBatch(t, offset, data) = Commits!updateBatch(t, offset, data)
  BY <1>1, <1>3 DEF Client!updateBatch, Commits!updateBatch, Client!Put, Commits!Put
<1>5. \A leaves : Client!merklize(leaves) = Commits!merklize(leaves)
  BY <1>1, <1>2, <1>4 DEF Client!merklize, Commits!merklize
<1>6. \A t, index, d : Client!witness(t, index, d) = Commits!witness(t, index, d)
  BY DEF Client!witness, Commits!witness, Client!Sibling, Commits!Sibling, Client!getNode,
      Commits!getNode, Client!Shifted, Commits!Shifted
<1>7. \A nodes : Contract!merklise(nodes) = Commits!merklise(nodes)
  <2>1. \A level : Contract!getRoot(level) = Commits!getRoot(level)
    BY DEF Contract!getRoot, Commits!getRoot, Contract!Hash, Commits!Hash
  <2>2. \A nodes, level : Contract!Round(nodes, level) = Commits!Round(nodes, level)
    BY <2>1 DEF Contract!Round, Commits!Round, Contract!Hash, Commits!Hash
  <2> QED
    BY <2>2 DEF Contract!merklise, Commits!merklise
<1>8. \A top, leaf, path, beside :
          Contract!verify(top, leaf, path, beside) <=> Commits!verify(top, leaf, path, beside)
  BY DEF Contract!verify, Commits!verify, Contract!computeRoot, Commits!computeRoot,
      Contract!Hash, Commits!Hash, Contract!IsSet, Commits!IsSet, Contract!Shifted, Commits!Shifted
<1> QED
  BY <1>5, <1>6, <1>7, <1>8

(* The drafts are of one kind, and a batch is rooted in the leaves that    *)
(* its drafts have under the account root of the batch.                    *)
IsList(list) == \E S : list \in Seq(S)
OneKind(list) == \A i, j \in DOMAIN list : list[i].commitment.kind = list[j].commitment.kind

BodyUnder(accountRoot, c) ==
    IF c.kind = "Transfer"
    THEN <<accountRoot, c.signature, c.feeReceiver, c.txs>>
    ELSE <<accountRoot, c.signature, c.targetSpokeID, c.withdrawRoot, c.tokenID,
           c.amount, c.feeReceiver, c.txs>>
LeafUnder(accountRoot, c) == <<c.stateRoot, BodyUnder(accountRoot, c)>>
LeavesUnder(accountRoot, list) ==
    [i \in DOMAIN list |-> LeafUnder(accountRoot, list[i].commitment)]

IsRooted(batch) ==
    /\ IsList(batch.drafts) /\ Len(batch.drafts) \in 1 .. 32
    /\ batch.commitmentRoot = Contract!merklise(LeavesUnder(batch.accountRoot, batch.drafts))

DraftsInv == IsList(drafts) /\ OneKind(drafts)
BatchesInv == IsList(batches) /\ \A b \in DOMAIN batches : IsRooted(batches[b])
SubmittedInv == DraftsInv /\ BatchesInv

LEMMA OneMoreOf ==
    ASSUME NEW list, IsList(list), NEW e
    PROVE  /\ IsList(Append(list, e)) /\ DOMAIN Append(list, e) = 1 .. Len(list) + 1
           /\ \A i \in DOMAIN list : i \in 1 .. Len(list) /\ Append(list, e)[i] = list[i]
           /\ \A i \in 1 .. Len(list) + 1 : i \in DOMAIN list \/ i = Len(list) + 1
           /\ Append(list, e)[Len(list) + 1] = e
<1>1. PICK S : list \in Seq(S)
  BY DEF IsList
<1>2. PICK R : R = S \union {e}
  OBVIOUS
<1>3. list \in Seq(R) /\ e \in R
  BY <1>1, <1>2
<1>4. Append(list, e) \in Seq(R)
  BY <1>3
<1>5. DOMAIN list = 1 .. Len(list) /\ Len(list) \in Nat
  BY <1>3
<1>6. /\ DOMAIN Append(list, e) = 1 .. Len(list) + 1
      /\ \A i \in 1 .. Len(list) : Append(list, e)[i] = list[i]
      /\ Append(list, e)[Len(list) + 1] = e
  BY <1>3, <1>4
<1> QED
  BY <1>4, <1>5, <1>6 DEF IsList

LEMMA NoneOf == IsList(<<>>) /\ OneKind(<<>>) /\ DOMAIN <<>> = {}
<1>1. <<>> \in Seq({}) /\ DOMAIN <<>> = {}
  OBVIOUS
<1> QED
  BY <1>1 DEF IsList, OneKind

LEMMA SomeOf ==
    ASSUME NEW list, IsList(list), list # <<>>, Len(list) <= 32
    PROVE  Len(list) \in 1 .. 32
<1>1. PICK S : list \in Seq(S)
  BY DEF IsList
<1>2. PICK n : n = Len(list)
  OBVIOUS
<1>3. n \in Nat /\ n # 0 /\ n <= 32
  BY <1>1, <1>2, EmptySeq
<1>4. n >= 1
  BY <1>3
<1>5. n \in 1 .. 32
  BY <1>3, <1>4
<1> QED
  BY <1>2, <1>5

(* What the contract makes of the arrays of a batch are those leaves.      *)
LEMMA SubmitRoots ==
    ASSUME DraftsInv, drafts # <<>>
    PROVE  (IF Head(drafts).commitment.kind = "Transfer"
            THEN SubmitTransferBatch ELSE SubmitMassMigrationBatch)
             = Contract!merklise(LeavesUnder(keys, drafts))
<1>1. Head(drafts) = drafts[1] /\ 1 \in DOMAIN drafts
  <2>1. PICK S : drafts \in Seq(S)
    BY DEF DraftsInv, IsList
  <2> QED
    BY <2>1
<1> DEFINE kind == Head(drafts).commitment.kind
<1>2. \A i \in DOMAIN drafts : drafts[i].commitment.kind = kind
  BY <1>1 DEF DraftsInv, OneKind
<1> HIDE DEF kind
<1>3. CASE kind = "Transfer"
  <2>1. SubmitTransferBatch
          = Contract!merklise([i \in DOMAIN drafts |->
                <<drafts[i].commitment.stateRoot,
                  <<keys, drafts[i].commitment.signature, drafts[i].commitment.feeReceiver,
                    drafts[i].commitment.txs>>>>])
    BY DEF SubmitTransferBatch, submitTransfer, Each, toHash
  <2>2. \A i \in DOMAIN drafts : BodyUnder(keys, drafts[i].commitment)
            = <<keys, drafts[i].commitment.signature, drafts[i].commitment.feeReceiver,
                drafts[i].commitment.txs>>
    BY <1>2, <1>3 DEF BodyUnder
  <2>3. LeavesUnder(keys, drafts)
          = [i \in DOMAIN drafts |->
                <<drafts[i].commitment.stateRoot,
                  <<keys, drafts[i].commitment.signature, drafts[i].commitment.feeReceiver,
                    drafts[i].commitment.txs>>>>]
    BY <2>2 DEF LeavesUnder, LeafUnder
  <2> QED
    BY <1>3, <2>1, <2>3 DEF kind
<1>4. CASE kind # "Transfer"
  <2> DEFINE leaf(c) == <<c.stateRoot, <<keys, c.signature, c.targetSpokeID, c.withdrawRoot,
                                         c.tokenID, c.amount, c.feeReceiver, c.txs>>>>
  <2>1. SubmitMassMigrationBatch
          = Contract!merklise([i \in DOMAIN drafts |-> leaf(drafts[i].commitment)])
    BY DEF SubmitMassMigrationBatch, submitMassMigration, Each, toHash, toHashMassMigration
  <2>2. \A i \in DOMAIN drafts :
            LeafUnder(keys, drafts[i].commitment) = leaf(drafts[i].commitment)
    BY <1>2, <1>4 DEF LeafUnder, BodyUnder
  <2> HIDE DEF leaf
  <2>3. LeavesUnder(keys, drafts) = [i \in DOMAIN drafts |-> leaf(drafts[i].commitment)]
    BY <2>2 DEF LeavesUnder
  <2> QED
    BY <1>4, <2>1, <2>3 DEF kind
<1> QED
  BY <1>3, <1>4

LEMMA SubmitKeeps ==
    ASSUME SubmittedInv, Submit
    PROVE  SubmittedInv'
<1> DEFINE batch == [drafts |-> drafts, accountRoot |-> keys,
                     commitmentRoot |-> IF Head(drafts).commitment.kind = "Transfer"
                                        THEN SubmitTransferBatch ELSE SubmitMassMigrationBatch]
<1>0. drafts # <<>> /\ Len(drafts) <= 32
  BY DEF Submit
<1>1. batches' = Append(batches, batch) /\ drafts' = <<>>
  BY DEF Submit
<1>2. IsRooted(batch)
  <2>1. batch.drafts = drafts /\ batch.accountRoot = keys
    OBVIOUS
  <2>2. batch.commitmentRoot = Contract!merklise(LeavesUnder(keys, drafts))
    BY <1>0, SubmitRoots DEF SubmittedInv
  <2>3. Len(drafts) \in 1 .. 32
    BY <1>0, SomeOf DEF SubmittedInv, DraftsInv
  <2> HIDE DEF batch
  <2> QED
    BY <2>1, <2>2, <2>3 DEF IsRooted, SubmittedInv, DraftsInv
<1> HIDE DEF batch
<1>3. DraftsInv'
  BY <1>1, NoneOf DEF DraftsInv
<1>4. BatchesInv'
  <2>1. IsList(batches)
    BY DEF SubmittedInv, BatchesInv
  <2>2. /\ IsList(batches') /\ DOMAIN batches' = 1 .. Len(batches) + 1
        /\ \A b \in DOMAIN batches : batches'[b] = batches[b]
        /\ \A b \in DOMAIN batches' : b \in DOMAIN batches \/ b = Len(batches) + 1
        /\ batches'[Len(batches) + 1] = batch
    BY <1>1, <2>1, OneMoreOf
  <2>3. \A b \in DOMAIN batches' : IsRooted(batches'[b])
    BY <1>2, <2>2 DEF SubmittedInv, BatchesInv
  <2> QED
    BY <2>2, <2>3 DEF BatchesInv
<1> QED
  BY <1>3, <1>4 DEF SubmittedInv

LEMMA DraftKeeps ==
    ASSUME DraftsInv, NEW commitment, NEW after, NEW kind, commitment.kind = kind,
           MayDraft(kind), Drafted(commitment, after)
    PROVE  DraftsInv'
<1> DEFINE made == [commitment |-> commitment, txs |-> txs, before |-> tree]
<1>1. drafts' = Append(drafts, made)
  BY DEF Drafted
<1>2. made.commitment = commitment
  OBVIOUS
<1> HIDE DEF made
<1>3. /\ IsList(drafts') /\ DOMAIN drafts' = 1 .. Len(drafts) + 1
      /\ \A i \in DOMAIN drafts : drafts'[i] = drafts[i]
      /\ \A i \in DOMAIN drafts' : i \in DOMAIN drafts \/ i = Len(drafts) + 1
      /\ drafts'[Len(drafts) + 1] = made
  BY <1>1, OneMoreOf DEF DraftsInv
<1>4. \A i \in DOMAIN drafts' : drafts'[i].commitment.kind = kind
  BY <1>2, <1>3 DEF MayDraft
<1> QED
  BY <1>3, <1>4 DEF DraftsInv, OneKind

LEMMA CommitmentKinds ==
    /\ \A stateRoot, accountRoot, signature, feeReceiver, bytes :
          TransferCommitment(stateRoot, accountRoot, signature, feeReceiver, bytes).kind
             = "Transfer"
    /\ \A stateRoot, accountRoot, signature, targetSpokeID, withdrawRoot, tokenID, amount,
          feeReceiver, bytes :
          MassMigrationCommitment(stateRoot, accountRoot, signature, targetSpokeID, withdrawRoot,
                                  tokenID, amount, feeReceiver, bytes).kind
             = "MassMigration"
BY DEF TransferCommitment, MassMigrationCommitment

LEMMA SubmittedKeeps ==
    ASSUME SubmittedInv, [CommitterNext]_committerVars
    PROVE  SubmittedInv'
<1>1. CASE UNCHANGED <<drafts, batches>>
  BY <1>1 DEF SubmittedInv, DraftsInv, BatchesInv
<1>2. CASE Submit
  BY <1>2, SubmitKeeps
<1>3. ASSUME NEW feeReceiver \in FeeReceivers, DraftTransfer(feeReceiver) PROVE SubmittedInv'
  <2>1. /\ MayDraft("Transfer")
        /\ \E commitment, after : commitment.kind = "Transfer" /\ Drafted(commitment, after)
    BY <1>3, CommitmentKinds DEF DraftTransfer
  <2>2. DraftsInv'
    BY <2>1, DraftKeeps DEF SubmittedInv
  <2>3. UNCHANGED batches
    BY <2>1 DEF Drafted
  <2> QED
    BY <2>2, <2>3 DEF SubmittedInv, BatchesInv
<1>4. ASSUME NEW feeReceiver \in FeeReceivers, DraftMassMigration(feeReceiver)
      PROVE  SubmittedInv'
  <2>1. /\ MayDraft("MassMigration")
        /\ \E commitment, after : commitment.kind = "MassMigration" /\ Drafted(commitment, after)
    BY <1>4, CommitmentKinds DEF DraftMassMigration
  <2>2. DraftsInv'
    BY <2>1, DraftKeeps DEF SubmittedInv
  <2>3. UNCHANGED batches
    BY <2>1 DEF Drafted
  <2> QED
    BY <2>2, <2>3 DEF SubmittedInv, BatchesInv
<1>5. [CommitterNext]_committerVars =>
         \/ UNCHANGED <<drafts, batches>> \/ Submit
         \/ \E feeReceiver \in FeeReceivers :
               DraftTransfer(feeReceiver) \/ DraftMassMigration(feeReceiver)
  BY DEF CommitterNext, Deploying, Committing, CommitmentsNext, RegisterKey, NewList,
     SignTransfer, committerVars, commitmentVars
<1> QED
  BY <1>1, <1>2, <1>3, <1>4, <1>5

LEMMA LeavesDiffer ==
    ASSUME NEW root, NEW c
    PROVE  LeafUnder(root, c) = <<c.stateRoot, bodyRoot(c)>> <=> c.accountRoot = root
<1>1. ASSUME c.accountRoot = root PROVE BodyUnder(root, c) = bodyRoot(c)
  BY <1>1 DEF BodyUnder, bodyRoot, bodyRootTransfer, bodyRootMassMigration
<1>2. BodyUnder(root, c)[1] = root
  BY DEF BodyUnder
<1>3. bodyRoot(c)[1] = c.accountRoot
  BY DEF bodyRoot, bodyRootTransfer, bodyRootMassMigration
<1>4. ASSUME LeafUnder(root, c) = <<c.stateRoot, bodyRoot(c)>>
      PROVE  BodyUnder(root, c) = bodyRoot(c)
  <2>1. PICK x, y : x = BodyUnder(root, c) /\ y = bodyRoot(c)
    OBVIOUS
  <2> QED
    BY <1>4, <2>1 DEF LeafUnder
<1> QED
  BY <1>1, <1>2, <1>3, <1>4 DEF LeafUnder

LEMMA RootedOpens ==
    ASSUME NEW batch, IsRooted(batch), NEW i \in DOMAIN batch.drafts
    PROVE  Opens(batch, i - 1) <=>
               \A j \in DOMAIN batch.drafts :
                  batch.drafts[j].commitment.accountRoot = batch.accountRoot
<1> DEFINE list == batch.drafts
           under == LeavesUnder(batch.accountRoot, list)
           own == [j \in DOMAIN list |-> hash(list[j].commitment)]
<1>1. PICK n \in 1 .. 32 : n = Len(list) /\ DOMAIN list = 1 .. n
  <2>1. PICK l : l = list
    OBVIOUS
  <2>2. PICK S : l \in Seq(S)
    BY <2>1 DEF IsRooted, IsList
  <2>3. Len(l) \in 1 .. 32
    BY <2>1 DEF IsRooted
  <2>4. DOMAIN l = 1 .. Len(l)
    BY <2>2
  <2> QED
    BY <2>1, <2>3, <2>4
<1>2. Len(under) = n /\ \A j \in 1 .. n : under[j] = LeafUnder(batch.accountRoot, list[j].commitment)
  BY <1>1 DEF LeavesUnder
<1>3. Len(own) = n /\ \A j \in 1 .. n : own[j] = hash(list[j].commitment)
  BY <1>1
<1>4. batch.commitmentRoot = Commits!merklise(under)
  BY SameCommitTrees DEF IsRooted
<1>5. Opens(batch, i - 1) <=> Commits!OpensAt(Commits!merklise(under), own, i)
  <2>1. i - 1 + 1 = i /\ i \in 1 .. n
    BY <1>1
  <2>2. PICK c : c = list[i].commitment
    OBVIOUS
  <2>3. PICK m : m = Commits!merklize(own)
    OBVIOUS
  <2>4. WitnessOf(list, i - 1) = Commits!witness(m, i - 1, m.depth)
    BY <2>3, SameCommitTrees DEF WitnessOf, BatchTree
  <2>5. own[i] = <<c.stateRoot, bodyRoot(c)>>
    BY <1>3, <2>1, <2>2 DEF hash
  <2> HIDE DEF own, under
  <2>6. Opens(batch, i - 1) <=>
           Contract!verify(batch.commitmentRoot, <<c.stateRoot, bodyRoot(c)>>, i - 1,
                           WitnessOf(list, i - 1))
    BY <2>1, <2>2 DEF Opens, proof, proofCompressed, checkInclusion, toHash, toHashTransfer,
       toHashMassMigration, bodyRoot, bodyRootTransfer, bodyRootMassMigration, toCompressedStruct
  <2> QED
    BY <1>4, <2>3, <2>4, <2>5, <2>6, SameCommitTrees DEF Commits!OpensAt
<1>6. Commits!OpensAt(Commits!merklise(under), own, i) <=> Commits!SameList(under, own, n)
  <2> HIDE DEF own, under
  <2> QED
    BY <1>1, <1>2, <1>3, Commits!ProofsOpenTheirList
<1>7. Commits!SameList(under, own, n) <=>
         \A j \in 1 .. n : list[j].commitment.accountRoot = batch.accountRoot
  <2>1. \A j \in 1 .. n : under[j] = own[j] <=>
                             list[j].commitment.accountRoot = batch.accountRoot
    <3> SUFFICES ASSUME NEW j \in 1 .. n
                 PROVE  under[j] = own[j] <=>
                           list[j].commitment.accountRoot = batch.accountRoot
      OBVIOUS
    <3>1. PICK c : c = list[j].commitment
      OBVIOUS
    <3>2. under[j] = LeafUnder(batch.accountRoot, c)
      BY <1>2, <3>1
    <3>3. own[j] = <<c.stateRoot, bodyRoot(c)>>
      BY <1>3, <3>1 DEF hash
    <3> HIDE DEF own, under
    <3> QED
      BY <3>1, <3>2, <3>3, LeavesDiffer
  <2> HIDE DEF own, under
  <2> QED
    BY <2>1 DEF Commits!SameList
<1> QED
  BY <1>1, <1>5, <1>6, <1>7

(* Of a batch that was submitted, the proofs that its committer takes from *)
(* the tree it keeps open, all of them, when every commitment names the    *)
(* account root of the submission, and otherwise none does: submit() and   *)
(* proof() of ts/commitments.ts and checkInclusion() of libs/Types.sol.    *)
THEOREM ProofsAlwaysOpenTogether == CommitterSpec => []ProofsOpenTogether
<1>1. CommitterInit => SubmittedInv
  BY NoneOf DEF CommitterInit, CommitmentsInit, SubmittedInv, DraftsInv, BatchesInv
<1>2. SubmittedInv /\ [CommitterNext]_committerVars => SubmittedInv'
  BY SubmittedKeeps
<1>3. SubmittedInv => ProofsOpenTogether
  BY RootedOpens DEF SubmittedInv, BatchesInv, ProofsOpenTogether
<1> QED
  BY <1>1, <1>2, <1>3, PTL DEF CommitterSpec

-----------------------------------------------------------------------------
(* Division by a number that is not zero.                                  *)
LEMMA Quotient ==
    ASSUME NEW x \in Nat, NEW b \in Nat, b >= 1
    PROVE  /\ x \div b \in Nat /\ x % b \in 0 .. b - 1
           /\ x = b * (x \div b) + (x % b)
<1> DEFINE q == x \div b
           m == x % b
<1>1. x = b * q + m /\ m \in 0 .. b - 1 /\ q \in Int
  OBVIOUS
<1> HIDE DEF q, m
<1>2. ASSUME q < 0 PROVE FALSE
  <2>1. PICK d \in Nat : d = -q - 1
    BY <1>1, <1>2
  <2>2. b * q = -b - b * d /\ b * d \in Nat
    <3>1. q = -1 - d
      BY <1>1, <2>1
    <3> QED
      BY <3>1
  <2> QED
    BY <1>1, <2>2
<1>3. q \in Nat
  BY <1>1, <1>2
<1> QED
  BY <1>1, <1>3 DEF q, m

(* A quotient is below a bound just when the number is below that many     *)
(* divisors.                                                               *)
LEMMA QuotientBelow ==
    ASSUME NEW x \in Nat, NEW b \in Nat, b >= 1, NEW c \in Nat
    PROVE  x \div b < c <=> x < b * c
<1>1. PICK q \in Nat, m \in 0 .. b - 1 : q = x \div b /\ m = x % b /\ x = b * q + m
  BY Quotient
<1>2. ASSUME q < c PROVE b * q + b <= b * c
  <2>1. PICK d \in Nat : c = q + 1 + d
    <3>1. c - q - 1 \in Nat /\ c = q + 1 + (c - q - 1)
      BY <1>2
    <3> QED
      BY <3>1
  <2>2. b * c = b * q + b + b * d /\ b * d \in Nat
    BY <2>1
  <2> QED
    BY <2>2
<1>3. ASSUME ~(q < c) PROVE b * c <= b * q
  <2>1. PICK d \in Nat : q = c + d
    <3>1. q - c \in Nat /\ q = c + (q - c)
      BY <1>3
    <3> QED
      BY <3>1
  <2>2. b * q = b * c + b * d /\ b * d \in Nat
    BY <2>1
  <2> QED
    BY <2>2
<1>4. b * q \in Nat /\ b * c \in Nat
  OBVIOUS
<1> QED
  BY <1>1, <1>2, <1>3, <1>4

LEMMA TenToIs ==
    /\ TenTo \in [Nat -> Nat]
    /\ TenTo[0] = 1
    /\ \A k \in Nat : TenTo[k] >= 1 /\ TenTo[k + 1] = 10 * TenTo[k]
<1> DEFINE tenfold == [i \in Nat |-> [x \in Nat |-> 10 * x]]
           Body(u, k) == IF k = 0 THEN 1 ELSE 10 * u[k - 1]
           power == CHOOSE u : u = [k \in Nat |-> Body(u, k)]
<1>1. 1 \in Nat /\ tenfold \in [Nat -> [Nat -> Nat]]
      /\ \A i \in Nat, x \in Nat : tenfold[i][x] = 10 * x
  OBVIOUS
<1> HIDE DEF tenfold
<1>2. PICK g : RunsOn(g, Nat, 1, tenfold)
  BY <1>1, IteratesOn
<1>3. g \in [Nat -> Nat] /\ g[0] = 1 /\ \A i \in Nat : g[i + 1] = 10 * g[i]
  <2>1. /\ g \in [Nat -> Nat] /\ g[0] = 1
        /\ \A i \in Nat : g[i + 1] = tenfold[i + 1][g[i]]
    BY <1>2 DEF RunsOn
  <2>2. ASSUME NEW i \in Nat PROVE g[i + 1] = 10 * g[i]
    <3>1. i + 1 \in Nat /\ g[i] \in Nat
      BY <2>1
    <3> QED
      BY <1>1, <2>1, <3>1
  <2> QED
    BY <2>1, <2>2
<1>4. g = [k \in Nat |-> Body(g, k)]
  <2>1. \A k \in Nat : g[k] = Body(g, k)
    <3>1. ASSUME NEW k \in Nat, k # 0 PROVE g[k] = 10 * g[k - 1]
      <4>1. k - 1 \in Nat /\ k - 1 + 1 = k
        BY <3>1
      <4> QED
        BY <1>3, <4>1
    <3> QED
      BY <1>3, <3>1
  <2> HIDE DEF Body
  <2> QED
    BY <1>3, <2>1
<1>5. power = [k \in Nat |-> Body(power, k)]
  <2> HIDE DEF Body
  <2> QED
    BY <1>4
<1>6. TenTo = power
  BY DEF TenTo
<1> HIDE DEF power
<1>7. TenTo[0] = 1 /\ \A k \in Nat : TenTo[k + 1] = 10 * TenTo[k]
  <2>1. \A k \in Nat : power[k] = Body(power, k)
    BY <1>5
  <2>2. \A k \in Nat : k + 1 \in Nat /\ k + 1 # 0 /\ k + 1 - 1 = k
    OBVIOUS
  <2> QED
    BY <1>6, <2>1, <2>2
<1>8. \A k \in Nat : TenTo[k] \in Nat /\ TenTo[k] >= 1
  <2>1. ASSUME NEW k \in Nat PROVE TenTo[k] \in Nat /\ TenTo[k] >= 1
    <3> DEFINE T == {i \in 0 .. k : TenTo[i] \in Nat /\ TenTo[i] >= 1}
    <3>1. 0 \in T
      BY <1>7
    <3>2. ASSUME NEW i \in 1 .. k, i - 1 \in T PROVE i \in T
      <4>1. i - 1 \in Nat /\ i - 1 + 1 = i
        OBVIOUS
      <4> QED
        BY <1>7, <3>2, <4>1
    <3> HIDE DEF T
    <3>3. 0 .. k \subseteq T
      BY <3>1, <3>2, LoopInduction
    <3> QED
      BY <3>3 DEF T
  <2> QED
    BY <2>1
<1> QED
  BY <1>5, <1>6, <1>7, <1>8

(* A digit of a byte, and what a number is without its last bytes.         *)
LEMMA BaseIs == Base \in Nat /\ Base >= 2
<1>1. PICK k \in Nat : k + 1 = ByteBits
  <2>1. ByteBits - 1 \in Nat /\ ByteBits - 1 + 1 = ByteBits
    BY CodecAssumption
  <2> QED
    BY <2>1
<1>2. TwoTo[k + 1] = 2 * TwoTo[k] /\ TwoTo[k] >= 1 /\ TwoTo[k] \in Nat
  BY TwoToIs
<1> QED
  BY <1>1, <1>2 DEF Base

LEMMA CutIs ==
    ASSUME NEW x \in Nat
    PROVE  /\ Cut(x, 0) = x
           /\ \A k \in Nat : Cut(x, k) \in Nat /\ Cut(x, k + 1) = Cut(x, k) \div Base
<1>0. PICK b \in Nat : b = Base /\ b >= 1
  BY BaseIs
<1> DEFINE shorter == [i \in Nat |-> [y \in Nat |-> y \div b]]
           Body(u, i) == IF i = 0 THEN x ELSE u[i - 1] \div b
           left(k) == CHOOSE u : u = [i \in 0 .. k |-> Body(u, i)]
<1>1. shorter \in [Nat -> [Nat -> Nat]] /\ \A i \in Nat, y \in Nat : shorter[i][y] = y \div b
  <2>1. \A y \in Nat : y \div b \in Nat
    BY <1>0, Quotient
  <2> QED
    BY <2>1
<1> HIDE DEF shorter
<1>2. PICK g : RunsOn(g, Nat, x, shorter)
  BY <1>1, IteratesOn
<1>3. g \in [Nat -> Nat] /\ g[0] = x /\ \A i \in Nat : g[i + 1] = g[i] \div b
  <2>1. /\ g \in [Nat -> Nat] /\ g[0] = x
        /\ \A i \in Nat : g[i + 1] = shorter[i + 1][g[i]]
    BY <1>2 DEF RunsOn
  <2>2. ASSUME NEW i \in Nat PROVE g[i + 1] = g[i] \div b
    <3>1. i + 1 \in Nat /\ g[i] \in Nat
      BY <2>1
    <3> QED
      BY <1>1, <2>1, <3>1
  <2> QED
    BY <2>1, <2>2
<1>4. \A k \in Nat : Cut(x, k) = g[k]
  <2>1. ASSUME NEW k \in Nat PROVE Cut(x, k) = g[k]
    <3> DEFINE u == [i \in 0 .. k |-> g[i]]
               w == left(k)
    <3>1. \A i \in 1 .. k : i - 1 \in Nat /\ i - 1 + 1 = i
      OBVIOUS
    <3>2. \A i \in 1 .. k : g[i] = g[i - 1] \div b
      BY <1>3, <3>1
    <3>3. u = [i \in 0 .. k |-> Body(u, i)]
      <4>1. \A i \in 1 .. k : u[i] = u[i - 1] \div b
        BY <3>2
      <4>2. u[0] = x
        BY <1>3
      <4>3. \A i \in 0 .. k : u[i] = Body(u, i)
        <5> HIDE DEF u
        <5> QED
          BY <4>1, <4>2
      <4> HIDE DEF Body
      <4> QED
        BY <4>3
    <3>4. w = [i \in 0 .. k |-> Body(w, i)]
      <4> HIDE DEF Body, u
      <4> QED
        BY <3>3
    <3>5. Cut(x, k) = w[k]
      BY <1>0 DEF Cut
    <3> HIDE DEF w
    <3>6. w[0] = x /\ \A i \in 1 .. k : w[i] = w[i - 1] \div b
      <4>1. \A i \in 0 .. k : w[i] = Body(w, i)
        <5> HIDE DEF Body
        <5> QED
          BY <3>4
      <4>2. Body(w, 0) = x /\ \A i \in 1 .. k : Body(w, i) = w[i - 1] \div b
        OBVIOUS
      <4> QED
        BY <4>1, <4>2
    <3> DEFINE T == {i \in 0 .. k : w[i] = g[i]}
    <3>7. 0 \in T
      BY <1>3, <3>6
    <3>8. \A i \in 1 .. k : i - 1 \in T => i \in T
      BY <3>2, <3>6
    <3> HIDE DEF T
    <3>9. 0 .. k \subseteq T
      BY <3>7, <3>8, LoopInduction
    <3> QED
      BY <3>5, <3>9 DEF T
  <2> QED
    BY <2>1
<1> QED
  BY <1>0, <1>3, <1>4
-----------------------------------------------------------------------------
Byte == 0 .. Base - 1

LEMMA TruncatedIs ==
    ASSUME NEW x \in Nat, NEW n \in Nat
    PROVE  /\ Truncated(x, n) \in [1 .. n -> Byte]
           /\ Truncated(x, n) \in Seq(Byte) /\ Len(Truncated(x, n)) = n
           /\ \A i \in 1 .. n : Truncated(x, n)[i] = Cut(x, n - i) % Base
<1>1. ASSUME NEW i \in 1 .. n PROVE Cut(x, n - i) % Base \in Byte
  <2>1. PICK k \in Nat : k = n - i
    OBVIOUS
  <2>2. PICK y \in Nat : y = Cut(x, k)
    BY CutIs
  <2>3. y % Base \in Byte
    <3>1. PICK b \in Nat : b = Base /\ b >= 1
      BY BaseIs
    <3>2. y % b \in 0 .. b - 1
      BY <3>1, Quotient
    <3> QED
      BY <3>1, <3>2 DEF Byte
  <2> QED
    BY <2>1, <2>2, <2>3
<1>2. Truncated(x, n) \in [1 .. n -> Byte]
  BY <1>1 DEF Truncated
<1>3. Truncated(x, n) \in Seq(Byte) /\ Len(Truncated(x, n)) = n
  BY <1>2, Indexed
<1> QED
  BY <1>2, <1>3 DEF Truncated

(* What a field that is refused looks like is no field.                    *)
LEMMA BytesAreWritten ==
    ASSUME NEW bytes \in Seq(Byte)
    PROVE  bytes # Refused
<1>1. ASSUME bytes = Refused PROVE FALSE
  <2>1. Len(bytes) = 1 /\ bytes[1] = -1
    BY <1>1 DEF Refused
  <2>2. bytes[1] \in Byte
    BY <2>1
  <2> QED
    BY <2>1, <2>2, BaseIs DEF Byte
<1> QED
  BY <1>1

(* The value of bytes is what each byte makes of the value before it.      *)
Reads(v, n, bytes) ==
    /\ v \in [0 .. n -> Nat]
    /\ v[0] = 0
    /\ \A i \in 1 .. n : v[i] = v[i - 1] * Base + bytes[i]

LEMMA ValueIs ==
    ASSUME NEW n \in Nat, NEW bytes \in [1 .. n -> Nat], NEW v, Reads(v, n, bytes)
    PROVE  ValueOf(bytes) = v[n]
<1>0. PICK b \in Nat : b = Base
  BY BaseIs
<1> DEFINE f == [i \in 1 .. n |-> [y \in Nat |-> y * b + bytes[i]]]
           Body(u, i) == IF i = 0 THEN 0 ELSE u[i - 1] * b + bytes[i]
           value == CHOOSE u : u = [i \in 0 .. n |-> Body(u, i)]
<1>1. \A i \in 1 .. n, y \in Nat : f[i][y] = y * b + bytes[i]
  OBVIOUS
<1>2. Len(bytes) = n
  BY Indexed
<1>3. ValueOf(bytes) = value[n]
  BY <1>0, <1>2 DEF ValueOf
<1>4. v \in [0 .. n -> Nat] /\ v[0] = 0 /\ \A i \in 1 .. n : v[i] = v[i - 1] * b + bytes[i]
  BY <1>0 DEF Reads
<1>5. v = [i \in 0 .. n |-> Body(v, i)]
  <2>1. \A i \in 0 .. n : v[i] = Body(v, i)
    BY <1>4
  <2> HIDE DEF Body
  <2> QED
    BY <1>4, <2>1
<1>6. value = [i \in 0 .. n |-> Body(value, i)]
  <2> HIDE DEF Body
  <2> QED
    BY <1>5
<1> HIDE DEF f, value
<1>7. value[0] = 0 /\ \A i \in 1 .. n : value[i] = value[i - 1] * b + bytes[i]
  <2>1. \A i \in 0 .. n : value[i] = Body(value, i)
    <3> HIDE DEF Body
    <3> QED
      BY <1>6
  <2> QED
    BY <2>1
<1>8. Runs(v, n, Nat, 0, f)
  <2>1. \A i \in 1 .. n : v[i - 1] \in Nat
    BY <1>4
  <2> QED
    BY <1>1, <1>4, <2>1 DEF Runs
<1>9. Follows(value, n, Nat, 0, f)
  BY <1>1, <1>7 DEF Follows
<1> HIDE DEF Body
<1>10. value[n] = v[n]
  BY ONLY n \in Nat, <1>8, <1>9, SameLoop
<1> QED
  BY ONLY <1>3, <1>10

(* The low bytes of a number that has no others are read back as it is.    *)
LEMMA ReadsBack ==
    ASSUME NEW x \in Nat, NEW n \in Nat, Cut(x, n) = 0
    PROVE  ValueOf(Truncated(x, n)) = x
<1> DEFINE bytes == Truncated(x, n)
           v == [i \in 0 .. n |-> Cut(x, n - i)]
<1>1. /\ bytes \in [1 .. n -> Nat]
      /\ \A i \in 1 .. n : bytes[i] = Cut(x, n - i) % Base
  <2>1. \A i \in Byte : i \in Nat
    BY BaseIs DEF Byte
  <2>2. /\ bytes \in [1 .. n -> Byte]
        /\ \A i \in 1 .. n : bytes[i] = Cut(x, n - i) % Base
    BY TruncatedIs
  <2> HIDE DEF bytes
  <2> QED
    BY <2>1, <2>2
<1> HIDE DEF bytes
<1>2. Reads(v, n, bytes)
  <2>1. v \in [0 .. n -> Nat]
    <3>1. \A i \in 0 .. n : n - i \in Nat
      OBVIOUS
    <3> QED
      BY <3>1, CutIs
  <2>2. v[0] = 0
    <3>1. n - 0 = n
      OBVIOUS
    <3> QED
      BY <3>1
  <2>3. ASSUME NEW i \in 1 .. n PROVE v[i] = v[i - 1] * Base + bytes[i]
    <3>1. PICK k \in Nat : k = n - i /\ n - (i - 1) = k + 1
      OBVIOUS
    <3>2. PICK y \in Nat : y = Cut(x, k) /\ Cut(x, k + 1) = y \div Base
      <4>1. Cut(x, k) \in Nat /\ Cut(x, k + 1) = Cut(x, k) \div Base
        BY CutIs
      <4> QED
        BY <4>1
    <3>3. PICK b \in Nat : b = Base /\ b >= 1
      BY BaseIs
    <3>4. y = b * (y \div b) + (y % b) /\ y \div b \in Nat
      BY <3>3, Quotient
    <3>5. v[i] = y /\ v[i - 1] = y \div b /\ bytes[i] = y % b
      BY <1>1, <3>1, <3>2, <3>3
    <3>6. b * (y \div b) = (y \div b) * b
      BY <3>4
    <3> HIDE DEF v
    <3> QED
      BY <3>3, <3>4, <3>5, <3>6
  <2> HIDE DEF v
  <2> QED
    BY <2>1, <2>2, <2>3 DEF Reads
<1>3. v[n] = x
  <2>1. n - n = 0
    OBVIOUS
  <2> QED
    BY <2>1, CutIs
<1> HIDE DEF v
<1> QED
  BY <1>1, <1>2, <1>3, ValueIs DEF bytes

(* A number below 2^32 has four bytes.                                     *)
LEMMA FourBytes ==
    ASSUME NEW x \in 0 .. Uint32Max
    PROVE  Cut(x, stateIDLen) = 0
<1>1. PICK b \in Nat : b = Base /\ b >= 1
  BY BaseIs
<1>2. PICK b2 \in Nat : b2 = b * b /\ b2 >= 1
  <2>1. b * b \in Nat /\ b * b >= 1
    BY <1>1
  <2> QED
    BY <2>1
<1>3. PICK b3 \in Nat : b3 = b * b2
  OBVIOUS
<1>4. x \in Nat /\ x < b * b3
  <2>1. b * b * b * b = b * b3
    BY <1>2, <1>3
  <2> QED
    BY <1>1, <2>1 DEF Uint32Max
<1>5. PICK x1 \in Nat : x1 = Cut(x, 1) /\ x1 = x \div b
  BY <1>1, <1>4, CutIs
<1>6. PICK x2 \in Nat : x2 = Cut(x, 2) /\ x2 = x1 \div b
  <2>1. 1 \in Nat /\ 1 + 1 = 2 /\ 2 \in Nat
    OBVIOUS
  <2> QED
    BY <1>1, <1>4, <1>5, <2>1, CutIs
<1>7. PICK x3 \in Nat : x3 = Cut(x, 3) /\ x3 = x2 \div b
  <2>1. 2 \in Nat /\ 2 + 1 = 3 /\ 3 \in Nat
    OBVIOUS
  <2> QED
    BY <1>1, <1>4, <1>6, <2>1, CutIs
<1>8. PICK x4 \in Nat : x4 = Cut(x, 4) /\ x4 = x3 \div b
  <2>1. 3 \in Nat /\ 3 + 1 = 4 /\ 4 \in Nat
    OBVIOUS
  <2> QED
    BY <1>1, <1>4, <1>7, <2>1, CutIs
<1>9. x1 < b3
  BY <1>1, <1>4, <1>5, QuotientBelow
<1>10. x2 < b2
  BY <1>1, <1>3, <1>6, <1>9, QuotientBelow
<1>11. x3 < b
  BY <1>1, <1>2, <1>7, <1>10, QuotientBelow
<1>12. x4 < 1
  <2>1. x3 < b * 1
    BY <1>11
  <2> QED
    BY <1>1, <1>8, <2>1, QuotientBelow
<1> QED
  BY <1>8, <1>12 DEF stateIDLen
-----------------------------------------------------------------------------
LEMMA MaximaAre ==
    /\ exponentMax \in Nat /\ mantissaMax \in Nat /\ mantissaMax >= 1
    /\ TwoTo[mantissaBits] = mantissaMax + 1
<1>1. PICK k \in Nat : k + 1 = mantissaBits
  <2>1. mantissaBits - 1 \in Nat /\ mantissaBits - 1 + 1 = mantissaBits
    BY CodecAssumption
  <2> QED
    BY <2>1
<1>2. TwoTo[k + 1] = 2 * TwoTo[k] /\ TwoTo[k] >= 1 /\ TwoTo[k] \in Nat
  BY TwoToIs
<1>3. PICK e \in Nat : e = exponentBits
  BY CodecAssumption
<1>4. TwoTo[e] >= 1 /\ TwoTo[e] \in Nat
  BY TwoToIs
<1> QED
  BY <1>1, <1>2, <1>3, <1>4 DEF exponentMax, mantissaMax

(* The tens that are taken out of an integer are tens that it has.         *)
LEMMA ExponentIs ==
    ASSUME NEW x \in Nat
    PROVE  /\ Exponent(x) \in 0 .. exponentMax /\ Exponent(x) \in Nat
           /\ x % TenTo[Exponent(x)] = 0
           /\ x # 0 => \/ Exponent(x) = exponentMax
                       \/ x % TenTo[Exponent(x) + 1] # 0
<1>1. PICK max \in Nat : max = exponentMax
  BY MaximaAre
<1> DEFINE Divides(e) == x % TenTo[e] = 0
           Stops(e) == Divides(e) /\ (e = max \/ x % TenTo[e + 1] # 0)
           T == {e \in 0 .. max : Divides(e)}
<1>2. \A y \in Nat : y % 1 = 0
  OBVIOUS
<1>3. Divides(0)
  BY <1>2, TenToIs
<1>4. \E e \in 0 .. max : Stops(e)
  <2>1. SUFFICES ASSUME \A e \in 0 .. max : ~Stops(e) PROVE FALSE
    OBVIOUS
  <2>2. 0 \in T
    BY <1>3
  <2>3. ASSUME NEW e \in 1 .. max, e - 1 \in T PROVE e \in T
    <3>1. e - 1 \in 0 .. max /\ e - 1 # max /\ e - 1 + 1 = e
      OBVIOUS
    <3>2. ~Stops(e - 1)
      BY <2>1, <3>1
    <3>3. x % TenTo[e - 1 + 1] = 0
      BY <2>3, <3>1, <3>2
    <3> QED
      BY <3>1, <3>3
  <2>4. max \in T
    <3> HIDE DEF T
    <3>1. 0 .. max \subseteq T
      BY <2>2, <2>3, LoopInduction
    <3> QED
      BY <3>1
  <2> QED
    BY <2>1, <2>4
<1>5. ASSUME x # 0
      PROVE  Exponent(x) \in 0 .. max /\ Stops(Exponent(x))
  <2> DEFINE chosen == CHOOSE e \in 0 .. max : Stops(e)
  <2>1. Exponent(x) = chosen
    BY <1>1, <1>5 DEF Exponent
  <2> HIDE DEF Stops
  <2>2. chosen \in 0 .. max /\ Stops(chosen)
    BY <1>4
  <2> HIDE DEF chosen
  <2> QED
    BY <2>1, <2>2
<1>6. ASSUME x = 0 PROVE Exponent(x) = 0
  BY <1>6 DEF Exponent
<1> QED
  BY <1>1, <1>3, <1>5, <1>6

LEMMA MantissaIs ==
    ASSUME NEW x \in Nat
    PROVE  /\ Mantissa(x) \in Nat
           /\ x = Mantissa(x) * TenTo[Exponent(x)]
<1>1. PICK e \in Nat : e = Exponent(x) /\ x % TenTo[e] = 0
  BY ExponentIs
<1>2. PICK t \in Nat : t = TenTo[e] /\ t >= 1
  BY TenToIs
<1>3. x \div t \in Nat /\ x = t * (x \div t) + (x % t)
  BY <1>2, Quotient
<1>4. t * (x \div t) = (x \div t) * t
  BY <1>3
<1>5. x % t = 0
  BY <1>1, <1>2
<1>6. Mantissa(x) = x \div t
  BY <1>1, <1>2 DEF Mantissa
<1> QED
  BY <1>1, <1>2, <1>3, <1>4, <1>5, <1>6

(* An encoding is decoded to the integer that was encoded.                 *)
LEMMA DecodesBack ==
    ASSUME NEW x \in Nat, Mantissa(x) <= mantissaMax
    PROVE  Code(x) \in Nat /\ decodeInt(Code(x)) = x
<1>1. PICK e \in Nat, m \in Nat, t \in Nat :
         e = Exponent(x) /\ m = Mantissa(x) /\ t = TenTo[e] /\ x = m * t
  <2>1. PICK e \in Nat, m \in Nat :
           e = Exponent(x) /\ m = Mantissa(x) /\ x = m * TenTo[e]
    BY ExponentIs, MantissaIs
  <2>2. TenTo[e] \in Nat
    BY TenToIs
  <2> QED
    BY <2>1, <2>2
<1>2. PICK s \in Nat : s = TwoTo[mantissaBits] /\ s >= 1 /\ m \in 0 .. s - 1
  BY <1>1, MaximaAre
<1>3. (e * s + m) \div s = e /\ (e * s + m) % s = m
  BY <1>2, BlockOf
<1>4. PICK c \in Nat : c = e * s + m
  OBVIOUS
<1>5. Code(x) = c
  BY <1>1, <1>2, <1>4 DEF Code
<1>6. decodeInt(c) = m * t
  BY <1>1, <1>2, <1>3, <1>4 DEF decodeInt
<1> QED
  BY <1>1, <1>5, <1>6

(* The two bytes of an amount and of a fee.                                *)
LEMMA DecimalLength == bytesLength = amountLen /\ amountLen = 2 /\ feeLen = 2
<1>1. PICK b \in Nat : b = ByteBits /\ b >= 1
  BY CodecAssumption
<1>2. mantissaBits + exponentBits = 2 * b
  BY <1>1, WidthsAssumption DEF CheckedLengths, checkByteLength, amountLen
<1>3. (2 * b + 0) \div b = 2
  BY <1>1, BlockOf
<1>4. 2 * b + 0 = 2 * b
  OBVIOUS
<1> QED
  BY <1>1, <1>2, <1>3, <1>4 DEF bytesLength, amountLen, feeLen

IsWritten(bytes, n) == bytes \in Seq(Byte) /\ Len(bytes) = n

LEMMA IntegersAreRead ==
    ASSUME NEW x \in Nat, encodeInt(x) # Refused
    PROVE  /\ Mantissa(x) <= mantissaMax
           /\ encodeInt(x) = Truncated(Code(x), bytesLength)
           /\ IsWritten(encodeInt(x), 2)
           /\ decodeInt(ValueOf(encodeInt(x))) = x
<1>1. Mantissa(x) <= mantissaMax
  BY MantissaIs, MaximaAre DEF encodeInt
<1>2. PICK c \in Nat : c = Code(x) /\ decodeInt(c) = x
  BY <1>1, DecodesBack
<1>3. encodeInt(x) = Truncated(c, bytesLength) /\ Cut(c, bytesLength) = 0
  BY <1>1, <1>2, MantissaIs, MaximaAre DEF encodeInt, hexZeroPad
<1>4. bytesLength = 2 /\ 2 \in Nat
  BY DecimalLength
<1>5. IsWritten(encodeInt(x), 2)
  <2>1. Truncated(c, 2) \in Seq(Byte) /\ Len(Truncated(c, 2)) = 2
    BY <1>4, TruncatedIs
  <2> QED
    BY <1>3, <1>4, <2>1 DEF IsWritten
<1>6. ValueOf(encodeInt(x)) = c
  BY <1>3, <1>4, ReadsBack
<1> QED
  BY <1>1, <1>2, <1>3, <1>5, <1>6

LEMMA IndicesAreRead ==
    ASSUME NEW x \in Nat, hexZeroPad(x, stateIDLen) # Refused
    PROVE  /\ hexZeroPad(x, stateIDLen) = Truncated(x, stateIDLen)
           /\ IsWritten(hexZeroPad(x, stateIDLen), 4)
           /\ ValueOf(hexZeroPad(x, stateIDLen)) = x
<1>1. stateIDLen = 4 /\ 4 \in Nat
  BY DEF stateIDLen
<1>2. hexZeroPad(x, stateIDLen) = Truncated(x, 4) /\ Cut(x, 4) = 0
  BY <1>1 DEF hexZeroPad
<1> QED
  BY <1>1, <1>2, TruncatedIs, ReadsBack DEF IsWritten

(* The contract's encoder refuses the largest mantissa, and no other that  *)
(* the client writes.                                                      *)
LEMMA IntegersAgree ==
    ASSUME NEW x \in Nat, encodeInt(x) # Refused
    PROVE  encodeDecimal(x) = IF Mantissa(x) = mantissaMax THEN Refused ELSE encodeInt(x)
BY IntegersAreRead, MantissaIs, MaximaAre DEF encodeDecimal
-----------------------------------------------------------------------------
(* Sequences that are joined one after the other.                          *)
Joins(f, n, seqs) ==
    /\ f[1] = seqs[1]
    /\ \A i, k \in 1 .. n : k = i + 1 => f[k] = f[i] \o seqs[k]

Flattens(f, S, n, seqs) ==
    f \in [1 .. n -> Seq(S)] /\ Joins(f, n, seqs) /\ FlattenSeq(seqs) = f[n]

LEMMA FlattenIs ==
    ASSUME NEW S, NEW n \in Nat, n >= 1, NEW seqs \in [1 .. n -> Seq(S)]
    PROVE  \E f : Flattens(f, S, n, seqs)
<1> DEFINE joining == [i \in 1 .. n |-> [s \in Seq(S) |-> s \o seqs[i]]]
           Body(h, i) == IF i = 1 THEN seqs[i] ELSE h[i - 1] \o seqs[i]
           flatten == CHOOSE h : h = [i \in 1 .. n |-> Body(h, i)]
<1>1. /\ <<>> \in Seq(S) /\ joining \in [1 .. n -> [Seq(S) -> Seq(S)]]
      /\ \A i \in 1 .. n, s \in Seq(S) : joining[i][s] = s \o seqs[i]
  OBVIOUS
<1> HIDE DEF joining
<1>2. PICK g : Runs(g, n, Seq(S), <<>>, joining)
  BY <1>1, Iterates
<1>3. /\ g \in [0 .. n -> Seq(S)] /\ g[0] = <<>>
      /\ \A i \in 1 .. n : g[i] = g[i - 1] \o seqs[i]
  <2>1. \A i \in 1 .. n : g[i - 1] \in Seq(S)
    BY <1>2 DEF Runs
  <2> QED
    BY <1>1, <1>2, <2>1 DEF Runs
<1>4. g[1] = seqs[1]
  <2>1. 1 \in 1 .. n /\ 1 - 1 = 0 /\ seqs[1] \in Seq(S)
    OBVIOUS
  <2>2. g[1] = <<>> \o seqs[1]
    BY <1>3, <2>1
  <2>3. <<>> \o seqs[1] = seqs[1]
    BY <2>1
  <2> QED
    BY <2>2, <2>3
<1> DEFINE f == [i \in 1 .. n |-> g[i]]
<1>5. f \in [1 .. n -> Seq(S)]
  BY <1>3
<1>6. Joins(f, n, seqs)
  <2>1. 1 \in 1 .. n
    OBVIOUS
  <2>2. ASSUME NEW i \in 1 .. n, NEW k \in 1 .. n, k = i + 1 PROVE f[k] = f[i] \o seqs[k]
    <3>1. k - 1 = i
      BY <2>2
    <3>2. g[k] = g[i] \o seqs[k]
      BY <1>3, <3>1
    <3> QED
      BY <3>2
  <2> QED
    BY <1>4, <2>1, <2>2 DEF Joins
<1> HIDE DEF f
<1>7. f = [i \in 1 .. n |-> Body(f, i)]
  <2>1. \A i \in 1 .. n : f[i] = Body(f, i)
    <3>1. ASSUME NEW i \in 1 .. n, i # 1 PROVE f[i] = f[i - 1] \o seqs[i]
      <4>1. PICK k \in 1 .. n : k + 1 = i /\ i - 1 = k
        <5>1. i - 1 \in 1 .. n /\ i - 1 + 1 = i
          BY <3>1
        <5> QED
          BY <5>1
      <4> QED
        BY <1>6, <4>1 DEF Joins
    <3> QED
      BY <1>6, <3>1 DEF Joins
  <2> HIDE DEF Body
  <2> QED
    BY <1>5, <2>1
<1>8. flatten = [i \in 1 .. n |-> Body(flatten, i)]
  <2> HIDE DEF Body
  <2> QED
    BY <1>7
<1>9. FlattenSeq(seqs) = flatten[n]
  <2>1. Len(seqs) = n
    BY Indexed
  <2> QED
    BY <2>1 DEF FlattenSeq
<1> HIDE DEF flatten
<1>10. Joins(flatten, n, seqs)
  <2>1. \A i \in 1 .. n : flatten[i] = Body(flatten, i)
    <3> HIDE DEF Body
    <3> QED
      BY <1>8
  <2>2. ASSUME NEW i \in 1 .. n, NEW k \in 1 .. n, k = i + 1
        PROVE  flatten[k] = flatten[i] \o seqs[k]
    <3>1. k - 1 = i /\ k # 1
      BY <2>2
    <3> QED
      BY <2>1, <3>1
  <2>3. 1 \in 1 .. n
    OBVIOUS
  <2> QED
    BY <2>1, <2>2, <2>3 DEF Joins
<1> DEFINE T == {i \in 0 .. n - 1 : flatten[i + 1] = f[i + 1]}
<1>11. n - 1 \in T
  <2>1. 0 \in T
    BY <1>6, <1>10 DEF Joins
  <2>2. ASSUME NEW i \in 1 .. n - 1, i - 1 \in T PROVE i \in T
    <3>1. PICK k \in 1 .. n : k = i + 1 /\ i \in 1 .. n /\ i - 1 + 1 = i
      OBVIOUS
    <3>2. flatten[i] = f[i]
      BY <2>2, <3>1
    <3>3. flatten[k] = flatten[i] \o seqs[k] /\ f[k] = f[i] \o seqs[k]
      BY <1>6, <1>10, <3>1 DEF Joins
    <3>4. flatten[k] = f[k]
      BY ONLY <3>2, <3>3, Zenon
    <3> QED
      BY <3>1, <3>4
  <2>3. n - 1 \in Nat
    OBVIOUS
  <2> HIDE DEF T
  <2>4. 0 .. n - 1 \subseteq T
    BY <2>1, <2>2, <2>3, LoopInduction
  <2> QED
    BY <2>3, <2>4
<1>12. flatten[n] = f[n]
  <2>1. n - 1 + 1 = n
    OBVIOUS
  <2> QED
    BY <1>11, <2>1
<1> QED
  BY <1>5, <1>6, <1>9, <1>12 DEF Flattens

(* Parts that are joined.                                                  *)
AreThree(s, a, b, c) == s = (a \o b) \o c
AreFour(s, a, b, c, d) == s = ((a \o b) \o c) \o d
AreFive(s, a, b, c, d, e) == s = (((a \o b) \o c) \o d) \o e

LEMMA JoinThree ==
    ASSUME NEW S, NEW a \in Seq(S), NEW b \in Seq(S), NEW c \in Seq(S)
    PROVE  AreThree(FlattenSeq(<<a, b, c>>), a, b, c)
<1>1. PICK seqs : seqs = <<a, b, c>>
  OBVIOUS
<1>2. PICK n \in Nat : n = 3 /\ n >= 1
  OBVIOUS
<1>3. /\ seqs \in [1 .. n -> Seq(S)]
      /\ seqs[1] = a /\ seqs[2] = b /\ seqs[3] = c
  BY <1>1, <1>2
<1>4. PICK f : Flattens(f, S, n, seqs)
  BY <1>2, <1>3, FlattenIs
<1>5. f[1] = seqs[1] /\ \A i, k \in 1 .. n : k = i + 1 => f[k] = f[i] \o seqs[k]
  BY <1>4 DEF Flattens, Joins
<1>6. f[2] = f[1] \o b
  <2>1. 1 \in 1 .. n /\ 2 \in 1 .. n /\ 2 = 1 + 1
    BY <1>2
  <2> QED
    BY ONLY <1>3, <1>5, <2>1, Zenon
<1>7. f[3] = f[2] \o c
  <2>1. 2 \in 1 .. n /\ 3 \in 1 .. n /\ 3 = 2 + 1
    BY <1>2
  <2> QED
    BY ONLY <1>3, <1>5, <2>1, Zenon
<1> QED
  BY <1>1, <1>2, <1>3, <1>4, <1>5, <1>6, <1>7 DEF Flattens, AreThree

LEMMA JoinFour ==
    ASSUME NEW S, NEW a \in Seq(S), NEW b \in Seq(S), NEW c \in Seq(S), NEW d \in Seq(S)
    PROVE  AreFour(FlattenSeq(<<a, b, c, d>>), a, b, c, d)
<1>1. PICK seqs : seqs = <<a, b, c, d>>
  OBVIOUS
<1>2. PICK n \in Nat : n = 4 /\ n >= 1
  OBVIOUS
<1>3. /\ seqs \in [1 .. n -> Seq(S)]
      /\ seqs[1] = a /\ seqs[2] = b /\ seqs[3] = c /\ seqs[4] = d
  BY <1>1, <1>2
<1>4. PICK f : Flattens(f, S, n, seqs)
  BY <1>2, <1>3, FlattenIs
<1>5. f[1] = seqs[1] /\ \A i, k \in 1 .. n : k = i + 1 => f[k] = f[i] \o seqs[k]
  BY <1>4 DEF Flattens, Joins
<1>6. f[2] = f[1] \o b
  <2>1. 1 \in 1 .. n /\ 2 \in 1 .. n /\ 2 = 1 + 1
    BY <1>2
  <2> QED
    BY ONLY <1>3, <1>5, <2>1, Zenon
<1>7. f[3] = f[2] \o c
  <2>1. 2 \in 1 .. n /\ 3 \in 1 .. n /\ 3 = 2 + 1
    BY <1>2
  <2> QED
    BY ONLY <1>3, <1>5, <2>1, Zenon
<1>8. f[4] = f[3] \o d
  <2>1. 3 \in 1 .. n /\ 4 \in 1 .. n /\ 4 = 3 + 1
    BY <1>2
  <2> QED
    BY ONLY <1>3, <1>5, <2>1, Zenon
<1> QED
  BY <1>1, <1>2, <1>3, <1>4, <1>5, <1>6, <1>7, <1>8 DEF Flattens, AreFour

LEMMA JoinFive ==
    ASSUME NEW S, NEW a \in Seq(S), NEW b \in Seq(S), NEW c \in Seq(S), NEW d \in Seq(S),
           NEW e \in Seq(S)
    PROVE  AreFive(FlattenSeq(<<a, b, c, d, e>>), a, b, c, d, e)
<1>1. PICK seqs : seqs = <<a, b, c, d, e>>
  OBVIOUS
<1>2. PICK n \in Nat : n = 5 /\ n >= 1
  OBVIOUS
<1>3. /\ seqs \in [1 .. n -> Seq(S)]
      /\ seqs[1] = a /\ seqs[2] = b /\ seqs[3] = c /\ seqs[4] = d /\ seqs[5] = e
  BY <1>1, <1>2
<1>4. PICK f : Flattens(f, S, n, seqs)
  BY <1>2, <1>3, FlattenIs
<1>5. f[1] = seqs[1] /\ \A i, k \in 1 .. n : k = i + 1 => f[k] = f[i] \o seqs[k]
  BY <1>4 DEF Flattens, Joins
<1>6. f[2] = f[1] \o b
  <2>1. 1 \in 1 .. n /\ 2 \in 1 .. n /\ 2 = 1 + 1
    BY <1>2
  <2> QED
    BY ONLY <1>3, <1>5, <2>1, Zenon
<1>7. f[3] = f[2] \o c
  <2>1. 2 \in 1 .. n /\ 3 \in 1 .. n /\ 3 = 2 + 1
    BY <1>2
  <2> QED
    BY ONLY <1>3, <1>5, <2>1, Zenon
<1>8. f[4] = f[3] \o d
  <2>1. 3 \in 1 .. n /\ 4 \in 1 .. n /\ 4 = 3 + 1
    BY <1>2
  <2> QED
    BY ONLY <1>3, <1>5, <2>1, Zenon
<1>9. f[5] = f[4] \o e
  <2>1. 4 \in 1 .. n /\ 5 \in 1 .. n /\ 5 = 4 + 1
    BY <1>2
  <2> QED
    BY ONLY <1>3, <1>5, <2>1, Zenon
<1> QED
  BY <1>1, <1>2, <1>3, <1>4, <1>5, <1>6, <1>7, <1>8, <1>9 DEF Flattens, AreFive

(* A part of the bytes, after the first p of them.                         *)
At(bytes, p, part, w) == \A j \in 1 .. w : bytes[p + j] = part[j]

LEMMA JoinedAt ==
    ASSUME NEW a, NEW b, NEW m \in Nat, NEW n \in Nat, IsWritten(a, m), IsWritten(b, n)
    PROVE  /\ IsWritten(a \o b, m + n)
           /\ At(a \o b, m, b, n)
           /\ \A p \in Nat, w \in Nat : \A part :
                 At(a, p, part, w) /\ p + w <= m => At(a \o b, p, part, w)
<1>1. /\ a \in Seq(Byte) /\ Len(a) = m /\ b \in Seq(Byte) /\ Len(b) = n
  BY DEF IsWritten
<1>2. /\ a \o b \in Seq(Byte) /\ Len(a \o b) = m + n
      /\ \A i \in 1 .. m + n : (a \o b)[i] = IF i <= m THEN a[i] ELSE b[i - m]
  BY <1>1
<1>3. \A j \in 1 .. n : (a \o b)[m + j] = b[j]
  <2>1. \A j \in 1 .. n : m + j \in 1 .. m + n /\ ~(m + j <= m) /\ m + j - m = j
    OBVIOUS
  <2> QED
    BY <1>2, <2>1
<1>4. ASSUME NEW p \in Nat, NEW w \in Nat, p + w <= m, NEW j \in 1 .. w
      PROVE  (a \o b)[p + j] = a[p + j]
  <2>1. p + j \in 1 .. m + n /\ p + j <= m
    BY <1>4
  <2> QED
    BY <1>2, <2>1
<1> QED
  BY <1>2, <1>3, <1>4 DEF At, IsWritten

LEMMA FieldIs ==
    ASSUME NEW bytes, NEW p \in Nat, NEW w \in Nat, NEW part, IsWritten(part, w),
           At(bytes, p, part, w)
    PROVE  Field(bytes, p + w, w) = ValueOf(part)
<1>1. SubSeq(bytes, (p + w) - w + 1, p + w) = part
  <2>1. PICK l \in Nat : l = p + 1 /\ (p + w) - w + 1 = l
    OBVIOUS
  <2>2. SubSeq(bytes, l, p + w) = [i \in 1 .. (1 + (p + w) - l) |-> bytes[i + l - 1]]
    OBVIOUS
  <2>3. 1 + (p + w) - l = w /\ \A i \in 1 .. w : i + l - 1 = p + i
    BY <2>1
  <2>4. part = [i \in 1 .. w |-> part[i]]
    BY DEF IsWritten
  <2>5. \A i \in 1 .. w : bytes[p + i] = part[i]
    BY DEF At
  <2>6. [i \in 1 .. (1 + (p + w) - l) |-> bytes[i + l - 1]] = [i \in 1 .. w |-> part[i]]
    BY <2>3, <2>5
  <2> QED
    BY <2>1, <2>2, <2>4, <2>6
<1> QED
  BY <1>1 DEF Field
LEMMA AtInside ==
    ASSUME NEW bytes, NEW p \in Nat, NEW e, NEW l \in Nat, At(bytes, p, e, l),
           NEW o \in Nat, NEW part, NEW w \in Nat, At(e, o, part, w), o + w <= l
    PROVE  At(bytes, p + o, part, w)
<1>1. ASSUME NEW j \in 1 .. w PROVE bytes[p + o + j] = part[j]
  <2>1. PICK k \in 1 .. l : k = o + j /\ p + o + j = p + k
    OBVIOUS
  <2> QED
    BY <2>1 DEF At
<1> QED
  BY <1>1 DEF At

(* Rows of the same length.                                                *)
RowsIn(bytes, n, l, rows) ==
    /\ IsWritten(bytes, n * l)
    /\ \A i \in 1 .. n : At(bytes, (i - 1) * l, rows[i], l)

LEMMA RowsAt ==
    ASSUME NEW n \in Nat, n >= 1, NEW l \in Nat, NEW rows, DOMAIN rows = 1 .. n,
           rows = [i \in 1 .. n |-> rows[i]], \A i \in 1 .. n : IsWritten(rows[i], l)
    PROVE  RowsIn(FlattenSeq(rows), n, l, rows)
<1>1. rows \in [1 .. n -> Seq(Byte)]
  BY DEF IsWritten
<1>2. PICK f : Flattens(f, Byte, n, rows)
  BY <1>1, FlattenIs
<1>3. f[1] = rows[1] /\ \A i, k \in 1 .. n : k = i + 1 => f[k] = f[i] \o rows[k]
  BY <1>2 DEF Flattens, Joins
<1> DEFINE T == {k \in 0 .. n - 1 : RowsIn(f[k + 1], k + 1, l, rows)}
<1>4. 0 \in T
  <2>1. 1 \in 1 .. n /\ 0 + 1 = 1 /\ 1 * l = l /\ (1 - 1) * l = 0
    OBVIOUS
  <2>2. IsWritten(f[1], 1 * l)
    BY <1>3, <2>1
  <2>3. \A i \in 1 .. 1 : At(f[1], (i - 1) * l, rows[i], l)
    <3>1. \A j \in 1 .. l : 0 + j = j
      OBVIOUS
    <3>2. At(f[1], 0, rows[1], l)
      BY <1>3, <3>1 DEF At
    <3> QED
      BY <2>1, <3>2
  <2>4. RowsIn(f[1], 1, l, rows)
    BY <2>2, <2>3 DEF RowsIn
  <2> QED
    BY <2>1, <2>4
<1>5. ASSUME NEW i \in 1 .. n - 1, i - 1 \in T PROVE i \in T
  <2>1. PICK k \in 1 .. n : k = i + 1 /\ i \in 1 .. n /\ i - 1 + 1 = i
    OBVIOUS
  <2>2. IsWritten(f[i], i * l) /\ \A j \in 1 .. i : At(f[i], (j - 1) * l, rows[j], l)
    BY <1>5, <2>1 DEF RowsIn
  <2>3. PICK m \in Nat : m = i * l /\ k * l = m + l
    BY <2>1
  <2>4. PICK a, b : a = f[i] /\ b = rows[k] /\ f[k] = a \o b
    <3>1. f[k] = f[i] \o rows[k]
      BY ONLY <1>3, <2>1, Zenon
    <3> QED
      BY ONLY <3>1, Zenon
  <2>5. IsWritten(a, m) /\ IsWritten(b, l)
    BY <2>1, <2>2, <2>3, <2>4
  <2>6. /\ IsWritten(a \o b, m + l) /\ At(a \o b, m, b, l)
        /\ \A p \in Nat, w \in Nat : \A part :
              At(a, p, part, w) /\ p + w <= m => At(a \o b, p, part, w)
    BY <2>5, JoinedAt
  <2>7. PICK c : c = a \o b /\ c = f[k]
    BY <2>4
  <2>8. /\ IsWritten(c, m + l) /\ At(c, m, b, l)
        /\ \A p \in Nat, w \in Nat : \A part :
              At(a, p, part, w) /\ p + w <= m => At(c, p, part, w)
    BY ONLY <2>6, <2>7, Zenon
  <2>9. ASSUME NEW j \in 1 .. k PROVE At(c, (j - 1) * l, rows[j], l)
    <3>1. CASE j = k
      <4>1. (k - 1) * l = m
        BY <2>1, <2>3
      <4> QED
        BY <2>4, <2>8, <3>1, <4>1
    <3>2. CASE j # k
      <4>1. j \in 1 .. i
        BY <2>1, <3>2
      <4>2. PICK p \in Nat : p = (j - 1) * l /\ p + l <= m
        <5>1. (j - 1) * l \in Nat /\ (j - 1) * l + l = j * l
          OBVIOUS
        <5>2. j * l <= i * l
          <6>1. i - j \in Nat
            BY <4>1
          <6>2. i * l = j * l + (i - j) * l /\ (i - j) * l \in Nat
            BY <6>1
          <6> QED
            BY <6>2
        <5> QED
          BY <2>3, <5>1, <5>2
      <4>3. At(a, p, rows[j], l)
        BY <2>2, <2>4, <4>1, <4>2
      <4> QED
        BY <2>8, <4>2, <4>3
    <3> QED
      BY <3>1, <3>2
  <2>10. RowsIn(c, k, l, rows)
    BY <2>3, <2>8, <2>9 DEF RowsIn
  <2>11. i + 1 = k /\ i \in 0 .. n - 1
    BY <2>1
  <2> QED
    BY <2>7, <2>10, <2>11
<1>6. PICK m \in Nat : m = n - 1 /\ m + 1 = n
  <2>1. n - 1 \in Nat /\ n - 1 + 1 = n
    OBVIOUS
  <2> QED
    BY <2>1
<1> HIDE DEF T
<1>7. m \in T
  <2>1. 0 .. m \subseteq T
    BY <1>4, <1>5, <1>6, LoopInduction
  <2> QED
    BY <1>6, <2>1
<1>8. RowsIn(f[n], n, l, rows)
  BY <1>6, <1>7 DEF T
<1> QED
  BY <1>2, <1>8 DEF Flattens

(* A field of the contract is the number that the client wrote there.      *)
LEMMA StateIDIs ==
    ASSUME NEW x \in Nat, hexZeroPad(x, stateIDLen) # Refused,
           NEW bytes, NEW p \in Nat, At(bytes, p, hexZeroPad(x, stateIDLen), 4),
           NEW end, end = p + 4
    PROVE  StateIDAt(bytes, end) = x
<1>1. PICK part : part = hexZeroPad(x, stateIDLen) /\ IsWritten(part, 4) /\ ValueOf(part) = x
  BY IndicesAreRead
<1>2. Field(bytes, p + 4, 4) = x
  BY <1>1, FieldIs
<1> QED
  BY <1>2 DEF StateIDAt, stateIDLen

LEMMA AmountIs ==
    ASSUME NEW x \in Nat, encodeInt(x) # Refused,
           NEW bytes, NEW p \in Nat, At(bytes, p, encodeInt(x), 2), NEW end, end = p + 2
    PROVE  AmountAt(bytes, end) = x
<1>1. PICK part : /\ part = encodeInt(x) /\ IsWritten(part, 2)
                  /\ decodeInt(ValueOf(part)) = x
  BY IntegersAreRead
<1>2. PICK v : v = Field(bytes, p + 2, 2)
  OBVIOUS
<1>3. v = ValueOf(part)
  BY <1>1, <1>2, FieldIs
<1>4. AmountAt(bytes, end) = decodeInt(v)
  BY <1>2 DEF AmountAt, amountLen
<1> QED
  BY <1>1, <1>3, <1>4
-----------------------------------------------------------------------------
(* Parts that are all written are joined.                                  *)
LEMMA Concats ==
    ASSUME NEW parts, concat(parts) # Refused
    PROVE  /\ \A i \in DOMAIN parts : parts[i] # Refused
           /\ concat(parts) = FlattenSeq(parts)
BY DEF concat

LEMMA ConcatThree ==
    ASSUME NEW a, NEW b, NEW c, concat(<<a, b, c>>) # Refused
    PROVE  /\ a # Refused /\ b # Refused /\ c # Refused
           /\ concat(<<a, b, c>>) = FlattenSeq(<<a, b, c>>)
<1>1. PICK parts : parts = <<a, b, c>>
  OBVIOUS
<1>2. DOMAIN parts = 1 .. 3 /\ parts[1] = a /\ parts[2] = b /\ parts[3] = c
  BY <1>1
<1>3. /\ \A i \in 1 .. 3 : parts[i] # Refused
      /\ concat(parts) = FlattenSeq(parts)
  BY <1>1, <1>2, Concats
<1> QED
  BY <1>1, <1>2, <1>3

LEMMA ConcatFour ==
    ASSUME NEW a, NEW b, NEW c, NEW d, concat(<<a, b, c, d>>) # Refused
    PROVE  /\ a # Refused /\ b # Refused /\ c # Refused /\ d # Refused
           /\ concat(<<a, b, c, d>>) = FlattenSeq(<<a, b, c, d>>)
<1>1. PICK parts : parts = <<a, b, c, d>>
  OBVIOUS
<1>2. DOMAIN parts = 1 .. 4 /\ parts[1] = a /\ parts[2] = b /\ parts[3] = c /\ parts[4] = d
  BY <1>1
<1>3. /\ \A i \in 1 .. 4 : parts[i] # Refused
      /\ concat(parts) = FlattenSeq(parts)
  BY <1>1, <1>2, Concats
<1> QED
  BY <1>1, <1>2, <1>3

LEMMA ConcatFive ==
    ASSUME NEW a, NEW b, NEW c, NEW d, NEW e, concat(<<a, b, c, d, e>>) # Refused
    PROVE  /\ a # Refused /\ b # Refused /\ c # Refused /\ d # Refused /\ e # Refused
           /\ concat(<<a, b, c, d, e>>) = FlattenSeq(<<a, b, c, d, e>>)
<1>1. PICK parts : parts = <<a, b, c, d, e>>
  OBVIOUS
<1>2. DOMAIN parts = 1 .. 5 /\ parts[1] = a /\ parts[2] = b /\ parts[3] = c /\ parts[4] = d
      /\ parts[5] = e
  BY <1>1
<1>3. /\ \A i \in 1 .. 5 : parts[i] # Refused
      /\ concat(parts) = FlattenSeq(parts)
  BY <1>1, <1>2, Concats
<1> QED
  BY <1>1, <1>2, <1>3

(* One more part at the end of bytes.                                      *)
Extends(s, n, a, m, b, w) ==
    /\ n = m + w /\ IsWritten(s, n) /\ At(s, m, b, w)
    /\ \A p \in Nat, v \in Nat : \A part : At(a, p, part, v) /\ p + v <= m => At(s, p, part, v)

LEMMA ExtendsBy ==
    ASSUME NEW a, NEW b, NEW m \in Nat, NEW w \in Nat, IsWritten(a, m), IsWritten(b, w),
           NEW n, n = m + w
    PROVE  Extends(a \o b, n, a, m, b, w)
<1>1. /\ IsWritten(a \o b, m + w) /\ At(a \o b, m, b, w)
      /\ \A p \in Nat, v \in Nat : \A part :
            At(a, p, part, v) /\ p + v <= m => At(a \o b, p, part, v)
  BY JoinedAt
<1> QED
  BY ONLY <1>1, n = m + w, Zenon DEF Extends

LEMMA StartsWith ==
    ASSUME NEW a, NEW w
    PROVE  At(a, 0, a, w)
BY DEF At

LEMMA ThreeParts ==
    ASSUME NEW a, NEW b, NEW c, IsWritten(a, 4), IsWritten(b, 2), IsWritten(c, 2),
           NEW s, s = FlattenSeq(<<a, b, c>>)
    PROVE  /\ IsWritten(s, 8)
           /\ At(s, 0, a, 4) /\ At(s, 4, b, 2) /\ At(s, 6, c, 2)
<1>0. s = (a \o b) \o c
  <2>1. a \in Seq(Byte) /\ b \in Seq(Byte) /\ c \in Seq(Byte)
    BY DEF IsWritten
  <2>2. AreThree(FlattenSeq(<<a, b, c>>), a, b, c)
    BY ONLY <2>1, JoinThree
  <2> QED
    BY ONLY <2>2, s = FlattenSeq(<<a, b, c>>), Zenon DEF AreThree
<1>1. PICK ab : ab = a \o b
  OBVIOUS
<1>2. Extends(ab, 6, a, 4, b, 2)
  BY <1>1, ExtendsBy
<1>3. s = ab \o c
  BY ONLY <1>0, <1>1, Zenon
<1>4. Extends(s, 8, ab, 6, c, 2)
  <2>1. IsWritten(ab, 6)
    BY <1>2 DEF Extends
  <2>2. Extends(ab \o c, 8, ab, 6, c, 2)
    BY <2>1, ExtendsBy
  <2> QED
    BY ONLY <1>3, <2>2, Zenon
<1>5. At(ab, 0, a, 4) /\ At(ab, 4, b, 2)
  BY <1>2, StartsWith DEF Extends
<1> QED
  BY <1>4, <1>5 DEF Extends

LEMMA FourParts ==
    ASSUME NEW a, NEW b, NEW c, NEW d, IsWritten(a, 4), IsWritten(b, 4), IsWritten(c, 2),
           IsWritten(d, 2), NEW s, s = FlattenSeq(<<a, b, c, d>>)
    PROVE  /\ IsWritten(s, 12)
           /\ At(s, 0, a, 4) /\ At(s, 4, b, 4) /\ At(s, 8, c, 2) /\ At(s, 10, d, 2)
<1>0. s = ((a \o b) \o c) \o d
  <2>1. a \in Seq(Byte) /\ b \in Seq(Byte) /\ c \in Seq(Byte) /\ d \in Seq(Byte)
    BY DEF IsWritten
  <2>2. AreFour(FlattenSeq(<<a, b, c, d>>), a, b, c, d)
    BY ONLY <2>1, JoinFour
  <2> QED
    BY ONLY <2>2, s = FlattenSeq(<<a, b, c, d>>), Zenon DEF AreFour
<1>1. PICK ab, abc : ab = a \o b /\ abc = ab \o c
  OBVIOUS
<1>2. Extends(ab, 8, a, 4, b, 4)
  BY <1>1, ExtendsBy
<1>3. Extends(abc, 10, ab, 8, c, 2)
  <2>1. IsWritten(ab, 8)
    BY <1>2 DEF Extends
  <2> QED
    BY <1>1, <2>1, ExtendsBy
<1>4. Extends(s, 12, abc, 10, d, 2)
  <2>1. IsWritten(abc, 10)
    BY <1>3 DEF Extends
  <2>2. Extends(abc \o d, 12, abc, 10, d, 2)
    BY <2>1, ExtendsBy
  <2>3. s = abc \o d
    BY ONLY <1>0, <1>1, Zenon
  <2> QED
    BY ONLY <2>2, <2>3, Zenon
<1>5. At(ab, 0, a, 4) /\ At(ab, 4, b, 4)
  BY <1>2, StartsWith DEF Extends
<1>6. At(abc, 0, a, 4) /\ At(abc, 4, b, 4) /\ At(abc, 8, c, 2)
  BY <1>3, <1>5 DEF Extends
<1> QED
  BY <1>4, <1>6 DEF Extends

LEMMA FiveParts ==
    ASSUME NEW a, NEW b, NEW c, NEW d, NEW e, IsWritten(a, 4), IsWritten(b, 4),
           IsWritten(c, 4), IsWritten(d, 2), IsWritten(e, 2),
           NEW s, s = FlattenSeq(<<a, b, c, d, e>>)
    PROVE  /\ IsWritten(s, 16)
           /\ At(s, 0, a, 4) /\ At(s, 4, b, 4) /\ At(s, 8, c, 4) /\ At(s, 12, d, 2)
           /\ At(s, 14, e, 2)
<1>0. s = (((a \o b) \o c) \o d) \o e
  <2>1. a \in Seq(Byte) /\ b \in Seq(Byte) /\ c \in Seq(Byte) /\ d \in Seq(Byte) /\ e \in Seq(Byte)
    BY DEF IsWritten
  <2>2. AreFive(FlattenSeq(<<a, b, c, d, e>>), a, b, c, d, e)
    BY ONLY <2>1, JoinFive
  <2> QED
    BY ONLY <2>2, s = FlattenSeq(<<a, b, c, d, e>>), Zenon DEF AreFive
<1>1. PICK ab, abc, abcd : ab = a \o b /\ abc = ab \o c /\ abcd = abc \o d
  OBVIOUS
<1>2. Extends(ab, 8, a, 4, b, 4)
  BY <1>1, ExtendsBy
<1>3. Extends(abc, 12, ab, 8, c, 4)
  <2>1. IsWritten(ab, 8)
    BY <1>2 DEF Extends
  <2> QED
    BY <1>1, <2>1, ExtendsBy
<1>4. Extends(abcd, 14, abc, 12, d, 2)
  <2>1. IsWritten(abc, 12)
    BY <1>3 DEF Extends
  <2> QED
    BY <1>1, <2>1, ExtendsBy
<1>5. Extends(s, 16, abcd, 14, e, 2)
  <2>1. IsWritten(abcd, 14)
    BY <1>4 DEF Extends
  <2>2. Extends(abcd \o e, 16, abcd, 14, e, 2)
    BY <2>1, ExtendsBy
  <2>3. s = abcd \o e
    BY ONLY <1>0, <1>1, Zenon
  <2> QED
    BY ONLY <2>2, <2>3, Zenon
<1>6. At(ab, 0, a, 4) /\ At(ab, 4, b, 4)
  BY <1>2, StartsWith DEF Extends
<1>7. At(abc, 0, a, 4) /\ At(abc, 4, b, 4) /\ At(abc, 8, c, 4)
  BY <1>3, <1>6 DEF Extends
<1>8. At(abcd, 0, a, 4) /\ At(abcd, 4, b, 4) /\ At(abcd, 8, c, 4) /\ At(abcd, 12, d, 2)
  BY <1>4, <1>7 DEF Extends
<1> QED
  BY <1>5, <1>8 DEF Extends
-----------------------------------------------------------------------------
(* A transaction as it is listed, and what the contract reads of it.       *)
Plain(tx) ==
    CASE tx.kind = "Transfer" ->
            [fromIndex |-> tx.fromIndex, toIndex |-> tx.toIndex, amount |-> tx.amount,
             fee |-> tx.fee]
      [] tx.kind = "MassMigration" ->
            [fromIndex |-> tx.fromIndex, amount |-> tx.amount, fee |-> tx.fee]
      [] tx.kind = "Create2Transfer" ->
            [fromIndex |-> tx.fromIndex, toIndex |-> tx.toIndex, toAccID |-> tx.toAccID,
             amount |-> tx.amount, fee |-> tx.fee]

(* Each field of it can be written.                                        *)
Fits(tx) ==
    /\ hexZeroPad(tx.fromIndex, stateIDLen) # Refused
    /\ tx.kind # "MassMigration" => hexZeroPad(tx.toIndex, stateIDLen) # Refused
    /\ tx.kind = "Create2Transfer" => hexZeroPad(tx.toAccID, stateIDLen) # Refused
    /\ encodeInt(tx.amount) # Refused /\ encodeInt(tx.fee) # Refused

IsListed(tx, kind) ==
    /\ Fits(tx) /\ IsWritten(Encoded(tx), TX_LEN(kind))
    /\ \A index \in Nat : \A bytes :
          At(bytes, index * TX_LEN(kind), Encoded(tx), TX_LEN(kind))
             => Decoded(kind, bytes, index) = Plain(tx)

LEMMA TransferIsListed ==
    ASSUME NEW tx \in TxOf("Transfer"), encodeTransfer(tx) # Refused
    PROVE  IsListed(tx, "Transfer")
<1>1. /\ tx.kind = "Transfer" /\ tx.fromIndex \in Nat /\ tx.toIndex \in Nat
      /\ tx.amount \in Nat /\ tx.fee \in Nat
  BY DEF TxOf
<1>2. PICK a, b, c, d :
         /\ a = hexZeroPad(tx.fromIndex, stateIDLen) /\ b = hexZeroPad(tx.toIndex, stateIDLen)
         /\ c = encodeInt(tx.amount) /\ d = encodeInt(tx.fee)
  OBVIOUS
<1>3. encodeTransfer(tx) = concat(<<a, b, c, d>>)
  BY <1>2 DEF encodeTransfer
<1>4. /\ a # Refused /\ b # Refused /\ c # Refused /\ d # Refused
      /\ concat(<<a, b, c, d>>) = FlattenSeq(<<a, b, c, d>>)
  BY <1>3, ConcatFour
<1>5. IsWritten(a, 4) /\ IsWritten(b, 4) /\ IsWritten(c, 2) /\ IsWritten(d, 2)
  BY <1>1, <1>2, <1>4, IndicesAreRead, IntegersAreRead
<1>6. PICK e : e = Encoded(tx) /\ e = FlattenSeq(<<a, b, c, d>>)
  BY <1>1, <1>3, <1>4 DEF Encoded
<1>7. /\ IsWritten(e, 12)
      /\ At(e, 0, a, 4) /\ At(e, 4, b, 4) /\ At(e, 8, c, 2) /\ At(e, 10, d, 2)
  BY <1>5, <1>6, FourParts
<1>8. TX_LEN("Transfer") = 12
  BY DEF TX_LEN
<1>9. ASSUME NEW index \in Nat, NEW bytes, At(bytes, index * 12, e, 12)
      PROVE  Decoded("Transfer", bytes, index) = Plain(tx)
  <2>1. PICK p \in Nat : p = index * 12
    OBVIOUS
  <2>2. At(bytes, p + 0, a, 4) /\ At(bytes, p + 4, b, 4) /\ At(bytes, p + 8, c, 2)
        /\ At(bytes, p + 10, d, 2)
    BY <1>7, <1>9, <2>1, AtInside
  <2>3. StateIDAt(bytes, p + 4) = tx.fromIndex
    BY <1>1, <1>2, <1>4, <2>2, StateIDIs
  <2>4. StateIDAt(bytes, p + 8) = tx.toIndex
    BY <1>1, <1>2, <1>4, <2>2, StateIDIs
  <2>5. AmountAt(bytes, p + 10) = tx.amount
    BY <1>1, <1>2, <1>4, <2>2, AmountIs
  <2>6. AmountAt(bytes, p + 12) = tx.fee
    BY <1>1, <1>2, <1>4, <2>2, AmountIs
  <2>7. transferDecode(bytes, index) =
          [fromIndex |-> tx.fromIndex, toIndex |-> tx.toIndex, amount |-> tx.amount,
           fee |-> tx.fee]
    BY <1>8, <2>1, <2>3, <2>4, <2>5, <2>6 DEF transferDecode
  <2> QED
    BY <1>1, <2>7 DEF Decoded, Plain
<1>10. Fits(tx)
  BY <1>1, <1>2, <1>4 DEF Fits
<1> QED
  BY <1>6, <1>7, <1>8, <1>9, <1>10 DEF IsListed

LEMMA MassMigrationIsListed ==
    ASSUME NEW tx \in TxOf("MassMigration"), encodeMassMigration(tx) # Refused
    PROVE  IsListed(tx, "MassMigration")
<1>1. /\ tx.kind = "MassMigration" /\ tx.fromIndex \in Nat
      /\ tx.amount \in Nat /\ tx.fee \in Nat
  BY DEF TxOf
<1>2. PICK a, b, c :
         /\ a = hexZeroPad(tx.fromIndex, stateIDLen)
         /\ b = encodeInt(tx.amount) /\ c = encodeInt(tx.fee)
  OBVIOUS
<1>3. encodeMassMigration(tx) = concat(<<a, b, c>>)
  BY <1>2 DEF encodeMassMigration
<1>4. /\ a # Refused /\ b # Refused /\ c # Refused
      /\ concat(<<a, b, c>>) = FlattenSeq(<<a, b, c>>)
  BY <1>3, ConcatThree
<1>5. IsWritten(a, 4) /\ IsWritten(b, 2) /\ IsWritten(c, 2)
  BY <1>1, <1>2, <1>4, IndicesAreRead, IntegersAreRead
<1>6. PICK e : e = Encoded(tx) /\ e = FlattenSeq(<<a, b, c>>)
  BY <1>1, <1>3, <1>4 DEF Encoded
<1>7. IsWritten(e, 8) /\ At(e, 0, a, 4) /\ At(e, 4, b, 2) /\ At(e, 6, c, 2)
  BY <1>5, <1>6, ThreeParts
<1>8. TX_LEN("MassMigration") = 8
  BY DEF TX_LEN
<1>9. ASSUME NEW index \in Nat, NEW bytes, At(bytes, index * 8, e, 8)
      PROVE  Decoded("MassMigration", bytes, index) = Plain(tx)
  <2>1. PICK p \in Nat : p = index * 8
    OBVIOUS
  <2>2. At(bytes, p + 0, a, 4) /\ At(bytes, p + 4, b, 2) /\ At(bytes, p + 6, c, 2)
    BY <1>7, <1>9, <2>1, AtInside
  <2>3. StateIDAt(bytes, p + 4) = tx.fromIndex
    BY <1>1, <1>2, <1>4, <2>2, StateIDIs
  <2>4. AmountAt(bytes, p + 6) = tx.amount
    BY <1>1, <1>2, <1>4, <2>2, AmountIs
  <2>5. AmountAt(bytes, p + 8) = tx.fee
    BY <1>1, <1>2, <1>4, <2>2, AmountIs
  <2>6. massMigrationDecode(bytes, index) =
          [fromIndex |-> tx.fromIndex, amount |-> tx.amount, fee |-> tx.fee]
    BY <1>8, <2>1, <2>3, <2>4, <2>5 DEF massMigrationDecode
  <2> QED
    BY <1>1, <2>6 DEF Decoded, Plain
<1>10. Fits(tx)
  BY <1>1, <1>2, <1>4 DEF Fits
<1> QED
  BY <1>6, <1>7, <1>8, <1>9, <1>10 DEF IsListed

LEMMA Create2TransferIsListed ==
    ASSUME NEW tx \in TxOf("Create2Transfer"), encodeCreate2Transfer(tx) # Refused
    PROVE  IsListed(tx, "Create2Transfer")
<1>1. /\ tx.kind = "Create2Transfer" /\ tx.fromIndex \in Nat /\ tx.toIndex \in Nat
      /\ tx.toAccID \in Nat /\ tx.amount \in Nat /\ tx.fee \in Nat
  BY DEF TxOf
<1>2. PICK a, b, c, d, f :
         /\ a = hexZeroPad(tx.fromIndex, stateIDLen) /\ b = hexZeroPad(tx.toIndex, stateIDLen)
         /\ c = hexZeroPad(tx.toAccID, stateIDLen)
         /\ d = encodeInt(tx.amount) /\ f = encodeInt(tx.fee)
  OBVIOUS
<1>3. encodeCreate2Transfer(tx) = concat(<<a, b, c, d, f>>)
  BY <1>2 DEF encodeCreate2Transfer
<1>4. /\ a # Refused /\ b # Refused /\ c # Refused /\ d # Refused /\ f # Refused
      /\ concat(<<a, b, c, d, f>>) = FlattenSeq(<<a, b, c, d, f>>)
  BY <1>3, ConcatFive
<1>5. IsWritten(a, 4) /\ IsWritten(b, 4) /\ IsWritten(c, 4) /\ IsWritten(d, 2)
      /\ IsWritten(f, 2)
  BY <1>1, <1>2, <1>4, IndicesAreRead, IntegersAreRead
<1>6. PICK e : e = Encoded(tx) /\ e = FlattenSeq(<<a, b, c, d, f>>)
  BY <1>1, <1>3, <1>4 DEF Encoded
<1>7. /\ IsWritten(e, 16)
      /\ At(e, 0, a, 4) /\ At(e, 4, b, 4) /\ At(e, 8, c, 4) /\ At(e, 12, d, 2)
      /\ At(e, 14, f, 2)
  BY <1>5, <1>6, FiveParts
<1>8. TX_LEN("Create2Transfer") = 16
  BY DEF TX_LEN
<1>9. ASSUME NEW index \in Nat, NEW bytes, At(bytes, index * 16, e, 16)
      PROVE  Decoded("Create2Transfer", bytes, index) = Plain(tx)
  <2>1. PICK p \in Nat : p = index * 16
    OBVIOUS
  <2>2. At(bytes, p + 0, a, 4) /\ At(bytes, p + 4, b, 4) /\ At(bytes, p + 8, c, 4)
        /\ At(bytes, p + 12, d, 2) /\ At(bytes, p + 14, f, 2)
    BY <1>7, <1>9, <2>1, AtInside
  <2>3. StateIDAt(bytes, p + 4) = tx.fromIndex
    BY <1>1, <1>2, <1>4, <2>2, StateIDIs
  <2>4. StateIDAt(bytes, p + 8) = tx.toIndex
    BY <1>1, <1>2, <1>4, <2>2, StateIDIs
  <2>5. StateIDAt(bytes, p + 12) = tx.toAccID
    BY <1>1, <1>2, <1>4, <2>2, StateIDIs
  <2>6. AmountAt(bytes, p + 14) = tx.amount
    BY <1>1, <1>2, <1>4, <2>2, AmountIs
  <2>7. AmountAt(bytes, p + 16) = tx.fee
    BY <1>1, <1>2, <1>4, <2>2, AmountIs
  <2>8. create2TransferDecode(bytes, index) =
          [fromIndex |-> tx.fromIndex, toIndex |-> tx.toIndex, toAccID |-> tx.toAccID,
           amount |-> tx.amount, fee |-> tx.fee]
    BY <1>8, <2>1, <2>3, <2>4, <2>5, <2>6, <2>7 DEF create2TransferDecode
  <2> QED
    BY <1>1, <2>8 DEF Decoded, Plain
<1>10. Fits(tx)
  BY <1>1, <1>2, <1>4 DEF Fits
<1> QED
  BY <1>6, <1>7, <1>8, <1>9, <1>10 DEF IsListed

LEMMA TxIsListed ==
    ASSUME NEW kind \in TxKinds, NEW tx \in TxOf(kind), Encoded(tx) # Refused
    PROVE  IsListed(tx, kind) /\ tx.kind = kind
<1>1. CASE kind = "Transfer"
  <2>1. tx.kind = "Transfer" /\ tx \in TxOf("Transfer")
    BY <1>1 DEF TxOf
  <2> QED
    BY <1>1, <2>1, TransferIsListed DEF Encoded
<1>2. CASE kind = "MassMigration"
  <2>1. tx.kind = "MassMigration" /\ tx \in TxOf("MassMigration")
    BY <1>2 DEF TxOf
  <2> QED
    BY <1>2, <2>1, MassMigrationIsListed DEF Encoded
<1>3. CASE kind = "Create2Transfer"
  <2>1. tx.kind = "Create2Transfer" /\ tx \in TxOf("Create2Transfer")
    BY <1>3 DEF TxOf
  <2> QED
    BY <1>3, <2>1, Create2TransferIsListed DEF Encoded
<1> QED
  BY <1>1, <1>2, <1>3 DEF TxKinds

(* A list that is serialized is read back.                                 *)
IsRead(kind, list) ==
    LET bytes == serialize(list)
    IN  /\ size(kind, bytes) = Len(list) /\ ~hasExcessData(kind, bytes)
        /\ \A i \in 1 .. Len(list) : /\ list[i].kind = kind /\ Fits(list[i])
                                     /\ Decoded(kind, bytes, i - 1) = Plain(list[i])

LEMMA ListIsRead ==
    ASSUME NEW kind \in TxKinds, NEW list \in Seq(TxOf(kind)), list # <<>>,
           serialize(list) # Refused
    PROVE  IsRead(kind, list)
<1>1. PICK n \in Nat : /\ n = Len(list) /\ DOMAIN list = 1 .. n /\ n >= 1
                       /\ \A i \in 1 .. n : list[i] \in TxOf(kind)
  <2>1. Len(list) \in Nat /\ Len(list) # 0 /\ DOMAIN list = 1 .. Len(list)
        /\ \A i \in 1 .. Len(list) : list[i] \in TxOf(kind)
    BY EmptySeq
  <2>2. PICK m : m = Len(list)
    OBVIOUS
  <2>3. m >= 1
    BY <2>1, <2>2
  <2> QED
    BY <2>1, <2>2, <2>3
<1>2. PICK rows : rows = [i \in 1 .. n |-> Encoded(list[i])]
  OBVIOUS
<1>3. serialize(list) = concat(rows)
  BY <1>1, <1>2 DEF serialize
<1>4. DOMAIN rows = 1 .. n /\ rows = [i \in 1 .. n |-> rows[i]]
      /\ \A i \in 1 .. n : rows[i] = Encoded(list[i])
  BY <1>2
<1>5. (\A i \in 1 .. n : rows[i] # Refused) /\ concat(rows) = FlattenSeq(rows)
  BY <1>3, <1>4, Concats
<1>6. \A i \in 1 .. n : IsListed(list[i], kind) /\ list[i].kind = kind
  BY <1>1, <1>4, <1>5, TxIsListed
<1>7. PICK l \in Nat : l = TX_LEN(kind) /\ l >= 1
  <2>1. kind = "Transfer" \/ kind = "MassMigration" \/ kind = "Create2Transfer"
    BY DEF TxKinds
  <2>2. TX_LEN(kind) \in {12, 16, 8}
    BY <2>1 DEF TX_LEN
  <2> QED
    BY <2>2
<1>8. \A i \in 1 .. n : IsWritten(rows[i], l)
  BY <1>4, <1>6, <1>7 DEF IsListed
<1>9. PICK bytes : bytes = FlattenSeq(rows) /\ bytes = serialize(list)
  BY <1>3, <1>5
<1>10. RowsIn(bytes, n, l, rows)
  BY <1>1, <1>4, <1>7, <1>8, <1>9, RowsAt
<1>11. Len(bytes) = n * l
  BY <1>10 DEF RowsIn, IsWritten
<1>12. (n * l) \div l = n /\ (n * l) % l = 0
  <2>1. (n * l + 0) \div l = n /\ (n * l + 0) % l = 0
    <3>1. 0 \in 0 .. l - 1
      BY <1>7
    <3> QED
      BY <1>7, <3>1, BlockOf
  <2>2. n * l + 0 = n * l
    OBVIOUS
  <2> QED
    BY <2>1, <2>2
<1>13. ASSUME NEW i \in 1 .. n PROVE Decoded(kind, bytes, i - 1) = Plain(list[i])
  <2>1. At(bytes, (i - 1) * l, Encoded(list[i]), l) /\ i - 1 \in Nat
    BY <1>4, <1>10 DEF RowsIn
  <2> QED
    BY <1>6, <1>7, <2>1 DEF IsListed
<1>14. \A i \in 1 .. n : list[i].kind = kind /\ Fits(list[i])
  BY <1>6 DEF IsListed
<1>15. size(kind, bytes) = n /\ ~hasExcessData(kind, bytes)
  BY <1>7, <1>11, <1>12 DEF size, hasExcessData
<1> QED
  BY <1>1, <1>9, <1>13, <1>14, <1>15 DEF IsRead
-----------------------------------------------------------------------------
(* What a message has besides the bytes of the transaction.                *)
More(kind, tx) == CASE kind = "Transfer" -> <<>>
                    [] kind = "MassMigration" -> <<tx.spokeID>>
                    [] kind = "Create2Transfer" -> <<tx.fromPubkey, tx.toPubkey>>

IsRestored(tx, plain) == \A field \in DOMAIN plain : plain[field] = tx[field]

LEMMA PlainIs ==
    ASSUME NEW kind \in TxKinds, NEW tx \in TxOf(kind)
    PROVE  IsRestored(tx, Plain(tx)) /\ tx.kind = kind
<1>1. CASE kind = "Transfer"
  <2>1. tx.kind = "Transfer"
    BY <1>1 DEF TxOf
  <2>2. Plain(tx) = [fromIndex |-> tx.fromIndex, toIndex |-> tx.toIndex,
                     amount |-> tx.amount, fee |-> tx.fee]
    BY <2>1 DEF Plain
  <2> QED
    BY <1>1, <2>1, <2>2 DEF IsRestored
<1>2. CASE kind = "MassMigration"
  <2>1. tx.kind = "MassMigration"
    BY <1>2 DEF TxOf
  <2>2. Plain(tx) = [fromIndex |-> tx.fromIndex, amount |-> tx.amount, fee |-> tx.fee]
    BY <2>1 DEF Plain
  <2> QED
    BY <1>2, <2>1, <2>2 DEF IsRestored
<1>3. CASE kind = "Create2Transfer"
  <2>1. tx.kind = "Create2Transfer"
    BY <1>3 DEF TxOf
  <2>2. Plain(tx) = [fromIndex |-> tx.fromIndex, toIndex |-> tx.toIndex,
                     toAccID |-> tx.toAccID, amount |-> tx.amount, fee |-> tx.fee]
    BY <2>1 DEF Plain
  <2> QED
    BY <1>3, <2>1, <2>2 DEF IsRestored
<1> QED
  BY <1>1, <1>2, <1>3 DEF TxKinds

(* The low bytes of a number of four bytes are the number.                 *)
LEMMA LowIs ==
    ASSUME NEW x \in 0 .. Uint32Max
    PROVE  ValueOf(Truncated(x, stateIDLen)) = x
<1>1. x \in Nat /\ stateIDLen \in Nat /\ Cut(x, stateIDLen) = 0
  BY FourBytes DEF stateIDLen
<1> QED
  BY <1>1, ReadsBack

(* With a nonce, the contract makes the message that was signed just when  *)
(* the nonce is the one that was signed.                                   *)
LEMMA MessageIs ==
    ASSUME NEW kind \in TxKinds, NEW tx \in TxOf(kind), Fits(tx), NEW nonce \in Nat,
           kind = "MassMigration" => nonce <= Uint32Max, NEW more, more = More(kind, tx)
    PROVE  MessageOf(kind, Plain(tx), nonce, more) = message(tx) <=> nonce = tx.nonce
<1>1. CASE kind = "Transfer"
  <2>1. tx.kind = "Transfer"
    BY <1>1 DEF TxOf
  <2>2. Plain(tx) = [fromIndex |-> tx.fromIndex, toIndex |-> tx.toIndex,
                     amount |-> tx.amount, fee |-> tx.fee]
    BY <2>1 DEF Plain
  <2>3. message(tx) = <<uint256(1), uint256(tx.fromIndex), uint256(tx.toIndex),
                        <<WORD, tx.nonce>>, uint256(tx.amount), uint256(tx.fee)>>
    BY <2>1 DEF message, messageTransfer, uint256
  <2>4. MessageOf(kind, Plain(tx), nonce, more)
          = <<uint256(1), uint256(tx.fromIndex), uint256(tx.toIndex), <<WORD, nonce>>,
              uint256(tx.amount), uint256(tx.fee)>>
    BY <1>1, <2>2 DEF MessageOf, transferMessageOf, uint256
  <2> QED
    BY <2>3, <2>4
<1>2. CASE kind = "MassMigration"
  <2>1. /\ tx.kind = "MassMigration" /\ tx.fromIndex \in Nat /\ tx.spokeID \in 0 .. Uint32Max
        /\ tx.nonce \in 0 .. Uint32Max
    BY <1>2 DEF TxOf
  <2>2. Plain(tx) = [fromIndex |-> tx.fromIndex, amount |-> tx.amount, fee |-> tx.fee]
    BY <2>1 DEF Plain
  <2>3. message(tx) = <<uint8(5), uint32(tx.fromIndex), uint256(tx.amount), uint256(tx.fee),
                        <<stateIDLen, tx.nonce>>, uint32(tx.spokeID)>>
    BY <2>1 DEF message, messageMassMigration, uint32
  <2>4. ValueOf(Truncated(tx.fromIndex, stateIDLen)) = tx.fromIndex
    <3>1. /\ hexZeroPad(tx.fromIndex, stateIDLen) = Truncated(tx.fromIndex, stateIDLen)
          /\ ValueOf(hexZeroPad(tx.fromIndex, stateIDLen)) = tx.fromIndex
      BY <2>1, IndicesAreRead DEF Fits
    <3> QED
      BY <3>1
  <2>5. nonce \in 0 .. Uint32Max
    <3>1. Uint32Max \in Int
      BY BaseIs DEF Uint32Max
    <3> QED
      BY <1>2, <3>1
  <2>6. more[1] = tx.spokeID
    BY <1>2 DEF More
  <2>7. MessageOf(kind, Plain(tx), nonce, more)
          = <<uint8(5), uint32(ValueOf(Truncated(tx.fromIndex, stateIDLen))),
              uint256(tx.amount), uint256(tx.fee),
              uint32(ValueOf(Truncated(nonce, stateIDLen))),
              uint32(ValueOf(Truncated(tx.spokeID, stateIDLen)))>>
    BY <1>2, <2>2, <2>6 DEF MessageOf, massMigrationMessageOf
  <2>8. MessageOf(kind, Plain(tx), nonce, more)
          = <<uint8(5), uint32(tx.fromIndex), uint256(tx.amount), uint256(tx.fee),
              <<stateIDLen, nonce>>, uint32(tx.spokeID)>>
    <3>1. /\ ValueOf(Truncated(nonce, stateIDLen)) = nonce
          /\ ValueOf(Truncated(tx.spokeID, stateIDLen)) = tx.spokeID
      BY <2>1, <2>5, LowIs
    <3> QED
      BY <2>4, <2>7, <3>1 DEF uint32
  <2> QED
    BY <2>3, <2>8
<1>3. CASE kind = "Create2Transfer"
  <2>1. tx.kind = "Create2Transfer"
    BY <1>3 DEF TxOf
  <2>2. Plain(tx) = [fromIndex |-> tx.fromIndex, toIndex |-> tx.toIndex,
                     toAccID |-> tx.toAccID, amount |-> tx.amount, fee |-> tx.fee]
    BY <2>1 DEF Plain
  <2>3. message(tx) = <<uint256(3), uint256x4(tx.fromPubkey), uint256x4(tx.toPubkey),
                        <<WORD, tx.nonce>>, uint256(tx.amount), uint256(tx.fee)>>
    BY <2>1 DEF message, messageCreate2Transfer, uint256
  <2>4. more[1] = tx.fromPubkey /\ more[2] = tx.toPubkey
    BY <1>3 DEF More
  <2>5. MessageOf(kind, Plain(tx), nonce, more)
          = <<uint256(3), uint256x4(tx.fromPubkey), uint256x4(tx.toPubkey),
              <<WORD, nonce>>, uint256(tx.amount), uint256(tx.fee)>>
    BY <1>3, <2>2, <2>4 DEF MessageOf, create2TransferMessageOf, uint256
  <2> QED
    BY <2>3, <2>5
<1> QED
  BY <1>1, <1>2, <1>3 DEF TxKinds

(* The transactions that wait are of one kind.                             *)
TxsInv == \E kind \in TxKinds : txs \in Seq(TxOf(kind))

LEMMA KindOfTxs ==
    ASSUME TxsInv, Written
    PROVE  /\ Head(txs).kind \in TxKinds /\ txs \in Seq(TxOf(Head(txs).kind))
           /\ IsRead(Head(txs).kind, txs) /\ DOMAIN txs = 1 .. Len(txs)
<1>1. PICK kind \in TxKinds : txs \in Seq(TxOf(kind))
  BY DEF TxsInv
<1>2. txs # <<>> /\ serialize(txs) # Refused
  BY DEF Written
<1>3. Head(txs) \in TxOf(kind)
  BY <1>1, <1>2
<1>4. Head(txs).kind = kind
  BY <1>3, PlainIs
<1> QED
  BY <1>1, <1>2, <1>4, ListIsRead

LEMMA ReadByInv == TxsInv => ListsAreRead
<1> SUFFICES ASSUME TxsInv, Written PROVE ListsAreRead
  BY DEF ListsAreRead
<1>1. PICK kind \in TxKinds : kind = Head(txs).kind
  BY KindOfTxs
<1>2. PICK bytes : bytes = serialize(txs)
  OBVIOUS
<1>3. /\ txs \in Seq(TxOf(kind)) /\ DOMAIN txs = 1 .. Len(txs)
      /\ size(kind, bytes) = Len(txs) /\ ~hasExcessData(kind, bytes)
      /\ \A i \in DOMAIN txs : Fits(txs[i]) /\ Decoded(kind, bytes, i - 1) = Plain(txs[i])
  BY <1>1, <1>2, KindOfTxs DEF IsRead
<1>4. ASSUME NEW i \in DOMAIN txs, NEW more, more = More(kind, txs[i])
      PROVE  /\ IsRestored(txs[i], Decoded(kind, bytes, i - 1))
             /\ MessageOf(kind, Decoded(kind, bytes, i - 1), txs[i].nonce, more) = message(txs[i])
  <2>1. PICK tx \in TxOf(kind) : tx = txs[i]
    BY <1>3
  <2>2. Decoded(kind, bytes, i - 1) = Plain(tx) /\ Fits(tx)
    BY <1>3, <2>1
  <2>3. tx.nonce \in Nat /\ (kind = "MassMigration" => tx.nonce <= Uint32Max)
    <3>1. Uint32Max \in Int
      BY BaseIs DEF Uint32Max
    <3> QED
      BY <3>1 DEF TxOf, TxKinds
  <2>4. IsRestored(tx, Plain(tx))
    BY PlainIs
  <2>5. MessageOf(kind, Plain(tx), tx.nonce, more) = message(tx)
    BY <1>4, <2>1, <2>2, <2>3, MessageIs
  <2> QED
    BY <2>1, <2>2, <2>4, <2>5
<1> QED
  BY <1>1, <1>2, <1>3, <1>4 DEF ListsAreRead, IsRestored, More
-----------------------------------------------------------------------------
(* The contract's own serializers.                                         *)
IsLargest(tx) == mantissaMax \in {Mantissa(tx.amount), Mantissa(tx.fee)}
OrRefused(tx) == IF IsLargest(tx) THEN Refused ELSE Encoded(tx)

LEMMA ConcatRefuses ==
    ASSUME NEW parts, NEW i \in DOMAIN parts, parts[i] = Refused
    PROVE  concat(parts) = Refused
BY DEF concat

(* The row that the contract writes for a transfer.                        *)
TransferRow(from, to, amount, fee) ==
    concat(<<Truncated(from, stateIDLen), Truncated(to, stateIDLen),
             encodeDecimal(amount), encodeDecimal(fee)>>)

LEMMA TransferRowIs ==
    ASSUME NEW tx \in TxOf("Transfer"), Fits(tx)
    PROVE  TransferRow(tx.fromIndex, tx.toIndex, tx.amount, tx.fee) = OrRefused(tx)
<1>1. /\ tx.kind = "Transfer" /\ tx.fromIndex \in Nat /\ tx.toIndex \in Nat
      /\ tx.amount \in Nat /\ tx.fee \in Nat
  BY DEF TxOf
<1>2. PICK a, b, c, d :
         /\ a = hexZeroPad(tx.fromIndex, stateIDLen) /\ b = hexZeroPad(tx.toIndex, stateIDLen)
         /\ c = encodeInt(tx.amount) /\ d = encodeInt(tx.fee)
  OBVIOUS
<1>3. a # Refused /\ b # Refused /\ c # Refused /\ d # Refused
  BY <1>1, <1>2 DEF Fits
<1>4. a = Truncated(tx.fromIndex, stateIDLen) /\ b = Truncated(tx.toIndex, stateIDLen)
  BY <1>1, <1>2, <1>3, IndicesAreRead
<1>5. PICK x, y : x = encodeDecimal(tx.amount) /\ y = encodeDecimal(tx.fee)
  OBVIOUS
<1>6. /\ x = IF Mantissa(tx.amount) = mantissaMax THEN Refused ELSE c
      /\ y = IF Mantissa(tx.fee) = mantissaMax THEN Refused ELSE d
  BY <1>1, <1>2, <1>3, <1>5, IntegersAgree
<1>7. TransferRow(tx.fromIndex, tx.toIndex, tx.amount, tx.fee) = concat(<<a, b, x, y>>)
  BY <1>4, <1>5 DEF TransferRow
<1>8. Encoded(tx) = concat(<<a, b, c, d>>)
  BY <1>1, <1>2 DEF Encoded, encodeTransfer
<1>9. CASE IsLargest(tx)
  <2>1. x = Refused \/ y = Refused
    BY <1>6, <1>9 DEF IsLargest
  <2>2. PICK parts : parts = <<a, b, x, y>>
    OBVIOUS
  <2>3. DOMAIN parts = 1 .. 4 /\ parts[3] = x /\ parts[4] = y
    BY <2>2
  <2>4. concat(parts) = Refused
    BY <2>1, <2>3, ConcatRefuses
  <2> QED
    BY <1>7, <1>9, <2>2, <2>4 DEF OrRefused
<1>10. CASE ~IsLargest(tx)
  <2>1. x = c /\ y = d
    BY <1>6, <1>10 DEF IsLargest
  <2> QED
    BY <1>7, <1>8, <1>10, <2>1 DEF OrRefused
<1> QED
  BY <1>9, <1>10

Create2TransferRow(from, to, toAccID, amount, fee) ==
    concat(<<Truncated(from, stateIDLen), Truncated(to, stateIDLen),
             Truncated(toAccID, stateIDLen), encodeDecimal(amount), encodeDecimal(fee)>>)

LEMMA Create2TransferRowIs ==
    ASSUME NEW tx \in TxOf("Create2Transfer"), Fits(tx)
    PROVE  Create2TransferRow(tx.fromIndex, tx.toIndex, tx.toAccID, tx.amount, tx.fee)
              = OrRefused(tx)
<1>1. /\ tx.kind = "Create2Transfer" /\ tx.fromIndex \in Nat /\ tx.toIndex \in Nat
      /\ tx.toAccID \in Nat /\ tx.amount \in Nat /\ tx.fee \in Nat
  BY DEF TxOf
<1>2. PICK a, b, e, c, d :
         /\ a = hexZeroPad(tx.fromIndex, stateIDLen) /\ b = hexZeroPad(tx.toIndex, stateIDLen)
         /\ e = hexZeroPad(tx.toAccID, stateIDLen)
         /\ c = encodeInt(tx.amount) /\ d = encodeInt(tx.fee)
  OBVIOUS
<1>3. a # Refused /\ b # Refused /\ e # Refused /\ c # Refused /\ d # Refused
  BY <1>1, <1>2 DEF Fits
<1>4. /\ a = Truncated(tx.fromIndex, stateIDLen) /\ b = Truncated(tx.toIndex, stateIDLen)
      /\ e = Truncated(tx.toAccID, stateIDLen)
  BY <1>1, <1>2, <1>3, IndicesAreRead
<1>5. PICK x, y : x = encodeDecimal(tx.amount) /\ y = encodeDecimal(tx.fee)
  OBVIOUS
<1>6. /\ x = IF Mantissa(tx.amount) = mantissaMax THEN Refused ELSE c
      /\ y = IF Mantissa(tx.fee) = mantissaMax THEN Refused ELSE d
  BY <1>1, <1>2, <1>3, <1>5, IntegersAgree
<1>7. Create2TransferRow(tx.fromIndex, tx.toIndex, tx.toAccID, tx.amount, tx.fee)
        = concat(<<a, b, e, x, y>>)
  BY <1>4, <1>5 DEF Create2TransferRow
<1>8. Encoded(tx) = concat(<<a, b, e, c, d>>)
  BY <1>1, <1>2 DEF Encoded, encodeCreate2Transfer
<1>9. CASE IsLargest(tx)
  <2>1. x = Refused \/ y = Refused
    BY <1>6, <1>9 DEF IsLargest
  <2>2. PICK parts : parts = <<a, b, e, x, y>>
    OBVIOUS
  <2>3. DOMAIN parts = 1 .. 5 /\ parts[4] = x /\ parts[5] = y
    BY <2>2
  <2>4. concat(parts) = Refused
    BY <2>1, <2>3, ConcatRefuses
  <2> QED
    BY <1>7, <1>9, <2>2, <2>4 DEF OrRefused
<1>10. CASE ~IsLargest(tx)
  <2>1. x = c /\ y = d
    BY <1>6, <1>10 DEF IsLargest
  <2> QED
    BY <1>7, <1>8, <1>10, <2>1 DEF OrRefused
<1> QED
  BY <1>9, <1>10

(* Rows that are refused or those of the client.                           *)
LEMMA RowsAgree ==
    ASSUME NEW list, NEW rows, rows = [i \in DOMAIN list |-> OrRefused(list[i])]
    PROVE  concat(rows) = IF \E i \in DOMAIN list : IsLargest(list[i]) THEN Refused
                          ELSE serialize(list)
<1>1. CASE \E i \in DOMAIN list : IsLargest(list[i])
  <2>1. PICK i \in DOMAIN list : IsLargest(list[i])
    BY <1>1
  <2>2. i \in DOMAIN rows /\ rows[i] = Refused
    BY <2>1 DEF OrRefused
  <2>3. concat(rows) = Refused
    BY <2>2, ConcatRefuses
  <2> QED
    BY <1>1, <2>3
<1>2. CASE ~ \E i \in DOMAIN list : IsLargest(list[i])
  <2>1. rows = [i \in DOMAIN list |-> Encoded(list[i])]
    BY <1>2 DEF OrRefused
  <2> QED
    BY <1>2, <2>1 DEF serialize
<1> QED
  BY <1>1, <1>2

(* What users send is what the client reads.                               *)
IsReadBack(tx, read) == \A field \in DOMAIN read \ {"txType"} : read[field] = tx[field]

LEMMA ReadBackIs ==
    ASSUME NEW kind \in TxKinds, NEW tx \in TxOf(kind)
    PROVE  IsReadBack(tx, decodeOffchain(kind, encodeOffchain(tx)))
<1>1. CASE kind = "Transfer"
  <2>1. tx.kind = "Transfer"
    BY <1>1 DEF TxOf
  <2>2. decodeOffchain(kind, encodeOffchain(tx))
          = [txType |-> 1, fromIndex |-> tx.fromIndex, toIndex |-> tx.toIndex,
             amount |-> tx.amount, fee |-> tx.fee, nonce |-> tx.nonce]
    BY <1>1, <2>1 DEF decodeOffchain, encodeOffchain, decodeTransfer, encodeOffchainTransfer
  <2> QED
    BY <2>2 DEF IsReadBack
<1>2. CASE kind = "MassMigration"
  <2>1. tx.kind = "MassMigration"
    BY <1>2 DEF TxOf
  <2>2. decodeOffchain(kind, encodeOffchain(tx))
          = [txType |-> 5, fromIndex |-> tx.fromIndex, amount |-> tx.amount, fee |-> tx.fee,
             spokeID |-> tx.spokeID, nonce |-> tx.nonce]
    BY <1>2, <2>1 DEF decodeOffchain, encodeOffchain, decodeMassMigration,
       encodeOffchainMassMigration
  <2> QED
    BY <2>2 DEF IsReadBack
<1>3. CASE kind = "Create2Transfer"
  <2>1. tx.kind = "Create2Transfer"
    BY <1>3 DEF TxOf
  <2>2. decodeOffchain(kind, encodeOffchain(tx))
          = [txType |-> 3, fromIndex |-> tx.fromIndex, toIndex |-> tx.toIndex,
             toAccID |-> tx.toAccID, amount |-> tx.amount, fee |-> tx.fee,
             nonce |-> tx.nonce]
    BY <1>3, <2>1 DEF decodeOffchain, encodeOffchain, decodeCreate2Transfer,
       encodeOffchainCreate2Transfer
  <2> QED
    BY <2>2 DEF IsReadBack
<1> QED
  BY <1>1, <1>2, <1>3 DEF TxKinds

LEMMA OnChainIs ==
    ASSUME NEW kind \in {"Transfer", "Create2Transfer"}, NEW list \in Seq(TxOf(kind)),
           \A i \in DOMAIN list : Fits(list[i]),
           NEW read, read = [i \in DOMAIN list |-> decodeOffchain(kind, encodeOffchain(list[i]))]
    PROVE  serializeOnChain(kind, read)
              = IF \E i \in DOMAIN list : IsLargest(list[i]) THEN Refused ELSE serialize(list)
<1>1. \A i \in DOMAIN list : list[i] \in TxOf(kind)
  OBVIOUS
<1>2. PICK rows : rows = [i \in DOMAIN list |-> OrRefused(list[i])]
  OBVIOUS
<1>3. CASE kind = "Transfer"
  <2>1. ASSUME NEW i \in DOMAIN list
        PROVE  /\ read[i].fromIndex = list[i].fromIndex /\ read[i].toIndex = list[i].toIndex
               /\ read[i].amount = list[i].amount /\ read[i].fee = list[i].fee
               /\ TransferRow(list[i].fromIndex, list[i].toIndex, list[i].amount, list[i].fee)
                     = OrRefused(list[i])
    <3>1. PICK tx \in TxOf("Transfer") : tx = list[i] /\ tx.kind = "Transfer" /\ Fits(tx)
      <4>1. list[i] \in TxOf("Transfer") /\ list[i].kind = "Transfer"
        BY <1>1, <1>3 DEF TxOf
      <4> QED
        BY <4>1
    <3>2. read[i] = [txType |-> 1, fromIndex |-> tx.fromIndex, toIndex |-> tx.toIndex,
                     amount |-> tx.amount, fee |-> tx.fee, nonce |-> tx.nonce]
      BY <1>3, <3>1 DEF decodeOffchain, encodeOffchain, decodeTransfer, encodeOffchainTransfer
    <3> QED
      BY <3>1, <3>2, TransferRowIs
  <2>2. serializeTransfer(read)
          = concat([i \in DOMAIN list |-> TransferRow(read[i].fromIndex, read[i].toIndex,
                                                      read[i].amount, read[i].fee)])
    BY DEF serializeTransfer, TransferRow
  <2>3. serializeTransfer(read) = concat(rows)
    BY <1>2, <2>1, <2>2
  <2>4. serializeOnChain(kind, read) = concat(rows)
    BY <1>3, <2>3 DEF serializeOnChain
  <2> QED
    BY <1>2, <2>4, RowsAgree
<1>4. CASE kind = "Create2Transfer"
  <2>1. ASSUME NEW i \in DOMAIN list
        PROVE  /\ read[i].fromIndex = list[i].fromIndex /\ read[i].toIndex = list[i].toIndex
               /\ read[i].toAccID = list[i].toAccID
               /\ read[i].amount = list[i].amount /\ read[i].fee = list[i].fee
               /\ Create2TransferRow(list[i].fromIndex, list[i].toIndex, list[i].toAccID,
                                     list[i].amount, list[i].fee) = OrRefused(list[i])
    <3>1. PICK tx \in TxOf("Create2Transfer") :
             tx = list[i] /\ tx.kind = "Create2Transfer" /\ Fits(tx)
      <4>1. list[i] \in TxOf("Create2Transfer") /\ list[i].kind = "Create2Transfer"
        BY <1>1, <1>4 DEF TxOf
      <4> QED
        BY <4>1
    <3>2. read[i] = [txType |-> 3, fromIndex |-> tx.fromIndex, toIndex |-> tx.toIndex,
                     toAccID |-> tx.toAccID, amount |-> tx.amount, fee |-> tx.fee,
                     nonce |-> tx.nonce]
      BY <1>4, <3>1 DEF decodeOffchain, encodeOffchain, decodeCreate2Transfer,
         encodeOffchainCreate2Transfer
    <3> QED
      BY <3>1, <3>2, Create2TransferRowIs
  <2>2. serializeCreate2Transfer(read)
          = concat([i \in DOMAIN list |->
                Create2TransferRow(read[i].fromIndex, read[i].toIndex, read[i].toAccID,
                                   read[i].amount, read[i].fee)])
    BY DEF serializeCreate2Transfer, Create2TransferRow
  <2>3. serializeCreate2Transfer(read) = concat(rows)
    BY <1>2, <2>1, <2>2
  <2>4. serializeOnChain(kind, read) = concat(rows)
    BY <1>4, <2>3 DEF serializeOnChain
  <2> QED
    BY <1>2, <2>4, RowsAgree
<1> QED
  BY <1>3, <1>4

LEMMA MessagesAre ==
    ASSUME NEW list \in Seq(TxOf("Transfer")), \A i \in DOMAIN list : Fits(list[i]),
           NEW messages, messages = [i \in DOMAIN list |-> message(list[i])]
    PROVE  serializeMessages(messages)
              = IF \E i \in DOMAIN list : IsLargest(list[i]) THEN Refused ELSE serialize(list)
<1>1. \A i \in DOMAIN list : list[i] \in TxOf("Transfer")
  OBVIOUS
<1>2. PICK rows : rows = [i \in DOMAIN list |-> OrRefused(list[i])]
  OBVIOUS
<1>3. ASSUME NEW i \in DOMAIN list
      PROVE  TransferRow(messages[i][2][2], messages[i][3][2], messages[i][5][2],
                         messages[i][6][2]) = OrRefused(list[i])
  <2>1. PICK tx \in TxOf("Transfer") : tx = list[i] /\ tx.kind = "Transfer" /\ Fits(tx)
    <3>1. list[i] \in TxOf("Transfer") /\ list[i].kind = "Transfer"
      BY <1>1 DEF TxOf
    <3> QED
      BY <3>1
  <2>2. messages[i] = <<uint256(1), <<WORD, tx.fromIndex>>, <<WORD, tx.toIndex>>,
                        uint256(tx.nonce), <<WORD, tx.amount>>, <<WORD, tx.fee>>>>
    BY <2>1 DEF message, messageTransfer, uint256
  <2>3. /\ messages[i][2][2] = tx.fromIndex /\ messages[i][3][2] = tx.toIndex
        /\ messages[i][5][2] = tx.amount /\ messages[i][6][2] = tx.fee
    BY <2>2
  <2> QED
    BY <2>1, <2>3, TransferRowIs
<1>4. serializeMessages(messages)
        = concat([i \in DOMAIN list |->
              TransferRow(messages[i][2][2], messages[i][3][2], messages[i][5][2],
                          messages[i][6][2])])
  BY DEF serializeMessages, TransferRow
<1>5. serializeMessages(messages) = concat(rows)
  BY <1>2, <1>3, <1>4
<1> QED
  BY <1>2, <1>5, RowsAgree

LEMMA OffchainByInv == TxsInv => OffchainAgrees
<1> SUFFICES ASSUME TxsInv, Written PROVE OffchainAgrees
  BY DEF OffchainAgrees
<1>1. PICK kind \in TxKinds : kind = Head(txs).kind
  BY KindOfTxs
<1>2. txs \in Seq(TxOf(kind)) /\ \A i \in DOMAIN txs : txs[i] \in TxOf(kind) /\ Fits(txs[i])
  <2>1. txs \in Seq(TxOf(kind)) /\ \A i \in DOMAIN txs : Fits(txs[i])
    BY <1>1, KindOfTxs DEF IsRead
  <2> QED
    BY <2>1
<1>3. PICK read : read = [i \in DOMAIN txs |-> decodeOffchain(kind, encodeOffchain(txs[i]))]
  OBVIOUS
<1>4. \A i \in DOMAIN txs : IsReadBack(txs[i], read[i])
  BY <1>2, <1>3, ReadBackIs
<1>5. kind # "MassMigration" =>
         serializeOnChain(kind, read)
            = IF \E i \in DOMAIN txs : IsLargest(txs[i]) THEN Refused ELSE serialize(txs)
  BY <1>2, <1>3, OnChainIs DEF TxKinds
<1>6. kind = "Transfer" =>
         serializeMessages([i \in DOMAIN txs |-> message(txs[i])])
            = IF \E i \in DOMAIN txs : IsLargest(txs[i]) THEN Refused ELSE serialize(txs)
  BY <1>2, MessagesAre
<1> QED
  BY <1>1, <1>3, <1>4, <1>5, <1>6 DEF OffchainAgrees, IsReadBack, IsLargest

-----------------------------------------------------------------------------
(* The committer's own states.                                             *)
Own == 0 .. NumOfStates - 1
OwnState == [pubkeyIndex : Nat, tokenType : Nat, balance : Nat, nonce : Nat]
OwnTrees == [Own -> OwnState]
OwnResults == {"Ok", "Reverts", "InvalidTokenAmount", "NotEnoughTokenBalance",
               "BadFromTokenType", "BadToTokenType", "MismatchedAmount", "BadWithdrawRoot"}
OwnSteps == [result : OwnResults, tree : OwnTrees]

(* From one tree to another the states keep their keys, and their nonces.  *)
SameKeys(t, u) == \A k \in Own : u[k].pubkeyIndex = t[k].pubkeyIndex
SameNonces(t, u) == \A k \in Own : u[k].nonce = t[k].nonce

(* One of them has spent a nonce.                                          *)
Spent(t, u, from) ==
    /\ from \in Own /\ SameKeys(t, u)
    /\ \A k \in Own : u[k].nonce = t[k].nonce + (IF k = from THEN 1 ELSE 0)

LEMMA OwnStep ==
    ASSUME NEW result \in OwnResults, NEW t \in OwnTrees
    PROVE  /\ Ended(result, t) \in OwnSteps
           /\ Ended(result, t).tree = t
           /\ IsOk(Ended(result, t)) <=> result = "Ok"
BY DEF Ended, OwnSteps, IsOk

LEMMA SenderSpends ==
    ASSUME NEW t \in OwnTrees, NEW index, NEW token, NEW amount \in Nat, NEW fee \in Nat,
           NEW step, step = ProcessSender(t, index, token, amount, fee)
    PROVE  step \in OwnSteps /\ (IsOk(step) => Spent(t, step.tree, index))
<1>1. CASE index \notin DOMAIN t
  <2>1. step = Ended("Reverts", t)
    BY <1>1 DEF ProcessSender, Reverts
  <2> QED
    BY <2>1, OwnStep DEF OwnResults
<1>2. CASE index \in DOMAIN t
  <2>1. PICK result : result = SenderResult(t[index], token, amount, fee)
    OBVIOUS
  <2>2. index \in Own /\ t[index] \in OwnState /\ result \in OwnResults
    BY <1>2, <2>1 DEF OwnTrees, SenderResult, OwnResults
  <2>3. CASE result # "Ok"
    <3>1. step = Ended(result, t)
      BY <1>2, <2>1, <2>3 DEF ProcessSender
    <3> QED
      BY <2>2, <2>3, <3>1, OwnStep
  <2>4. CASE result = "Ok"
    <3>1. PICK u : u = [t EXCEPT ![index].balance = @ - (amount + fee),
                                 ![index].nonce = @ + 1]
      OBVIOUS
    <3>2. step = Ended("Ok", u)
      BY <1>2, <2>1, <2>4, <3>1 DEF ProcessSender
    <3>3. t[index].balance \in Nat /\ t[index].nonce \in Nat
          /\ t[index].balance - (amount + fee) \in Nat
      BY <2>1, <2>2, <2>4 DEF SenderResult, OwnState
    <3>4. u \in OwnTrees
      BY <2>2, <3>1, <3>3 DEF OwnTrees, OwnState
    <3>5. Spent(t, u, index)
      <4>1. \A k \in Own : t[k] \in OwnState
        BY DEF OwnTrees
      <4>2. \A k \in Own : k # index => u[k] = t[k]
        BY <3>1 DEF OwnTrees
      <4>3. u[index].nonce = t[index].nonce + 1 /\ u[index].pubkeyIndex = t[index].pubkeyIndex
        BY <2>2, <3>1 DEF OwnTrees, OwnState
      <4> QED
        BY <2>2, <4>1, <4>2, <4>3 DEF Spent, SameKeys, OwnState
    <3> QED
      BY <3>2, <3>4, <3>5, OwnStep DEF OwnResults
  <2> QED
    BY <2>3, <2>4
<1> QED
  BY <1>1, <1>2

LEMMA ReceiverGets ==
    ASSUME NEW t \in OwnTrees, NEW index, NEW token, NEW amount \in Nat,
           NEW step, step = ProcessReceiver(t, index, token, amount)
    PROVE  /\ step \in OwnSteps
           /\ IsOk(step) => SameKeys(t, step.tree) /\ SameNonces(t, step.tree)
<1>1. CASE index \notin DOMAIN t
  <2>1. step = Ended("Reverts", t)
    BY <1>1 DEF ProcessReceiver, Reverts
  <2> QED
    BY <2>1, OwnStep DEF OwnResults
<1>2. CASE index \in DOMAIN t /\ t[index].tokenType # token
  <2>1. step = Ended("BadToTokenType", t)
    BY <1>2 DEF ProcessReceiver
  <2> QED
    BY <2>1, OwnStep DEF OwnResults
<1>3. CASE index \in DOMAIN t /\ t[index].tokenType = token
  <2>1. PICK u : u = [t EXCEPT ![index].balance = @ + amount]
    OBVIOUS
  <2>2. step = Ended("Ok", u)
    BY <1>3, <2>1 DEF ProcessReceiver
  <2>3. index \in Own /\ t[index] \in OwnState /\ t[index].balance + amount \in Nat
    BY <1>3 DEF OwnTrees, OwnState
  <2>4. u \in OwnTrees
    BY <2>1, <2>3 DEF OwnTrees, OwnState
  <2>5. \A k \in Own : u[k].pubkeyIndex = t[k].pubkeyIndex /\ u[k].nonce = t[k].nonce
    <3>1. \A k \in Own : k # index => u[k] = t[k]
      BY <2>1 DEF OwnTrees
    <3>2. u[index].nonce = t[index].nonce /\ u[index].pubkeyIndex = t[index].pubkeyIndex
      BY <2>1, <2>3 DEF OwnTrees, OwnState
    <3> QED
      BY <3>1, <3>2
  <2> QED
    BY <2>2, <2>4, <2>5, OwnStep DEF OwnResults, SameKeys, SameNonces
<1> QED
  BY <1>1, <1>2, <1>3

LEMMA TransferSpends ==
    ASSUME NEW t \in OwnTrees, NEW tx, NEW token, tx.amount \in Nat, tx.fee \in Nat,
           NEW step, step = ProcessTransfer(t, tx, token)
    PROVE  step \in OwnSteps /\ (IsOk(step) => Spent(t, step.tree, tx.fromIndex))
<1>1. PICK taken : taken = ProcessSender(t, tx.fromIndex, token, tx.amount, tx.fee)
  OBVIOUS
<1>2. step = IF IsOk(taken) THEN ProcessReceiver(taken.tree, tx.toIndex, token, tx.amount)
             ELSE taken
  BY <1>1 DEF ProcessTransfer, Then
<1>3. taken \in OwnSteps /\ (IsOk(taken) => Spent(t, taken.tree, tx.fromIndex))
  BY <1>1, SenderSpends
<1>4. CASE ~IsOk(taken)
  BY <1>2, <1>3, <1>4
<1>5. CASE IsOk(taken)
  <2>1. taken.tree \in OwnTrees
    BY <1>3 DEF OwnSteps
  <2>2. step = ProcessReceiver(taken.tree, tx.toIndex, token, tx.amount)
    BY <1>2, <1>5
  <2>3. /\ step \in OwnSteps
        /\ IsOk(step) => SameKeys(taken.tree, step.tree) /\ SameNonces(taken.tree, step.tree)
    BY <2>1, <2>2, ReceiverGets
  <2>4. Spent(t, taken.tree, tx.fromIndex)
    BY <1>3, <1>5
  <2> QED
    BY <2>3, <2>4 DEF Spent, SameKeys, SameNonces
<1> QED
  BY <1>4, <1>5
-----------------------------------------------------------------------------
(* The loops over transactions, by what the i-th of them does to a tree.   *)
Turns(process, n) ==
    [i \in 1 .. n |-> [step \in OwnSteps |->
        IF IsOk(step) THEN process[i][step.tree] ELSE step]]

LEMMA TurnsType ==
    ASSUME NEW n \in Nat, NEW process \in [1 .. n -> [OwnTrees -> OwnSteps]]
    PROVE  /\ Turns(process, n) \in [1 .. n -> [OwnSteps -> OwnSteps]]
           /\ \A i \in 1 .. n, step \in OwnSteps :
                 Turns(process, n)[i][step]
                    = IF IsOk(step) THEN process[i][step.tree] ELSE step
<1>1. \A step \in OwnSteps : step.tree \in OwnTrees
  BY DEF OwnSteps
<1> QED
  BY <1>1 DEF Turns

(* How often a state is the sender of the first n.                         *)
Sending(from, n, k) == {j \in 1 .. n : from[j] = k}
Times(from, n, k) == Cardinality(Sending(from, n, k))

LEMMA TimesType ==
    ASSUME NEW n \in Nat, NEW from, NEW k
    PROVE  /\ IsFiniteSet(Sending(from, n, k)) /\ Times(from, n, k) \in Nat
           /\ Times(from, n, k) <= n
<1>1. IsFiniteSet(1 .. n) /\ Cardinality(1 .. n) = n
  BY FS_Interval
<1>2. Sending(from, n, k) \subseteq 1 .. n
  BY DEF Sending
<1> QED
  BY <1>1, <1>2, FS_Subset, FS_CardinalityType DEF Times

LEMMA TimesNone ==
    ASSUME NEW from, NEW k
    PROVE  Times(from, 0, k) = 0
<1>1. Sending(from, 0, k) = {}
  BY DEF Sending
<1> QED
  BY <1>1, FS_EmptySet DEF Times

LEMMA TimesOneMore ==
    ASSUME NEW n \in Nat, n >= 1, NEW from, NEW k
    PROVE  Times(from, n, k) = Times(from, n - 1, k) + (IF from[n] = k THEN 1 ELSE 0)
<1>1. n - 1 \in Nat /\ IsFiniteSet(Sending(from, n - 1, k)) /\ n \notin 1 .. n - 1
  BY TimesType
<1>2. CASE from[n] = k
  <2>1. Sending(from, n, k) = Sending(from, n - 1, k) \union {n} /\ n \notin Sending(from, n - 1, k)
    BY <1>2 DEF Sending
  <2> QED
    BY <1>1, <1>2, <2>1, FS_AddElement DEF Times
<1>3. CASE from[n] # k
  <2>1. Sending(from, n, k) = Sending(from, n - 1, k)
    BY <1>3 DEF Sending
  <2>2. Times(from, n - 1, k) \in Nat
    BY <1>1, TimesType
  <2> QED
    BY <1>3, <2>1, <2>2 DEF Times
<1> QED
  BY <1>2, <1>3

(* Each sender spends a nonce for each of its transactions.                *)
SpentBy(t, u, from, n) ==
    /\ \A i \in 1 .. n : from[i] \in Own
    /\ SameKeys(t, u)
    /\ \A k \in Own : u[k].nonce = t[k].nonce + Times(from, n, k)

Spends(process, n, from) ==
    \A i \in 1 .. n, t \in OwnTrees :
        IsOk(process[i][t]) => Spent(t, process[i][t].tree, from[i])

LEMMA LoopSpends ==
    ASSUME NEW n \in Nat, NEW process \in [1 .. n -> [OwnTrees -> OwnSteps]],
           NEW t \in OwnTrees, NEW from, NEW loop,
           Runs(loop, n, OwnSteps, Ended("Ok", t), Turns(process, n)),
           Spends(process, n, from)
    PROVE  loop[n] \in OwnSteps /\ (IsOk(loop[n]) => SpentBy(t, loop[n].tree, from, n))
<1>1. /\ loop \in [0 .. n -> OwnSteps] /\ loop[0] = Ended("Ok", t)
      /\ \A i \in 1 .. n : loop[i] = IF IsOk(loop[i - 1])
                                    THEN process[i][loop[i - 1].tree] ELSE loop[i - 1]
  <2>1. \A i \in 1 .. n : loop[i - 1] \in OwnSteps
                          /\ loop[i] = Turns(process, n)[i][loop[i - 1]]
    BY DEF Runs
  <2> QED
    BY <2>1, TurnsType DEF Runs
<1> DEFINE T == {i \in 0 .. n : IsOk(loop[i]) => SpentBy(t, loop[i].tree, from, i)}
<1>2. 0 \in T
  <2>1. loop[0].tree = t
    BY <1>1, OwnStep DEF OwnResults
  <2>2. \A k \in Own : t[k].nonce \in Nat /\ Times(from, 0, k) = 0
    BY TimesNone DEF OwnTrees, OwnState
  <2>3. SpentBy(t, t, from, 0)
    BY <2>2 DEF SpentBy, SameKeys
  <2> QED
    BY <2>1, <2>3
<1>3. ASSUME NEW i \in 1 .. n, i - 1 \in T PROVE i \in T
  <2>1. i - 1 \in 0 .. n /\ i \in 0 .. n /\ loop[i - 1] \in OwnSteps
    BY <1>1
  <2>2. CASE ~IsOk(loop[i - 1])
    <3>1. loop[i] = loop[i - 1]
      BY <1>1, <2>2
    <3> QED
      BY <2>1, <2>2, <3>1
  <2>3. CASE IsOk(loop[i - 1])
    <3>1. PICK c \in OwnTrees : c = loop[i - 1].tree
      BY <2>1 DEF OwnSteps
    <3>2. loop[i] = process[i][c]
      BY <1>1, <2>3, <3>1
    <3>3. SpentBy(t, c, from, i - 1)
      BY <1>3, <2>3, <3>1
    <3>4. ASSUME IsOk(loop[i]) PROVE SpentBy(t, loop[i].tree, from, i)
      <4>1. PICK d : d = loop[i].tree
        OBVIOUS
      <4>2. Spent(c, d, from[i])
        BY <3>2, <3>4, <4>1 DEF Spends
      <4>3. ASSUME NEW k \in Own
            PROVE  /\ d[k].pubkeyIndex = t[k].pubkeyIndex
                   /\ d[k].nonce = t[k].nonce + Times(from, i, k)
        <5>1. Times(from, i, k) = Times(from, i - 1, k) + (IF from[i] = k THEN 1 ELSE 0)
          BY TimesOneMore
        <5>2. c[k].nonce = t[k].nonce + Times(from, i - 1, k)
              /\ c[k].pubkeyIndex = t[k].pubkeyIndex
          BY <3>3 DEF SpentBy, SameKeys
        <5>3. d[k].nonce = c[k].nonce + (IF k = from[i] THEN 1 ELSE 0)
              /\ d[k].pubkeyIndex = c[k].pubkeyIndex
          BY <4>2 DEF Spent, SameKeys
        <5>4. t[k].nonce \in Nat /\ Times(from, i - 1, k) \in Nat
          <6>1. i - 1 \in Nat
            OBVIOUS
          <6> QED
            BY <6>1, TimesType DEF OwnTrees, OwnState
        <5> QED
          BY <5>1, <5>2, <5>3, <5>4
      <4>4. \A j \in 1 .. i : from[j] \in Own
        <5>1. \A j \in 1 .. i : j \in 1 .. i - 1 \/ j = i
          OBVIOUS
        <5> QED
          BY <3>3, <4>2, <5>1 DEF SpentBy, Spent
      <4> QED
        BY <4>1, <4>3, <4>4 DEF SpentBy, SameKeys
    <3> QED
      BY <2>1, <3>4
  <2> QED
    BY <2>2, <2>3
<1> HIDE DEF T
<1>4. n \in T
  <2>1. 0 .. n \subseteq T
    BY <1>2, <1>3, LoopInduction
  <2> QED
    BY <2>1
<1> QED
  BY <1>1, <1>4 DEF T

(* The loops of transfers and of migrations, over any list of these.       *)
IsListOf(list) == \E S : list \in Seq(S)
IsPayments(list, n) ==
    /\ IsListOf(list) /\ n \in Nat /\ Len(list) = n /\ DOMAIN list = 1 .. n
    /\ \A i \in 1 .. n : list[i].amount \in Nat /\ list[i].fee \in Nat

Transfers(t, list, token) ==
    ForEach(LAMBDA current, tx : ProcessTransfer(current, tx, token), t, list)
Senders(t, list, token) ==
    ForEach(LAMBDA current, tx : ProcessSender(current, tx.fromIndex, token,
                                               tx.amount, tx.fee), t, list)

LEMMA TransferRuns ==
    ASSUME NEW t \in OwnTrees, NEW token, NEW list, NEW n, IsPayments(list, n), NEW process,
           process = [i \in 1 .. n |-> [c \in OwnTrees |-> ProcessTransfer(c, list[i], token)]]
    PROVE  /\ process \in [1 .. n -> [OwnTrees -> OwnSteps]]
           /\ \E loop : /\ Runs(loop, n, OwnSteps, Ended("Ok", t), Turns(process, n))
                        /\ Transfers(t, list, token) = loop[n]
<1> DEFINE Body(h, i) == IF i = 0 THEN Ended("Ok", t)
                         ELSE IF IsOk(h[i - 1])
                              THEN ProcessTransfer(h[i - 1].tree, list[i], token)
                              ELSE h[i - 1]
           after == CHOOSE h : h = [i \in 0 .. n |-> Body(h, i)]
<1>1. n \in Nat /\ Len(list) = n
      /\ \A i \in 1 .. n : list[i].amount \in Nat /\ list[i].fee \in Nat
  BY DEF IsPayments
<1>2. Transfers(t, list, token) = after[n]
  BY <1>1 DEF ForEach, Then, Transfers
<1>3. \A i \in 1 .. n, c \in OwnTrees :
         /\ process[i][c] = ProcessTransfer(c, list[i], token)
         /\ process[i][c] \in OwnSteps
  <2>1. \A i \in 1 .. n, c \in OwnTrees : process[i][c] = ProcessTransfer(c, list[i], token)
    OBVIOUS
  <2> QED
    BY <1>1, <2>1, TransferSpends
<1>4. process \in [1 .. n -> [OwnTrees -> OwnSteps]]
  BY <1>3
<1> DEFINE f == Turns(process, n)
<1>5. /\ f \in [1 .. n -> [OwnSteps -> OwnSteps]]
      /\ \A i \in 1 .. n, step \in OwnSteps : f[i][step] =
             IF IsOk(step) THEN ProcessTransfer(step.tree, list[i], token) ELSE step
  <2>1. \A step \in OwnSteps : step.tree \in OwnTrees
    BY DEF OwnSteps
  <2>2. /\ Turns(process, n) \in [1 .. n -> [OwnSteps -> OwnSteps]]
        /\ \A i \in 1 .. n, step \in OwnSteps :
              Turns(process, n)[i][step]
                 = IF IsOk(step) THEN process[i][step.tree] ELSE step
    BY <1>1, <1>4, TurnsType
  <2> HIDE DEF f
  <2>3. \A i \in 1 .. n, step \in OwnSteps :
           process[i][step.tree] = ProcessTransfer(step.tree, list[i], token)
    BY <1>3, <2>1
  <2> QED
    BY <2>2, <2>3 DEF f
<1>6. Ended("Ok", t) \in OwnSteps
  BY OwnStep DEF OwnResults
<1> HIDE DEF f
<1>7. PICK loop : Runs(loop, n, OwnSteps, Ended("Ok", t), f)
  BY <1>1, <1>5, <1>6, Iterates
<1>8. loop = [i \in 0 .. n |-> Body(loop, i)]
  <2>1. \A i \in 1 .. n : loop[i - 1] \in OwnSteps
    BY <1>1, <1>7 DEF Runs
  <2>2. \A i \in 0 .. n : loop[i] = Body(loop, i)
    BY <1>1, <1>5, <1>7, <2>1 DEF Runs
  <2> HIDE DEF Body
  <2> QED
    BY <1>7, <2>2 DEF Runs
<1>9. after = [i \in 0 .. n |-> Body(after, i)]
  <2> HIDE DEF Body
  <2> QED
    BY <1>8
<1> HIDE DEF after
<1>10. after[n] = loop[n]
  <2>1. after[0] = Ended("Ok", t)
    BY <1>1, <1>9
  <2>2. \A i \in 1 .. n : after[i - 1] \in OwnSteps => after[i] = f[i][after[i - 1]]
    <3>1. \A i \in 1 .. n : after[i] = Body(after, i)
      <4> HIDE DEF Body
      <4>1. \A i \in 1 .. n : i \in 0 .. n
        BY <1>1
      <4>2. \A i \in 0 .. n : after[i] = Body(after, i)
        BY <1>9, Zenon
      <4> QED
        BY <4>1, <4>2
    <3> QED
      BY <1>5, <3>1
  <2>3. Follows(after, n, OwnSteps, Ended("Ok", t), f)
    BY <2>1, <2>2 DEF Follows
  <2> HIDE DEF Body
  <2> QED
    BY <1>1, <1>7, <2>3, SameLoop
<1> HIDE DEF Body
<1> QED
  BY <1>2, <1>4, <1>7, <1>10 DEF f
-----------------------------------------------------------------------------
LEMMA SenderRuns ==
    ASSUME NEW t \in OwnTrees, NEW token, NEW list, NEW n, IsPayments(list, n), NEW process,
           process = [i \in 1 .. n |-> [c \in OwnTrees |->
                 ProcessSender(c, list[i].fromIndex, token, list[i].amount, list[i].fee)]]
    PROVE  /\ process \in [1 .. n -> [OwnTrees -> OwnSteps]]
           /\ \E loop : /\ Runs(loop, n, OwnSteps, Ended("Ok", t), Turns(process, n))
                        /\ Senders(t, list, token) = loop[n]
<1> DEFINE Body(h, i) == IF i = 0 THEN Ended("Ok", t)
                         ELSE IF IsOk(h[i - 1])
                              THEN ProcessSender(h[i - 1].tree, list[i].fromIndex, token,
                                                 list[i].amount, list[i].fee)
                              ELSE h[i - 1]
           after == CHOOSE h : h = [i \in 0 .. n |-> Body(h, i)]
<1>1. n \in Nat /\ Len(list) = n
      /\ \A i \in 1 .. n : list[i].amount \in Nat /\ list[i].fee \in Nat
  BY DEF IsPayments
<1>2. Senders(t, list, token) = after[n]
  BY <1>1 DEF ForEach, Then, Senders
<1>3. \A i \in 1 .. n, c \in OwnTrees :
         /\ process[i][c] = ProcessSender(c, list[i].fromIndex, token,
                                       list[i].amount, list[i].fee)
         /\ process[i][c] \in OwnSteps
  <2>1. \A i \in 1 .. n, c \in OwnTrees :
           process[i][c] = ProcessSender(c, list[i].fromIndex, token,
                                         list[i].amount, list[i].fee)
    OBVIOUS
  <2> QED
    BY <1>1, <2>1, SenderSpends
<1>4. process \in [1 .. n -> [OwnTrees -> OwnSteps]]
  BY <1>3
<1> DEFINE f == Turns(process, n)
<1>5. /\ f \in [1 .. n -> [OwnSteps -> OwnSteps]]
      /\ \A i \in 1 .. n, step \in OwnSteps : f[i][step] =
             IF IsOk(step)
             THEN ProcessSender(step.tree, list[i].fromIndex, token,
                                list[i].amount, list[i].fee)
             ELSE step
  <2>1. \A step \in OwnSteps : step.tree \in OwnTrees
    BY DEF OwnSteps
  <2>2. /\ Turns(process, n) \in [1 .. n -> [OwnSteps -> OwnSteps]]
        /\ \A i \in 1 .. n, step \in OwnSteps :
              Turns(process, n)[i][step]
                 = IF IsOk(step) THEN process[i][step.tree] ELSE step
    BY <1>1, <1>4, TurnsType
  <2> HIDE DEF f
  <2>3. \A i \in 1 .. n, step \in OwnSteps :
           process[i][step.tree] = ProcessSender(step.tree, list[i].fromIndex, token,
                                                 list[i].amount, list[i].fee)
    BY <1>3, <2>1
  <2> QED
    BY <2>2, <2>3 DEF f
<1>6. Ended("Ok", t) \in OwnSteps
  BY OwnStep DEF OwnResults
<1> HIDE DEF f
<1>7. PICK loop : Runs(loop, n, OwnSteps, Ended("Ok", t), f)
  BY <1>1, <1>5, <1>6, Iterates
<1>8. loop = [i \in 0 .. n |-> Body(loop, i)]
  <2>1. \A i \in 1 .. n : loop[i - 1] \in OwnSteps
    BY <1>1, <1>7 DEF Runs
  <2>2. \A i \in 0 .. n : loop[i] = Body(loop, i)
    BY <1>1, <1>5, <1>7, <2>1 DEF Runs
  <2> HIDE DEF Body
  <2> QED
    BY <1>7, <2>2 DEF Runs
<1>9. after = [i \in 0 .. n |-> Body(after, i)]
  <2> HIDE DEF Body
  <2> QED
    BY <1>8
<1> HIDE DEF after
<1>10. after[n] = loop[n]
  <2>1. after[0] = Ended("Ok", t)
    BY <1>1, <1>9
  <2>2. \A i \in 1 .. n : after[i - 1] \in OwnSteps => after[i] = f[i][after[i - 1]]
    <3>1. \A i \in 1 .. n : after[i] = Body(after, i)
      <4> HIDE DEF Body
      <4>1. \A i \in 1 .. n : i \in 0 .. n
        BY <1>1
      <4>2. \A i \in 0 .. n : after[i] = Body(after, i)
        BY <1>9, Zenon
      <4> QED
        BY <4>1, <4>2
    <3> QED
      BY <1>5, <3>1
  <2>3. Follows(after, n, OwnSteps, Ended("Ok", t), f)
    BY <2>1, <2>2 DEF Follows
  <2> HIDE DEF Body
  <2> QED
    BY <1>1, <1>7, <2>3, SameLoop
<1> HIDE DEF Body
<1> QED
  BY <1>2, <1>4, <1>7, <1>10 DEF f

(* A list is paid as any other one with the same fields.                   *)
SameTransfers(list, other, n) ==
    \A i \in 1 .. n : /\ list[i].fromIndex = other[i].fromIndex
                      /\ list[i].toIndex = other[i].toIndex
                      /\ list[i].amount = other[i].amount /\ list[i].fee = other[i].fee
SameSenders(list, other, n) ==
    \A i \in 1 .. n : /\ list[i].fromIndex = other[i].fromIndex
                      /\ list[i].amount = other[i].amount /\ list[i].fee = other[i].fee

LEMMA TransferLoop ==
    ASSUME NEW t \in OwnTrees, NEW token, NEW list, NEW n, IsPayments(list, n),
           NEW end, end = Transfers(t, list, token), NEW from,
           from = [i \in 1 .. n |-> list[i].fromIndex]
    PROVE  end \in OwnSteps /\ (IsOk(end) => SpentBy(t, end.tree, from, n))
<1>1. PICK process : process = [i \in 1 .. n |-> [c \in OwnTrees |->
                                   ProcessTransfer(c, list[i], token)]]
  OBVIOUS
<1>2. process \in [1 .. n -> [OwnTrees -> OwnSteps]]
  BY <1>1, TransferRuns
<1>3. PICK loop : /\ Runs(loop, n, OwnSteps, Ended("Ok", t), Turns(process, n))
                  /\ Transfers(t, list, token) = loop[n]
  BY <1>1, TransferRuns
<1>4. Spends(process, n, from)
  <2>1. ASSUME NEW i \in 1 .. n, NEW c \in OwnTrees, IsOk(process[i][c])
        PROVE  Spent(c, process[i][c].tree, from[i])
    <3>1. process[i][c] = ProcessTransfer(c, list[i], token) /\ from[i] = list[i].fromIndex
      BY <1>1
    <3>2. list[i].amount \in Nat /\ list[i].fee \in Nat
      BY DEF IsPayments
    <3> QED
      BY <2>1, <3>1, <3>2, TransferSpends
  <2> QED
    BY <2>1 DEF Spends
<1>5. n \in Nat
  BY DEF IsPayments
<1> QED
  BY <1>2, <1>3, <1>4, <1>5, LoopSpends

LEMMA SenderLoop ==
    ASSUME NEW t \in OwnTrees, NEW token, NEW list, NEW n, IsPayments(list, n),
           NEW end, end = Senders(t, list, token), NEW from,
           from = [i \in 1 .. n |-> list[i].fromIndex]
    PROVE  end \in OwnSteps /\ (IsOk(end) => SpentBy(t, end.tree, from, n))
<1>1. PICK process : process = [i \in 1 .. n |-> [c \in OwnTrees |->
                                   ProcessSender(c, list[i].fromIndex, token,
                                                 list[i].amount, list[i].fee)]]
  OBVIOUS
<1>2. process \in [1 .. n -> [OwnTrees -> OwnSteps]]
  BY <1>1, SenderRuns
<1>3. PICK loop : /\ Runs(loop, n, OwnSteps, Ended("Ok", t), Turns(process, n))
                  /\ Senders(t, list, token) = loop[n]
  BY <1>1, SenderRuns
<1>4. Spends(process, n, from)
  <2>1. ASSUME NEW i \in 1 .. n, NEW c \in OwnTrees, IsOk(process[i][c])
        PROVE  Spent(c, process[i][c].tree, from[i])
    <3>1. /\ process[i][c] = ProcessSender(c, list[i].fromIndex, token,
                                           list[i].amount, list[i].fee)
          /\ from[i] = list[i].fromIndex
      BY <1>1
    <3>2. list[i].amount \in Nat /\ list[i].fee \in Nat
      BY DEF IsPayments
    <3> QED
      BY <2>1, <3>1, <3>2, SenderSpends
  <2> QED
    BY <2>1 DEF Spends
<1>5. n \in Nat
  BY DEF IsPayments
<1> QED
  BY <1>2, <1>3, <1>4, <1>5, LoopSpends

LEMMA RunsFollow ==
    ASSUME NEW n \in Nat, NEW S, NEW base, NEW f, NEW g, Runs(g, n, S, base, f),
           NEW h, Runs(h, n, S, base, f)
    PROVE  g[n] = h[n]
<1>1. Follows(h, n, S, base, f)
  BY DEF Runs, Follows
<1> QED
  BY <1>1, SameLoop

LEMMA TransfersAgree ==
    ASSUME NEW t \in OwnTrees, NEW token, NEW n, NEW list, IsPayments(list, n),
           NEW other, IsPayments(other, n), SameTransfers(list, other, n)
    PROVE  Transfers(t, list, token) = Transfers(t, other, token)
<1>1. PICK process : process = [i \in 1 .. n |-> [c \in OwnTrees |->
                                   ProcessTransfer(c, list[i], token)]]
  OBVIOUS
<1>2. process = [i \in 1 .. n |-> [c \in OwnTrees |-> ProcessTransfer(c, other[i], token)]]
  <2>1. ASSUME NEW i \in 1 .. n, NEW c \in OwnTrees
        PROVE  ProcessTransfer(c, list[i], token) = ProcessTransfer(c, other[i], token)
    BY DEF SameTransfers, ProcessTransfer, Then
  <2> QED
    BY <1>1, <2>1
<1>3. PICK loop : /\ Runs(loop, n, OwnSteps, Ended("Ok", t), Turns(process, n))
                  /\ Transfers(t, list, token) = loop[n]
  BY <1>1, TransferRuns
<1>4. PICK same : /\ Runs(same, n, OwnSteps, Ended("Ok", t), Turns(process, n))
                  /\ Transfers(t, other, token) = same[n]
  BY <1>2, TransferRuns
<1>5. n \in Nat
  BY DEF IsPayments
<1> QED
  BY <1>3, <1>4, <1>5, RunsFollow

LEMMA SendersAgree ==
    ASSUME NEW t \in OwnTrees, NEW token, NEW n, NEW list, IsPayments(list, n),
           NEW other, IsPayments(other, n), SameSenders(list, other, n)
    PROVE  Senders(t, list, token) = Senders(t, other, token)
<1>1. PICK process : process = [i \in 1 .. n |-> [c \in OwnTrees |->
                                   ProcessSender(c, list[i].fromIndex, token,
                                                 list[i].amount, list[i].fee)]]
  OBVIOUS
<1>2. process = [i \in 1 .. n |-> [c \in OwnTrees |->
                   ProcessSender(c, other[i].fromIndex, token, other[i].amount, other[i].fee)]]
  <2>1. ASSUME NEW i \in 1 .. n, NEW c \in OwnTrees
        PROVE  ProcessSender(c, list[i].fromIndex, token, list[i].amount, list[i].fee)
                  = ProcessSender(c, other[i].fromIndex, token, other[i].amount, other[i].fee)
    BY DEF SameSenders
  <2> QED
    BY <1>1, <2>1
<1>3. PICK loop : /\ Runs(loop, n, OwnSteps, Ended("Ok", t), Turns(process, n))
                  /\ Senders(t, list, token) = loop[n]
  BY <1>1, SenderRuns
<1>4. PICK same : /\ Runs(same, n, OwnSteps, Ended("Ok", t), Turns(process, n))
                  /\ Senders(t, other, token) = same[n]
  BY <1>2, SenderRuns
<1>5. n \in Nat
  BY DEF IsPayments
<1> QED
  BY <1>3, <1>4, <1>5, RunsFollow
-----------------------------------------------------------------------------
(* The two kinds of commitment.                                            *)
TransferBody(list, feeReceiver) == [txs |-> list, feeReceiver |-> feeReceiver]
MigrationBody(list, feeReceiver, tokenID, amount, withdrawRoot) ==
    [txs |-> list, feeReceiver |-> feeReceiver, tokenID |-> tokenID, amount |-> amount,
     withdrawRoot |-> withdrawRoot]

LEMMA FeesSum ==
    ASSUME NEW list, NEW n, IsPayments(list, n)
    PROVE  Fees(list) \in Nat /\ TotalAmount(list) \in Nat
<1>1. n \in Nat /\ DOMAIN list = 1 .. n
      /\ \A i \in 1 .. n : list[i].amount \in Nat /\ list[i].fee \in Nat
  BY DEF IsPayments
<1>2. PICK fees : fees = [i \in 1 .. n |-> list[i].fee]
  OBVIOUS
<1>3. PICK amounts : amounts = [i \in 1 .. n |-> list[i].amount]
  OBVIOUS
<1>4. Fees(list) = Total(fees) /\ TotalAmount(list) = Total(amounts)
  BY <1>1, <1>2, <1>3 DEF Fees, TotalAmount, SumOf
<1>5. /\ fees \in [1 .. n -> Int] /\ \A i \in 1 .. n : fees[i] \in Nat
      /\ amounts \in [1 .. n -> Int] /\ \A i \in 1 .. n : amounts[i] \in Nat
  BY <1>1, <1>2, <1>3
<1> QED
  BY <1>1, <1>4, <1>5, TotalIsNatural

LEMMA FeesAgree ==
    ASSUME NEW list, NEW other, NEW n, IsPayments(list, n), IsPayments(other, n),
           SameSenders(list, other, n)
    PROVE  Fees(list) = Fees(other) /\ TotalAmount(list) = TotalAmount(other)
<1>1. DOMAIN list = 1 .. n /\ DOMAIN other = 1 .. n
  BY DEF IsPayments
<1>2. /\ [i \in DOMAIN list |-> list[i].fee] = [i \in DOMAIN other |-> other[i].fee]
      /\ [i \in DOMAIN list |-> list[i].amount] = [i \in DOMAIN other |-> other[i].amount]
  BY <1>1 DEF SameSenders
<1> QED
  BY <1>2 DEF Fees, TotalAmount, SumOf

LEMMA FirstIs ==
    ASSUME NEW list, NEW n, IsPayments(list, n), n >= 1
    PROVE  Head(list) = list[1] /\ list # <<>>
<1>1. PICK S : list \in Seq(S) /\ Len(list) = n
  BY DEF IsPayments, IsListOf
<1> QED
  BY <1>1

LEMMA TokensAgree ==
    ASSUME NEW t, NEW f, NEW list, NEW other, NEW n, IsPayments(list, n),
           IsPayments(other, n), n >= 1, SameSenders(list, other, n)
    PROVE  TokenTypeOf(t, list, f) = TokenTypeOf(t, other, f)
<1>1. /\ Head(list) = list[1] /\ list # <<>> /\ Head(other) = other[1] /\ other # <<>>
  BY FirstIs
<1>2. n \in Nat /\ 1 \in 1 .. n
  BY DEF IsPayments
<1>3. Head(list).fromIndex = Head(other).fromIndex
  BY <1>1, <1>2 DEF SameSenders
<1> QED
  BY <1>1, <1>3 DEF TokenTypeOf

LEMMA TransferCommitIs ==
    ASSUME NEW t, NEW body, NEW loop,
           loop = Transfers(t, body.txs, TokenTypeOf(t, body.txs, body.feeReceiver))
    PROVE  ProcessTransferCommit(t, body)
              = IF IsOk(loop)
                THEN ProcessReceiver(loop.tree, body.feeReceiver,
                                     TokenTypeOf(t, body.txs, body.feeReceiver),
                                     Fees(body.txs))
                ELSE loop
BY DEF ProcessTransferCommit, Then, Transfers

LEMMA TransferCommitOf ==
    ASSUME NEW t, NEW list, NEW f, NEW token, NEW loop, token = TokenTypeOf(t, list, f),
           loop = Transfers(t, list, token)
    PROVE  ProcessTransferCommit(t, TransferBody(list, f))
              = IF IsOk(loop) THEN ProcessReceiver(loop.tree, f, token, Fees(list)) ELSE loop
<1>1. PICK body : body = TransferBody(list, f)
  OBVIOUS
<1>2. body.txs = list /\ body.feeReceiver = f
  BY <1>1 DEF TransferBody
<1>3. /\ token = TokenTypeOf(t, body.txs, body.feeReceiver)
      /\ loop = Transfers(t, body.txs, TokenTypeOf(t, body.txs, body.feeReceiver))
  BY <1>2
<1> QED
  BY <1>1, <1>2, <1>3, TransferCommitIs

LEMMA TransferCommitSpends ==
    ASSUME NEW t \in OwnTrees, NEW f, NEW list, NEW n, IsPayments(list, n), NEW from,
           from = [i \in 1 .. n |-> list[i].fromIndex], NEW end,
           end = ProcessTransferCommit(t, TransferBody(list, f))
    PROVE  end \in OwnSteps /\ (IsOk(end) => SpentBy(t, end.tree, from, n))
<1>1. PICK token : token = TokenTypeOf(t, list, f)
  OBVIOUS
<1>2. PICK loop : loop = Transfers(t, list, token)
  OBVIOUS
<1>3. end = IF IsOk(loop) THEN ProcessReceiver(loop.tree, f, token, Fees(list)) ELSE loop
  BY <1>1, <1>2, TransferCommitOf
<1>4. loop \in OwnSteps /\ (IsOk(loop) => SpentBy(t, loop.tree, from, n))
  BY <1>2, TransferLoop
<1>5. CASE ~IsOk(loop)
  BY <1>3, <1>4, <1>5
<1>6. CASE IsOk(loop)
  <2>1. loop.tree \in OwnTrees /\ Fees(list) \in Nat
    BY <1>4, FeesSum DEF OwnSteps
  <2>2. end = ProcessReceiver(loop.tree, f, token, Fees(list))
    BY <1>3, <1>6
  <2>3. end \in OwnSteps
        /\ (IsOk(end) => SameKeys(loop.tree, end.tree) /\ SameNonces(loop.tree, end.tree))
    BY <2>1, <2>2, ReceiverGets
  <2> QED
    BY <1>4, <1>6, <2>3 DEF SpentBy, SameKeys, SameNonces
<1> QED
  BY <1>5, <1>6

LEMMA TransferCommitsAgree ==
    ASSUME NEW t \in OwnTrees, NEW f, NEW n, n >= 1, NEW list, IsPayments(list, n),
           NEW other, IsPayments(other, n), SameTransfers(list, other, n)
    PROVE  ProcessTransferCommit(t, TransferBody(list, f))
              = ProcessTransferCommit(t, TransferBody(other, f))
<1>1. SameSenders(list, other, n)
  BY DEF SameSenders, SameTransfers
<1>2. PICK token : token = TokenTypeOf(t, list, f) /\ token = TokenTypeOf(t, other, f)
  BY <1>1, TokensAgree
<1>3. PICK loop : loop = Transfers(t, list, token) /\ loop = Transfers(t, other, token)
  BY TransfersAgree
<1>4. Fees(list) = Fees(other)
  BY <1>1, FeesAgree
<1>5. ProcessTransferCommit(t, TransferBody(list, f))
         = IF IsOk(loop) THEN ProcessReceiver(loop.tree, f, token, Fees(list)) ELSE loop
  BY <1>2, <1>3, TransferCommitOf
<1>6. ProcessTransferCommit(t, TransferBody(other, f))
         = IF IsOk(loop) THEN ProcessReceiver(loop.tree, f, token, Fees(other)) ELSE loop
  BY <1>2, <1>3, TransferCommitOf
<1> QED
  BY <1>4, <1>5, <1>6

LEMMA MigrationResultType ==
    ASSUME NEW t, NEW body
    PROVE  MigrationResult(t, body) \in OwnResults
BY DEF MigrationResult, OwnResults

LEMMA MigrationCommitIs ==
    ASSUME NEW t, NEW body, NEW loop, loop = Senders(t, body.txs, body.tokenID), NEW fee,
           fee = ProcessReceiver(loop.tree, body.feeReceiver, body.tokenID, Fees(body.txs))
    PROVE  ProcessMassMigrationCommit(t, body)
              = IF IsOk(loop)
                THEN IF IsOk(fee) THEN Ended(MigrationResult(t, body), fee.tree) ELSE fee
                ELSE loop
BY DEF ProcessMassMigrationCommit, Then, Senders

LEMMA MigrationCommitOf ==
    ASSUME NEW t, NEW f, NEW list, NEW token, NEW amount, NEW root, NEW body,
           body = MigrationBody(list, f, token, amount, root), NEW loop,
           loop = Senders(t, list, token), NEW fee,
           fee = ProcessReceiver(loop.tree, f, token, Fees(list))
    PROVE  ProcessMassMigrationCommit(t, body)
              = IF IsOk(loop)
                THEN IF IsOk(fee) THEN Ended(MigrationResult(t, body), fee.tree) ELSE fee
                ELSE loop
<1>1. /\ body.txs = list /\ body.feeReceiver = f /\ body.tokenID = token
  BY DEF MigrationBody
<1>2. loop = Senders(t, body.txs, body.tokenID)
      /\ fee = ProcessReceiver(loop.tree, body.feeReceiver, body.tokenID, Fees(body.txs))
  BY <1>1
<1> QED
  BY <1>2, MigrationCommitIs

LEMMA MigrationCommitSpends ==
    ASSUME NEW t \in OwnTrees, NEW f, NEW list, NEW n, IsPayments(list, n), NEW from,
           from = [i \in 1 .. n |-> list[i].fromIndex], NEW token, NEW amount, NEW root,
           NEW end,
           end = ProcessMassMigrationCommit(t, MigrationBody(list, f, token, amount, root))
    PROVE  end \in OwnSteps /\ (IsOk(end) => SpentBy(t, end.tree, from, n))
<1>1. PICK body : body = MigrationBody(list, f, token, amount, root)
  OBVIOUS
<1>2. PICK loop : loop = Senders(t, list, token)
  OBVIOUS
<1>3. PICK fee : fee = ProcessReceiver(loop.tree, f, token, Fees(list))
  OBVIOUS
<1>4. end = IF IsOk(loop)
            THEN IF IsOk(fee) THEN Ended(MigrationResult(t, body), fee.tree) ELSE fee
            ELSE loop
  BY <1>1, <1>2, <1>3, MigrationCommitOf
<1>5. loop \in OwnSteps /\ (IsOk(loop) => SpentBy(t, loop.tree, from, n))
  BY <1>2, SenderLoop
<1>6. CASE ~IsOk(loop)
  BY <1>4, <1>5, <1>6
<1>7. CASE IsOk(loop)
  <2>1. loop.tree \in OwnTrees /\ Fees(list) \in Nat
    BY <1>5, FeesSum DEF OwnSteps
  <2>2. fee \in OwnSteps
        /\ (IsOk(fee) => SameKeys(loop.tree, fee.tree) /\ SameNonces(loop.tree, fee.tree))
    BY <1>3, <2>1, ReceiverGets
  <2>3. CASE ~IsOk(fee)
    BY <1>4, <1>7, <2>2, <2>3
  <2>4. CASE IsOk(fee)
    <3>1. SpentBy(t, fee.tree, from, n)
      BY <1>5, <1>7, <2>2, <2>4 DEF SpentBy, SameKeys, SameNonces
    <3>2. end = Ended(MigrationResult(t, body), fee.tree)
      BY <1>4, <1>7, <2>4
    <3>3. fee.tree \in OwnTrees
      BY <2>2 DEF OwnSteps
    <3>4. end \in OwnSteps /\ end.tree = fee.tree
      BY <3>2, <3>3, MigrationResultType, OwnStep
    <3> QED
      BY <3>1, <3>4
  <2> QED
    BY <2>3, <2>4
<1> QED
  BY <1>6, <1>7

LEMMA MigrationCommitsAgree ==
    ASSUME NEW t \in OwnTrees, NEW f, NEW n, n >= 1, NEW list, IsPayments(list, n),
           NEW other, IsPayments(other, n), SameSenders(list, other, n),
           NEW token, NEW amount, NEW root
    PROVE  ProcessMassMigrationCommit(t, MigrationBody(list, f, token, amount, root))
              = ProcessMassMigrationCommit(t, MigrationBody(other, f, token, amount, root))
<1>1. PICK one : one = MigrationBody(list, f, token, amount, root)
  OBVIOUS
<1>2. PICK two : two = MigrationBody(other, f, token, amount, root)
  OBVIOUS
<1>3. PICK loop : loop = Senders(t, list, token) /\ loop = Senders(t, other, token)
  BY SendersAgree
<1>4. Fees(list) = Fees(other) /\ TotalAmount(list) = TotalAmount(other)
  BY FeesAgree
<1>5. WithdrawLeaves(t, one) = WithdrawLeaves(t, two)
  <2>1. /\ one.txs = list /\ two.txs = other /\ one.tokenID = token /\ two.tokenID = token
    BY <1>1, <1>2 DEF MigrationBody
  <2>2. DOMAIN list = 1 .. n /\ DOMAIN other = 1 .. n
    BY DEF IsPayments
  <2>3. \A i \in 1 .. n : list[i].fromIndex = other[i].fromIndex
                          /\ list[i].amount = other[i].amount
    BY DEF SameSenders
  <2>4. \A i \in 1 .. n : CreateState(t[list[i].fromIndex].pubkeyIndex, token, list[i].amount)
                           = CreateState(t[other[i].fromIndex].pubkeyIndex, token,
                                         other[i].amount)
    BY <2>3
  <2> QED
    BY <2>1, <2>2, <2>4 DEF WithdrawLeaves
<1>6. MigrationResult(t, one) = MigrationResult(t, two)
  <2>1. /\ one.txs = list /\ two.txs = other /\ one.amount = two.amount
        /\ one.withdrawRoot = two.withdrawRoot
    BY <1>1, <1>2 DEF MigrationBody
  <2>2. Len(list) = Len(other)
    BY DEF IsPayments
  <2> QED
    BY <1>4, <1>5, <2>1, <2>2 DEF MigrationResult
<1>7. PICK fee : fee = ProcessReceiver(loop.tree, f, token, Fees(list))
  OBVIOUS
<1>8. ProcessMassMigrationCommit(t, one)
         = IF IsOk(loop)
           THEN IF IsOk(fee) THEN Ended(MigrationResult(t, one), fee.tree) ELSE fee
           ELSE loop
  <2>1. loop = Senders(t, list, token)
    BY <1>3
  <2> QED
    BY ONLY <1>1, <1>7, <2>1, MigrationCommitOf
<1>9. ProcessMassMigrationCommit(t, two)
         = IF IsOk(loop)
           THEN IF IsOk(fee) THEN Ended(MigrationResult(t, two), fee.tree) ELSE fee
           ELSE loop
  <2>1. fee = ProcessReceiver(loop.tree, f, token, Fees(other))
    BY <1>4, <1>7
  <2> QED
    BY <1>2, <1>3, <2>1, MigrationCommitOf
<1> QED
  BY <1>1, <1>2, <1>6, <1>8, <1>9
-----------------------------------------------------------------------------
(* The balance that the states begin with.                                 *)
LEMMA TenToBeyond ==
    ASSUME NEW n \in Nat
    PROVE  TenTo[n] > n
<1> DEFINE T == {k \in 0 .. n : TenTo[k] > k}
<1>1. 0 \in T
  BY TenToIs
<1>2. ASSUME NEW k \in 1 .. n, k - 1 \in T PROVE k \in T
  <2>1. PICK j \in Nat : j = k - 1 /\ j + 1 = k
    OBVIOUS
  <2>2. TenTo[j + 1] = 10 * TenTo[j] /\ TenTo[j] > j /\ TenTo[j] \in Nat
    BY <1>2, <2>1, TenToIs
  <2>3. TenTo[j + 1] > j + 1
    BY <2>2
  <2> QED
    BY <2>1, <2>3
<1> HIDE DEF T
<1>3. 0 .. n \subseteq T
  BY <1>1, <1>2, LoopInduction
<1> QED
  BY <1>3 DEF T

LEMMA DroppedIs ==
    ASSUME NEW input \in Nat
    PROVE  /\ Dropped(input) \in Nat
           /\ input <= mantissaMax * TenTo[Dropped(input)]
           /\ Dropped(input) = 0 \/ input > mantissaMax * TenTo[Dropped(input) - 1]
<1>1. PICK max \in Nat : max = mantissaMax /\ max >= 1
  BY MaximaAre
<1> DEFINE Holds(k) == input <= max * TenTo[k]
           Stops(k) == Holds(k) /\ (k = 0 \/ input > max * TenTo[k - 1])
           T == {k \in 0 .. input : ~Holds(k)}
<1>2. \E k \in 0 .. input : Stops(k)
  <2>1. SUFFICES ASSUME \A k \in 0 .. input : ~Stops(k) PROVE FALSE
    OBVIOUS
  <2>2. 0 \in T
    BY <2>1
  <2>3. ASSUME NEW k \in 1 .. input, k - 1 \in T PROVE k \in T
    <3>1. k - 1 \in Nat /\ k \in 0 .. input
      OBVIOUS
    <3>2. PICK x \in Nat : x = max * TenTo[k - 1]
      <4>1. TenTo[k - 1] \in Nat
        BY <3>1, TenToIs
      <4> QED
        BY <4>1
    <3>3. input > x
      BY <2>3, <3>2
    <3> QED
      BY <2>1, <3>1, <3>2, <3>3
  <2>4. input \in T
    <3> HIDE DEF T
    <3>1. 0 .. input \subseteq T
      BY <2>2, <2>3, LoopInduction
    <3> QED
      BY <3>1
  <2>5. PICK t \in Nat : t = TenTo[input] /\ t > input
    BY TenToBeyond, TenToIs
  <2>6. max * t >= t
    BY <1>1
  <2> QED
    BY <2>4, <2>5, <2>6
<1> DEFINE chosen == CHOOSE k \in 0 .. input : Stops(k)
<1>3. Dropped(input) = chosen
  BY <1>1 DEF Dropped
<1> HIDE DEF Stops
<1>4. chosen \in 0 .. input /\ Stops(chosen)
  BY <1>2
<1> HIDE DEF chosen
<1> QED
  BY <1>1, <1>3, <1>4 DEF Stops

LEMMA CastIs ==
    ASSUME NEW input \in Nat
    PROVE  castInt(input) \in Nat
<1>1. PICK u \in Nat : u = TenTo[Dropped(input)] /\ u >= 1
  BY DroppedIs, TenToIs
<1>2. PICK q \in Nat : q = input \div u
  BY <1>1, Quotient
<1>3. PICK x \in Nat : x = cast(input)
  BY <1>1, <1>2 DEF cast
<1>4. PICK w \in Nat : w = TenTo[Digits - place] /\ w >= 1
  <2>1. Digits - place \in Nat
    BY CodecAssumption
  <2> QED
    BY <2>1, TenToIs
<1>5. PICK y \in Nat : y = x + w \div 2
  <2>1. w \div 2 \in Nat
    BY Quotient
  <2> QED
    BY <2>1
<1>6. y \div w \in Nat
  BY <1>4, Quotient
<1> QED
  BY <1>3, <1>4, <1>5, <1>6 DEF castInt, Rounded

IsStates(list, input) ==
    /\ DOMAIN list = Own
    /\ \A k \in Own : /\ list[k].balance = castInt(input) /\ list[k].balance \in Nat
                      /\ list[k].nonce = 9 + k /\ list[k].stateID = k
                      /\ list[k].pubkeyIndex = k /\ list[k].publicKey = k
                      /\ list[k].tokenType = 1

LEMMA StatesAre ==
    ASSUME NEW input \in Nat, NEW list, list = StatesFrom(input)
    PROVE  IsStates(list, input)
<1>1. PICK b \in Nat : b = castInt(input)
  BY CastIs
<1>2. list = [k \in Own |-> StateNew(0 + k, 1, b, 9 + k, 0 + k)]
  BY <1>1 DEF StatesFrom, buildList, Own
<1>3. \A k \in Own : list[k] = StateNew(k, 1, b, 9 + k, k)
  <2>1. \A k \in Own : 0 + k = k
    BY DEF Own
  <2> QED
    BY <1>2, <2>1
<1>4. DOMAIN list = Own
  BY <1>2
<1>5. ASSUME NEW k \in Own
      PROVE  /\ list[k].balance = b /\ list[k].nonce = 9 + k /\ list[k].stateID = k
             /\ list[k].pubkeyIndex = k /\ list[k].publicKey = k /\ list[k].tokenType = 1
  <2>1. list[k] = [pubkeyIndex |-> k, tokenType |-> 1, balance |-> b, nonce |-> 9 + k,
                   stateID |-> k, publicKey |-> k]
    BY <1>3 DEF StateNew
  <2> QED
    BY ONLY <2>1
<1> QED
  BY <1>1, <1>4, <1>5 DEF IsStates

LEMMA TenthIs ==
    ASSUME NEW x \in Nat
    PROVE  Tenth(x) \in Nat /\ Tenth(Tenth(x)) \in Nat
BY Quotient DEF Tenth

(* What the factories make.                                                *)
IsFactoryList(list, kind, n) ==
    /\ n \in 1 .. NumOfStates /\ list \in Seq(TxOf(kind)) /\ Len(list) = n
    /\ DOMAIN list = 1 .. n
    /\ \A i \in 1 .. n : list[i].fromIndex = i - 1 /\ list[i].nonce = 9 + (i - 1)
    /\ kind = "MassMigration" => \E spokeID : \A i \in 1 .. n : list[i].spokeID = spokeID

(* Each pays a tenth of the balance, and a tenth of that as the fee.       *)
PaysTenths(list, kind, n, b) ==
    \A i \in 1 .. n :
        /\ list[i].amount = Tenth(b) /\ list[i].fee = Tenth(Tenth(b))
        /\ kind = "Transfer" => list[i].toIndex \in Own
        /\ kind = "Create2Transfer" =>
              list[i].toIndex = NumOfStates + (i - 1) /\ list[i].toAccID = list[i].toIndex

LEMMA OwnIs ==
    /\ NumOfStates \in Nat /\ NumOfStates >= 1 /\ Own \subseteq Nat
    /\ \A n \in 1 .. NumOfStates : n \in Nat /\ \A i \in 1 .. n : i - 1 \in Own
    /\ \A k \in Own : 9 + k \in 0 .. Uint32Max
<1>1. NumOfStates \in Nat /\ NumOfStates >= 1
  BY CommitterAssumption
<1>2. Uint32Max \in Int
  BY BaseIs DEF Uint32Max
<1>3. PICK extra \in Nat : extra = MaxDrafts * (NumOfStates + MaxSigned)
  BY CommitterAssumption
<1>4. 9 + NumOfStates <= Uint32Max
  BY <1>1, <1>2, <1>3, NoncesAssumption
<1> QED
  BY <1>1, <1>2, <1>4 DEF Own

LEMMA TransferFactory ==
    ASSUME NEW input \in Nat, NEW list, list = StatesFrom(input), NEW n \in 1 .. NumOfStates
    PROVE  /\ IsFactoryList(txTransferFactory(list, n), "Transfer", n)
           /\ PaysTenths(txTransferFactory(list, n), "Transfer", n, castInt(input))
<1>1. PICK made : made = txTransferFactory(list, n)
  OBVIOUS
<1>2. PICK tenth \in Nat : tenth = Tenth(castInt(input)) /\ Tenth(tenth) \in Nat
  BY CastIs, TenthIs
<1>3. n \in Nat /\ n >= 1 /\ \A i \in 1 .. n : i - 1 \in Own /\ i - 1 \in Nat
  BY OwnIs
<1>4. DOMAIN made = 1 .. n
      /\ \A i \in 1 .. n : made[i] = TxTransfer(i - 1, (i - 1 + 5) % n, tenth, Tenth(tenth),
                                                9 + (i - 1))
  <2>1. DOMAIN made = 1 .. n
        /\ \A i \in 1 .. n : made[i] = TxTransfer(i - 1, (i - 1 + 5) % n,
                                   Tenth(list[i - 1].balance),
                                   Tenth(Tenth(list[i - 1].balance)), list[i - 1].nonce)
    BY <1>1 DEF txTransferFactory
  <2>2. \A i \in 1 .. n : list[i - 1].balance = castInt(input)
                          /\ list[i - 1].nonce = 9 + (i - 1)
    <3>1. IsStates(list, input)
      BY StatesAre
    <3> QED
      BY <1>3, <3>1 DEF IsStates
  <2> QED
    BY <1>2, <2>1, <2>2
<1>5. \A i \in 1 .. n : (i - 1 + 5) % n \in Nat /\ (i - 1 + 5) % n \in Own
  <2>1. n <= NumOfStates /\ NumOfStates \in Nat
    BY OwnIs
  <2>2. \A x \in Nat : x % n \in 0 .. n - 1
    BY <1>3
  <2>3. \A i \in 1 .. n : i - 1 + 5 \in Nat
    BY <1>3
  <2>4. \A i \in 1 .. n : (i - 1 + 5) % n \in 0 .. n - 1
    BY <2>2, <2>3
  <2>5. 0 .. n - 1 \subseteq Own /\ 0 .. n - 1 \subseteq Nat
    BY <1>3, <2>1 DEF Own
  <2> QED
    BY <2>4, <2>5
<1>6. \A i \in 1 .. n : made[i] \in TxOf("Transfer") /\ made[i].fromIndex = i - 1
                        /\ made[i].nonce = 9 + (i - 1)
  BY <1>2, <1>3, <1>4, <1>5 DEF TxTransfer, TxOf
<1>7. made \in [1 .. n -> TxOf("Transfer")]
  <2>1. made = [i \in 1 .. n |-> made[i]]
    BY <1>1 DEF txTransferFactory
  <2> QED
    BY <1>6, <2>1
<1>8. made \in Seq(TxOf("Transfer")) /\ Len(made) = n
  BY <1>3, <1>7, Indexed
<1>9. PaysTenths(made, "Transfer", n, castInt(input))
  <2>1. \A i \in 1 .. n : /\ made[i].amount = tenth /\ made[i].fee = Tenth(tenth)
                          /\ made[i].toIndex = (i - 1 + 5) % n
    BY <1>4 DEF TxTransfer
  <2> QED
    BY <1>2, <1>5, <2>1 DEF PaysTenths
<1> QED
  BY <1>1, <1>4, <1>6, <1>8, <1>9 DEF IsFactoryList

LEMMA MassMigrationFactory ==
    ASSUME NEW input \in Nat, NEW list, list = StatesFrom(input), NEW n \in 1 .. NumOfStates,
           NEW spokeID \in SpokeIDs
    PROVE  /\ IsFactoryList(txMassMigrationFactory(list, n, spokeID), "MassMigration", n)
           /\ PaysTenths(txMassMigrationFactory(list, n, spokeID), "MassMigration", n,
                         castInt(input))
<1>1. PICK made : made = txMassMigrationFactory(list, n, spokeID)
  OBVIOUS
<1>2. PICK tenth \in Nat : tenth = Tenth(castInt(input)) /\ Tenth(tenth) \in Nat
  BY CastIs, TenthIs
<1>3. /\ n \in Nat /\ n >= 1
      /\ \A i \in 1 .. n : i - 1 \in Own /\ i - 1 \in Nat /\ 9 + (i - 1) \in 0 .. Uint32Max
  BY OwnIs
<1>4. DOMAIN made = 1 .. n
      /\ \A i \in 1 .. n : made[i] = TxMassMigration(i - 1, tenth, spokeID, Tenth(tenth),
                                                     9 + (i - 1))
  <2>1. DOMAIN made = 1 .. n
        /\ \A i \in 1 .. n : made[i] = TxMassMigration(i - 1, Tenth(list[i - 1].balance), spokeID,
                                   Tenth(Tenth(list[i - 1].balance)), list[i - 1].nonce)
    BY <1>1 DEF txMassMigrationFactory
  <2>2. \A i \in 1 .. n : list[i - 1].balance = castInt(input)
                          /\ list[i - 1].nonce = 9 + (i - 1)
    <3>1. IsStates(list, input)
      BY StatesAre
    <3> QED
      BY <1>3, <3>1 DEF IsStates
  <2> QED
    BY <1>2, <2>1, <2>2
<1>5. spokeID \in 0 .. Uint32Max
  BY CommitterAssumption
<1>6. \A i \in 1 .. n : /\ made[i] \in TxOf("MassMigration") /\ made[i].fromIndex = i - 1
                        /\ made[i].nonce = 9 + (i - 1) /\ made[i].spokeID = spokeID
  BY <1>2, <1>3, <1>4, <1>5 DEF TxMassMigration, TxOf
<1>7. made \in [1 .. n -> TxOf("MassMigration")]
  <2>1. made = [i \in 1 .. n |-> made[i]]
    BY <1>1 DEF txMassMigrationFactory
  <2> QED
    BY <1>6, <2>1
<1>8. made \in Seq(TxOf("MassMigration")) /\ Len(made) = n
  BY <1>3, <1>7, Indexed
<1>9. PaysTenths(made, "MassMigration", n, castInt(input))
  BY <1>2, <1>4 DEF TxMassMigration, PaysTenths
<1> QED
  BY <1>1, <1>4, <1>6, <1>8, <1>9 DEF IsFactoryList

LEMMA Create2TransferFactory ==
    ASSUME NEW input \in Nat, NEW list, list = StatesFrom(input)
    PROVE  /\ IsFactoryList(txCreate2TransferFactory(list, NewStates, NumOfStates),
                            "Create2Transfer", NumOfStates)
           /\ PaysTenths(txCreate2TransferFactory(list, NewStates, NumOfStates),
                         "Create2Transfer", NumOfStates, castInt(input))
<1>1. PICK made : made = txCreate2TransferFactory(list, NewStates, NumOfStates)
  OBVIOUS
<1>2. PICK tenth \in Nat : tenth = Tenth(castInt(input)) /\ Tenth(tenth) \in Nat
  BY CastIs, TenthIs
<1>3. PICK n : n = NumOfStates
  OBVIOUS
<1>4. n \in Nat /\ n >= 1 /\ \A i \in 1 .. n : i - 1 \in Own /\ i - 1 \in Nat
  BY <1>3, OwnIs
<1>5. \A i \in 1 .. n : NewStates[i - 1].stateID = n + (i - 1)
                        /\ NewStates[i - 1].publicKey = n + (i - 1)
                        /\ NewStates[i - 1].pubkeyIndex = n + (i - 1)
  BY <1>3, <1>4 DEF NewStates, buildList, StateNew, Own
<1>6. DOMAIN made = 1 .. n
      /\ \A i \in 1 .. n : made[i] = TxCreate2Transfer(i - 1, n + (i - 1), i - 1, n + (i - 1),
                                                       n + (i - 1), tenth, Tenth(tenth),
                                                       9 + (i - 1))
  <2>1. DOMAIN made = 1 .. n
        /\ \A i \in 1 .. n : made[i] = TxCreate2Transfer(list[i - 1].stateID,
               NewStates[i - 1].stateID, list[list[i - 1].stateID].publicKey,
               NewStates[i - 1].publicKey, NewStates[i - 1].pubkeyIndex,
               Tenth(list[list[i - 1].stateID].balance),
               Tenth(Tenth(list[list[i - 1].stateID].balance)),
               list[list[i - 1].stateID].nonce)
    BY <1>1, <1>3 DEF txCreate2TransferFactory
  <2>2. \A i \in 1 .. n : /\ list[i - 1].stateID = i - 1 /\ list[i - 1].publicKey = i - 1
                          /\ list[i - 1].balance = castInt(input)
                          /\ list[i - 1].nonce = 9 + (i - 1)
    <3>1. IsStates(list, input)
      BY StatesAre
    <3> QED
      BY <1>4, <3>1 DEF IsStates
  <2> QED
    BY <1>2, <1>5, <2>1, <2>2
<1>7. \A i \in 1 .. n : made[i] \in TxOf("Create2Transfer") /\ made[i].fromIndex = i - 1
                        /\ made[i].nonce = 9 + (i - 1)
  BY <1>2, <1>4, <1>6 DEF TxCreate2Transfer, TxOf
<1>8. made \in [1 .. n -> TxOf("Create2Transfer")]
  <2>1. made = [i \in 1 .. n |-> made[i]]
    BY <1>1, <1>3 DEF txCreate2TransferFactory
  <2> QED
    BY <1>7, <2>1
<1>9. made \in Seq(TxOf("Create2Transfer")) /\ Len(made) = n
  BY <1>4, <1>8, Indexed
<1>10. PaysTenths(made, "Create2Transfer", n, castInt(input))
  BY <1>2, <1>3, <1>6 DEF TxCreate2Transfer, PaysTenths
<1> QED
  BY <1>1, <1>3, <1>4, <1>6, <1>7, <1>9, <1>10 DEF IsFactoryList

LEMMA FactoryListsAre ==
    ASSUME given \in Nat, states = StatesFrom(given), NEW list \in FactoryLists
    PROVE  \E kind \in TxKinds, n \in Nat :
              IsFactoryList(list, kind, n) /\ PaysTenths(list, kind, n, castInt(given))
<1>1. \A n \in 1 .. NumOfStates : n \in Nat
  BY OwnIs
<1>2. ASSUME NEW n \in 1 .. NumOfStates, list = txTransferFactory(states, n)
      PROVE  IsFactoryList(list, "Transfer", n)
             /\ PaysTenths(list, "Transfer", n, castInt(given))
  BY <1>2, TransferFactory
<1>3. ASSUME NEW n \in 1 .. NumOfStates, NEW spokeID \in SpokeIDs,
             list = txMassMigrationFactory(states, n, spokeID)
      PROVE  IsFactoryList(list, "MassMigration", n)
             /\ PaysTenths(list, "MassMigration", n, castInt(given))
  BY <1>3, MassMigrationFactory
<1>4. ASSUME list = txCreate2TransferFactory(states, NewStates, NumOfStates)
      PROVE  /\ IsFactoryList(list, "Create2Transfer", NumOfStates) /\ NumOfStates \in Nat
             /\ PaysTenths(list, "Create2Transfer", NumOfStates, castInt(given))
  BY <1>4, Create2TransferFactory, OwnIs
<1> QED
  BY <1>1, <1>2, <1>3, <1>4 DEF FactoryLists, TxKinds
-----------------------------------------------------------------------------
(* The transactions that wait are the committer's own, or some sender is   *)
(* another: then they are never committed.                                 *)
Waiters(list, k) == {i \in DOMAIN list : list[i].fromIndex = k}
WaitingOf(list, k) == Cardinality(Waiters(list, k))

Distinct(list) ==
    \A i, j \in DOMAIN list :
        i # j /\ list[i].fromIndex = list[j].fromIndex => list[i].nonce # list[j].nonce

OneSpoke(list) == \E spokeID : \A i \in DOMAIN list : list[i].spokeID = spokeID

OwnList(list, t, kind) ==
    /\ Len(list) <= NumOfStates + MaxSigned
    /\ \A i \in DOMAIN list :
          /\ list[i].fromIndex \in Own
          /\ list[i].nonce < t[list[i].fromIndex].nonce + WaitingOf(list, list[i].fromIndex)
    /\ Distinct(list)
    /\ kind = "MassMigration" => OneSpoke(list)

WaitingList(list, t, kind) ==
    /\ list \in Seq(TxOf(kind))
    /\ \/ \E i \in DOMAIN list : list[i].fromIndex \notin Own
       \/ OwnList(list, t, kind)

KeysAreOwn(t) == \A k \in Own : t[k].pubkeyIndex = k

(* The numbers of a list are those up to its length.                       *)
LEMMA WaitingType ==
    ASSUME NEW S, NEW list \in Seq(S), NEW k
    PROVE  /\ IsFiniteSet(Waiters(list, k))
           /\ WaitingOf(list, k) \in Nat
           /\ \A i \in DOMAIN list : list[i].fromIndex = k => WaitingOf(list, k) >= 1
<1>1. IsFiniteSet(DOMAIN list)
  <2>1. Len(list) \in Nat /\ DOMAIN list = 1 .. Len(list)
    BY LenProperties
  <2> QED
    BY <2>1, FS_Interval
<1>2. PICK those : those = Waiters(list, k) /\ those = {i \in DOMAIN list : list[i].fromIndex = k}
  BY DEF Waiters
<1>3. IsFiniteSet(those) /\ Cardinality(those) \in Nat
  <2>1. those \subseteq DOMAIN list
    BY <1>2
  <2> QED
    BY <1>1, <2>1, FS_Subset, FS_CardinalityType
<1>4. ASSUME NEW i \in DOMAIN list, list[i].fromIndex = k PROVE Cardinality(those) >= 1
  <2>1. those # {}
    BY <1>2, <1>4
  <2>2. Cardinality(those) # 0
    BY <1>3, <2>1, FS_EmptySet
  <2>3. PICK c \in Nat : c = Cardinality(those)
    BY <1>3
  <2> QED
    BY <2>2, <2>3
<1> QED
  BY <1>2, <1>3, <1>4 DEF WaitingOf

LEMMA WaitingOneMore ==
    ASSUME NEW S, NEW list \in Seq(S), NEW tx \in S, NEW k
    PROVE  WaitingOf(Append(list, tx), k)
              = WaitingOf(list, k) + (IF tx.fromIndex = k THEN 1 ELSE 0)
<1>1. PICK n \in Nat : n = Len(list) /\ DOMAIN list = 1 .. n
  BY LenProperties
<1>2. PICK more : more = Append(list, tx)
  OBVIOUS
<1>3. /\ DOMAIN more = 1 .. n + 1 /\ more[n + 1] = tx
      /\ \A i \in 1 .. n : more[i] = list[i]
  BY <1>1, <1>2, AppendProperties
<1>4. PICK before : before = Waiters(list, k)
                    /\ before = {i \in DOMAIN list : list[i].fromIndex = k}
  BY DEF Waiters
<1>5. IsFiniteSet(before) /\ n + 1 \notin before /\ Cardinality(before) \in Nat
  <2>1. IsFiniteSet(Waiters(list, k))
    BY WaitingType
  <2> QED
    BY <1>1, <1>4, <2>1, FS_CardinalityType
<1>6. Waiters(more, k) = before \union (IF tx.fromIndex = k THEN {n + 1} ELSE {})
  <2>1. \A i \in 1 .. n + 1 : i \in 1 .. n \/ i = n + 1
    BY <1>1
  <2>2. n + 1 \in 1 .. n + 1 /\ 1 .. n \subseteq 1 .. n + 1
    BY <1>1
  <2>3. Waiters(more, k) = {i \in 1 .. n + 1 : more[i].fromIndex = k}
    BY <1>3 DEF Waiters
  <2>4. before = {i \in 1 .. n : more[i].fromIndex = k}
    BY <1>1, <1>3, <1>4
  <2> QED
    BY <1>3, <2>1, <2>2, <2>3, <2>4
<1>7. CASE tx.fromIndex = k
  <2>1. Waiters(more, k) = before \union {n + 1}
    BY <1>6, <1>7
  <2>2. Cardinality(Waiters(more, k)) = Cardinality(before) + 1
    BY <1>5, <2>1, FS_AddElement
  <2> QED
    BY <1>2, <1>4, <1>7, <2>2 DEF WaitingOf
<1>8. CASE tx.fromIndex # k
  <2>1. Waiters(more, k) = before
    BY <1>6, <1>8
  <2> QED
    BY <1>2, <1>4, <1>5, <1>8, <2>1 DEF WaitingOf
<1> QED
  BY <1>7, <1>8

LEMMA NoneWaits ==
    ASSUME NEW t, NEW kind
    PROVE  WaitingList(<<>>, t, kind)
<1>1. PICK limit \in Nat : limit = NumOfStates + MaxSigned
  BY CommitterAssumption
<1>2. Len(<<>>) = 0 /\ DOMAIN <<>> = {} /\ <<>> \in Seq(TxOf(kind))
  OBVIOUS
<1> QED
  BY <1>1, <1>2 DEF WaitingList, OwnList, Distinct, OneSpoke

LEMMA FactoryWaits ==
    ASSUME NEW t \in OwnTrees, \A k \in Own : t[k].nonce >= 9 + k,
           NEW list, NEW kind, NEW n \in Nat, IsFactoryList(list, kind, n)
    PROVE  WaitingList(list, t, kind)
<1>1. /\ n \in 1 .. NumOfStates /\ list \in Seq(TxOf(kind)) /\ Len(list) = n
      /\ DOMAIN list = 1 .. n
      /\ \A i \in 1 .. n : list[i].fromIndex = i - 1 /\ list[i].nonce = 9 + (i - 1)
      /\ kind = "MassMigration" => OneSpoke(list)
  BY DEF IsFactoryList, OneSpoke
<1>2. Len(list) <= NumOfStates + MaxSigned
  BY <1>1, CommitterAssumption
<1>3. ASSUME NEW i \in DOMAIN list
      PROVE  /\ list[i].fromIndex \in Own
             /\ list[i].nonce < t[list[i].fromIndex].nonce + WaitingOf(list, list[i].fromIndex)
  <2>1. PICK k \in Own : k = i - 1 /\ list[i].fromIndex = k /\ list[i].nonce = 9 + k
    BY <1>1, OwnIs
  <2>2. WaitingOf(list, k) \in Nat /\ WaitingOf(list, k) >= 1
    BY <1>1, <2>1, WaitingType
  <2>3. t[k].nonce \in Nat /\ t[k].nonce >= 9 + k /\ k \in Nat
    BY OwnIs DEF OwnTrees, OwnState
  <2> QED
    BY <2>1, <2>2, <2>3
<1>4. Distinct(list)
  <2>1. ASSUME NEW i \in 1 .. n, NEW j \in 1 .. n, i # j
        PROVE  list[i].fromIndex # list[j].fromIndex
    <3>1. list[i].fromIndex = i - 1 /\ list[j].fromIndex = j - 1
      BY <1>1
    <3> QED
      BY <2>1, <3>1
  <2> QED
    BY <1>1, <2>1 DEF Distinct
<1> QED
  BY <1>1, <1>2, <1>3, <1>4 DEF WaitingList, OwnList

LEMMA DrawnWaits ==
    ASSUME NEW list \in Drawn, NEW t
    PROVE  \E kind \in TxKinds : WaitingList(list, t, kind)
<1>1. PICK kind \in TxKinds :
         /\ list \in Seq(TxOf(kind))
         /\ \A i \in DOMAIN list : list[i].fromIndex \notin Own
  BY DrawnAssumption DEF Own
<1>2. CASE list = <<>>
  BY <1>2, NoneWaits
<1>3. CASE list # <<>>
  <2>1. 1 \in DOMAIN list
    <3>1. Len(list) \in Nat /\ Len(list) # 0 /\ DOMAIN list = 1 .. Len(list)
      BY <1>1, <1>3, LenProperties, EmptySeq
    <3>2. PICK n \in Nat : n = Len(list)
      BY <3>1
    <3> QED
      BY <3>1, <3>2
  <2> QED
    BY <1>1, <2>1 DEF WaitingList
<1> QED
  BY <1>2, <1>3

LEMMA SignedWaits ==
    ASSUME NEW list, NEW t \in OwnTrees, NEW kind \in TxKinds, WaitingList(list, t, kind),
           \A i \in DOMAIN list : list[i].kind = "Transfer", Len(list) < MaxSigned,
           NEW from \in Own, NEW to \in Nat, NEW nonce,
           nonce = t[from].nonce + WaitingOf(list, from), NEW tx,
           tx = TxTransfer(from, to, 1, 0, nonce)
    PROVE  WaitingList(Append(list, tx), t, "Transfer")
<1>1. PICK n \in Nat : n = Len(list) /\ DOMAIN list = 1 .. n
  BY LenProperties DEF WaitingList
<1>2. WaitingList(list, t, "Transfer")
  <2>1. CASE n = 0
    <3>1. list = <<>>
      BY <1>1, <2>1, EmptySeq DEF WaitingList
    <3> QED
      BY <3>1, NoneWaits
  <2>2. CASE n # 0
    <3>1. 1 \in DOMAIN list
      BY <1>1, <2>2
    <3>2. list[1] \in TxOf(kind) /\ list[1].kind = "Transfer"
      BY <3>1 DEF WaitingList
    <3> QED
      BY <3>2, PlainIs
  <2> QED
    BY <2>1, <2>2
<1>3. list \in Seq(TxOf("Transfer"))
  BY <1>2 DEF WaitingList
<1>4. WaitingOf(list, from) \in Nat /\ nonce \in Nat /\ from \in Nat
  <2>1. WaitingOf(list, from) \in Nat
    BY <1>3, WaitingType
  <2>2. from \in Nat /\ t[from].nonce \in Nat
    BY OwnIs DEF OwnTrees, OwnState
  <2> QED
    BY <2>1, <2>2
<1>5. tx \in TxOf("Transfer") /\ tx.fromIndex = from /\ tx.nonce = nonce
  BY <1>4 DEF TxTransfer, TxOf
<1>6. PICK more : more = Append(list, tx)
  OBVIOUS
<1>7. /\ more \in Seq(TxOf("Transfer")) /\ Len(more) = n + 1 /\ DOMAIN more = 1 .. n + 1
      /\ more[n + 1] = tx /\ \A i \in 1 .. n : more[i] = list[i]
  BY <1>1, <1>3, <1>5, <1>6, AppendProperties
<1>8. CASE \E i \in DOMAIN list : list[i].fromIndex \notin Own
  <2>1. \E i \in DOMAIN more : more[i].fromIndex \notin Own
    BY <1>1, <1>7, <1>8
  <2> QED
    BY <1>6, <1>7, <2>1 DEF WaitingList
<1>9. CASE OwnList(list, t, "Transfer")
  <2>1. Len(more) <= NumOfStates + MaxSigned
    <3>1. NumOfStates \in Nat /\ MaxSigned \in Nat
      BY CommitterAssumption
    <3> QED
      BY <1>1, <1>7, <3>1
  <2>2. \A k : /\ WaitingOf(more, k) = WaitingOf(list, k) + (IF from = k THEN 1 ELSE 0)
               /\ WaitingOf(list, k) \in Nat
    <3>1. \A k : WaitingOf(list, k) \in Nat
      BY <1>3, WaitingType
    <3>2. \A k : WaitingOf(more, k) = WaitingOf(list, k) + (IF tx.fromIndex = k THEN 1 ELSE 0)
      BY <1>3, <1>5, <1>6, WaitingOneMore
    <3> QED
      BY <1>5, <3>1, <3>2
  <2>3. \A i \in 1 .. n : list[i] \in TxOf("Transfer")
    BY <1>1, <1>3
  <2>4. \A i \in 1 .. n : list[i].nonce \in Nat
    BY <2>3 DEF TxOf
  <2>5. \A k \in Own : t[k].nonce \in Nat
    BY DEF OwnTrees, OwnState
  <2>6. \A i \in 1 .. n :
           /\ list[i].fromIndex \in Own
           /\ list[i].nonce < t[list[i].fromIndex].nonce + WaitingOf(list, list[i].fromIndex)
    BY <1>1, <1>9 DEF OwnList
  <2>7. ASSUME NEW i \in 1 .. n + 1
        PROVE  /\ more[i].fromIndex \in Own
               /\ more[i].nonce < t[more[i].fromIndex].nonce + WaitingOf(more, more[i].fromIndex)
    <3>1. CASE i \in 1 .. n
      <4>1. PICK k \in Own : k = list[i].fromIndex /\ more[i] = list[i]
                             /\ list[i].nonce < t[k].nonce + WaitingOf(list, k)
        BY <1>7, <2>6, <3>1
      <4>2. WaitingOf(more, k) = WaitingOf(list, k) + (IF from = k THEN 1 ELSE 0)
            /\ WaitingOf(list, k) \in Nat /\ t[k].nonce \in Nat /\ list[i].nonce \in Nat
        BY <2>2, <2>4, <2>5, <3>1
      <4>3. list[i].nonce < t[k].nonce + WaitingOf(more, k)
        BY <4>1, <4>2
      <4> QED
        BY <4>1, <4>3
    <3>2. CASE i = n + 1
      <4>1. WaitingOf(more, from) = WaitingOf(list, from) + 1
        BY <2>2
      <4>2. nonce < t[from].nonce + WaitingOf(more, from)
        BY <1>4, <2>5, <4>1
      <4> QED
        BY <1>5, <1>7, <3>2, <4>2
    <3> QED
      BY <1>1, <3>1, <3>2
  <2>8. ASSUME NEW i \in 1 .. n, list[i].fromIndex = from PROVE list[i].nonce # nonce
    BY <1>4, <2>4, <2>5, <2>6, <2>8
  <2>9. Distinct(more)
    <3>1. \A i, j \in 1 .. n : i # j /\ list[i].fromIndex = list[j].fromIndex
                                  => list[i].nonce # list[j].nonce
      BY <1>1, <1>9 DEF OwnList, Distinct
    <3>2. \A i \in 1 .. n + 1 : i \in 1 .. n \/ i = n + 1
      BY <1>1
    <3> QED
      BY <1>5, <1>7, <2>8, <3>1, <3>2 DEF Distinct
  <2>10. OwnList(more, t, "Transfer")
    BY <1>7, <2>1, <2>7, <2>9 DEF OwnList
  <2> QED
    BY <1>6, <1>7, <2>10 DEF WaitingList
<1> QED
  BY <1>2, <1>8, <1>9 DEF WaitingList
-----------------------------------------------------------------------------
LEMMA TimesSome ==
    ASSUME NEW n \in Nat, NEW from, NEW i \in 1 .. n
    PROVE  /\ Times(from, n, from[i]) \in Nat /\ Times(from, n, from[i]) >= 1
           /\ (\A j \in 1 .. n : from[j] = from[i] => j = i) => Times(from, n, from[i]) = 1
<1>1. PICK those : those = Sending(from, n, from[i])
  OBVIOUS
<1>2. IsFiniteSet(those) /\ Cardinality(those) \in Nat
        /\ Cardinality(those) = Times(from, n, from[i])
  BY <1>1, TimesType DEF Times
<1>3. i \in those
  BY <1>1 DEF Sending
<1>4. Cardinality(those) # 0
  BY <1>2, <1>3, FS_EmptySet
<1>5. ASSUME \A j \in 1 .. n : from[j] = from[i] => j = i PROVE Cardinality(those) = 1
  <2>1. those = {i}
    BY <1>1, <1>5 DEF Sending
  <2> QED
    BY <2>1, FS_Singleton
<1>6. PICK c \in Nat : c = Cardinality(those)
  BY <1>2
<1> QED
  BY <1>2, <1>4, <1>5, <1>6

(* A commitment that was made of a list of the committer's own.            *)
DraftKinds == {"Transfer", "MassMigration"}

IsProcessed(c, list, before) ==
    (IF c.kind = "Transfer"
     THEN ProcessTransferCommit(before, TransferBody(list, c.feeReceiver))
     ELSE ProcessMassMigrationCommit(before,
              MigrationBody(list, c.feeReceiver, c.tokenID, c.amount, c.withdrawRoot)))
    = Ended("Ok", c.stateRoot)

IsSigned(c, list) ==
    c.signature = [i \in DOMAIN list |-> <<list[i].fromIndex, message(list[i])>>]

IsDraft(c, list, before, kind) ==
    /\ c.kind = kind /\ list \in Seq(TxOf(kind)) /\ list # <<>>
    /\ serialize(list) # Refused /\ c.txs = serialize(list)
    /\ before \in OwnTrees /\ KeysAreOwn(before) /\ Distinct(list)
    /\ \A i \in DOMAIN list : list[i].fromIndex \in Own
    /\ kind = "MassMigration" => \A i \in DOMAIN list : list[i].spokeID = c.targetSpokeID
    /\ IsProcessed(c, list, before) /\ IsSigned(c, list)
    /\ c.stateRoot \in OwnTrees /\ \A k \in Own : c.stateRoot[k].nonce <= Uint32Max

(* What the contract reads of it.                                          *)
LEMMA DraftIsRead ==
    ASSUME NEW kind \in DraftKinds, NEW c, NEW list, NEW before, IsDraft(c, list, before, kind)
    PROVE  \E n \in Nat :
              /\ n >= 1 /\ Len(list) = n /\ DOMAIN list = 1 .. n
              /\ \A i \in 1 .. n : list[i] \in TxOf(kind) /\ Fits(list[i])
              /\ DecodedTxs(kind, c.txs) = [i \in 1 .. n |-> Plain(list[i])]
<1>1. kind \in TxKinds
  BY DEF DraftKinds, TxKinds
<1>2. list \in Seq(TxOf(kind)) /\ list # <<>> /\ serialize(list) # Refused
  BY DEF IsDraft
<1>3. PICK n \in Nat : n = Len(list) /\ n >= 1
  <2>1. Len(list) \in Nat /\ Len(list) # 0
    BY <1>2, EmptySeq
  <2>2. PICK m \in Nat : m = Len(list)
    BY <2>1
  <2> QED
    BY <2>1, <2>2
<1>4. DOMAIN list = 1 .. n /\ \A i \in 1 .. n : list[i] \in TxOf(kind)
  BY <1>2, <1>3
<1>5. PICK bytes : bytes = c.txs /\ bytes = serialize(list)
  BY DEF IsDraft
<1>6. IsRead(kind, list)
  BY <1>1, <1>2, ListIsRead
<1>7. size(kind, bytes) = n
      /\ \A i \in 1 .. n : Fits(list[i]) /\ Decoded(kind, bytes, i - 1) = Plain(list[i])
  BY <1>3, <1>5, <1>6 DEF IsRead
<1>8. DecodedTxs(kind, bytes) = [i \in 1 .. n |-> Plain(list[i])]
  BY <1>7 DEF DecodedTxs
<1> QED
  BY <1>3, <1>4, <1>5, <1>7, <1>8

LEMMA PlainPays ==
    ASSUME NEW kind \in DraftKinds, NEW n \in Nat, NEW list \in Seq(TxOf(kind)), Len(list) = n,
           DOMAIN list = 1 .. n, NEW other, other = [i \in 1 .. n |-> Plain(list[i])]
    PROVE  /\ IsPayments(list, n) /\ IsPayments(other, n) /\ SameSenders(list, other, n)
           /\ kind = "Transfer" => SameTransfers(list, other, n)
<1>1. \A i \in 1 .. n : list[i] \in TxOf(kind)
  OBVIOUS
<1>2. ASSUME NEW i \in 1 .. n
      PROVE  /\ list[i].amount \in Nat /\ list[i].fee \in Nat
             /\ other[i].fromIndex = list[i].fromIndex
             /\ other[i].amount = list[i].amount /\ other[i].fee = list[i].fee
             /\ kind = "Transfer" => other[i].toIndex = list[i].toIndex
  <2>1. PICK tx \in TxOf(kind) : tx = list[i] /\ other[i] = Plain(tx)
    BY <1>1
  <2>2. CASE kind = "Transfer"
    <3>1. tx.kind = "Transfer" /\ tx.amount \in Nat /\ tx.fee \in Nat
      BY <2>2 DEF TxOf
    <3>2. Plain(tx) = [fromIndex |-> tx.fromIndex, toIndex |-> tx.toIndex,
                       amount |-> tx.amount, fee |-> tx.fee]
      BY <3>1 DEF Plain
    <3> QED
      BY <2>1, <3>1, <3>2
  <2>3. CASE kind = "MassMigration"
    <3>1. tx.kind = "MassMigration" /\ tx.amount \in Nat /\ tx.fee \in Nat
      BY <2>3 DEF TxOf
    <3>2. Plain(tx) = [fromIndex |-> tx.fromIndex, amount |-> tx.amount, fee |-> tx.fee]
      BY <3>1 DEF Plain
    <3> QED
      BY <2>1, <2>3, <3>1, <3>2
  <2> QED
    BY <2>2, <2>3 DEF DraftKinds
<1>3. other \in Seq({other[i] : i \in 1 .. n}) /\ Len(other) = n /\ DOMAIN other = 1 .. n
  <2>1. other \in [1 .. n -> {other[i] : i \in 1 .. n}]
    OBVIOUS
  <2> QED
    BY <2>1, Indexed
<1>4. IsListOf(list) /\ IsListOf(other)
  BY <1>3 DEF IsListOf
<1> QED
  BY <1>2, <1>3, <1>4 DEF IsPayments, SameSenders, SameTransfers

LEMMA DraftIsClaimed ==
    ASSUME NEW kind \in DraftKinds, NEW c, NEW list, NEW before, IsDraft(c, list, before, kind)
    PROVE  IsProcessed(c, DecodedTxs(c.kind, c.txs), before)
<1>1. PICK n \in Nat : /\ n >= 1 /\ Len(list) = n /\ DOMAIN list = 1 .. n
                       /\ DecodedTxs(kind, c.txs) = [i \in 1 .. n |-> Plain(list[i])]
  BY DraftIsRead
<1>2. PICK other : other = DecodedTxs(c.kind, c.txs) /\ other = [i \in 1 .. n |-> Plain(list[i])]
  BY <1>1 DEF IsDraft
<1>3. list \in Seq(TxOf(kind)) /\ before \in OwnTrees /\ c.kind = kind
      /\ IsProcessed(c, list, before)
  BY DEF IsDraft
<1>4. /\ IsPayments(list, n) /\ IsPayments(other, n) /\ SameSenders(list, other, n)
      /\ kind = "Transfer" => SameTransfers(list, other, n)
  BY <1>1, <1>2, <1>3, PlainPays
<1>5. CASE kind = "Transfer"
  <2>1. ProcessTransferCommit(before, TransferBody(list, c.feeReceiver))
          = ProcessTransferCommit(before, TransferBody(other, c.feeReceiver))
    BY <1>1, <1>3, <1>4, <1>5, TransferCommitsAgree
  <2> QED
    BY <1>2, <1>3, <1>5, <2>1 DEF IsProcessed
<1>6. CASE kind # "Transfer"
  <2>1. ProcessMassMigrationCommit(before,
           MigrationBody(list, c.feeReceiver, c.tokenID, c.amount, c.withdrawRoot))
          = ProcessMassMigrationCommit(before,
               MigrationBody(other, c.feeReceiver, c.tokenID, c.amount, c.withdrawRoot))
    BY <1>1, <1>3, <1>4, MigrationCommitsAgree
  <2> QED
    BY <1>2, <1>3, <1>6, <2>1 DEF IsProcessed
<1> QED
  BY <1>5, <1>6

LEMMA DraftSpends ==
    ASSUME NEW kind \in DraftKinds, NEW c, NEW list, NEW before, IsDraft(c, list, before, kind),
           NEW n \in Nat, n = Len(list), NEW from, from = [i \in 1 .. n |-> list[i].fromIndex]
    PROVE  SpentBy(before, c.stateRoot, from, n)
<1>1. list \in Seq(TxOf(kind)) /\ before \in OwnTrees /\ c.kind = kind /\ DOMAIN list = 1 .. n
  BY DEF IsDraft
<1>2. IsPayments(list, n)
  BY <1>1, PlainPays
<1>3. PICK end : end = Ended("Ok", c.stateRoot) /\ IsOk(end) /\ end.tree = c.stateRoot
  BY OwnStep DEF IsDraft, OwnResults
<1>4. CASE kind = "Transfer"
  <2>1. end = ProcessTransferCommit(before, TransferBody(list, c.feeReceiver))
    BY <1>1, <1>3, <1>4 DEF IsDraft, IsProcessed
  <2> QED
    BY <1>1, <1>2, <1>3, <2>1, TransferCommitSpends
<1>5. CASE kind # "Transfer"
  <2>1. end = ProcessMassMigrationCommit(before,
                 MigrationBody(list, c.feeReceiver, c.tokenID, c.amount, c.withdrawRoot))
    BY <1>1, <1>3, <1>5 DEF IsDraft, IsProcessed
  <2> QED
    BY <1>1, <1>2, <1>3, <2>1, MigrationCommitSpends
<1> QED
  BY <1>4, <1>5
-----------------------------------------------------------------------------
(* The messages that checkSignature() checks are those that were signed    *)
(* just when each nonce is the one that the tree has after all, less one.  *)
LEMMA DraftIsChecked ==
    ASSUME NEW kind \in DraftKinds, NEW c, NEW list, NEW before, IsDraft(c, list, before, kind)
    PROVE  CheckedMessages(c) = c.signature
             <=> \A i \in DOMAIN list :
                    c.stateRoot[list[i].fromIndex].nonce - 1 = list[i].nonce
<1>1. PICK n \in Nat : /\ n >= 1 /\ Len(list) = n /\ DOMAIN list = 1 .. n
                       /\ \A i \in 1 .. n : list[i] \in TxOf(kind) /\ Fits(list[i])
                       /\ DecodedTxs(kind, c.txs) = [i \in 1 .. n |-> Plain(list[i])]
  BY DraftIsRead
<1>2. PICK after \in OwnTrees : after = c.stateRoot /\ \A k \in Own : after[k].nonce <= Uint32Max
  BY DEF IsDraft
<1>3. PICK from : from = [i \in 1 .. n |-> list[i].fromIndex]
  OBVIOUS
<1>4. SpentBy(before, after, from, n)
  BY <1>1, <1>2, <1>3, DraftSpends
<1>5. PICK more : more = IF kind = "MassMigration" THEN <<c.targetSpokeID>> ELSE <<>>
  OBVIOUS
<1>6. PICK decoded : decoded = DecodedTxs(kind, c.txs)
  OBVIOUS
<1>7. PICK checked : checked = CheckedMessages(c)
  OBVIOUS
<1>8. DOMAIN decoded = 1 .. n
  BY <1>1, <1>6
<1>9. checked = [i \in 1 .. n |-> <<after[decoded[i].fromIndex].pubkeyIndex,
                    MessageOf(kind, decoded[i], after[decoded[i].fromIndex].nonce - 1, more)>>]
  <2>1. c.kind = kind
    BY DEF IsDraft
  <2> QED
    BY <1>2, <1>5, <1>6, <1>7, <1>8, <2>1 DEF CheckedMessages
<1>10. ASSUME NEW i \in 1 .. n
       PROVE  /\ decoded[i] = Plain(list[i]) /\ decoded[i].fromIndex = from[i]
              /\ from[i] \in Own /\ after[from[i]].pubkeyIndex = from[i]
              /\ after[from[i]].nonce - 1 \in 0 .. Uint32Max /\ list[i].nonce \in Nat
              /\ MessageOf(kind, decoded[i], after[from[i]].nonce - 1, more) = message(list[i])
                    <=> after[from[i]].nonce - 1 = list[i].nonce
  <2>1. PICK tx \in TxOf(kind) : tx = list[i] /\ Fits(tx)
    BY <1>1
  <2>2. decoded[i] = Plain(tx)
    BY <1>1, <1>6, <2>1
  <2>3. kind \in TxKinds
    BY DEF DraftKinds, TxKinds
  <2>4. Plain(tx).fromIndex = tx.fromIndex /\ tx.nonce \in Nat
    <3>1. CASE kind = "Transfer"
      <4>1. tx.kind = "Transfer" /\ tx.nonce \in Nat
        BY <3>1 DEF TxOf
      <4> QED
        BY <4>1 DEF Plain
    <3>2. CASE kind = "MassMigration"
      <4>1. tx.kind = "MassMigration" /\ tx.nonce \in Nat
        BY <3>2 DEF TxOf
      <4> QED
        BY <4>1 DEF Plain
    <3> QED
      BY <3>1, <3>2 DEF DraftKinds
  <2>5. PICK k \in Own : k = from[i] /\ k = tx.fromIndex
    BY <1>3, <1>4, <2>1 DEF SpentBy
  <2>6. after[k].pubkeyIndex = k
    <3>1. KeysAreOwn(before)
      BY DEF IsDraft
    <3> QED
      BY <1>4, <3>1 DEF SpentBy, SameKeys, KeysAreOwn
  <2>7. PICK last \in Nat : last = after[k].nonce - 1 /\ last <= Uint32Max
    <3>1. before \in OwnTrees
      BY DEF IsDraft
    <3>2. before[k].nonce \in Nat
      BY <3>1 DEF OwnTrees, OwnState
    <3>3. after[k].nonce = before[k].nonce + Times(from, n, k)
      BY <1>4 DEF SpentBy
    <3>4. Times(from, n, k) \in Nat /\ Times(from, n, k) >= 1
      BY <2>5, TimesSome
    <3>5. after[k].nonce <= Uint32Max /\ Uint32Max \in Int
      BY <1>2, BaseIs DEF Uint32Max
    <3> QED
      BY <3>2, <3>3, <3>4, <3>5
  <2>8. more = More(kind, tx)
    <3>1. kind = "MassMigration" => tx.spokeID = c.targetSpokeID
      BY <1>1, <2>1 DEF IsDraft
    <3> QED
      BY <1>5, <3>1 DEF More, DraftKinds
  <2>9. MessageOf(kind, Plain(tx), last, more) = message(tx) <=> last = tx.nonce
    BY <2>1, <2>3, <2>7, <2>8, MessageIs
  <2>10. last \in 0 .. Uint32Max
    <3>1. Uint32Max \in Int
      BY BaseIs DEF Uint32Max
    <3> QED
      BY <2>7, <3>1
  <2> QED
    BY <2>1, <2>2, <2>4, <2>5, <2>6, <2>7, <2>9, <2>10
<1>11. c.signature = [i \in 1 .. n |-> <<from[i], message(list[i])>>]
  <2>1. c.signature = [i \in DOMAIN list |-> <<list[i].fromIndex, message(list[i])>>]
    BY DEF IsDraft, IsSigned
  <2>2. \A i \in 1 .. n : from[i] = list[i].fromIndex
    BY <1>3
  <2> QED
    BY <1>1, <2>1, <2>2
<1>12. \A i \in 1 .. n :
          checked[i] = <<from[i], MessageOf(kind, decoded[i], after[from[i]].nonce - 1, more)>>
  BY <1>9, <1>10
<1>13. checked = c.signature
         <=> \A i \in 1 .. n :
                MessageOf(kind, decoded[i], after[from[i]].nonce - 1, more) = message(list[i])
  <2>1. PICK word : word = [i \in 1 .. n |->
                       MessageOf(kind, decoded[i], after[from[i]].nonce - 1, more)]
    OBVIOUS
  <2>2. PICK text : text = [i \in 1 .. n |-> message(list[i])]
    OBVIOUS
  <2>3. PICK sign : sign = c.signature
    OBVIOUS
  <2>4. \A i \in 1 .. n : checked[i] = <<from[i], word[i]>> /\ sign[i] = <<from[i], text[i]>>
    BY <1>11, <1>12, <2>1, <2>2, <2>3
  <2>5. /\ checked = [i \in 1 .. n |-> checked[i]]
        /\ sign = [i \in 1 .. n |-> sign[i]]
    BY <1>9, <1>11, <2>3
  <2>6. checked = sign <=> \A i \in 1 .. n : checked[i] = sign[i]
    BY ONLY <2>5
  <2>7. checked = sign <=> \A i \in 1 .. n : word[i] = text[i]
    BY ONLY <2>4, <2>6
  <2> QED
    BY <2>1, <2>2, <2>3, <2>7
<1>14. \A i \in 1 .. n : from[i] = list[i].fromIndex
  BY <1>3
<1> QED
  BY <1>1, <1>2, <1>7, <1>10, <1>13, <1>14

LEMMA DraftIsGood ==
    ASSUME NEW kind \in DraftKinds, NEW c, NEW list, NEW before, IsDraft(c, list, before, kind)
    PROVE  CheckedMessages(c) = c.signature
             <=> \A i \in DOMAIN list :
                    /\ list[i].nonce = before[list[i].fromIndex].nonce
                    /\ \A j \in DOMAIN list :
                          list[i].fromIndex = list[j].fromIndex => i = j
<1>1. PICK n \in Nat : /\ Len(list) = n /\ DOMAIN list = 1 .. n
  BY DraftIsRead
<1>2. PICK after \in OwnTrees : after = c.stateRoot
  BY DEF IsDraft
<1>3. PICK from : from = [i \in 1 .. n |-> list[i].fromIndex]
  OBVIOUS
<1>4. SpentBy(before, after, from, n)
  BY <1>1, <1>2, <1>3, DraftSpends
<1>5. \A i \in 1 .. n : from[i] = list[i].fromIndex /\ from[i] \in Own
  BY <1>3, <1>4 DEF SpentBy
<1>6. \A i \in 1 .. n :
         /\ before[from[i]].nonce \in Nat
         /\ after[from[i]].nonce = before[from[i]].nonce + Times(from, n, from[i])
         /\ Times(from, n, from[i]) \in Nat /\ Times(from, n, from[i]) >= 1
  <2>1. before \in OwnTrees
    BY DEF IsDraft
  <2>2. \A k \in Own : before[k].nonce \in Nat
    BY <2>1 DEF OwnTrees, OwnState
  <2>3. \A k \in Own : after[k].nonce = before[k].nonce + Times(from, n, k)
    BY <1>4 DEF SpentBy
  <2> QED
    BY <1>5, <2>2, <2>3, TimesSome
<1>7. ASSUME \A i \in 1 .. n : after[from[i]].nonce - 1 = list[i].nonce,
             NEW i \in 1 .. n
      PROVE  /\ list[i].nonce = before[from[i]].nonce
             /\ \A j \in 1 .. n : from[i] = from[j] => i = j
  <2>1. ASSUME NEW j \in 1 .. n, from[i] = from[j] PROVE i = j
    <3>1. list[i].nonce = list[j].nonce
      BY <1>7, <2>1
    <3>2. list[i].fromIndex = list[j].fromIndex
      BY <1>5, <2>1
    <3> QED
      BY <1>1, <3>1, <3>2 DEF IsDraft, Distinct
  <2>2. \A j \in 1 .. n : from[j] = from[i] => j = i
    BY <2>1
  <2>3. Times(from, n, from[i]) = 1
    BY <2>2, TimesSome
  <2>4. after[from[i]].nonce - 1 = list[i].nonce
    BY <1>7
  <2>5. list[i].nonce = before[from[i]].nonce
    BY <1>6, <2>3, <2>4
  <2> QED
    BY <2>1, <2>5
<1>8. ASSUME \A i \in 1 .. n : /\ list[i].nonce = before[from[i]].nonce
                               /\ \A j \in 1 .. n : from[i] = from[j] => i = j,
             NEW i \in 1 .. n
      PROVE  after[from[i]].nonce - 1 = list[i].nonce
  <2>1. \A j \in 1 .. n : from[j] = from[i] => j = i
    BY <1>8
  <2>2. Times(from, n, from[i]) = 1
    BY <2>1, TimesSome
  <2> QED
    BY <1>6, <1>8, <2>2
<1>9. CheckedMessages(c) = c.signature
        <=> \A i \in 1 .. n : after[from[i]].nonce - 1 = list[i].nonce
  <2>1. CheckedMessages(c) = c.signature
          <=> \A i \in DOMAIN list : c.stateRoot[list[i].fromIndex].nonce - 1 = list[i].nonce
    BY DraftIsChecked
  <2> QED
    BY <1>1, <1>2, <1>5, <2>1
<1> QED
  BY <1>1, <1>5, <1>7, <1>8, <1>9
-----------------------------------------------------------------------------
(* What is true of the committer at any time.                              *)
StateInv ==
    /\ given \in Inputs /\ states = StatesFrom(given)
    /\ tree \in OwnTrees /\ KeysAreOwn(tree)
    /\ \A k \in Own : tree[k].nonce >= 9 + k

WaitInv == \E kind \in TxKinds : WaitingList(txs, tree, kind)

IsMade(made) ==
    \E kind \in DraftKinds : IsDraft(made.commitment, made.txs, made.before, kind)
AreMade(list) == IsListOf(list) /\ \A i \in DOMAIN list : IsMade(list[i])
MadeInv ==
    /\ AreMade(drafts) /\ IsListOf(batches)
    /\ \A b \in DOMAIN batches : AreMade(batches[b].drafts)

(* A commitment spends no more nonces than a list has transactions.        *)
Spending == NumOfStates + MaxSigned
InAllOf(list, submitted) ==
    Len(list) + SumOf(LAMBDA batch : Len(batch.drafts), submitted)
SpentAtMost(t, count) == \A k \in Own : t[k].nonce <= 9 + k + count * Spending
NonceInv == InAllOf(drafts, batches) \in Nat /\ SpentAtMost(tree, InAllOf(drafts, batches))

CommitInv == StateInv /\ WaitInv /\ MadeInv /\ NonceInv

LEMMA ProcessedSpends ==
    ASSUME NEW kind \in DraftKinds, NEW c, c.kind = kind, NEW list \in Seq(TxOf(kind)),
           NEW before \in OwnTrees, IsProcessed(c, list, before),
           NEW n \in Nat, n = Len(list), NEW from, from = [i \in 1 .. n |-> list[i].fromIndex]
    PROVE  c.stateRoot \in OwnTrees /\ SpentBy(before, c.stateRoot, from, n)
<1>1. DOMAIN list = 1 .. n
  OBVIOUS
<1>2. IsPayments(list, n)
  BY <1>1, PlainPays
<1>3. PICK end : end = Ended("Ok", c.stateRoot)
  OBVIOUS
<1>4. IsOk(end) /\ end.tree = c.stateRoot
  BY <1>3 DEF Ended, IsOk
<1>5. CASE kind = "Transfer"
  <2>1. end = ProcessTransferCommit(before, TransferBody(list, c.feeReceiver))
    BY <1>3, <1>5 DEF IsProcessed
  <2>2. end \in OwnSteps /\ (IsOk(end) => SpentBy(before, end.tree, from, n))
    BY <1>2, <2>1, TransferCommitSpends
  <2> QED
    BY <1>4, <2>2 DEF OwnSteps
<1>6. CASE kind # "Transfer"
  <2>1. end = ProcessMassMigrationCommit(before,
                 MigrationBody(list, c.feeReceiver, c.tokenID, c.amount, c.withdrawRoot))
    BY <1>3, <1>6 DEF IsProcessed
  <2>2. end \in OwnSteps /\ (IsOk(end) => SpentBy(before, end.tree, from, n))
    BY <1>2, <2>1, MigrationCommitSpends
  <2> QED
    BY <1>4, <2>2 DEF OwnSteps
<1> QED
  BY <1>5, <1>6

LEMMA LimitIs ==
    /\ Spending \in Nat /\ MaxDrafts \in Nat /\ Uint32Max \in Int
    /\ \A a \in Nat, k \in Own : a <= MaxDrafts => 9 + k + a * Spending <= Uint32Max
<1>1. PICK s \in Nat : s = Spending /\ s = NumOfStates + MaxSigned
  BY CommitterAssumption DEF Spending
<1>2. MaxDrafts \in Nat /\ NumOfStates \in Nat
  BY CommitterAssumption
<1>3. Uint32Max \in Int
  BY BaseIs DEF Uint32Max
<1>4. ASSUME NEW a \in Nat, NEW k \in Own, a <= MaxDrafts
      PROVE  9 + k + a * s <= Uint32Max
  <2>1. PICK d \in Nat : MaxDrafts = a + d
    <3>1. MaxDrafts - a \in Nat /\ MaxDrafts = a + (MaxDrafts - a)
      BY <1>2, <1>4
    <3> QED
      BY <3>1
  <2>2. MaxDrafts * s = a * s + d * s /\ d * s \in Nat /\ a * s \in Nat
    BY <1>1, <2>1
  <2>3. 9 + NumOfStates + MaxDrafts * s <= Uint32Max
    BY <1>1, NoncesAssumption
  <2>4. k <= NumOfStates /\ k \in Nat
    BY <1>2 DEF Own
  <2>5. PICK p \in Nat, q \in Nat, r \in Nat : p = a * s /\ q = d * s /\ r = MaxDrafts * s
                                               /\ r = p + q
    BY <2>2
  <2> QED
    BY <1>2, <1>3, <2>3, <2>4, <2>5
<1> QED
  BY <1>1, <1>2, <1>3, <1>4

LEMMA BecomesDraft ==
    ASSUME CommitInv, NEW kind \in DraftKinds, MayDraft(kind), NEW c, c.kind = kind,
           c.txs = serialize(txs), c.signature = Signed(txs), IsProcessed(c, txs, tree),
           kind = "MassMigration" => c.targetSpokeID = Head(txs).spokeID
    PROVE  /\ IsDraft(c, txs, tree, kind) /\ KeysAreOwn(c.stateRoot)
           /\ \A k \in Own : c.stateRoot[k].nonce >= 9 + k
           /\ SpentAtMost(c.stateRoot, InAllOf(drafts, batches) + 1)
<1>1. /\ given \in Nat /\ states = StatesFrom(given) /\ tree \in OwnTrees /\ KeysAreOwn(tree)
      /\ \A k \in Own : tree[k].nonce >= 9 + k
  BY CommitterAssumption DEF CommitInv, StateInv
<1>2. DOMAIN states = Own /\ \A k \in Own : states[k].publicKey = k
  <2>1. IsStates(states, given)
    BY <1>1, StatesAre
  <2> QED
    BY <2>1 DEF IsStates
<1>3. /\ txs # <<>> /\ serialize(txs) # Refused
      /\ \A i \in DOMAIN txs : txs[i].kind = kind /\ txs[i].fromIndex \in Own
  BY <1>2 DEF MayDraft
<1>4. PICK other \in TxKinds : WaitingList(txs, tree, other)
  BY DEF CommitInv, WaitInv
<1>5. PICK n \in Nat : n = Len(txs) /\ n >= 1 /\ DOMAIN txs = 1 .. n
                       /\ \A i \in 1 .. n : txs[i] \in TxOf(other)
  <2>1. txs \in Seq(TxOf(other))
    BY <1>4 DEF WaitingList
  <2>2. PICK m \in Nat : m = Len(txs)
    BY <2>1
  <2>3. m # 0
    BY <1>3, <2>1, <2>2, EmptySeq
  <2> QED
    BY <2>1, <2>2, <2>3
<1>6. other = kind /\ Head(txs) = txs[1]
  <2>1. 1 \in DOMAIN txs /\ txs[1] \in TxOf(other)
    BY <1>5
  <2>2. txs \in Seq(TxOf(other))
    BY <1>4 DEF WaitingList
  <2> QED
    BY <1>3, <2>1, <2>2, PlainIs
<1>7. txs \in Seq(TxOf(kind)) /\ OwnList(txs, tree, kind)
  BY <1>3, <1>4, <1>6 DEF WaitingList
<1>8. PICK from : from = [i \in 1 .. n |-> txs[i].fromIndex]
  OBVIOUS
<1>9. c.stateRoot \in OwnTrees /\ SpentBy(tree, c.stateRoot, from, n)
  BY <1>1, <1>5, <1>7, <1>8, ProcessedSpends
<1>10. PICK after \in OwnTrees : after = c.stateRoot /\ SpentBy(tree, after, from, n)
  BY <1>9
<1>11. PICK all \in Nat : all = InAllOf(drafts, batches) /\ all < MaxDrafts
                          /\ SpentAtMost(tree, all)
  BY DEF CommitInv, NonceInv, MayDraft, InAll, InAllOf
<1>12. ASSUME NEW k \in Own
       PROVE  /\ after[k].nonce >= 9 + k /\ after[k].nonce <= 9 + k + (all + 1) * Spending
              /\ after[k].pubkeyIndex = k
  <2>1. PICK s \in Nat : s = Spending /\ n <= s
    BY <1>5, <1>7, LimitIs DEF OwnList, Spending
  <2>2. PICK p \in Nat : p = all * s /\ (all + 1) * s = p + s
    <3>1. all * s \in Nat /\ (all + 1) * s = all * s + s
      OBVIOUS
    <3> QED
      BY <3>1
  <2>3. tree[k].nonce \in Nat /\ k \in Nat /\ tree[k].nonce >= 9 + k
    BY <1>1, OwnIs DEF OwnTrees, OwnState
  <2>4. tree[k].nonce <= 9 + k + p
    BY <1>11, <2>1, <2>2 DEF SpentAtMost
  <2>5. Times(from, n, k) \in Nat /\ Times(from, n, k) <= n
    BY TimesType
  <2>6. after[k].nonce = tree[k].nonce + Times(from, n, k)
        /\ after[k].pubkeyIndex = tree[k].pubkeyIndex
    BY <1>10 DEF SpentBy, SameKeys
  <2>7. after[k].nonce >= 9 + k /\ after[k].nonce <= 9 + k + (p + s)
    BY <2>1, <2>3, <2>4, <2>5, <2>6
  <2> QED
    BY <1>1, <2>1, <2>2, <2>6, <2>7 DEF KeysAreOwn
<1>13. \A k \in Own : after[k].nonce <= Uint32Max
  <2>1. all + 1 \in Nat /\ all + 1 <= MaxDrafts
    BY <1>11, LimitIs
  <2>2. ASSUME NEW k \in Own PROVE after[k].nonce <= Uint32Max
    <3>1. PICK p : p = 9 + k + (all + 1) * Spending
      OBVIOUS
    <3>2. p <= Uint32Max /\ p \in Int /\ Uint32Max \in Int
      BY <2>1, <3>1, LimitIs, OwnIs
    <3>3. after[k].nonce \in Nat /\ after[k].nonce <= p
      BY <1>12, <3>1 DEF OwnTrees, OwnState
    <3> QED
      BY <3>2, <3>3
  <2> QED
    BY <2>2
<1>14. IsSigned(c, txs)
  BY <1>2, <1>3 DEF IsSigned, Signed
<1>15. kind = "MassMigration" => \A i \in DOMAIN txs : txs[i].spokeID = c.targetSpokeID
  <2>1. 1 \in DOMAIN txs
    BY <1>5
  <2> QED
    BY <1>6, <1>7, <2>1 DEF OwnList, OneSpoke
<1>16. IsDraft(c, txs, tree, kind)
  BY <1>1, <1>3, <1>7, <1>9, <1>10, <1>13, <1>14, <1>15 DEF IsDraft, OwnList
<1>17. SpentAtMost(c.stateRoot, all + 1)
  BY <1>10, <1>12 DEF SpentAtMost
<1> QED
  BY <1>10, <1>11, <1>12, <1>16, <1>17 DEF KeysAreOwn
-----------------------------------------------------------------------------
(* The lists of the committer, one longer.                                 *)
LEMMA MadeMore ==
    ASSUME NEW list, IsListOf(list), NEW made
    PROVE  /\ IsListOf(Append(list, made)) /\ Len(list) \in Nat
           /\ DOMAIN list = 1 .. Len(list) /\ Len(Append(list, made)) = Len(list) + 1
           /\ DOMAIN Append(list, made) = 1 .. Len(list) + 1
           /\ \A i \in 1 .. Len(list) : Append(list, made)[i] = list[i]
           /\ Append(list, made)[Len(list) + 1] = made
<1>1. PICK S : list \in Seq(S)
  BY DEF IsListOf
<1>2. PICK T : T = S \union {made}
  OBVIOUS
<1>3. list \in Seq(T) /\ made \in T
  <2>1. list \in [1 .. Len(list) -> T] /\ Len(list) \in Nat
    BY <1>1, <1>2
  <2> QED
    BY <1>2, <2>1, Indexed
<1>4. Append(list, made) \in Seq(T)
  BY <1>3
<1> QED
  BY <1>3, <1>4, AppendProperties DEF IsListOf

LEMMA AreMadeMore ==
    ASSUME NEW list, AreMade(list), NEW made, IsMade(made)
    PROVE  AreMade(Append(list, made))
<1>1. PICK n \in Nat : n = Len(list) /\ DOMAIN list = 1 .. n
  BY MadeMore DEF AreMade
<1>2. PICK more : more = Append(list, made)
  OBVIOUS
<1>3. /\ IsListOf(more) /\ DOMAIN more = 1 .. n + 1 /\ more[n + 1] = made
      /\ \A i \in 1 .. n : more[i] = list[i]
  BY <1>1, <1>2, MadeMore DEF AreMade
<1>4. ASSUME NEW i \in 1 .. n + 1 PROVE IsMade(more[i])
  <2>1. i \in 1 .. n \/ i = n + 1
    BY <1>1
  <2> QED
    BY <1>1, <1>3, <2>1 DEF AreMade
<1> QED
  BY <1>2, <1>3, <1>4 DEF AreMade

LEMMA NoneMade == AreMade(<<>>) /\ IsListOf(<<>>) /\ Len(<<>>) = 0 /\ DOMAIN <<>> = {}
<1>1. <<>> \in Seq({}) /\ DOMAIN <<>> = {} /\ Len(<<>>) = 0
  OBVIOUS
<1> QED
  BY <1>1 DEF AreMade, IsListOf

Submitteds(list) == IsListOf(list) /\ \A b \in DOMAIN list : AreMade(list[b].drafts)
Sizes(list) == [b \in DOMAIN list |-> Len(list[b].drafts)]

LEMMA InAllIs ==
    ASSUME NEW list, NEW submitted
    PROVE  InAllOf(list, submitted) = Len(list) + Total(Sizes(submitted))
BY DEF InAllOf, SumOf, Sizes

LEMMA SizesType ==
    ASSUME NEW list, Submitteds(list)
    PROVE  Len(list) \in Nat /\ DOMAIN list = 1 .. Len(list)
           /\ Sizes(list) \in [1 .. Len(list) -> Nat] /\ Total(Sizes(list)) \in Nat
<1>1. PICK n \in Nat : n = Len(list) /\ DOMAIN list = 1 .. n
  BY MadeMore DEF Submitteds
<1>2. PICK sizes : sizes = Sizes(list) /\ sizes = [b \in 1 .. n |-> Len(list[b].drafts)]
  BY <1>1 DEF Sizes
<1>3. \A b \in 1 .. n : Len(list[b].drafts) \in Nat
  <2>1. \A b \in 1 .. n : IsListOf(list[b].drafts)
    BY <1>1 DEF Submitteds, AreMade
  <2> QED
    BY <2>1, MadeMore
<1>4. sizes \in [1 .. n -> Nat]
  BY <1>2, <1>3
<1>5. sizes \in [1 .. n -> Int] /\ \A b \in 1 .. n : sizes[b] \in Nat
  BY <1>4
<1>6. Total(sizes) \in Nat
  BY <1>5, TotalIsNatural
<1> QED
  BY <1>1, <1>2, <1>4, <1>6

LEMMA OneInAll ==
    ASSUME NEW list, AreMade(list), NEW made, NEW submitted, Submitteds(submitted)
    PROVE  InAllOf(Append(list, made), submitted) = InAllOf(list, submitted) + 1
<1>1. PICK more : more = Append(list, made)
  OBVIOUS
<1>2. PICK n \in Nat : n = Len(list) /\ Len(more) = n + 1
  BY <1>1, MadeMore DEF AreMade
<1>3. PICK all \in Nat : all = Total(Sizes(submitted))
  BY SizesType
<1>4. InAllOf(list, submitted) = n + all
  BY <1>2, <1>3, InAllIs
<1>5. InAllOf(more, submitted) = n + 1 + all
  BY <1>2, <1>3, InAllIs
<1>6. n + 1 + all = n + all + 1
  OBVIOUS
<1> QED
  BY <1>1, <1>4, <1>5, <1>6

LEMMA SameInAll ==
    ASSUME NEW list, AreMade(list), NEW submitted, Submitteds(submitted), NEW batch,
           batch.drafts = list
    PROVE  /\ Submitteds(Append(submitted, batch))
           /\ InAllOf(<<>>, Append(submitted, batch)) = InAllOf(list, submitted)
<1>1. PICK n \in Nat : n = Len(submitted) /\ DOMAIN submitted = 1 .. n
                       /\ Sizes(submitted) \in [1 .. n -> Nat]
  BY SizesType
<1>2. PICK more : more = Append(submitted, batch)
  OBVIOUS
<1>3. /\ IsListOf(more) /\ DOMAIN more = 1 .. n + 1 /\ more[n + 1] = batch
      /\ \A b \in 1 .. n : more[b] = submitted[b]
  BY <1>1, <1>2, MadeMore DEF Submitteds
<1>4. Submitteds(more)
  <2>1. \A b \in 1 .. n + 1 : b \in 1 .. n \/ b = n + 1
    BY <1>1
  <2> QED
    BY <1>1, <1>3, <2>1 DEF Submitteds
<1>5. PICK old : old = Sizes(submitted) /\ old \in [1 .. n -> Int]
  BY <1>1
<1>6. PICK new : new = Sizes(more)
  OBVIOUS
<1>7. new \in [1 .. n + 1 -> Int]
  <2>1. Len(more) = n + 1
    BY <1>1, <1>2, MadeMore DEF Submitteds
  <2>2. new \in [1 .. n + 1 -> Nat]
    BY <1>4, <1>6, <2>1, SizesType
  <2> QED
    BY <2>2
<1>8. new[n + 1] = Len(list) /\ \A b \in 1 .. n : new[b] = old[b]
  <2>1. new = [b \in 1 .. n + 1 |-> Len(more[b].drafts)]
    BY <1>3, <1>6 DEF Sizes
  <2>2. old = [b \in 1 .. n |-> Len(submitted[b].drafts)]
    BY <1>1, <1>5 DEF Sizes
  <2>3. n + 1 \in 1 .. n + 1 /\ 1 .. n \subseteq 1 .. n + 1
    BY <1>1
  <2> QED
    BY <1>3, <2>1, <2>2, <2>3
<1>9. Total(new) = Total(old) + Len(list)
  BY <1>5, <1>7, <1>8, TotalOneMore
<1>10. Len(list) \in Nat /\ Total(old) \in Nat /\ Total(new) \in Nat
  BY <1>4, <1>5, <1>6, SizesType, MadeMore DEF AreMade
<1>11. InAllOf(<<>>, more) = 0 + Total(new) /\ InAllOf(list, submitted) = Len(list) + Total(old)
  BY <1>5, <1>6, InAllIs, NoneMade
<1> QED
  BY <1>2, <1>4, <1>9, <1>10, <1>11
-----------------------------------------------------------------------------
LEMMA CommitterStarts == CommitmentsInit => CommitInv
<1> SUFFICES ASSUME CommitmentsInit PROVE CommitInv
  OBVIOUS
<1>1. /\ given \in Inputs /\ given \in Nat /\ states = StatesFrom(given)
      /\ tree = Clones(states) /\ txs = <<>> /\ drafts = <<>> /\ batches = <<>>
  BY CommitterAssumption DEF CommitmentsInit
<1>2. IsStates(states, given)
  BY <1>1, StatesAre
<1>3. tree = [k \in Own |-> Leaf(states[k])]
  BY <1>1, <1>2 DEF Clones, IsStates
<1>4. ASSUME NEW k \in Own
      PROVE  tree[k] \in OwnState /\ tree[k].pubkeyIndex = k /\ tree[k].nonce = 9 + k
  <2>1. PICK state : state = states[k]
    OBVIOUS
  <2>2. /\ state.balance \in Nat /\ state.nonce = 9 + k /\ state.pubkeyIndex = k
        /\ state.tokenType = 1 /\ k \in Nat
    BY <1>2, <2>1, OwnIs DEF IsStates
  <2>3. tree[k] = Leaf(state)
    BY <1>3, <2>1
  <2> QED
    BY <2>2, <2>3 DEF Leaf, OwnState
<1>5. tree \in OwnTrees
  BY <1>3, <1>4 DEF OwnTrees
<1>6. \A k \in Own : tree[k].nonce \in Nat /\ k \in Nat
  BY <1>5, OwnIs DEF OwnTrees, OwnState
<1>7. StateInv
  BY <1>1, <1>4, <1>5, <1>6 DEF StateInv, KeysAreOwn
<1>8. WaitInv
  BY <1>1, NoneWaits DEF WaitInv, TxKinds
<1>9. MadeInv
  BY <1>1, NoneMade DEF MadeInv
<1>10. NonceInv
  <2>1. Sizes(<<>>) \in [1 .. 0 -> Int] /\ \A i \in 1 .. 0 : Sizes(<<>>)[i] = 0
    BY NoneMade DEF Sizes
  <2>2. Total(Sizes(<<>>)) = 0
    BY <2>1, TotalZero
  <2>3. InAllOf(drafts, batches) = 0
    BY <1>1, <2>2, InAllIs, NoneMade
  <2>4. Spending \in Nat
    BY LimitIs
  <2>5. \A k \in Own : tree[k].nonce <= 9 + k + 0 * Spending
    BY <1>4, <1>6, <2>4
  <2> QED
    BY <2>3, <2>5 DEF NonceInv, SpentAtMost
<1> QED
  BY <1>7, <1>8, <1>9, <1>10 DEF CommitInv

(* All but the waiting list stays.                                         *)
LEMMA ListKeeps ==
    ASSUME CommitInv, UNCHANGED <<given, states, tree, drafts, batches>>, WaitInv'
    PROVE  CommitInv'
BY DEF CommitInv, StateInv, MadeInv, NonceInv

LEMMA NothingKeeps ==
    ASSUME CommitInv, UNCHANGED <<given, states, tree, txs, drafts, batches>>
    PROVE  CommitInv'
BY DEF CommitInv, StateInv, WaitInv, MadeInv, NonceInv

LEMMA FactoryKeeps ==
    ASSUME CommitInv, NewList(FactoryLists)
    PROVE  CommitInv'
<1>1. /\ given \in Nat /\ states = StatesFrom(given) /\ tree \in OwnTrees
      /\ \A k \in Own : tree[k].nonce >= 9 + k
  BY CommitterAssumption DEF CommitInv, StateInv
<1>2. txs' \in FactoryLists /\ UNCHANGED <<given, states, tree, drafts, batches>>
  BY DEF NewList
<1>3. PICK list : list = txs' /\ list \in FactoryLists
  BY <1>2
<1>4. PICK kind \in TxKinds, n \in Nat : IsFactoryList(list, kind, n)
  BY <1>1, <1>3, FactoryListsAre
<1>5. WaitingList(list, tree, kind)
  BY <1>1, <1>4, FactoryWaits
<1>6. WaitInv'
  BY <1>2, <1>3, <1>5 DEF WaitInv
<1> QED
  BY <1>2, <1>6, ListKeeps

LEMMA DrawnKeeps ==
    ASSUME CommitInv, NewList(Drawn)
    PROVE  CommitInv'
<1>1. txs' \in Drawn /\ UNCHANGED <<given, states, tree, drafts, batches>>
  BY DEF NewList
<1>2. PICK list : list = txs' /\ list \in Drawn
  BY <1>1
<1>3. PICK kind \in TxKinds : WaitingList(list, tree, kind)
  BY <1>2, DrawnWaits
<1>4. WaitInv'
  BY <1>1, <1>2, <1>3 DEF WaitInv
<1> QED
  BY <1>1, <1>4, ListKeeps

LEMMA SignKeeps ==
    ASSUME CommitInv, NEW from \in Payers, NEW to \in Payees, SignTransfer(from, to)
    PROVE  CommitInv'
<1>1. from \in Own /\ to \in Nat /\ tree \in OwnTrees
  BY CommitterAssumption DEF Own, CommitInv, StateInv
<1>2. PICK kind \in TxKinds : WaitingList(txs, tree, kind)
  BY DEF CommitInv, WaitInv
<1>3. PICK nonce : nonce = tree[from].nonce + WaitingOf(txs, from)
                   /\ nonce = tree[from].nonce + Waiting(from)
  BY DEF Waiting, WaitingOf, Waiters
<1>4. PICK tx : tx = TxTransfer(from, to, 1, 0, nonce)
  OBVIOUS
<1>5. /\ Len(txs) < MaxSigned /\ \A i \in DOMAIN txs : txs[i].kind = "Transfer"
      /\ txs' = Append(txs, tx) /\ UNCHANGED <<given, states, tree, drafts, batches>>
  BY <1>3, <1>4 DEF SignTransfer
<1>6. WaitingList(Append(txs, tx), tree, "Transfer")
  BY <1>1, <1>2, <1>3, <1>4, <1>5, SignedWaits
<1>7. WaitInv'
  BY <1>5, <1>6 DEF WaitInv, TxKinds
<1> QED
  BY <1>5, <1>7, ListKeeps

LEMMA DraftedKeeps ==
    ASSUME CommitInv, NEW kind \in DraftKinds, MayDraft(kind), NEW c, c.kind = kind,
           c.txs = serialize(txs), c.signature = Signed(txs), IsProcessed(c, txs, tree),
           kind = "MassMigration" => c.targetSpokeID = Head(txs).spokeID,
           Drafted(c, c.stateRoot)
    PROVE  CommitInv'
<1>1. /\ IsDraft(c, txs, tree, kind) /\ KeysAreOwn(c.stateRoot)
      /\ \A k \in Own : c.stateRoot[k].nonce >= 9 + k
      /\ SpentAtMost(c.stateRoot, InAllOf(drafts, batches) + 1)
  BY BecomesDraft
<1>2. PICK made : made = [commitment |-> c, txs |-> txs, before |-> tree]
  OBVIOUS
<1>3. /\ drafts' = Append(drafts, made) /\ tree' = c.stateRoot /\ txs' = <<>>
      /\ UNCHANGED <<given, states, batches>>
  BY <1>2 DEF Drafted
<1>4. IsMade(made)
  <2>1. made.commitment = c /\ made.txs = txs /\ made.before = tree
    BY <1>2
  <2> QED
    BY <1>1, <2>1 DEF IsMade
<1>5. AreMade(drafts) /\ Submitteds(batches) /\ InAllOf(drafts, batches) \in Nat
  BY DEF CommitInv, MadeInv, NonceInv, Submitteds
<1>6. StateInv'
  <2>1. c.stateRoot \in OwnTrees
    BY <1>1 DEF IsDraft
  <2> QED
    BY <1>1, <1>3, <2>1 DEF CommitInv, StateInv, KeysAreOwn
<1>7. WaitInv'
  BY <1>3, NoneWaits DEF WaitInv, TxKinds
<1>8. MadeInv'
  <2>1. AreMade(drafts')
    BY <1>3, <1>4, <1>5, AreMadeMore
  <2> QED
    BY <1>3, <1>5, <2>1 DEF MadeInv, Submitteds
<1>9. NonceInv'
  <2>1. InAllOf(drafts', batches') = InAllOf(drafts, batches) + 1
    BY <1>3, <1>5, OneInAll
  <2>2. PICK all \in Nat : all = InAllOf(drafts, batches)
    BY <1>5
  <2>3. SpentAtMost(tree', all + 1)
    BY <1>1, <1>3, <2>2
  <2> QED
    BY <2>1, <2>2, <2>3 DEF NonceInv
<1> QED
  BY <1>6, <1>7, <1>8, <1>9 DEF CommitInv

(* The waiting list is paid for by its own.                                *)
LEMMA WaitingPays ==
    ASSUME CommitInv, NEW kind \in DraftKinds, MayDraft(kind)
    PROVE  tree \in OwnTrees /\ \E n : IsPayments(txs, n)
<1>1. PICK other \in TxKinds : WaitingList(txs, tree, other)
  BY DEF CommitInv, WaitInv
<1>2. PICK n \in Nat : n = Len(txs) /\ n >= 1 /\ DOMAIN txs = 1 .. n
  <2>1. txs \in Seq(TxOf(other)) /\ txs # <<>>
    BY <1>1 DEF WaitingList, MayDraft
  <2>2. PICK m \in Nat : m = Len(txs) /\ m # 0
    BY <2>1, EmptySeq
  <2> QED
    BY <2>1, <2>2
<1>3. txs \in Seq(TxOf(other)) /\ 1 \in DOMAIN txs
  BY <1>1, <1>2 DEF WaitingList
<1>4. other = kind
  <2>1. txs[1] \in TxOf(other) /\ txs[1].kind = kind
    BY <1>2, <1>3 DEF MayDraft
  <2> QED
    BY <2>1, PlainIs
<1>5. PICK plain : plain = [i \in 1 .. n |-> Plain(txs[i])]
  OBVIOUS
<1>6. IsPayments(txs, n)
  BY <1>2, <1>3, <1>4, <1>5, PlainPays
<1> QED
  BY <1>6 DEF CommitInv, StateInv

LEMMA OkIs ==
    ASSUME NEW step \in OwnSteps, IsOk(step)
    PROVE  step = Ended("Ok", step.tree)
BY DEF OwnSteps, IsOk, Ended

LEMMA DraftTransferKeeps ==
    ASSUME CommitInv, NEW feeReceiver, DraftTransfer(feeReceiver)
    PROVE  CommitInv'
<1>1. MayDraft("Transfer") /\ "Transfer" \in DraftKinds
  BY DEF DraftTransfer, DraftKinds
<1>2. PICK step : step = ProcessTransferCommit(tree, TransferBody(txs, feeReceiver))
  OBVIOUS
<1>3. PICK c : c = TransferCommitment(step.tree, keys, Signed(txs), feeReceiver, serialize(txs))
  OBVIOUS
<1>4. /\ c.kind = "Transfer" /\ c.stateRoot = step.tree /\ c.feeReceiver = feeReceiver
      /\ c.txs = serialize(txs) /\ c.signature = Signed(txs)
  BY <1>3 DEF TransferCommitment
<1>5. IsOk(step) /\ Drafted(c, step.tree)
  BY <1>2, <1>3 DEF DraftTransfer, TransferBody
<1>6. IsProcessed(c, txs, tree)
  <2>1. PICK n : IsPayments(txs, n) /\ tree \in OwnTrees
    BY <1>1, WaitingPays
  <2>2. PICK from : from = [i \in 1 .. n |-> txs[i].fromIndex]
    OBVIOUS
  <2>3. step \in OwnSteps
    BY <1>2, <2>1, <2>2, TransferCommitSpends
  <2>4. step = Ended("Ok", c.stateRoot)
    BY <1>4, <1>5, <2>3, OkIs
  <2> QED
    BY <1>2, <1>4, <2>4 DEF IsProcessed
<1> QED
  BY <1>1, <1>4, <1>5, <1>6, DraftedKeeps

LEMMA DraftMigrationKeeps ==
    ASSUME CommitInv, NEW feeReceiver, DraftMassMigration(feeReceiver)
    PROVE  CommitInv'
<1>1. MayDraft("MassMigration") /\ "MassMigration" \in DraftKinds
  BY DEF DraftMassMigration, DraftKinds
<1>2. PICK body : body = Migration(txs, feeReceiver)
  OBVIOUS
<1>3. PICK step : step = ProcessMassMigrationCommit(tree, body)
  OBVIOUS
<1>4. PICK c : c = MassMigrationCommitment(step.tree, keys, Signed(txs), Head(txs).spokeID,
                       body.withdrawRoot, body.tokenID, body.amount, feeReceiver,
                       serialize(txs))
  OBVIOUS
<1>5. /\ c.kind = "MassMigration" /\ c.stateRoot = step.tree /\ c.feeReceiver = feeReceiver
      /\ c.txs = serialize(txs) /\ c.signature = Signed(txs)
      /\ c.targetSpokeID = Head(txs).spokeID /\ c.withdrawRoot = body.withdrawRoot
      /\ c.tokenID = body.tokenID /\ c.amount = body.amount
  BY <1>4 DEF MassMigrationCommitment
<1>6. IsOk(step) /\ Drafted(c, step.tree)
  BY <1>2, <1>3, <1>4 DEF DraftMassMigration
<1>7. body = MigrationBody(txs, feeReceiver, c.tokenID, c.amount, c.withdrawRoot)
  BY <1>2, <1>5 DEF Migration, MigrationBody
<1>8. IsProcessed(c, txs, tree)
  <2>1. PICK n : IsPayments(txs, n) /\ tree \in OwnTrees
    BY <1>1, WaitingPays
  <2>2. PICK from : from = [i \in 1 .. n |-> txs[i].fromIndex]
    OBVIOUS
  <2>3. step \in OwnSteps
    BY <1>3, <1>7, <2>1, <2>2, MigrationCommitSpends
  <2>4. step = Ended("Ok", c.stateRoot)
    BY <1>5, <1>6, <2>3, OkIs
  <2> QED
    BY <1>3, <1>5, <1>7, <2>4 DEF IsProcessed
<1> QED
  BY <1>1, <1>5, <1>6, <1>8, DraftedKeeps

LEMMA SubmitIsOwn ==
    ASSUME CommitInv, Submit
    PROVE  CommitInv'
<1>1. PICK batch : batch.drafts = drafts /\ batches' = Append(batches, batch)
  BY DEF Submit
<1>2. drafts' = <<>> /\ UNCHANGED <<given, states, tree, txs>>
  BY DEF Submit
<1>3. AreMade(drafts) /\ Submitteds(batches)
  BY DEF CommitInv, MadeInv, Submitteds
<1>4. /\ Submitteds(Append(batches, batch))
      /\ InAllOf(<<>>, Append(batches, batch)) = InAllOf(drafts, batches)
  BY <1>1, <1>3, SameInAll
<1>5. MadeInv'
  BY <1>1, <1>2, <1>4, NoneMade DEF MadeInv, Submitteds
<1>6. InAllOf(drafts', batches') = InAllOf(drafts, batches)
  BY <1>1, <1>2, <1>4
<1>7. NonceInv'
  BY <1>2, <1>6 DEF CommitInv, NonceInv
<1>8. StateInv' /\ WaitInv'
  BY <1>2 DEF CommitInv, StateInv, WaitInv
<1> QED
  BY <1>5, <1>7, <1>8 DEF CommitInv

LEMMA CommitsKeep ==
    ASSUME CommitInv, CommitmentsNext
    PROVE  CommitInv'
<1>1. CASE RegisterKey
  BY <1>1, NothingKeeps DEF RegisterKey
<1>2. CASE NewList(FactoryLists)
  BY <1>2, FactoryKeeps
<1>3. CASE NewList(Drawn)
  BY <1>3, DrawnKeeps
<1>4. ASSUME NEW from \in Payers, NEW to \in Payees, SignTransfer(from, to) PROVE CommitInv'
  BY <1>4, SignKeeps
<1>5. ASSUME NEW feeReceiver, DraftTransfer(feeReceiver) PROVE CommitInv'
  BY <1>5, DraftTransferKeeps
<1>6. ASSUME NEW feeReceiver, DraftMassMigration(feeReceiver) PROVE CommitInv'
  BY <1>6, DraftMigrationKeeps
<1>7. CASE Submit
  BY <1>7, SubmitIsOwn
<1> QED
  BY <1>1, <1>2, <1>3, <1>4, <1>5, <1>6, <1>7 DEF CommitmentsNext

LEMMA CommitterKeeps == CommitInv /\ [CommitterNext]_committerVars => CommitInv'
<1> SUFFICES ASSUME CommitInv, [CommitterNext]_committerVars PROVE CommitInv'
  OBVIOUS
<1>1. CASE Deploying
  BY <1>1, NothingKeeps DEF Deploying, commitmentVars
<1>2. CASE Committing
  BY <1>2, CommitsKeep DEF Committing
<1>3. CASE UNCHANGED committerVars
  BY <1>3, NothingKeeps DEF committerVars, commitmentVars
<1> QED
  BY <1>1, <1>2, <1>3 DEF CommitterNext
-----------------------------------------------------------------------------
LEMMA WaitingIsRead == CommitInv => TxsInv
BY DEF CommitInv, WaitInv, WaitingList, TxsInv

LEMMA AllAreMade == CommitInv => \A made \in MadeSoFar : IsMade(made)
<1> SUFFICES ASSUME CommitInv, NEW made \in MadeSoFar PROVE IsMade(made)
  OBVIOUS
<1>1. PICK list \in {drafts} \union {batches[b].drafts : b \in DOMAIN batches} :
         made \in {list[i] : i \in DOMAIN list}
  BY DEF MadeSoFar
<1>2. AreMade(list)
  BY <1>1 DEF CommitInv, MadeInv
<1> QED
  BY <1>1, <1>2 DEF AreMade

LEMMA ClaimsByInv == CommitInv => ClaimsAreProcessed
<1> SUFFICES ASSUME CommitInv PROVE ClaimsAreProcessed
  OBVIOUS
<1>1. ASSUME NEW made \in MadeSoFar
      PROVE  IsProcessed(made.commitment, DecodedTxs(made.commitment.kind, made.commitment.txs),
                         made.before)
  <2>1. PICK kind \in DraftKinds : IsDraft(made.commitment, made.txs, made.before, kind)
    BY <1>1, AllAreMade DEF IsMade
  <2> QED
    BY <2>1, DraftIsClaimed
<1> QED
  BY <1>1 DEF ClaimsAreProcessed, IsProcessed, TransferBody, MigrationBody

LEMMA SignaturesByInv == CommitInv => SignaturesHold
<1> SUFFICES ASSUME CommitInv PROVE SignaturesHold
  OBVIOUS
<1>1. ASSUME NEW made \in MadeSoFar
      PROVE  CheckedMessages(made.commitment) = made.commitment.signature
               <=> \A i \in DOMAIN made.txs :
                      /\ made.txs[i].nonce = made.before[made.txs[i].fromIndex].nonce
                      /\ \A j \in DOMAIN made.txs :
                            made.txs[i].fromIndex = made.txs[j].fromIndex => i = j
  <2>1. PICK kind \in DraftKinds : IsDraft(made.commitment, made.txs, made.before, kind)
    BY <1>1, AllAreMade DEF IsMade
  <2> QED
    BY <2>1, DraftIsGood
<1> QED
  BY <1>1 DEF SignaturesHold

(* What is always true of the committer: the nonces of the tree are those  *)
(* it began with and those spent, and every commitment was made of its own *)
(* transactions and takes the tree before it to the root that it claims.   *)
THEOREM CommitterInvariant == CommitterSpec => []CommitInv
<1>1. CommitterInit => CommitInv
  BY CommitterStarts DEF CommitterInit
<1>2. CommitInv /\ [CommitterNext]_committerVars => CommitInv'
  BY CommitterKeeps
<1> QED
  BY <1>1, <1>2, PTL DEF CommitterSpec

(* Every list that serialize() writes, whoever made it and whatever it     *)
(* pays, is read back by the contract, none missing, none in excess and    *)
(* each with its fields, and makes there the message that was signed:      *)
(* serialize() of ts/tx.ts and the decoders of libs/Tx.sol.                *)
THEOREM ListsAlwaysRead == CommitterSpec => []ListsAreRead
<1>1. CommitInv => ListsAreRead
  BY WaitingIsRead, ReadByInv
<1> QED
  BY <1>1, CommitterInvariant, PTL

(* What users send of such a list is understood as it was meant, and the   *)
(* contract's own serializers write what the client writes, unless a       *)
(* mantissa is the largest, which they refuse and the client does not:     *)
(* client/Offchain.sol and encodeDecimal() of libs/Tx.sol.                 *)
THEOREM OffchainAlwaysAgrees == CommitterSpec => []OffchainAgrees
<1>1. CommitInv => OffchainAgrees
  BY WaitingIsRead, OffchainByInv
<1> QED
  BY <1>1, CommitterInvariant, PTL

(* The contract processes the bytes of every commitment as the client      *)
(* applied its transactions, and comes to the root that it claims:         *)
(* fromStateProvider() of ts/commitments.ts and the two process...Commit() *)
(* of Transfer.sol and MassMigration.sol.                                  *)
THEOREM ClaimsAlwaysProcessed == CommitterSpec => []ClaimsAreProcessed
BY CommitterInvariant, ClaimsByInv, PTL

(* checkSignature() makes of a commitment the messages that were signed    *)
(* just if nobody pays twice in it and everybody has signed with the nonce *)
(* that his state had before it, since the contract takes all nonces from  *)
(* the tree that the commitment leads to.                                  *)
THEOREM SignaturesAlwaysHold == CommitterSpec => []SignaturesHold
BY CommitterInvariant, SignaturesByInv, PTL

-----------------------------------------------------------------------------
LEMMA TimesCancel ==
    ASSUME NEW a \in Nat, NEW b \in Nat, NEW t \in Nat, t >= 1, a * t = b * t
    PROVE  a = b
<1>1. 0 \in 0 .. t - 1
  OBVIOUS
<1>2. (a * t + 0) \div t = a /\ (b * t + 0) \div t = b
  BY <1>1, BlockOf
<1> QED
  BY <1>2

LEMMA TimesAtMost ==
    ASSUME NEW a \in Nat, NEW b \in Nat, NEW t \in Nat
    PROVE  /\ a <= b => a * t <= b * t
           /\ t >= 1 /\ a * t <= b * t => a <= b
<1>1. ASSUME NEW x \in Nat, NEW y \in Nat, x <= y
      PROVE  \E d \in Nat : y = x + d /\ y * t = x * t + d * t /\ d * t \in Nat
  <2>1. y - x \in Nat /\ y = x + (y - x)
    BY <1>1
  <2>2. \A d \in Nat : (x + d) * t = x * t + d * t /\ d * t \in Nat
    OBVIOUS
  <2> QED
    BY <2>1, <2>2
<1>2. a * t \in Nat /\ b * t \in Nat
  OBVIOUS
<1>3. ASSUME a <= b PROVE a * t <= b * t
  <2>1. PICK d \in Nat : b * t = a * t + d * t /\ d * t \in Nat
    BY <1>1, <1>3
  <2> QED
    BY <1>2, <2>1
<1>4. ASSUME t >= 1, a * t <= b * t, b < a PROVE FALSE
  <2>1. PICK d \in Nat : a = b + d /\ a * t = b * t + d * t /\ d * t \in Nat
    <3>1. b <= a
      BY <1>4
    <3> QED
      BY <1>1, <3>1
  <2>2. d * t = 0 /\ d >= 1
    BY <1>2, <1>4, <2>1
  <2>3. PICK c \in Nat : d = c + 1
    <3>1. d - 1 \in Nat /\ d = (d - 1) + 1
      BY <2>2
    <3> QED
      BY <3>1
  <2>4. d * t = c * t + t /\ c * t \in Nat
    BY <2>3
  <2> QED
    BY <1>4, <2>2, <2>4
<1> QED
  BY <1>3, <1>4

LEMMA TenToPlus ==
    ASSUME NEW a \in Nat, NEW b \in Nat
    PROVE  TenTo[a + b] = TenTo[a] * TenTo[b]
<1> DEFINE T == {i \in 0 .. b : TenTo[a + i] = TenTo[a] * TenTo[i]}
<1>1. \A k \in Nat : TenTo[k] \in Nat
  BY TenToIs
<1>2. 0 \in T
  <2>1. a + 0 = a /\ 0 \in 0 .. b
    OBVIOUS
  <2>2. TenTo[a] * TenTo[0] = TenTo[a]
    BY <1>1, TenToIs
  <2> QED
    BY <2>1, <2>2
<1>3. ASSUME NEW i \in 1 .. b, i - 1 \in T PROVE i \in T
  <2>1. PICK j \in Nat : j = i - 1 /\ j + 1 = i /\ a + j \in Nat /\ (a + j) + 1 = a + i
    OBVIOUS
  <2>2. PICK x \in Nat, y \in Nat : x = TenTo[a] /\ y = TenTo[j]
    BY <1>1, <2>1
  <2>3. TenTo[a + j] = x * y
    BY <1>3, <2>1, <2>2
  <2>4. TenTo[i] = 10 * y
    BY <2>1, <2>2, TenToIs
  <2>5. TenTo[(a + j) + 1] = 10 * TenTo[a + j]
    BY <2>1, TenToIs
  <2>6. 10 * (x * y) = x * (10 * y)
    OBVIOUS
  <2> QED
    BY <2>1, <2>2, <2>3, <2>4, <2>5, <2>6
<1> HIDE DEF T
<1>4. 0 .. b \subseteq T
  BY <1>2, <1>3, LoopInduction
<1> QED
  BY <1>4 DEF T

LEMMA TwoToPlus ==
    ASSUME NEW a \in Nat, NEW b \in Nat
    PROVE  TwoTo[a + b] = TwoTo[a] * TwoTo[b]
<1> DEFINE T == {i \in 0 .. b : TwoTo[a + i] = TwoTo[a] * TwoTo[i]}
<1>1. \A k \in Nat : TwoTo[k] \in Nat
  BY TwoToIs
<1>2. 0 \in T
  <2>1. a + 0 = a /\ 0 \in 0 .. b
    OBVIOUS
  <2>2. TwoTo[a] * TwoTo[0] = TwoTo[a]
    BY <1>1, TwoToIs
  <2> QED
    BY <2>1, <2>2
<1>3. ASSUME NEW i \in 1 .. b, i - 1 \in T PROVE i \in T
  <2>1. PICK j \in Nat : j = i - 1 /\ j + 1 = i /\ a + j \in Nat /\ (a + j) + 1 = a + i
    OBVIOUS
  <2>2. PICK x \in Nat, y \in Nat : x = TwoTo[a] /\ y = TwoTo[j]
    BY <1>1, <2>1
  <2>3. TwoTo[a + j] = x * y
    BY <1>3, <2>1, <2>2
  <2>4. TwoTo[i] = 2 * y
    BY <2>1, <2>2, TwoToIs
  <2>5. TwoTo[(a + j) + 1] = 2 * TwoTo[a + j]
    BY <2>1, TwoToIs
  <2>6. 2 * (x * y) = x * (2 * y)
    OBVIOUS
  <2> QED
    BY <2>1, <2>2, <2>3, <2>4, <2>5, <2>6
<1> HIDE DEF T
<1>4. 0 .. b \subseteq T
  BY <1>2, <1>3, LoopInduction
<1> QED
  BY <1>4 DEF T

(* An integer can be written when its mantissa is none too large.          *)
LEMMA CodeFits ==
    ASSUME NEW x \in Nat, Mantissa(x) <= mantissaMax
    PROVE  encodeInt(x) # Refused
<1>1. PICK e \in Nat, m \in Nat, max \in Nat :
         e = Exponent(x) /\ m = Mantissa(x) /\ max = exponentMax /\ e <= max
  BY ExponentIs, MantissaIs, MaximaAre
<1>2. PICK s \in Nat : s = TwoTo[mantissaBits] /\ m + 1 <= s
  BY <1>1, MaximaAre
<1>3. PICK c \in Nat : c = e * s + m /\ c = Code(x)
  BY <1>1, <1>2 DEF Code
<1>4. PICK b \in Nat : b = Base /\ b >= 1
  BY BaseIs
<1>5. (max + 1) * s = b * b
  <2>1. PICK mb \in Nat, eb \in Nat, bb \in Nat :
           mb = mantissaBits /\ eb = exponentBits /\ bb = ByteBits
    BY CodecAssumption
  <2>2. mb + eb = bb + bb
    BY <2>1, WidthsAssumption DEF CheckedLengths, checkByteLength, amountLen
  <2>3. TwoTo[mb + eb] = TwoTo[mb] * TwoTo[eb] /\ TwoTo[bb + bb] = TwoTo[bb] * TwoTo[bb]
    BY TwoToPlus
  <2>4. max + 1 = TwoTo[eb] /\ TwoTo[eb] \in Nat /\ TwoTo[mb] \in Nat
    BY <1>1, <2>1, TwoToIs DEF exponentMax
  <2>5. TwoTo[mb] * TwoTo[eb] = TwoTo[eb] * TwoTo[mb]
    BY <2>4
  <2> QED
    BY <1>2, <1>4, <2>1, <2>2, <2>3, <2>4, <2>5 DEF Base
<1>6. c < b * b
  <2>1. (max + 1) * s = max * s + s /\ e * s <= max * s /\ max * s \in Nat /\ e * s \in Nat
    BY <1>1, TimesAtMost
  <2> QED
    BY <1>2, <1>3, <1>5, <2>1
<1>7. c \div b < b
  BY <1>4, <1>6, QuotientBelow
<1>8. PICK d \in Nat : d = c \div b /\ d < b
  BY <1>4, <1>7, Quotient
<1>9. d \div b = 0
  <2>1. d \div b < 1 /\ d \div b \in Nat
    <3>1. d < b * 1
      BY <1>8
    <3> QED
      BY <1>4, <3>1, QuotientBelow, Quotient
  <2>2. PICK r \in Nat : r = d \div b /\ r < 1
    BY <2>1
  <2> QED
    BY <2>2
<1>10. Cut(c, 2) = 0
  <2>1. Cut(c, 0) = c /\ Cut(c, 0 + 1) = Cut(c, 0) \div Base
    BY CutIs
  <2>2. Cut(c, 1 + 1) = Cut(c, 1) \div Base
    BY CutIs
  <2> QED
    BY <1>4, <1>8, <1>9, <2>1, <2>2
<1>11. bytesLength = 2 /\ encodeInt(x) = Truncated(c, 2)
  <2>1. bytesLength = 2
    BY DecimalLength
  <2>2. encodeInt(x) = hexZeroPad(c, 2)
    BY <1>1, <1>3, <2>1, MaximaAre DEF encodeInt
  <2> QED
    BY <1>10, <2>1, <2>2 DEF hexZeroPad
<1> QED
  BY <1>11, TruncatedIs, BytesAreWritten

(* So can any integer of a small mantissa and a small exponent.            *)
IsEncodable(x) ==
    \E m \in Nat, e \in Nat : m <= mantissaMax /\ e <= exponentMax /\ x = m * TenTo[e]

LEMMA EncodableIs ==
    ASSUME NEW x, IsEncodable(x)
    PROVE  x \in Nat /\ encodeInt(x) # Refused
<1>1. PICK m \in Nat, e \in Nat : m <= mantissaMax /\ e <= exponentMax /\ x = m * TenTo[e]
  BY DEF IsEncodable
<1>2. PICK t \in Nat : t = TenTo[e] /\ t >= 1
  BY TenToIs
<1>3. x \in Nat /\ x = m * t
  BY <1>1, <1>2
<1>4. PICK f \in Nat, n \in Nat : f = Exponent(x) /\ n = Mantissa(x) /\ x = n * TenTo[f]
  BY <1>3, ExponentIs, MantissaIs
<1>5. PICK max \in Nat, big \in Nat : max = exponentMax /\ big = mantissaMax
  BY MaximaAre
<1>6. CASE x = 0
  <2>1. f = 0
    BY <1>4, <1>6 DEF Exponent
  <2>2. TenTo[f] = 1
    BY <2>1, TenToIs
  <2>3. n = 0
    <3>1. n * TenTo[f] = n * 1
      BY <2>2
    <3>2. n * 1 = 0
      BY <1>4, <1>6, <3>1
    <3> QED
      BY <3>2
  <2> QED
    BY <1>3, <1>4, <1>5, <2>3, CodeFits
<1>7. CASE x # 0
  <2>1. f = max \/ x % TenTo[f + 1] # 0
    BY <1>3, <1>4, <1>5, <1>7, ExponentIs
  <2>2. ASSUME f < e PROVE FALSE
    <3>1. PICK d \in Nat : e = d + (f + 1)
      <4>1. e - f - 1 \in Nat /\ e = (e - f - 1) + (f + 1)
        BY <2>2
      <4> QED
        BY <4>1
    <3>2. PICK u \in Nat, v \in Nat : u = TenTo[d] /\ v = TenTo[f + 1] /\ v >= 1
      <4>1. TenTo[d] \in Nat
        BY TenToIs
      <4>2. f + 1 \in Nat
        OBVIOUS
      <4>3. TenTo[f + 1] \in Nat /\ TenTo[f + 1] >= 1
        BY <4>2, TenToIs
      <4> QED
        BY <4>1, <4>3
    <3>3. t = u * v
      BY <1>2, <3>1, <3>2, TenToPlus
    <3>4. x = (m * u) * v /\ m * u \in Nat
      BY <1>3, <3>3
    <3>5. ((m * u) * v + 0) % v = 0
      <4>1. 0 \in 0 .. v - 1
        BY <3>2
      <4> QED
        BY <3>2, <3>4, <4>1, BlockOf
    <3>6. x % v = 0
      <4>1. (m * u) * v + 0 = x
        BY <3>4
      <4> QED
        BY <3>5, <4>1
    <3> QED
      BY <1>1, <1>5, <2>1, <2>2, <3>2, <3>6
  <2>3. PICK d \in Nat : f = d + e
    <3>1. f - e \in Nat /\ f = (f - e) + e
      BY <2>2
    <3> QED
      BY <3>1
  <2>4. PICK u \in Nat : u = TenTo[d] /\ u >= 1
    BY TenToIs
  <2>5. TenTo[f] = u * t
    BY <1>2, <2>3, <2>4, TenToPlus
  <2>6. (n * u) * t = m * t /\ n * u \in Nat
    <3>1. x = n * (u * t)
      BY <1>4, <2>5
    <3>2. n * (u * t) = (n * u) * t
      OBVIOUS
    <3> QED
      BY <1>3, <3>1, <3>2
  <2>7. n * u = m
    BY <1>2, <2>6, TimesCancel
  <2>8. n * 1 <= n * u
    <3>1. 1 * n <= u * n
      BY <2>4, TimesAtMost
    <3> QED
      BY <3>1
  <2>9. n <= big
    BY <1>1, <1>5, <2>7, <2>8
  <2> QED
    BY <1>3, <1>4, <1>5, <2>9, CodeFits
<1> QED
  BY <1>6, <1>7
-----------------------------------------------------------------------------
LEMMA UnitIs == unit \in Nat /\ unit >= 1 /\ unit \div 2 \in 0 .. unit - 1
<1>1. PICK p \in Nat : p = Digits - place
  BY CodecAssumption
<1>2. PICK u \in Nat : u = unit /\ u >= 1
  BY <1>1, TenToIs DEF unit
<1>3. u \div 2 \in 0 .. u - 1
  BY <1>2
<1> QED
  BY <1>2, <1>3

LEMMA RoundedIs ==
    ASSUME NEW y \in Nat
    PROVE  \E b \in Nat : /\ b = Rounded(y)
                          /\ b * unit <= y + unit \div 2 /\ y + unit \div 2 < b * unit + unit
<1>1. PICK u \in Nat, h \in Nat : u = unit /\ u >= 1 /\ h = u \div 2
  BY UnitIs
<1>2. PICK z \in Nat : z = y + h
  OBVIOUS
<1>3. PICK b \in Nat, m \in 0 .. u - 1 : b = z \div u /\ z = u * b + m
  BY <1>1, <1>2, Quotient
<1>4. b = Rounded(y)
  BY <1>1, <1>2, <1>3 DEF Rounded, unit
<1>5. u * b = b * u /\ b * u \in Nat
  OBVIOUS
<1> QED
  BY <1>1, <1>2, <1>3, <1>4, <1>5

LEMMA RoundedUnits ==
    ASSUME NEW b \in Nat
    PROVE  b * unit \in Nat /\ Rounded(b * unit) = b
<1>1. PICK u \in Nat, h \in Nat : u = unit /\ u >= 1 /\ h = u \div 2 /\ h \in 0 .. u - 1
  BY UnitIs
<1>2. (b * u + h) \div u = b
  BY <1>1, BlockOf
<1> QED
  BY <1>1, <1>2 DEF Rounded, unit

(* How the balance is cast, when it is cast.                               *)
IsCast(x, b) ==
    /\ IsEncodable(b)
    /\ IF x * 10 <= mantissaMax * unit
       THEN b * unit - x \in -unit .. unit
       ELSE b * unit <= x /\ (x - b * unit) * mantissaMax < x * 10

(* Digits are dropped that the integer has: nothing is rounded.            *)
LEMMA CastWhole ==
    ASSUME NEW x \in Nat, x <= mantissaMax * TenTo[exponentMax + Digits - place],
           Dropped(x) >= Digits - place
    PROVE  IsCast(x, castInt(x))
<1>1. PICK max \in Nat, big \in Nat : max = exponentMax /\ big = mantissaMax /\ big >= 1
  BY MaximaAre
<1>2. PICK p \in Nat : p = Digits - place
  BY CodecAssumption
<1>3. PICK k \in Nat : /\ k = Dropped(x) /\ x <= big * TenTo[k] /\ k >= p
                       /\ k = 0 \/ x > big * TenTo[k - 1]
  BY <1>1, <1>2, DroppedIs
<1>4. PICK e \in Nat : k = e + p
  <2>1. k - p \in Nat /\ k = (k - p) + p
    BY <1>3
  <2> QED
    BY <2>1
<1>5. PICK u \in Nat, t \in Nat, d \in Nat :
         u = unit /\ u >= 1 /\ t = TenTo[e] /\ t >= 1 /\ d = TenTo[k] /\ d >= 1 /\ d = t * u
  <2>1. TenTo[e + p] = TenTo[e] * TenTo[p]
    BY TenToPlus
  <2>2. \A i \in Nat : TenTo[i] \in Nat /\ TenTo[i] >= 1
    BY TenToIs
  <2> QED
    BY <1>2, <1>4, <2>1, <2>2 DEF unit
<1>6. e <= max
  <2>1. ASSUME e > max PROVE FALSE
    <3>1. PICK j \in Nat : k - 1 = j + (max + p)
      <4>1. k - 1 - (max + p) \in Nat /\ k - 1 = (k - 1 - (max + p)) + (max + p)
        BY <1>4, <2>1
      <4> QED
        BY <4>1
    <3>2. PICK v \in Nat, w \in Nat : v = TenTo[j] /\ v >= 1 /\ w = TenTo[max + p]
      <4>1. max + p \in Nat
        OBVIOUS
      <4> QED
        BY <4>1, TenToIs
    <3>3. TenTo[k - 1] = v * w
      <4>1. max + p \in Nat
        OBVIOUS
      <4>2. TenTo[j + (max + p)] = TenTo[j] * TenTo[max + p]
        BY <4>1, TenToPlus
      <4> QED
        BY <3>1, <3>2, <4>2
    <3>4. x > big * (v * w)
      BY <1>3, <1>4, <2>1, <3>3
    <3>5. x <= big * w
      <4>1. max + p = exponentMax + Digits - place
        BY <1>1, <1>2, CodecAssumption
      <4> QED
        BY <1>1, <3>2, <4>1
    <3>6. 1 * (big * w) <= v * (big * w) /\ big * w \in Nat /\ v * (big * w) \in Nat
      <4>1. big * w \in Nat
        OBVIOUS
      <4> QED
        BY <3>2, <4>1, TimesAtMost
    <3>7. v * (big * w) = big * (v * w) /\ 1 * (big * w) = big * w
      OBVIOUS
    <3>8. PICK a \in Nat, b \in Nat : a = big * w /\ b = big * (v * w)
      OBVIOUS
    <3> QED
      BY <3>4, <3>5, <3>6, <3>7, <3>8
  <2> QED
    BY <2>1
<1>7. PICK q \in Nat, m \in 0 .. d - 1 : q = x \div d /\ x = d * q + m
  <2>1. d >= 1
    BY <1>5
  <2>2. x \div d \in Nat /\ x % d \in 0 .. d - 1 /\ x = d * (x \div d) + (x % d)
    BY <2>1, Quotient
  <2> QED
    BY <2>2
<1>8. q <= big
  <2>1. big * d \in Nat /\ d * (big + 1) = big * d + d /\ big + 1 \in Nat
    OBVIOUS
  <2>2. x < d * (big + 1)
    BY <1>3, <1>5, <2>1
  <2>3. q < big + 1
    BY <1>5, <1>7, <2>1, <2>2, QuotientBelow
  <2> QED
    BY <2>3
<1>9. PICK b \in Nat : b = q * t
  OBVIOUS
<1>10. b * u = q * d /\ q * d = d * q /\ d * q \in Nat
  <2>1. (q * t) * u = q * (t * u)
    OBVIOUS
  <2> QED
    BY <1>5, <1>9, <2>1
<1>11. castInt(x) = b
  <2>1. cast(x) = q * d
    BY <1>3, <1>5, <1>7 DEF cast
  <2>2. Rounded(b * u) = b
    BY <1>5, RoundedUnits
  <2> QED
    BY <1>10, <2>1, <2>2 DEF castInt
<1>12. IsEncodable(b)
  BY <1>1, <1>5, <1>6, <1>8, <1>9 DEF IsEncodable
<1>13. PICK z \in Nat : z = b * u /\ x = z + m
  BY <1>7, <1>10
<1>14. CASE x * 10 <= big * u
  <2>1. p = 0
    <3>1. ASSUME p # 0 PROVE FALSE
      <4>1. PICK r \in Nat : p = r + 1
        <5>1. p - 1 \in Nat /\ p = (p - 1) + 1
          BY <3>1
        <5> QED
          BY <5>1
      <4>2. PICK s \in Nat : s = TenTo[r] /\ u = 10 * s
        BY <1>2, <1>5, <4>1, TenToIs DEF unit
      <4>3. big * u = 10 * (big * s) /\ big * s \in Nat
        BY <4>2
      <4>4. x <= big * s
        BY <1>14, <4>3
      <4>5. k - 1 = e + r /\ k # 0
        BY <1>4, <4>1
      <4>6. PICK w \in Nat : w = TenTo[k - 1] /\ w = t * s
        <5>1. TenTo[e + r] = TenTo[e] * TenTo[r]
          BY TenToPlus
        <5> QED
          BY <1>5, <4>2, <4>5, <5>1
      <4>7. x > big * w
        BY <1>3, <4>5, <4>6
      <4>8. 1 * (big * s) <= t * (big * s)
        <5>1. big * s \in Nat
          OBVIOUS
        <5> QED
          BY <1>5, <5>1, TimesAtMost
      <4>9. t * (big * s) = big * w /\ 1 * (big * s) = big * s
        <5>1. t * (big * s) = big * (t * s)
          OBVIOUS
        <5> QED
          BY <4>6, <5>1
      <4>10. PICK g \in Nat, h \in Nat : g = big * s /\ h = big * w
        OBVIOUS
      <4> QED
        BY <4>4, <4>7, <4>8, <4>9, <4>10
    <3> QED
      BY <3>1
  <2>2. u = 1
    BY <1>2, <1>5, <2>1, TenToIs DEF unit
  <2>3. x <= big
    BY <1>14, <2>2
  <2>4. k = 0
    <3>1. ASSUME k # 0 PROVE FALSE
      <4>1. k - 1 \in Nat
        BY <3>1
      <4>2. PICK w \in Nat : w = TenTo[k - 1] /\ w >= 1
        BY <4>1, TenToIs
      <4>3. x > big * w
        BY <1>3, <3>1, <4>2
      <4>4. 1 * big <= w * big
        BY <4>2, TimesAtMost
      <4>5. PICK g \in Nat : g = big * w /\ g = w * big
        OBVIOUS
      <4> QED
        BY <2>3, <4>3, <4>4, <4>5
    <3> QED
      BY <3>1
  <2>5. d = 1
    BY <1>5, <2>4, TenToIs
  <2>6. z = x
    BY <1>13, <2>5
  <2>7. b * unit - x \in -unit .. unit
    <3>1. z - x \in -u .. u
      BY <2>6
    <3> QED
      BY <1>5, <1>13, <3>1
  <2> QED
    BY <1>1, <1>5, <1>11, <1>12, <1>14, <2>7 DEF IsCast
<1>15. CASE ~(x * 10 <= big * u)
  <2>1. z <= x /\ x - z = m
    BY <1>13
  <2>2. m * big < x * 10
    <3>1. CASE k = 0
      <4>1. d = 1
        BY <1>5, <3>1, TenToIs
      <4>2. m = 0
        BY <4>1
      <4>3. big * u \in Nat /\ m * big = 0
        BY <4>2
      <4> QED
        BY <1>15, <4>3
    <3>2. CASE k # 0
      <4>1. PICK j \in Nat : j = k - 1 /\ j + 1 = k
        BY <3>2
      <4>2. PICK w \in Nat : w = TenTo[j] /\ d = 10 * w
        <5>1. TenTo[j] \in Nat /\ TenTo[j + 1] = 10 * TenTo[j]
          BY TenToIs
        <5> QED
          BY <1>5, <4>1, <5>1
      <4>3. x > big * w
        BY <1>3, <3>2, <4>1, <4>2
      <4>4. m * big <= d * big /\ d * big = 10 * (big * w)
        <5>1. d * big = 10 * (big * w)
          <6>1. (10 * w) * big = 10 * (big * w)
            OBVIOUS
          <6> QED
            BY <4>2, <6>1
        <5>2. m \in Nat /\ m <= d
          OBVIOUS
        <5> QED
          BY <5>1, <5>2, TimesAtMost
      <4>5. PICK g \in Nat, h \in Nat : g = big * w /\ h = m * big
        OBVIOUS
      <4> QED
        BY <4>3, <4>4, <4>5
    <3> QED
      BY <3>1, <3>2
  <2>3. b * unit <= x /\ (x - b * unit) * mantissaMax < x * 10
    BY <1>1, <1>5, <1>13, <2>1, <2>2
  <2> QED
    BY <1>1, <1>5, <1>11, <1>12, <1>15, <2>3 DEF IsCast
<1> QED
  BY <1>14, <1>15

(* Fewer are dropped than it has: the last unit is rounded.                *)
LEMMA CastRounded ==
    ASSUME NEW x \in Nat, Dropped(x) < Digits - place
    PROVE  IsCast(x, castInt(x))
<1>1. PICK max \in Nat, big \in Nat : max = exponentMax /\ big = mantissaMax /\ big >= 1
  BY MaximaAre
<1>2. PICK p \in Nat : p = Digits - place
  BY CodecAssumption
<1>3. PICK k \in Nat : k = Dropped(x) /\ x <= big * TenTo[k] /\ k < p
  BY <1>1, <1>2, DroppedIs
<1>4. PICK j \in Nat : p = k + (j + 1)
  <2>1. p - k - 1 \in Nat /\ p = k + ((p - k - 1) + 1)
    BY <1>3
  <2> QED
    BY <2>1
<1>5. PICK d \in Nat, v \in Nat, u \in Nat :
         d = TenTo[k] /\ d >= 1 /\ v >= d /\ u = 10 * v /\ u = unit
  <2>1. PICK d \in Nat, t \in Nat : d = TenTo[k] /\ d >= 1 /\ t = TenTo[j] /\ t >= 1
    BY TenToIs
  <2>2. TenTo[j + 1] = 10 * t
    BY <2>1, TenToIs
  <2>3. TenTo[k + (j + 1)] = TenTo[k] * TenTo[j + 1]
    <3>1. j + 1 \in Nat
      OBVIOUS
    <3> QED
      BY <3>1, TenToPlus
  <2>4. PICK v \in Nat : v = t * d
    OBVIOUS
  <2>5. 1 * d <= t * d
    BY <2>1, TimesAtMost
  <2>6. d * (10 * t) = 10 * (t * d)
    OBVIOUS
  <2> QED
    BY <1>2, <1>4, <2>1, <2>2, <2>3, <2>4, <2>5, <2>6 DEF unit
<1>6. u \div 2 = 5 * v
  BY <1>5
<1>7. PICK q \in Nat, m \in 0 .. d - 1 : q = x \div d /\ x = d * q + m
  <2>1. d >= 1
    BY <1>5
  <2>2. x \div d \in Nat /\ x % d \in 0 .. d - 1 /\ x = d * (x \div d) + (x % d)
    BY <2>1, Quotient
  <2> QED
    BY <2>2
<1>8. PICK c \in Nat : c = q * d /\ x = c + m /\ cast(x) = c
  <2>1. q * d = d * q /\ q * d \in Nat
    OBVIOUS
  <2>2. cast(x) = q * d
    BY <1>3, <1>5, <1>7 DEF cast
  <2> QED
    BY <1>7, <2>1, <2>2
<1>9. PICK b \in Nat : b = castInt(x) /\ b * u <= c + 5 * v /\ c + 5 * v < b * u + u
  <2>1. PICK b \in Nat : /\ b = Rounded(c)
                         /\ b * unit <= c + unit \div 2 /\ c + unit \div 2 < b * unit + unit
    BY RoundedIs
  <2> QED
    BY <1>5, <1>6, <1>8, <2>1 DEF castInt
<1>10. PICK z \in Nat, g \in Nat : z = b * u /\ g = big * u
  OBVIOUS
<1>11. c <= g
  <2>1. d * big <= u * big /\ d * big \in Nat
    <3>1. d <= u
      BY <1>5
    <3> QED
      BY <3>1, TimesAtMost
  <2>2. d * big = big * d /\ u * big = big * u
    OBVIOUS
  <2> QED
    BY <1>3, <1>5, <1>8, <1>10, <2>1, <2>2
<1>12. b <= big
  <2>1. ASSUME b > big PROVE FALSE
    <3>1. big + 1 <= b /\ big + 1 \in Nat
      BY <2>1
    <3>2. (big + 1) * u <= b * u
      BY <3>1, TimesAtMost
    <3>3. (big + 1) * u = g + u
      BY <1>10
    <3>4. z >= g + u
      BY <1>10, <3>2, <3>3
    <3>5. z <= c + 5 * v
      BY <1>9, <1>10
    <3> QED
      BY <1>5, <1>11, <3>4, <3>5
  <2> QED
    BY <2>1
<1>13. IsEncodable(b)
  <2>1. b = b * TenTo[0]
    BY TenToIs
  <2> QED
    BY <1>1, <1>12, <2>1 DEF IsEncodable
<1>14. x * 10 <= big * u
  <2>1. PICK f \in Nat : f = big * d
    OBVIOUS
  <2>2. x <= f
    BY <1>3, <1>5, <2>1
  <2>3. d * big <= v * big
    BY <1>5, TimesAtMost
  <2>4. PICK n \in Nat : n = big * v
    OBVIOUS
  <2>5. d * big = big * d /\ v * big = big * v
    OBVIOUS
  <2>6. f <= n
    BY <2>1, <2>3, <2>4, <2>5
  <2>7. big * u = 10 * n
    <3>1. big * (10 * v) = 10 * (big * v)
      OBVIOUS
    <3> QED
      BY <1>5, <2>4, <3>1
  <2> QED
    BY <2>2, <2>6, <2>7
<1>15. z - x \in -u .. u
  BY <1>5, <1>8, <1>9, <1>10
<1> QED
  BY <1>1, <1>5, <1>9, <1>10, <1>13, <1>14, <1>15 DEF IsCast

LEMMA CastsIs ==
    ASSUME NEW x \in Nat, x <= mantissaMax * TenTo[exponentMax + Digits - place]
    PROVE  IsCast(x, castInt(x))
<1>1. Dropped(x) \in Nat /\ Digits - place \in Nat
  BY DroppedIs, CodecAssumption
<1> QED
  BY <1>1, CastWhole, CastRounded

LEMMA FirstBalance ==
    ASSUME StateInv
    PROVE  given \in Nat /\ states[0].balance = castInt(given) /\ states[0].balance \in Nat
<1>1. given \in Nat
  BY CommitterAssumption DEF StateInv
<1>2. IsStates(states, given)
  BY <1>1, StatesAre DEF StateInv
<1>3. 0 \in Own
  BY OwnIs DEF Own
<1> QED
  BY <1>1, <1>2, <1>3 DEF IsStates

LEMMA BalancesByInv == CommitInv => BalancesAreCast
<1> SUFFICES ASSUME CommitInv, IsCastable PROVE BalancesAreCast
  BY DEF BalancesAreCast
<1>1. PICK x \in Nat, b \in Nat : x = given /\ b = states[0].balance /\ b = castInt(x)
  BY FirstBalance DEF CommitInv
<1>2. IsCast(x, b)
  BY <1>1, CastsIs DEF IsCastable
<1>3. encodeInt(b) # Refused
  BY <1>2, EncodableIs DEF IsCast
<1>4. PICK kept \in Nat : kept = b * unit /\ Rounded(kept) = b
  BY RoundedUnits
<1>5. encode(kept) = encodeInt(b)
  BY <1>4 DEF encode
<1>6. decode(ValueOf(encodeInt(b))) = kept
  <2>1. decodeInt(ValueOf(encodeInt(b))) = b
    BY <1>3, IntegersAreRead
  <2> QED
    BY <1>4, <2>1 DEF decode, unit
<1>7. IF x * 10 <= mantissaMax * unit
      THEN kept - x \in -unit .. unit
      ELSE kept <= x /\ (x - kept) * mantissaMax < x * 10
  BY <1>2, <1>4 DEF IsCast
<1> QED
  BY <1>1, <1>3, <1>4, <1>5, <1>6, <1>7 DEF BalancesAreCast

(* Of a number of any size that an encoding has room for, castInt() of     *)
(* ts/decimal.ts makes a balance that is written and read as it is, and    *)
(* that is not above it and hardly less: for any widths, any decimals and  *)
(* any number.                                                             *)
THEOREM BalancesAlwaysCast == CommitterSpec => []BalancesAreCast
BY CommitterInvariant, BalancesByInv, PTL

-----------------------------------------------------------------------------
(* A tenth of what can be written can be written.                          *)
LEMMA TenthEncodes ==
    ASSUME NEW x, IsEncodable(x)
    PROVE  x \in Nat /\ Tenth(x) \in Nat /\ IsEncodable(Tenth(x))
<1>1. PICK m \in Nat, e \in Nat : m <= mantissaMax /\ e <= exponentMax /\ x = m * TenTo[e]
  BY DEF IsEncodable
<1>2. PICK t \in Nat : t = TenTo[e] /\ t >= 1
  BY TenToIs
<1>3. x \in Nat /\ x = m * t
  BY <1>1, <1>2
<1>4. PICK y \in Nat : y = Tenth(x)
  BY <1>3, TenthIs
<1>5. PICK max \in Nat, big \in Nat : max = exponentMax /\ big = mantissaMax
  BY MaximaAre
<1>6. CASE e = 0
  <2>1. x = m
    BY <1>2, <1>3, <1>6, TenToIs
  <2>2. y = m \div 10
    BY <1>4, <2>1 DEF Tenth
  <2>3. y <= m
    BY <2>2
  <2>4. TenTo[0] = 1 /\ y = y * 1
    BY TenToIs
  <2>5. y <= big /\ 0 <= max /\ y = y * TenTo[0]
    BY <1>1, <1>5, <2>3, <2>4
  <2>6. IsEncodable(y)
    BY <1>5, <2>5 DEF IsEncodable
  <2> QED
    BY <1>3, <1>4, <2>6
<1>7. CASE e # 0
  <2>1. PICK d \in Nat : e = d + 1
    <3>1. e - 1 \in Nat /\ e = (e - 1) + 1
      BY <1>7
    <3> QED
      BY <3>1
  <2>2. PICK u \in Nat : u = TenTo[d] /\ t = 10 * u
    <3>1. TenTo[d] \in Nat /\ TenTo[d + 1] = 10 * TenTo[d]
      BY TenToIs
    <3> QED
      BY <1>2, <2>1, <3>1
  <2>3. PICK z \in Nat : z = m * u /\ x = 10 * z
    <3>1. m * (10 * u) = 10 * (m * u) /\ m * u \in Nat
      OBVIOUS
    <3> QED
      BY <1>3, <2>2, <3>1
  <2>4. y = z
    BY <1>4, <2>3 DEF Tenth
  <2>5. IsEncodable(y)
    BY <1>1, <1>5, <2>1, <2>2, <2>3, <2>4 DEF IsEncodable
  <2> QED
    BY <1>3, <1>4, <2>5
<1> QED
  BY <1>6, <1>7

(* So can any number of four bytes.                                        *)
LEMMA IndexFits ==
    ASSUME NEW x \in 0 .. Uint32Max
    PROVE  x \in Nat /\ hexZeroPad(x, stateIDLen) # Refused
<1>1. x \in Nat /\ stateIDLen \in Nat /\ Cut(x, stateIDLen) = 0
  BY FourBytes DEF stateIDLen
<1>2. hexZeroPad(x, stateIDLen) = Truncated(x, stateIDLen)
  BY <1>1 DEF hexZeroPad
<1> QED
  BY <1>1, <1>2, TruncatedIs, BytesAreWritten

(* And a transaction of which each field can be written, and a list of     *)
(* such transactions.                                                      *)
LEMMA WrittenIsNotRefused ==
    ASSUME NEW bytes, NEW n, IsWritten(bytes, n)
    PROVE  bytes # Refused
BY BytesAreWritten DEF IsWritten

LEMMA JoinedAll ==
    ASSUME NEW parts, \A i \in DOMAIN parts : parts[i] # Refused
    PROVE  concat(parts) = FlattenSeq(parts)
BY DEF concat

LEMMA TransferFits ==
    ASSUME NEW tx \in TxOf("Transfer"), Fits(tx)
    PROVE  Encoded(tx) # Refused
<1>1. /\ tx.kind = "Transfer" /\ tx.fromIndex \in Nat /\ tx.toIndex \in Nat
      /\ tx.amount \in Nat /\ tx.fee \in Nat
  BY DEF TxOf
<1>2. PICK a, b, c, d :
         /\ a = hexZeroPad(tx.fromIndex, stateIDLen) /\ b = hexZeroPad(tx.toIndex, stateIDLen)
         /\ c = encodeInt(tx.amount) /\ d = encodeInt(tx.fee)
  OBVIOUS
<1>3. a # Refused /\ b # Refused /\ c # Refused /\ d # Refused
  BY <1>1, <1>2 DEF Fits
<1>4. IsWritten(a, 4) /\ IsWritten(b, 4) /\ IsWritten(c, 2) /\ IsWritten(d, 2)
  BY <1>1, <1>2, <1>3, IndicesAreRead, IntegersAreRead
<1>5. PICK parts : parts = <<a, b, c, d>>
  OBVIOUS
<1>6. \A i \in DOMAIN parts : parts[i] # Refused
  <2>1. DOMAIN parts = 1 .. 4 /\ parts[1] = a /\ parts[2] = b /\ parts[3] = c /\ parts[4] = d
    BY <1>5
  <2>2. \A i \in 1 .. 4 : i = 1 \/ i = 2 \/ i = 3 \/ i = 4
    OBVIOUS
  <2> QED
    BY <1>3, <2>1, <2>2
<1>7. PICK e : e = Encoded(tx) /\ e = FlattenSeq(<<a, b, c, d>>)
  <2>1. Encoded(tx) = concat(parts)
    BY <1>1, <1>2, <1>5 DEF Encoded, encodeTransfer
  <2>2. concat(parts) = FlattenSeq(parts)
    BY <1>6, JoinedAll
  <2> QED
    BY <1>5, <2>1, <2>2
<1>8. IsWritten(e, 12)
  BY <1>4, <1>7, FourParts
<1> QED
  BY <1>7, <1>8, WrittenIsNotRefused

LEMMA MassMigrationFits ==
    ASSUME NEW tx \in TxOf("MassMigration"), Fits(tx)
    PROVE  Encoded(tx) # Refused
<1>1. /\ tx.kind = "MassMigration" /\ tx.fromIndex \in Nat
      /\ tx.amount \in Nat /\ tx.fee \in Nat
  BY DEF TxOf
<1>2. PICK a, b, c :
         /\ a = hexZeroPad(tx.fromIndex, stateIDLen)
         /\ b = encodeInt(tx.amount) /\ c = encodeInt(tx.fee)
  OBVIOUS
<1>3. a # Refused /\ b # Refused /\ c # Refused
  BY <1>1, <1>2 DEF Fits
<1>4. IsWritten(a, 4) /\ IsWritten(b, 2) /\ IsWritten(c, 2)
  BY <1>1, <1>2, <1>3, IndicesAreRead, IntegersAreRead
<1>5. PICK parts : parts = <<a, b, c>>
  OBVIOUS
<1>6. \A i \in DOMAIN parts : parts[i] # Refused
  <2>1. DOMAIN parts = 1 .. 3 /\ parts[1] = a /\ parts[2] = b /\ parts[3] = c
    BY <1>5
  <2>2. \A i \in 1 .. 3 : i = 1 \/ i = 2 \/ i = 3
    OBVIOUS
  <2> QED
    BY <1>3, <2>1, <2>2
<1>7. PICK e : e = Encoded(tx) /\ e = FlattenSeq(<<a, b, c>>)
  <2>1. Encoded(tx) = concat(parts)
    BY <1>1, <1>2, <1>5 DEF Encoded, encodeMassMigration
  <2>2. concat(parts) = FlattenSeq(parts)
    BY <1>6, JoinedAll
  <2> QED
    BY <1>5, <2>1, <2>2
<1>8. IsWritten(e, 8)
  BY <1>4, <1>7, ThreeParts
<1> QED
  BY <1>7, <1>8, WrittenIsNotRefused

LEMMA Create2TransferFits ==
    ASSUME NEW tx \in TxOf("Create2Transfer"), Fits(tx)
    PROVE  Encoded(tx) # Refused
<1>1. /\ tx.kind = "Create2Transfer" /\ tx.fromIndex \in Nat /\ tx.toIndex \in Nat
      /\ tx.toAccID \in Nat /\ tx.amount \in Nat /\ tx.fee \in Nat
  BY DEF TxOf
<1>2. PICK a, b, c, d, f :
         /\ a = hexZeroPad(tx.fromIndex, stateIDLen) /\ b = hexZeroPad(tx.toIndex, stateIDLen)
         /\ c = hexZeroPad(tx.toAccID, stateIDLen)
         /\ d = encodeInt(tx.amount) /\ f = encodeInt(tx.fee)
  OBVIOUS
<1>3. a # Refused /\ b # Refused /\ c # Refused /\ d # Refused /\ f # Refused
  BY <1>1, <1>2 DEF Fits
<1>4. IsWritten(a, 4) /\ IsWritten(b, 4) /\ IsWritten(c, 4) /\ IsWritten(d, 2)
      /\ IsWritten(f, 2)
  BY <1>1, <1>2, <1>3, IndicesAreRead, IntegersAreRead
<1>5. PICK parts : parts = <<a, b, c, d, f>>
  OBVIOUS
<1>6. \A i \in DOMAIN parts : parts[i] # Refused
  <2>1. DOMAIN parts = 1 .. 5 /\ parts[1] = a /\ parts[2] = b /\ parts[3] = c
        /\ parts[4] = d /\ parts[5] = f
    BY <1>5
  <2>2. \A i \in 1 .. 5 : i = 1 \/ i = 2 \/ i = 3 \/ i = 4 \/ i = 5
    OBVIOUS
  <2> QED
    BY <1>3, <2>1, <2>2
<1>7. PICK e : e = Encoded(tx) /\ e = FlattenSeq(<<a, b, c, d, f>>)
  <2>1. Encoded(tx) = concat(parts)
    BY <1>1, <1>2, <1>5 DEF Encoded, encodeCreate2Transfer
  <2>2. concat(parts) = FlattenSeq(parts)
    BY <1>6, JoinedAll
  <2> QED
    BY <1>5, <2>1, <2>2
<1>8. IsWritten(e, 16)
  BY <1>4, <1>7, FiveParts
<1> QED
  BY <1>7, <1>8, WrittenIsNotRefused

LEMMA ListFits ==
    ASSUME NEW kind \in TxKinds, NEW list \in Seq(TxOf(kind)), NEW n \in Nat, n >= 1,
           Len(list) = n, DOMAIN list = 1 .. n, \A i \in 1 .. n : Fits(list[i])
    PROVE  serialize(list) # Refused
<1>1. PICK rows : rows = [i \in 1 .. n |-> Encoded(list[i])]
  OBVIOUS
<1>2. serialize(list) = concat(rows)
  BY <1>1 DEF serialize
<1>3. DOMAIN rows = 1 .. n /\ rows = [i \in 1 .. n |-> rows[i]]
      /\ \A i \in 1 .. n : rows[i] = Encoded(list[i])
  BY <1>1
<1>4. \A i \in 1 .. n : rows[i] # Refused /\ IsListed(list[i], kind)
  <2>1. ASSUME NEW tx \in TxOf(kind), Fits(tx) PROVE Encoded(tx) # Refused
    BY <2>1, TransferFits, MassMigrationFits, Create2TransferFits DEF TxKinds
  <2>2. \A i \in 1 .. n : list[i] \in TxOf(kind)
    OBVIOUS
  <2>3. \A i \in 1 .. n : Encoded(list[i]) # Refused
    BY <2>1, <2>2
  <2>4. \A i \in 1 .. n : IsListed(list[i], kind)
    BY <2>2, <2>3, TxIsListed
  <2> QED
    BY <1>3, <2>3, <2>4
<1>5. PICK l \in Nat : l = TX_LEN(kind)
  <2>1. kind = "Transfer" \/ kind = "MassMigration" \/ kind = "Create2Transfer"
    BY DEF TxKinds
  <2>2. TX_LEN(kind) \in {12, 16, 8}
    BY <2>1 DEF TX_LEN
  <2> QED
    BY <2>2
<1>6. \A i \in 1 .. n : IsWritten(rows[i], l)
  BY <1>3, <1>4, <1>5 DEF IsListed
<1>7. PICK bytes : bytes = FlattenSeq(rows) /\ bytes = serialize(list)
  BY <1>2, <1>3, <1>4, JoinedAll
<1>8. RowsIn(bytes, n, l, rows)
  BY <1>3, <1>6, <1>7, RowsAt
<1>9. IsWritten(bytes, n * l)
  BY <1>8 DEF RowsIn
<1> QED
  BY <1>7, <1>9, WrittenIsNotRefused
-----------------------------------------------------------------------------
(* A list of the factories can be written when the balance can be.         *)
LEMMA IndicesAreShort ==
    /\ Own \subseteq 0 .. Uint32Max
    /\ \A k \in Own : NumOfStates + k \in 0 .. Uint32Max
<1>1. PICK m \in Nat : m = NumOfStates /\ m >= 1
  BY OwnIs
<1>2. Uint32Max \in Int
  BY BaseIs DEF Uint32Max
<1>3. 2 * m <= Uint32Max
  BY <1>1, CommitterAssumption
<1>4. Own = 0 .. m - 1
  BY <1>1 DEF Own
<1> QED
  BY <1>1, <1>2, <1>3, <1>4

LEMMA FactoryFits ==
    ASSUME NEW b, IsEncodable(b), NEW kind \in TxKinds, NEW n, NEW list,
           IsFactoryList(list, kind, n), PaysTenths(list, kind, n, b), NEW i \in 1 .. n
    PROVE  Fits(list[i])
<1>1. PICK a : a = Tenth(b) /\ a \in Nat /\ IsEncodable(a)
  BY TenthEncodes
<1>2. PICK f : f = Tenth(a) /\ f \in Nat /\ IsEncodable(f)
  BY <1>1, TenthEncodes
<1>3. encodeInt(a) # Refused /\ encodeInt(f) # Refused
  BY <1>1, <1>2, EncodableIs
<1>4. n \in 1 .. NumOfStates /\ i - 1 \in Own
  BY OwnIs DEF IsFactoryList
<1>5. /\ list[i] \in TxOf(kind) /\ list[i].fromIndex = i - 1
  BY DEF IsFactoryList
<1>6. list[i].kind = kind
  BY <1>5 DEF TxOf, TxKinds
<1>7. /\ list[i].amount = a /\ list[i].fee = f
      /\ kind = "Transfer" => list[i].toIndex \in Own
      /\ kind = "Create2Transfer" =>
            list[i].toIndex = NumOfStates + (i - 1) /\ list[i].toAccID = list[i].toIndex
  BY <1>1, <1>2 DEF PaysTenths
<1>8. list[i].fromIndex \in 0 .. Uint32Max
  BY <1>4, <1>5, IndicesAreShort
<1>9. kind # "MassMigration" => list[i].toIndex \in 0 .. Uint32Max
  BY <1>4, <1>7, IndicesAreShort DEF TxKinds
<1>10. kind = "Create2Transfer" => list[i].toAccID \in 0 .. Uint32Max
  BY <1>7, <1>9
<1> QED
  BY <1>3, <1>6, <1>7, <1>8, <1>9, <1>10, IndexFits DEF Fits

(* What a tenth and a tenth of it amount to.                               *)
LEMMA TenthPays ==
    ASSUME NEW b \in Nat, b >= 10, NEW a, a = Tenth(b), NEW f, f = Tenth(a)
    PROVE  a \in Nat /\ f \in Nat /\ a # 0 /\ a + f <= b
<1>1. a \in Nat /\ a # 0 /\ a * 10 <= b
  BY DEF Tenth
<1>2. f \in Nat /\ f * 10 <= a
  BY <1>1 DEF Tenth
<1> QED
  BY <1>1, <1>2

(* The states from the i-th on have what they began with, and all have the *)
(* same token.                                                             *)
Funds(t, b, i) ==
    \A k \in Own : t[k].tokenType = 1 /\ (k >= i => t[k].balance >= b)

LEMMA SenderPays ==
    ASSUME NEW t \in OwnTrees, NEW b \in Nat, NEW i \in Nat, Funds(t, b, i), i \in Own,
           NEW amount \in Nat, amount # 0, NEW fee \in Nat, amount + fee <= b,
           NEW step, step = ProcessSender(t, i, 1, amount, fee)
    PROVE  IsOk(step) /\ step.tree \in OwnTrees /\ Funds(step.tree, b, i + 1)
<1>1. /\ i \in DOMAIN t /\ t[i] \in OwnState /\ t[i].tokenType = 1 /\ t[i].balance >= b
      /\ t[i].balance \in Nat
  BY DEF OwnTrees, OwnState, Funds
<1>2. SenderResult(t[i], 1, amount, fee) = "Ok"
  BY <1>1 DEF SenderResult
<1>3. PICK u : u = [t EXCEPT ![i].balance = @ - (amount + fee), ![i].nonce = @ + 1]
  OBVIOUS
<1>4. step = Ended("Ok", u)
  BY <1>1, <1>2, <1>3 DEF ProcessSender
<1>5. IsOk(step) /\ step.tree = u
  BY <1>4 DEF Ended, IsOk
<1>6. step.tree \in OwnTrees
  <2>1. step \in OwnSteps
    BY SenderSpends
  <2> QED
    BY <2>1 DEF OwnSteps
<1>7. \A k \in Own : k # i => u[k] = t[k]
  BY <1>3 DEF OwnTrees
<1>8. u[i].tokenType = t[i].tokenType
  BY <1>1, <1>3 DEF OwnTrees, OwnState
<1>9. \A k \in Own : k \in Nat /\ (k >= i + 1 => k # i /\ k >= i)
  BY OwnIs
<1>10. Funds(u, b, i + 1)
  <2>1. \A k \in Own : u[k].tokenType = 1
    BY <1>1, <1>7, <1>8 DEF Funds
  <2>2. \A k \in Own : k >= i + 1 => u[k].balance >= b
    BY <1>7, <1>9 DEF Funds
  <2> QED
    BY <2>1, <2>2 DEF Funds
<1> QED
  BY <1>5, <1>6, <1>10

LEMMA ReceiverIsPaid ==
    ASSUME NEW t \in OwnTrees, NEW b \in Nat, NEW i \in Nat, Funds(t, b, i),
           NEW index \in Own, NEW amount \in Nat,
           NEW step, step = ProcessReceiver(t, index, 1, amount)
    PROVE  IsOk(step) /\ step.tree \in OwnTrees /\ Funds(step.tree, b, i)
<1>1. index \in DOMAIN t /\ t[index] \in OwnState /\ t[index].tokenType = 1
      /\ t[index].balance \in Nat
  BY DEF OwnTrees, OwnState, Funds
<1>2. PICK u : u = [t EXCEPT ![index].balance = @ + amount]
  OBVIOUS
<1>3. step = Ended("Ok", u)
  BY <1>1, <1>2 DEF ProcessReceiver
<1>4. IsOk(step) /\ step.tree = u
  BY <1>3 DEF Ended, IsOk
<1>5. step.tree \in OwnTrees
  <2>1. step \in OwnSteps
    BY ReceiverGets
  <2> QED
    BY <2>1 DEF OwnSteps
<1>6. \A k \in Own : k # index => u[k] = t[k]
  BY <1>2 DEF OwnTrees
<1>7. u[index].tokenType = t[index].tokenType /\ u[index].balance = t[index].balance + amount
  BY <1>1, <1>2 DEF OwnTrees, OwnState
<1>8. t[index].balance >= b => u[index].balance >= b
  BY <1>1, <1>7
<1>9. Funds(u, b, i)
  BY <1>1, <1>6, <1>7, <1>8 DEF Funds
<1> QED
  BY <1>4, <1>5, <1>9

(* A loop in which each step finds what it takes.                          *)
Passes(process, n, b) ==
    \A i \in 1 .. n, t \in OwnTrees :
        Funds(t, b, i - 1) =>
            /\ IsOk(process[i][t]) /\ process[i][t].tree \in OwnTrees
            /\ Funds(process[i][t].tree, b, i)

LEMMA LoopPasses ==
    ASSUME NEW n \in Nat, NEW process \in [1 .. n -> [OwnTrees -> OwnSteps]],
           NEW t \in OwnTrees, NEW b \in Nat, NEW loop,
           Runs(loop, n, OwnSteps, Ended("Ok", t), Turns(process, n)),
           Passes(process, n, b), Funds(t, b, 0)
    PROVE  IsOk(loop[n]) /\ loop[n].tree \in OwnTrees /\ Funds(loop[n].tree, b, n)
<1>1. /\ loop \in [0 .. n -> OwnSteps] /\ loop[0] = Ended("Ok", t)
      /\ \A i \in 1 .. n : loop[i] = IF IsOk(loop[i - 1])
                                    THEN process[i][loop[i - 1].tree] ELSE loop[i - 1]
  <2>1. \A i \in 1 .. n : loop[i - 1] \in OwnSteps
                          /\ loop[i] = Turns(process, n)[i][loop[i - 1]]
    BY DEF Runs
  <2> QED
    BY <2>1, TurnsType DEF Runs
<1> DEFINE T == {i \in 0 .. n : /\ IsOk(loop[i]) /\ loop[i].tree \in OwnTrees
                               /\ Funds(loop[i].tree, b, i)}
<1>2. 0 \in T
  <2>1. IsOk(loop[0]) /\ loop[0].tree = t
    BY <1>1, OwnStep DEF OwnResults
  <2> QED
    BY <2>1
<1>3. ASSUME NEW i \in 1 .. n, i - 1 \in T PROVE i \in T
  <2>1. i \in 0 .. n /\ IsOk(loop[i - 1])
    BY <1>3
  <2>2. PICK c \in OwnTrees : c = loop[i - 1].tree /\ Funds(c, b, i - 1)
    BY <1>3
  <2>3. loop[i] = process[i][c]
    BY <1>1, <2>1, <2>2
  <2>4. IsOk(loop[i]) /\ loop[i].tree \in OwnTrees /\ Funds(loop[i].tree, b, i)
    BY <2>2, <2>3 DEF Passes
  <2> QED
    BY <2>1, <2>4
<1> HIDE DEF T
<1>4. n \in T
  <2>1. 0 .. n \subseteq T
    BY <1>2, <1>3, LoopInduction
  <2> QED
    BY <2>1
<1> QED
  BY <1>4 DEF T
-----------------------------------------------------------------------------
(* Each of the first n states pays a tenth of b, and a tenth of that.      *)
PaysFrom(list, n, b) ==
    /\ IsPayments(list, n)
    /\ \A i \in 1 .. n : /\ list[i].fromIndex = i - 1
                         /\ list[i].amount = Tenth(b) /\ list[i].fee = Tenth(Tenth(b))

LEMMA PaymentIs ==
    ASSUME NEW b \in Nat, b >= 10, NEW n \in 1 .. NumOfStates, NEW list,
           PaysFrom(list, n, b), NEW i \in 1 .. n
    PROVE  /\ i - 1 \in Nat /\ i - 1 \in Own /\ list[i].fromIndex = i - 1
           /\ list[i].amount \in Nat /\ list[i].amount # 0 /\ list[i].fee \in Nat
           /\ list[i].amount + list[i].fee <= b /\ (i - 1) + 1 = i
<1>1. PICK a, f : a = Tenth(b) /\ f = Tenth(a)
  OBVIOUS
<1>2. a \in Nat /\ f \in Nat /\ a # 0 /\ a + f <= b
  BY <1>1, TenthPays
<1>3. list[i].fromIndex = i - 1 /\ list[i].amount = a /\ list[i].fee = f
  BY <1>1 DEF PaysFrom
<1>4. n \in Nat /\ i - 1 \in Own
  BY OwnIs
<1> QED
  BY <1>2, <1>3, <1>4

LEMMA TransfersPass ==
    ASSUME NEW t \in OwnTrees, NEW b \in Nat, b >= 10, Funds(t, b, 0),
           NEW n \in 1 .. NumOfStates, NEW list, PaysFrom(list, n, b),
           \A i \in 1 .. n : list[i].toIndex \in Own,
           NEW end, end = Transfers(t, list, 1)
    PROVE  IsOk(end) /\ end.tree \in OwnTrees /\ Funds(end.tree, b, n)
<1>1. n \in Nat /\ IsPayments(list, n)
  BY OwnIs DEF PaysFrom
<1>2. PICK token : token = 1
  OBVIOUS
<1>3. PICK process : process = [i \in 1 .. n |-> [c \in OwnTrees |->
                                   ProcessTransfer(c, list[i], token)]]
  OBVIOUS
<1>4. PICK loop : /\ process \in [1 .. n -> [OwnTrees -> OwnSteps]]
                  /\ Runs(loop, n, OwnSteps, Ended("Ok", t), Turns(process, n))
                  /\ Transfers(t, list, token) = loop[n]
  BY <1>1, <1>3, TransferRuns
<1>5. ASSUME NEW i \in 1 .. n, NEW c \in OwnTrees, Funds(c, b, i - 1),
             NEW step, step = process[i][c]
      PROVE  IsOk(step) /\ step.tree \in OwnTrees /\ Funds(step.tree, b, i)
  <2>1. step = ProcessTransfer(c, list[i], 1)
    BY <1>2, <1>3, <1>5
  <2>2. PICK k \in Nat : k = i - 1 /\ k \in Own /\ k + 1 = i
    BY PaymentIs
  <2>3. PICK amount \in Nat, fee \in Nat : amount = list[i].amount /\ fee = list[i].fee
                                           /\ amount # 0 /\ amount + fee <= b
    BY PaymentIs
  <2>4. PICK taken : taken = ProcessSender(c, k, 1, amount, fee)
    OBVIOUS
  <2>5. IsOk(taken) /\ taken.tree \in OwnTrees /\ Funds(taken.tree, b, k + 1)
    BY <1>5, <2>2, <2>3, <2>4, SenderPays
  <2>6. PICK d \in OwnTrees : d = taken.tree /\ Funds(d, b, i)
    BY <2>2, <2>5
  <2>7. list[i].fromIndex = k
    BY <2>2 DEF PaysFrom
  <2>8. step = ProcessReceiver(d, list[i].toIndex, 1, amount)
    BY <2>1, <2>3, <2>4, <2>5, <2>6, <2>7 DEF ProcessTransfer, Then
  <2> QED
    BY <2>3, <2>6, <2>8, ReceiverIsPaid
<1>6. Passes(process, n, b)
  BY <1>5 DEF Passes
<1> QED
  BY <1>1, <1>2, <1>4, <1>6, LoopPasses

LEMMA SendersPass ==
    ASSUME NEW t \in OwnTrees, NEW b \in Nat, b >= 10, Funds(t, b, 0),
           NEW n \in 1 .. NumOfStates, NEW list, PaysFrom(list, n, b),
           NEW end, end = Senders(t, list, 1)
    PROVE  IsOk(end) /\ end.tree \in OwnTrees /\ Funds(end.tree, b, n)
<1>1. n \in Nat /\ IsPayments(list, n)
  BY OwnIs DEF PaysFrom
<1>2. PICK token : token = 1
  OBVIOUS
<1>3. PICK process : process = [i \in 1 .. n |-> [c \in OwnTrees |->
                                   ProcessSender(c, list[i].fromIndex, token,
                                                 list[i].amount, list[i].fee)]]
  OBVIOUS
<1>4. PICK loop : /\ process \in [1 .. n -> [OwnTrees -> OwnSteps]]
                  /\ Runs(loop, n, OwnSteps, Ended("Ok", t), Turns(process, n))
                  /\ Senders(t, list, token) = loop[n]
  BY <1>1, <1>3, SenderRuns
<1>5. ASSUME NEW i \in 1 .. n, NEW c \in OwnTrees, Funds(c, b, i - 1),
             NEW step, step = process[i][c]
      PROVE  IsOk(step) /\ step.tree \in OwnTrees /\ Funds(step.tree, b, i)
  <2>1. PICK k \in Nat : k = i - 1 /\ k \in Own /\ k + 1 = i /\ list[i].fromIndex = k
    BY PaymentIs
  <2>2. PICK amount \in Nat, fee \in Nat : amount = list[i].amount /\ fee = list[i].fee
                                           /\ amount # 0 /\ amount + fee <= b
    BY PaymentIs
  <2>3. step = ProcessSender(c, k, 1, amount, fee)
    BY <1>2, <1>3, <1>5, <2>1, <2>2
  <2> QED
    BY <1>5, <2>1, <2>2, <2>3, SenderPays
<1>6. Passes(process, n, b)
  BY <1>5 DEF Passes
<1> QED
  BY <1>1, <1>2, <1>4, <1>6, LoopPasses

(* The two commitments, of which the first state gets the fees.            *)
LEMMA FirstIsOwn == 0 \in Own
BY OwnIs DEF Own

LEMMA TokenIsOne ==
    ASSUME NEW t, NEW b, Funds(t, b, 0), NEW n \in 1 .. NumOfStates, NEW list,
           PaysFrom(list, n, b)
    PROVE  TokenTypeOf(t, list, 0) = 1
<1>1. IsPayments(list, n) /\ n >= 1 /\ 1 \in 1 .. n
  BY OwnIs DEF PaysFrom
<1>2. Head(list) = list[1] /\ list # <<>>
  BY <1>1, FirstIs
<1>3. list[1].fromIndex = 0
  BY <1>1 DEF PaysFrom
<1>4. TokenTypeOf(t, list, 0) = t[0].tokenType
  BY <1>2, <1>3 DEF TokenTypeOf
<1> QED
  BY <1>4, FirstIsOwn DEF Funds

LEMMA TransferCommitPasses ==
    ASSUME NEW t \in OwnTrees, NEW b \in Nat, b >= 10, Funds(t, b, 0),
           NEW n \in 1 .. NumOfStates, NEW list, PaysFrom(list, n, b),
           \A i \in 1 .. n : list[i].toIndex \in Own
    PROVE  IsOk(ProcessTransferCommit(t, TransferBody(list, 0)))
<1>1. 1 = TokenTypeOf(t, list, 0)
  BY TokenIsOne
<1>2. PICK loop : loop = Transfers(t, list, 1)
  OBVIOUS
<1>3. IsOk(loop) /\ loop.tree \in OwnTrees /\ Funds(loop.tree, b, n)
  BY <1>2, TransfersPass
<1>4. PICK end : end = ProcessReceiver(loop.tree, 0, 1, Fees(list))
  OBVIOUS
<1>5. ProcessTransferCommit(t, TransferBody(list, 0)) = end
  BY <1>1, <1>2, <1>3, <1>4, TransferCommitOf
<1>6. Fees(list) \in Nat /\ n \in Nat
  BY FeesSum, OwnIs DEF PaysFrom
<1>7. IsOk(end)
  BY <1>3, <1>4, <1>6, FirstIsOwn, ReceiverIsPaid
<1> QED
  BY <1>5, <1>7

LEMMA MigrationCommitPasses ==
    ASSUME NEW t \in OwnTrees, NEW b \in Nat, b >= 10, Funds(t, b, 0),
           NEW n \in 1 .. NumOfStates, NEW list, PaysFrom(list, n, b), NEW root,
           root = WithdrawLeaves(t, [txs |-> list, tokenID |-> 1])
    PROVE  IsOk(ProcessMassMigrationCommit(t,
                    MigrationBody(list, 0, 1, TotalAmount(list), root)))
<1>1. PICK body : body = MigrationBody(list, 0, 1, TotalAmount(list), root)
  OBVIOUS
<1>2. PICK loop : loop = Senders(t, list, 1)
  OBVIOUS
<1>3. IsOk(loop) /\ loop.tree \in OwnTrees /\ Funds(loop.tree, b, n)
  BY <1>2, SendersPass
<1>4. PICK end : end = ProcessReceiver(loop.tree, 0, 1, Fees(list))
  OBVIOUS
<1>5. Fees(list) \in Nat /\ n \in Nat
  BY FeesSum, OwnIs DEF PaysFrom
<1>6. IsOk(end)
  BY <1>3, <1>4, <1>5, FirstIsOwn, ReceiverIsPaid
<1>7. ProcessMassMigrationCommit(t, body) = Ended(MigrationResult(t, body), end.tree)
  <2>1. ProcessMassMigrationCommit(t, body)
          = IF IsOk(loop)
            THEN IF IsOk(end) THEN Ended(MigrationResult(t, body), end.tree) ELSE end
            ELSE loop
    BY <1>1, <1>2, <1>4, MigrationCommitOf
  <2> QED
    BY <1>3, <1>6, <2>1
<1>8. MigrationResult(t, body) = "Ok"
  <2>1. /\ body.txs = list /\ body.tokenID = 1 /\ body.amount = TotalAmount(list)
        /\ body.withdrawRoot = root
    BY <1>1 DEF MigrationBody
  <2>2. WithdrawLeaves(t, body) = root
    BY <2>1 DEF WithdrawLeaves
  <2>3. Len(list) \in 1 .. 32
    BY CommitterAssumption DEF PaysFrom, IsPayments
  <2> QED
    BY <2>1, <2>2, <2>3 DEF MigrationResult
<1> QED
  BY <1>1, <1>7, <1>8 DEF Ended, IsOk
-----------------------------------------------------------------------------
(* The trees while states are created: the first i have paid and as many   *)
(* are new.                                                                *)
Paid(state, spent) == [state EXCEPT !.balance = @ - spent, !.nonce = @ + 1]
AfterCreates(t, amount, fee, i) ==
    [k \in 0 .. NumOfStates + i - 1 |->
        IF k < i THEN Paid(t[k], amount + fee)
        ELSE IF k < NumOfStates THEN t[k] ELSE CreateState(k, 1, amount)]
CreatesAt(list, n, amount, fee) ==
    /\ IsListOf(list) /\ Len(list) = n
    /\ \A i \in 1 .. n : /\ list[i].fromIndex = i - 1
                         /\ list[i].amount = amount /\ list[i].fee = fee
                         /\ list[i].toIndex = NumOfStates + (i - 1)
                         /\ list[i].toAccID = list[i].toIndex
Creates(t, list, token) ==
    ForEach(LAMBDA current, tx : ProcessCreate2Transfer(current, tx, token), t, list)

LEMMA NothingCreated ==
    ASSUME NEW t \in OwnTrees, NEW amount, NEW fee
    PROVE  AfterCreates(t, amount, fee, 0) = t
<1>1. PICK m \in Nat : m = NumOfStates /\ m >= 1 /\ Own = 0 .. m - 1
  BY OwnIs DEF Own
<1>2. t = [k \in 0 .. m - 1 |-> t[k]]
  BY <1>1 DEF OwnTrees
<1>3. m + 0 - 1 = m - 1 /\ \A k \in 0 .. m - 1 : ~(k < 0) /\ k < m
  BY <1>1
<1>4. AfterCreates(t, amount, fee, 0) = [k \in 0 .. m - 1 |-> t[k]]
  BY <1>1, <1>3 DEF AfterCreates
<1> QED
  BY <1>2, <1>4

LEMMA CreatePasses ==
    ASSUME NEW t \in OwnTrees, NEW b \in Nat, Funds(t, b, 0), NEW n \in 1 .. NumOfStates,
           NEW amount \in Nat, amount # 0, NEW fee \in Nat, amount + fee <= b,
           NEW list, CreatesAt(list, n, amount, fee), NEW i \in 1 .. n
    PROVE  ProcessCreate2Transfer(AfterCreates(t, amount, fee, i - 1), list[i], 1)
             = Ended("Ok", AfterCreates(t, amount, fee, i))
<1>1. PICK m \in Nat : m = NumOfStates /\ m >= 1 /\ n <= m /\ n \in Nat /\ Own = 0 .. m - 1
  BY OwnIs DEF Own
<1>2. PICK s \in Nat : s = i - 1 /\ s + 1 = i /\ s < m /\ s \in Own
  BY <1>1
<1>3. PICK c : c = AfterCreates(t, amount, fee, s)
  OBVIOUS
<1>4. PICK x \in Nat : x = m + s
  BY <1>1
<1>5. /\ DOMAIN c = 0 .. x - 1
      /\ \A k \in 0 .. x - 1 :
            c[k] = IF k < s THEN Paid(t[k], amount + fee)
                   ELSE IF k < m THEN t[k] ELSE CreateState(k, 1, amount)
  <2>1. m + s - 1 = x - 1
    BY <1>1, <1>4
  <2>2. c = [k \in 0 .. x - 1 |-> IF k < s THEN Paid(t[k], amount + fee)
                                  ELSE IF k < m THEN t[k] ELSE CreateState(k, 1, amount)]
    BY <1>1, <1>3, <2>1 DEF AfterCreates
  <2> QED
    BY ONLY <2>2
<1>6. s \in 0 .. x - 1 /\ c[s] = t[s]
  BY <1>1, <1>2, <1>4, <1>5
<1>7. t[s].tokenType = 1 /\ t[s].balance >= b /\ t[s] \in OwnState
  BY <1>2 DEF Funds, OwnTrees
<1>8. SenderResult(c[s], 1, amount, fee) = "Ok"
  BY <1>6, <1>7 DEF SenderResult, OwnState
<1>9. PICK d : d = [c EXCEPT ![s].balance = @ - (amount + fee), ![s].nonce = @ + 1]
  OBVIOUS
<1>10. ProcessSender(c, s, 1, amount, fee) = Ended("Ok", d)
  BY <1>5, <1>6, <1>8, <1>9 DEF ProcessSender
<1>11. DOMAIN d = 0 .. x - 1 /\ \A k \in 0 .. x - 1 : k # s => d[k] = c[k]
  BY <1>5, <1>9
<1>12. d[s] = Paid(t[s], amount + fee)
  BY <1>5, <1>6, <1>9 DEF Paid
<1>13. PICK new : new = CreateState(x, 1, amount)
  OBVIOUS
<1>14. ProcessCreate2Transfer(c, list[i], 1) = ProcessNewReceiver(d, x, new)
  <2>1. PICK tx : tx = list[i]
    OBVIOUS
  <2>2. /\ tx.fromIndex = s /\ tx.amount = amount /\ tx.fee = fee /\ tx.toIndex = x
        /\ tx.toAccID = x
    BY <1>1, <1>2, <1>4, <2>1 DEF CreatesAt
  <2>3. IsOk(Ended("Ok", d)) /\ Ended("Ok", d).tree = d
    BY DEF IsOk, Ended
  <2>4. ProcessSender(c, tx.fromIndex, 1, tx.amount, tx.fee) = Ended("Ok", d)
    BY <1>10, <2>2
  <2>5. ProcessCreate2Transfer(c, tx, 1)
          = ProcessNewReceiver(d, tx.toIndex, CreateState(tx.toAccID, 1, tx.amount))
    BY <2>3, <2>4 DEF ProcessCreate2Transfer, Then
  <2> QED
    BY <1>13, <2>1, <2>2, <2>5
<1>15. PICK e : e = Merged(d, [k \in {x} |-> new])
  OBVIOUS
<1>16. ProcessNewReceiver(d, x, new) = Ended("Ok", e)
  BY <1>11, <1>15 DEF ProcessNewReceiver
<1>17. e = [k \in 0 .. x |-> IF k < i THEN Paid(t[k], amount + fee)
                             ELSE IF k < m THEN t[k] ELSE CreateState(k, 1, amount)]
  <2>1. DOMAIN d \union {x} = 0 .. x
    BY <1>11
  <2>2. e = [k \in 0 .. x |-> IF k \in DOMAIN d THEN d[k] ELSE [j \in {x} |-> new][k]]
    BY <1>15, <2>1 DEF Merged
  <2>3. ASSUME NEW k \in 0 .. x
        PROVE  (IF k \in DOMAIN d THEN d[k] ELSE [j \in {x} |-> new][k])
                 = IF k < i THEN Paid(t[k], amount + fee)
                   ELSE IF k < m THEN t[k] ELSE CreateState(k, 1, amount)
    <3>1. CASE k = x
      <4>1. ~(k < i) /\ ~(k < m) /\ k \notin DOMAIN d
        BY <1>1, <1>2, <1>4, <1>11, <3>1
      <4>2. [j \in {x} |-> new][k] = CreateState(k, 1, amount)
        BY <1>13, <3>1
      <4> QED
        BY <4>1, <4>2
    <3>2. CASE k = s
      <4>1. k < i /\ k \in DOMAIN d
        BY <1>2, <1>6, <1>11, <3>2
      <4> QED
        BY <1>12, <3>2, <4>1
    <3>3. CASE k # x /\ k # s
      <4>1. k \in 0 .. x - 1 /\ k \in DOMAIN d /\ (k < i <=> k < s)
        BY <1>2, <1>4, <1>11, <3>3
      <4>2. d[k] = c[k]
        BY <1>11, <3>3, <4>1
      <4> QED
        BY <1>5, <4>1, <4>2
    <3> QED
      BY <3>1, <3>2, <3>3
  <2> QED
    BY <2>2, <2>3
<1>18. e = AfterCreates(t, amount, fee, i)
  <2>1. m + i - 1 = x
    BY <1>1, <1>2, <1>4
  <2> QED
    BY <1>1, <1>17, <2>1 DEF AfterCreates
<1> QED
  BY <1>2, <1>3, <1>14, <1>16, <1>18

LEMMA CreatesPass ==
    ASSUME NEW t \in OwnTrees, NEW b \in Nat, Funds(t, b, 0), NEW n \in 1 .. NumOfStates,
           NEW amount \in Nat, amount # 0, NEW fee \in Nat, amount + fee <= b,
           NEW list, CreatesAt(list, n, amount, fee)
    PROVE  Creates(t, list, 1) = Ended("Ok", AfterCreates(t, amount, fee, n))
<1> DEFINE Reached(i) == Ended("Ok", AfterCreates(t, amount, fee, i))
           Body(h, i) == IF i = 0 THEN Ended("Ok", t)
                         ELSE IF IsOk(h[i - 1])
                              THEN ProcessCreate2Transfer(h[i - 1].tree, list[i], 1)
                              ELSE h[i - 1]
           after == CHOOSE h : h = [i \in 0 .. n |-> Body(h, i)]
<1>1. n \in Nat /\ Len(list) = n
  BY OwnIs DEF CreatesAt
<1>2. Creates(t, list, 1) = after[n]
  BY <1>1 DEF ForEach, Then, Creates
<1>3. Reached(0) = Ended("Ok", t)
  BY NothingCreated
<1>4. \A h : \A i \in 1 .. n : h[i - 1] = Reached(i - 1) => Body(h, i) = Reached(i)
  <2>1. ASSUME NEW i \in 1 .. n, NEW h, h[i - 1] = Reached(i - 1) PROVE Body(h, i) = Reached(i)
    <3>1. PICK c : c = AfterCreates(t, amount, fee, i - 1) /\ h[i - 1] = Ended("Ok", c)
      BY <2>1
    <3>2. i # 0 /\ IsOk(h[i - 1]) /\ h[i - 1].tree = c
      BY <3>1 DEF IsOk, Ended
    <3>3. Body(h, i) = ProcessCreate2Transfer(c, list[i], 1)
      BY <3>2
    <3> HIDE DEF Body
    <3>4. ProcessCreate2Transfer(c, list[i], 1) = Reached(i)
      BY <3>1, CreatePasses
    <3> QED
      BY <3>3, <3>4
  <2> QED
    BY <2>1
<1> HIDE DEF Reached
<1>5. PICK good : good = [i \in 0 .. n |-> Reached(i)]
  OBVIOUS
<1>6. good = [i \in 0 .. n |-> Body(good, i)]
  <2>1. ASSUME NEW i \in 0 .. n PROVE Reached(i) = Body(good, i)
    <3>1. CASE i = 0
      BY <1>3, <3>1
    <3>2. CASE i # 0
      <4>1. i \in 1 .. n /\ i - 1 \in 0 .. n
        BY <1>1, <3>2
      <4>2. good[i - 1] = Reached(i - 1)
        BY <1>5, <4>1
      <4> HIDE DEF Body
      <4> QED
        BY <1>4, <4>1, <4>2
    <3> QED
      BY <3>1, <3>2
  <2> HIDE DEF Body
  <2> QED
    BY <1>5, <2>1
<1>7. after = [i \in 0 .. n |-> Body(after, i)]
  <2> HIDE DEF Body
  <2> QED
    BY <1>6
<1> HIDE DEF after
<1>8. \A i \in 0 .. n : after[i] = Body(after, i)
  <2> HIDE DEF Body
  <2> QED
    BY <1>7, Zenon
<1> DEFINE T == {i \in 0 .. n : after[i] = Reached(i)}
<1>9. 0 \in T
  <2>1. 0 \in 0 .. n
    BY <1>1
  <2>2. after[0] = Ended("Ok", t)
    BY <1>8, <2>1
  <2> QED
    BY <1>3, <2>1, <2>2
<1>10. ASSUME NEW i \in 1 .. n, i - 1 \in T PROVE i \in T
  <2>1. i \in 0 .. n /\ after[i - 1] = Reached(i - 1)
    BY <1>1, <1>10
  <2> HIDE DEF Body
  <2>2. Body(after, i) = Reached(i)
    BY <1>4, <2>1
  <2> QED
    BY <1>8, <2>1, <2>2
<1> HIDE DEF Body, T
<1>11. n \in T
  <2>1. 0 .. n \subseteq T
    BY <1>1, <1>9, <1>10, LoopInduction
  <2> QED
    BY <1>1, <2>1
<1> QED
  BY <1>2, <1>11 DEF T, Reached

LEMMA Create2TransferCommitPasses ==
    ASSUME NEW t \in OwnTrees, NEW b \in Nat, Funds(t, b, 0), NEW n \in 1 .. NumOfStates,
           NEW amount \in Nat, amount # 0, NEW fee \in Nat, amount + fee <= b,
           NEW list, CreatesAt(list, n, amount, fee)
    PROVE  IsOk(ProcessCreate2TransferCommit(t, TransferBody(list, 0)))
<1>0. PICK body : body = TransferBody(list, 0)
  OBVIOUS
<1>1. body = TransferBody(list, 0) /\ body.txs = list /\ body.feeReceiver = 0
  BY <1>0 DEF TransferBody
<1>2. TokenTypeOf(t, list, 0) = 1
  <2>1. Head(list) = list[1] /\ list # <<>> /\ 1 \in 1 .. n
    <3>1. PICK S : list \in Seq(S) /\ Len(list) = n
      BY DEF CreatesAt, IsListOf
    <3>2. n >= 1 /\ 1 \in 1 .. n
      BY OwnIs
    <3> QED
      BY <3>1, <3>2
  <2>2. list[1].fromIndex = 0
    BY <2>1 DEF CreatesAt
  <2>3. TokenTypeOf(t, list, 0) = t[0].tokenType
    BY <2>1, <2>2 DEF TokenTypeOf
  <2> QED
    BY <2>3, FirstIsOwn DEF Funds
<1>3. PICK c : c = AfterCreates(t, amount, fee, n)
  OBVIOUS
<1>4. PICK loop : loop = Creates(t, list, 1)
  OBVIOUS
<1>5. IsOk(loop) /\ loop.tree = c
  <2>1. loop = Ended("Ok", c)
    BY <1>3, <1>4, CreatesPass
  <2> QED
    BY <2>1 DEF Ended, IsOk
<1>6. ProcessCreate2TransferCommit(t, body)
         = IF IsOk(Creates(t, body.txs, TokenTypeOf(t, body.txs, body.feeReceiver)))
           THEN ProcessReceiver(
                    Creates(t, body.txs, TokenTypeOf(t, body.txs, body.feeReceiver)).tree,
                    body.feeReceiver, TokenTypeOf(t, body.txs, body.feeReceiver),
                    Fees(body.txs))
           ELSE Creates(t, body.txs, TokenTypeOf(t, body.txs, body.feeReceiver))
  BY DEF ProcessCreate2TransferCommit, Then, Creates
<1>7. ProcessCreate2TransferCommit(t, body) = ProcessReceiver(c, 0, 1, Fees(list))
  BY <1>1, <1>2, <1>4, <1>5, <1>6
<1>8. 0 \in DOMAIN c /\ c[0].tokenType = 1
  <2>1. PICK m \in Nat : m = NumOfStates /\ m >= 1 /\ n >= 1 /\ n \in Nat
    BY OwnIs
  <2>2. c = [k \in 0 .. m + n - 1 |->
                IF k < n THEN Paid(t[k], amount + fee)
                ELSE IF k < m THEN t[k] ELSE CreateState(k, 1, amount)]
    BY <1>3, <2>1 DEF AfterCreates
  <2>3. 0 \in 0 .. m + n - 1 /\ 0 < n
    BY <2>1
  <2>4. c[0] = Paid(t[0], amount + fee) /\ 0 \in DOMAIN c
    BY <2>2, <2>3
  <2>5. t[0] \in OwnState /\ t[0].tokenType = 1
    BY FirstIsOwn DEF Funds, OwnTrees
  <2>6. Paid(t[0], amount + fee).tokenType = t[0].tokenType
    BY <2>5 DEF Paid, OwnState
  <2> QED
    BY <2>4, <2>5, <2>6
<1> QED
  BY <1>1, <1>7, <1>8 DEF ProcessReceiver, Ended, IsOk
-----------------------------------------------------------------------------
(* Until something is committed the tree is that of the states.            *)
FreshInv == drafts = <<>> /\ batches = <<>> => tree = Clones(states)

LEMMA FreshFunds ==
    ASSUME StateInv, tree = Clones(states), NEW b, b = castInt(given)
    PROVE  /\ Funds(tree, b, 0) /\ b \in Nat
           /\ \A k \in Own : tree[k].nonce = 9 + k
<1>1. given \in Nat
  BY CommitterAssumption DEF StateInv
<1>2. IsStates(states, given)
  BY <1>1, StatesAre DEF StateInv
<1>3. b \in Nat
  BY <1>1, CastIs
<1>4. ASSUME NEW k \in Own
      PROVE  tree[k].tokenType = 1 /\ tree[k].balance = b /\ tree[k].nonce = 9 + k
  <2>1. PICK state : state = states[k] /\ state.tokenType = 1 /\ state.balance = b
                     /\ state.nonce = 9 + k
    BY <1>2 DEF IsStates
  <2>2. tree[k] = Leaf(state)
    BY <1>2, <2>1 DEF Clones, IsStates
  <2> QED
    BY <2>1, <2>2 DEF Leaf
<1> QED
  BY <1>3, <1>4 DEF Funds

(* The list, and what the contract reads of it.                            *)
LEMMA FactoryIsRead ==
    ASSUME NEW b, IsEncodable(b), NEW kind \in TxKinds, NEW n, NEW list,
           IsFactoryList(list, kind, n), PaysTenths(list, kind, n, b), NEW bytes,
           bytes = serialize(list)
    PROVE  /\ bytes # Refused /\ Head(list).kind = kind
           /\ DecodedTxs(kind, bytes) = [i \in 1 .. n |-> Plain(list[i])]
<1>1. /\ n \in Nat /\ n >= 1 /\ list \in Seq(TxOf(kind)) /\ Len(list) = n
      /\ DOMAIN list = 1 .. n
  BY OwnIs DEF IsFactoryList
<1>2. \A i \in 1 .. n : Fits(list[i])
  BY FactoryFits
<1>3. bytes # Refused
  BY <1>1, <1>2, ListFits
<1>4. list # <<>> /\ Head(list) = list[1] /\ 1 \in 1 .. n
  BY <1>1
<1>5. IsRead(kind, list)
  BY <1>1, <1>3, <1>4, ListIsRead
<1>6. /\ size(kind, bytes) = n
      /\ \A i \in 1 .. n : list[i].kind = kind /\ Decoded(kind, bytes, i - 1) = Plain(list[i])
  BY <1>1, <1>5 DEF IsRead
<1>7. DecodedTxs(kind, bytes) = [i \in 1 .. n |-> Plain(list[i])]
  BY <1>6 DEF DecodedTxs
<1> QED
  BY <1>3, <1>4, <1>6, <1>7

LEMMA FactoryTransfersPass ==
    ASSUME NEW b \in Nat, b >= 10, NEW t \in OwnTrees, Funds(t, b, 0), NEW n, NEW list,
           IsFactoryList(list, "Transfer", n), PaysTenths(list, "Transfer", n, b),
           NEW read, read = [i \in 1 .. n |-> Plain(list[i])]
    PROVE  IsOk(ProcessTransferCommit(t, TransferBody(read, 0)))
<1>1. PICK kind : kind = "Transfer" /\ kind \in DraftKinds
  BY DEF DraftKinds
<1>2. /\ n \in Nat /\ n \in 1 .. NumOfStates /\ list \in Seq(TxOf(kind)) /\ Len(list) = n
      /\ DOMAIN list = 1 .. n
  BY <1>1, OwnIs DEF IsFactoryList
<1>3. IsPayments(read, n) /\ SameTransfers(list, read, n)
  BY <1>1, <1>2, PlainPays
<1>4. ASSUME NEW i \in 1 .. n
      PROVE  /\ read[i].fromIndex = i - 1 /\ read[i].toIndex \in Own
             /\ read[i].amount = Tenth(b) /\ read[i].fee = Tenth(Tenth(b))
  <2>1. /\ list[i].fromIndex = i - 1 /\ list[i].toIndex \in Own
        /\ list[i].amount = Tenth(b) /\ list[i].fee = Tenth(Tenth(b))
    BY DEF PaysTenths, IsFactoryList
  <2>2. /\ read[i].fromIndex = list[i].fromIndex /\ read[i].toIndex = list[i].toIndex
        /\ read[i].amount = list[i].amount /\ read[i].fee = list[i].fee
    BY <1>3 DEF SameTransfers
  <2> QED
    BY <2>1, <2>2
<1>5. PaysFrom(read, n, b)
  BY <1>3, <1>4 DEF PaysFrom
<1> QED
  BY <1>2, <1>4, <1>5, TransferCommitPasses

LEMMA FactoryMigrationsPass ==
    ASSUME NEW b \in Nat, b >= 10, tree \in OwnTrees, Funds(tree, b, 0), NEW n, NEW list,
           IsFactoryList(list, "MassMigration", n), PaysTenths(list, "MassMigration", n, b)
    PROVE  IsOk(ProcessMassMigrationCommit(tree, Migration(list, 0)))
<1>1. PICK kind : kind = "MassMigration" /\ kind \in DraftKinds
  BY DEF DraftKinds
<1>2. /\ n \in Nat /\ n \in 1 .. NumOfStates /\ list \in Seq(TxOf(kind)) /\ Len(list) = n
      /\ DOMAIN list = 1 .. n
  BY <1>1, OwnIs DEF IsFactoryList
<1>3. IsPayments(list, n)
  BY <1>1, <1>2, PlainPays
<1>4. PaysFrom(list, n, b)
  BY <1>3 DEF PaysFrom, PaysTenths, IsFactoryList
<1>5. PICK root : root = WithdrawLeaves(tree, [txs |-> list, tokenID |-> 1])
  OBVIOUS
<1>6. Migration(list, 0) = MigrationBody(list, 0, 1, TotalAmount(list), root)
  BY <1>5 DEF Migration, MigrationBody
<1> QED
  BY <1>2, <1>4, <1>5, <1>6, MigrationCommitPasses

LEMMA FactoryCreatesPass ==
    ASSUME NEW b \in Nat, b >= 10, NEW t \in OwnTrees, Funds(t, b, 0), NEW n, NEW list,
           IsFactoryList(list, "Create2Transfer", n),
           PaysTenths(list, "Create2Transfer", n, b),
           NEW read, read = [i \in 1 .. n |-> Plain(list[i])]
    PROVE  IsOk(ProcessCreate2TransferCommit(t, TransferBody(read, 0)))
<1>1. PICK a, f : a = Tenth(b) /\ f = Tenth(a)
  OBVIOUS
<1>2. a \in Nat /\ f \in Nat /\ a # 0 /\ a + f <= b
  BY <1>1, TenthPays
<1>3. n \in Nat /\ n \in 1 .. NumOfStates
  BY OwnIs DEF IsFactoryList
<1>4. ASSUME NEW i \in 1 .. n
      PROVE  /\ read[i].fromIndex = i - 1 /\ read[i].amount = a /\ read[i].fee = f
             /\ read[i].toIndex = NumOfStates + (i - 1)
             /\ read[i].toAccID = read[i].toIndex
  <2>1. PICK tx : tx = list[i] /\ tx \in TxOf("Create2Transfer")
    BY DEF IsFactoryList
  <2>2. /\ tx.fromIndex = i - 1 /\ tx.amount = a /\ tx.fee = f
        /\ tx.toIndex = NumOfStates + (i - 1) /\ tx.toAccID = tx.toIndex
    BY <1>1, <2>1 DEF IsFactoryList, PaysTenths
  <2>3. tx.kind = "Create2Transfer"
    BY <2>1 DEF TxOf
  <2>4. read[i] = [fromIndex |-> tx.fromIndex, toIndex |-> tx.toIndex,
                   toAccID |-> tx.toAccID, amount |-> tx.amount, fee |-> tx.fee]
    BY <2>1, <2>3 DEF Plain
  <2> QED
    BY <2>2, <2>4
<1>5. read \in Seq({read[i] : i \in 1 .. n}) /\ Len(read) = n
  <2>1. read \in [1 .. n -> {read[i] : i \in 1 .. n}]
    OBVIOUS
  <2> QED
    BY <1>3, <2>1, Indexed
<1>6. CreatesAt(read, n, a, f)
  BY <1>4, <1>5 DEF CreatesAt, IsListOf
<1> QED
  BY <1>2, <1>3, <1>6, Create2TransferCommitPasses

LEMMA FactoriesByInv == CommitInv /\ FreshInv => FactoriesPass
<1> SUFFICES ASSUME CommitInv, FreshInv, drafts = <<>>, batches = <<>>, txs \in FactoryLists,
                    states[0].balance >= 10, IsCastable
             PROVE  FactoriesPass
  BY DEF FactoriesPass
<1>1. StateInv /\ tree = Clones(states) /\ tree \in OwnTrees
  BY DEF CommitInv, StateInv, FreshInv
<1>2. PICK b : b = castInt(given) /\ b = states[0].balance
  BY <1>1, FirstBalance
<1>3. /\ b \in Nat /\ b >= 10 /\ Funds(tree, b, 0)
      /\ \A k \in Own : tree[k].nonce = 9 + k
  BY <1>1, <1>2, FreshFunds
<1>4. IsEncodable(b)
  <2>1. given \in Nat
    BY <1>1, FirstBalance
  <2>2. IsCast(given, castInt(given))
    BY <2>1, CastsIs DEF IsCastable
  <2> QED
    BY <1>2, <2>2 DEF IsCast
<1>5. PICK kind \in TxKinds, n \in Nat :
         IsFactoryList(txs, kind, n) /\ PaysTenths(txs, kind, n, b)
  <2>1. given \in Nat /\ states = StatesFrom(given)
    BY <1>1, FirstBalance DEF StateInv
  <2> QED
    BY <1>2, <2>1, FactoryListsAre
<1>6. PICK bytes : bytes = serialize(txs)
  OBVIOUS
<1>7. PICK read : read = [i \in 1 .. n |-> Plain(txs[i])]
  OBVIOUS
<1>8. bytes # Refused /\ Head(txs).kind = kind /\ DecodedTxs(kind, bytes) = read
  BY <1>4, <1>5, <1>6, <1>7, FactoryIsRead
<1>9. \A i \in DOMAIN txs : txs[i].nonce = tree[txs[i].fromIndex].nonce
  <2>1. n \in 1 .. NumOfStates /\ DOMAIN txs = 1 .. n
        /\ \A i \in 1 .. n : txs[i].fromIndex = i - 1 /\ txs[i].nonce = 9 + (i - 1)
    BY <1>5 DEF IsFactoryList
  <2>2. \A i \in 1 .. n : i - 1 \in Own
    BY <2>1, OwnIs
  <2>3. \A i \in 1 .. n : tree[i - 1].nonce = 9 + (i - 1)
    BY <1>3, <2>2
  <2> QED
    BY <2>1, <2>3
<1>10. kind = "Transfer" => IsOk(ProcessTransferCommit(tree, TransferBody(read, 0)))
  BY <1>1, <1>3, <1>5, <1>7, FactoryTransfersPass
<1>11. kind = "MassMigration" => IsOk(ProcessMassMigrationCommit(tree, Migration(txs, 0)))
  BY <1>1, <1>3, <1>5, FactoryMigrationsPass
<1>12. kind = "Create2Transfer" =>
          IsOk(ProcessCreate2TransferCommit(tree, TransferBody(read, 0)))
  BY <1>1, <1>3, <1>5, <1>7, FactoryCreatesPass
<1>13. TransferBody(read, 0) = [txs |-> read, feeReceiver |-> 0]
  BY DEF TransferBody
<1>14. kind = "Transfer" \/ kind = "MassMigration" \/ kind = "Create2Transfer"
  BY DEF TxKinds
<1> QED
  BY <1>6, <1>8, <1>9, <1>10, <1>11, <1>12, <1>13, <1>14 DEF FactoriesPass

LEMMA FreshKeeps == CommitInv /\ FreshInv /\ [CommitterNext]_committerVars => FreshInv'
<1> SUFFICES ASSUME CommitInv, FreshInv, [CommitterNext]_committerVars PROVE FreshInv'
  OBVIOUS
<1>1. ASSUME UNCHANGED <<states, tree, drafts, batches>> PROVE FreshInv'
  BY <1>1 DEF FreshInv, Clones
<1>2. ASSUME NEW list, NEW e, IsListOf(list) PROVE Append(list, e) # <<>>
  <2>1. PICK S : list \in Seq(S)
    BY <1>2 DEF IsListOf
  <2>2. list \in Seq(S \union {e}) /\ e \in S \union {e}
    BY <2>1
  <2> QED
    BY <2>2, AppendProperties
<1>3. IsListOf(drafts) /\ IsListOf(batches)
  BY DEF CommitInv, MadeInv, AreMade
<1>4. CASE Deploying
  BY <1>1, <1>4 DEF Deploying, commitmentVars
<1>5. CASE UNCHANGED committerVars
  BY <1>1, <1>5 DEF committerVars, commitmentVars
<1>6. CASE Committing
  <2>1. CASE RegisterKey
    BY <1>1, <2>1 DEF RegisterKey
  <2>2. ASSUME NEW lists, NewList(lists) PROVE FreshInv'
    BY <1>1, <2>2 DEF NewList
  <2>3. ASSUME NEW from, NEW to, SignTransfer(from, to) PROVE FreshInv'
    BY <1>1, <2>3 DEF SignTransfer
  <2>4. ASSUME NEW c, NEW after, Drafted(c, after) PROVE FreshInv'
    <3>1. drafts' # <<>>
      BY <1>2, <1>3, <2>4 DEF Drafted
    <3> QED
      BY <3>1 DEF FreshInv
  <2>5. ASSUME NEW feeReceiver, DraftTransfer(feeReceiver) PROVE FreshInv'
    BY <2>4, <2>5 DEF DraftTransfer
  <2>6. ASSUME NEW feeReceiver, DraftMassMigration(feeReceiver) PROVE FreshInv'
    BY <2>4, <2>6 DEF DraftMassMigration
  <2>7. CASE Submit
    <3>1. batches' # <<>>
      BY <1>2, <1>3, <2>7 DEF Submit
    <3> QED
      BY <3>1 DEF FreshInv
  <2>8. CommitmentsNext
    BY <1>6 DEF Committing
  <2> QED
    BY <2>1, <2>2, <2>3, <2>5, <2>6, <2>7, <2>8 DEF CommitmentsNext
<1> QED
  BY <1>4, <1>5, <1>6 DEF CommitterNext

(* Each list of the factories, made before anything is committed, can be   *)
(* written, is signed with the nonces of its senders, and is processed by  *)
(* the contract that reads it, when a tenth of the balance is not nothing: *)
(* ts/factory.ts and the three process...Commit(), for any number of       *)
(* states, any widths of the codec and any balance that has an encoding.   *)
THEOREM FactoriesAlwaysPass == CommitterSpec => []FactoriesPass
<1>1. CommitterInit => FreshInv
  BY DEF CommitterInit, CommitmentsInit, FreshInv
<1>2. CommitInv /\ FreshInv /\ [CommitterNext]_committerVars => FreshInv'
  BY FreshKeeps
<1>3. CommitInv /\ FreshInv => FactoriesPass
  BY FactoriesByInv
<1> QED
  BY <1>1, <1>2, <1>3, CommitterInvariant, PTL DEF CommitterSpec
=============================================================================
