---------------------------- MODULE MerkleProofs ----------------------------
(***************************************************************************)
(* Merkle proofs (merkle-tools/src/lib.rs) for blocks of any number of     *)
(* transactions: what merkle_proof_calculator makes is accepted, and what  *)
(* is accepted with it is the transaction it was made for.  And merged     *)
(* mining: an honest proof of work is accepted, and one parent block       *)
(* proves the work of one header.                                          *)
(***************************************************************************)
EXTENDS MCMerkleTools, TLAPS, WellFoundedInduction, FiniteSetTheorems

-----------------------------------------------------------------------------
(***************************************************************************)
(* Halving.                                                                *)
(***************************************************************************)

\* Induction on the natural numbers, as membership in a set.
LEMMA InductionOnNat ==
  ASSUME NEW S, 0 \in S, \A k \in Nat : k \in S => k + 1 \in S
  PROVE  Nat \subseteq S
<1> SUFFICES ASSUME Nat \ S # {} PROVE FALSE
  OBVIOUS
<1> DEFINE R == OpToRel(<, Nat)
           U == Nat \ S
<1>1. IsWellFoundedOn(R, Nat)
  BY NatLessThanWellFounded, Zenon DEF R
<1>2. U \subseteq Nat /\ U # {}
  OBVIOUS
<1> HIDE DEF R, U
<1>3. PICK m \in U : \A k \in U : ~(<<k, m>> \in R)
  BY <1>1, <1>2, WFMin
<1>4. m \in Nat /\ m # 0 /\ m - 1 \in Nat /\ m - 1 < m /\ (m - 1) + 1 = m
  BY <1>3 DEF U
<1>5. m - 1 \in U
  BY <1>3, <1>4 DEF U
<1>6. <<m - 1, m>> \in R
  BY <1>4 DEF R, OpToRel
<1> QED
  BY <1>3, <1>5, <1>6

\* The first k halvings of m.
Halvings(g, m, k) == g = [i \in 0 .. k |-> IF i = 0 THEN m ELSE g[i - 1] \div 2]

\* Every number can be halved any number of times.
LEMMA HalvingsExist ==
  ASSUME NEW m \in Nat, NEW k \in Nat
  PROVE  \E g \in [0 .. k -> Nat] : Halvings(g, m, k)
<1> DEFINE S == {j \in Nat : \E g \in [0 .. j -> Nat] : Halvings(g, m, j)}
<1>1. 0 \in S
  <2> DEFINE g == [i \in 0 .. 0 |-> m]
  <2>1. g \in [0 .. 0 -> Nat] /\ Halvings(g, m, 0)
    BY DEF Halvings
  <2> QED
    BY <2>1
<1>2. ASSUME NEW j \in Nat, j \in S
      PROVE  j + 1 \in S
  <2>1. PICK g \in [0 .. j -> Nat] : Halvings(g, m, j)
    BY <1>2
  <2> DEFINE h == [i \in 0 .. j + 1 |-> IF i = j + 1 THEN g[j] \div 2 ELSE g[i]]
  <2>2. g[j] \in Nat /\ g[j] \div 2 \in Nat
    BY <2>1
  <2>3. h \in [0 .. j + 1 -> Nat] /\ h = [i \in 0 .. j + 1 |-> h[i]]
    BY <2>1, <2>2
  <2>4. ASSUME NEW i \in 0 .. j + 1
        PROVE  h[i] = IF i = 0 THEN m ELSE h[i - 1] \div 2
    <3>1. CASE i = j + 1
      <4>1. i # 0 /\ i - 1 = j /\ j \in 0 .. j + 1 /\ j # j + 1
        BY <3>1
      <4> QED
        BY <3>1, <4>1
    <3>2. CASE i # j + 1
      <4>1. i \in 0 .. j /\ g[i] = IF i = 0 THEN m ELSE g[i - 1] \div 2
        BY <2>1, <3>2 DEF Halvings
      <4>2. i # 0 => i - 1 \in 0 .. j + 1 /\ i - 1 # j + 1
        BY <3>2
      <4> QED
        BY <3>2, <4>1, <4>2
    <3> QED
      BY <3>1, <3>2
  <2> HIDE DEF h
  <2>5. Halvings(h, m, j + 1)
    BY <2>3, <2>4 DEF Halvings
  <2> QED
    BY <2>3, <2>5
<1> HIDE DEF S
<1>3. k \in S
  BY <1>1, <1>2, InductionOnNat
<1> QED
  BY <1>3 DEF S

\* Halved reads any function of repeated halvings that is long enough.
LEMMA HalvedReads ==
  ASSUME NEW m \in Nat, NEW k \in Nat, NEW l \in Nat, k <= l, NEW g, Halvings(g, m, l)
  PROVE  Halved(m, k) = g[k]
<1> DEFINE p == CHOOSE f : f = [i \in 0 .. k |-> IF i = 0 THEN m ELSE f[i - 1] \div 2]
<1>1. p = [i \in 0 .. k |-> IF i = 0 THEN m ELSE p[i - 1] \div 2]
  <2>1. \E f : f = [i \in 0 .. k |-> IF i = 0 THEN m ELSE f[i - 1] \div 2]
    <3>1. \E f \in [0 .. k -> Nat] : Halvings(f, m, k)
      BY HalvingsExist
    <3> QED
      BY <3>1 DEF Halvings
  <2> QED
    BY <2>1
<1>2. Halved(m, k) = p[k]
  BY Zenon DEF Halved
<1> HIDE DEF p
<1> DEFINE S == {j \in Nat : j <= k => p[j] = g[j]}
<1>3. 0 \in S
  BY <1>1 DEF Halvings
<1>4. ASSUME NEW j \in Nat, j \in S
      PROVE  j + 1 \in S
  <2> SUFFICES ASSUME j + 1 <= k PROVE p[j + 1] = g[j + 1]
    OBVIOUS
  <2>1. j + 1 \in 0 .. k /\ j + 1 \in 0 .. l /\ (j + 1) - 1 = j /\ j + 1 # 0
    OBVIOUS
  <2>2. p[j] = g[j]
    BY <1>4
  <2>3. p[j + 1] = p[j] \div 2
    BY <1>1, <2>1
  <2>4. g[j + 1] = g[j] \div 2
    BY <2>1 DEF Halvings
  <2> QED
    BY <2>2, <2>3, <2>4
<1> HIDE DEF S
<1>5. k \in S
  BY <1>3, <1>4, InductionOnNat
<1> QED
  BY <1>2, <1>5 DEF S

\* One halving after another.
LEMMA HalvedSteps ==
  ASSUME NEW m \in Nat
  PROVE  /\ Halved(m, 0) = m
         /\ \A k \in Nat : Halved(m, k) \in Nat /\ Halved(m, k + 1) = Halved(m, k) \div 2
<1>1. Halved(m, 0) = m
  <2>1. 0 \in Nat
    OBVIOUS
  <2>2. PICK g \in [0 .. 0 -> Nat] : Halvings(g, m, 0)
    BY <2>1, HalvingsExist
  <2>3. Halved(m, 0) = g[0]
    BY <2>2, HalvedReads
  <2> QED
    BY <2>2, <2>3 DEF Halvings
<1>2. ASSUME NEW k \in Nat
      PROVE  Halved(m, k) \in Nat /\ Halved(m, k + 1) = Halved(m, k) \div 2
  <2>1. k + 1 \in Nat /\ k <= k + 1 /\ k + 1 <= k + 1
    OBVIOUS
  <2>2. PICK g \in [0 .. k + 1 -> Nat] : Halvings(g, m, k + 1)
    BY <2>1, HalvingsExist
  <2>3. Halved(m, k) = g[k] /\ Halved(m, k + 1) = g[k + 1]
    BY <2>1, <2>2, HalvedReads
  <2>4. k + 1 \in 0 .. k + 1 /\ k \in 0 .. k + 1 /\ k + 1 # 0 /\ (k + 1) - 1 = k
    OBVIOUS
  <2>5. g[k + 1] = g[k] \div 2
    BY <2>2, <2>4 DEF Halvings
  <2> QED
    BY <2>2, <2>3, <2>4, <2>5
<1> QED
  BY <1>1, <1>2

\* Halving keeps the order.
LEMMA HalvedMono ==
  ASSUME NEW m \in Nat, NEW p \in Nat, p <= m, NEW k \in Nat
  PROVE  Halved(p, k) <= Halved(m, k)
<1> DEFINE S == {j \in Nat : Halved(p, j) <= Halved(m, j)}
<1>1. 0 \in S
  BY HalvedSteps
<1>2. ASSUME NEW j \in Nat, j \in S
      PROVE  j + 1 \in S
  <2>1. Halved(p, j) <= Halved(m, j)
    BY <1>2
  <2>2. /\ Halved(p, j) \in Nat /\ Halved(p, j + 1) = Halved(p, j) \div 2
        /\ Halved(m, j) \in Nat /\ Halved(m, j + 1) = Halved(m, j) \div 2
    BY HalvedSteps
  <2>3. ASSUME NEW u \in Nat, NEW v \in Nat, u <= v PROVE u \div 2 <= v \div 2
    BY <2>3
  <2> QED
    BY <2>1, <2>2, <2>3
<1> HIDE DEF S
<1>3. k \in S
  BY <1>1, <1>2, InductionOnNat
<1> QED
  BY <1>3 DEF S

\* Halving ends.
LEMMA HalvedEnds ==
  ASSUME NEW m \in Nat
  PROVE  Halved(m, m) = 0
<1> DEFINE S == {j \in Nat : j <= m => Halved(m, j) <= m - j}
<1>1. 0 \in S
  BY HalvedSteps
<1>2. ASSUME NEW j \in Nat, j \in S
      PROVE  j + 1 \in S
  <2> SUFFICES ASSUME j + 1 <= m PROVE Halved(m, j + 1) <= m - (j + 1)
    OBVIOUS
  <2>1. Halved(m, j) \in Nat /\ Halved(m, j + 1) = Halved(m, j) \div 2
    BY HalvedSteps
  <2>2. Halved(m, j) <= m - j
    BY <1>2
  <2>3. ASSUME NEW u \in Nat, NEW v \in Nat, u <= v, v >= 1 PROVE u \div 2 <= v - 1
    BY <2>3
  <2>4. m - j \in Nat /\ m - j >= 1
    OBVIOUS
  <2>5. Halved(m, j) \div 2 <= (m - j) - 1
    BY <2>1, <2>2, <2>3, <2>4
  <2> QED
    BY <2>1, <2>5
<1> HIDE DEF S
<1>3. m \in S
  BY <1>1, <1>2, InductionOnNat
<1>4. Halved(m, m) \in Nat /\ Halved(m, m) <= m - m
  BY <1>3, HalvedSteps DEF S
<1> QED
  BY <1>4

\* The number of halvings that first give zero.
IsHeight(d, m) == Halved(m, d) = 0 /\ \A e \in 0 .. d - 1 : Halved(m, e) > 0

\* Halving reaches zero, after no more rounds than the number itself.
LEMMA HeightExists ==
  ASSUME NEW m \in Nat
  PROVE  \E d \in 0 .. m : IsHeight(d, m)
<1> DEFINE S == {j \in Nat : (\A e \in 0 .. j : Halved(m, e) > 0)
                               \/ \E d \in 0 .. j : IsHeight(d, m)}
<1>1. 0 \in S
  <2>1. Halved(m, 0) \in Nat
    BY HalvedSteps
  <2>2. CASE Halved(m, 0) > 0
    BY <2>2
  <2>3. CASE Halved(m, 0) = 0
    <3>1. IsHeight(0, m) /\ 0 \in 0 .. 0
      BY <2>3 DEF IsHeight
    <3> QED
      BY <3>1
  <2> QED
    BY <2>1, <2>2, <2>3
<1>2. ASSUME NEW j \in Nat, j \in S
      PROVE  j + 1 \in S
  <2>1. CASE \E d \in 0 .. j : IsHeight(d, m)
    <3>1. PICK d \in 0 .. j : IsHeight(d, m)
      BY <2>1
    <3>2. d \in 0 .. j + 1
      OBVIOUS
    <3> QED
      BY <3>1, <3>2
  <2>2. CASE \A e \in 0 .. j : Halved(m, e) > 0
    <3>1. j + 1 \in Nat /\ j + 1 \in 0 .. j + 1 /\ (j + 1) - 1 = j
      OBVIOUS
    <3>2. Halved(m, j + 1) \in Nat
      BY <3>1, HalvedSteps
    <3>3. CASE Halved(m, j + 1) = 0
      <4>1. IsHeight(j + 1, m)
        BY <2>2, <3>1, <3>3 DEF IsHeight
      <4> QED
        BY <3>1, <4>1
    <3>4. CASE Halved(m, j + 1) > 0
      <4>1. \A e \in 0 .. j + 1 : e \in 0 .. j \/ e = j + 1
        OBVIOUS
      <4>2. \A e \in 0 .. j + 1 : Halved(m, e) > 0
        BY <2>2, <3>4, <4>1
      <4> QED
        BY <4>2
    <3> QED
      BY <3>2, <3>3, <3>4
  <2> QED
    BY <1>2, <2>1, <2>2
<1> HIDE DEF S
<1>3. m \in S
  BY <1>1, <1>2, InductionOnNat
<1>4. m \in 0 .. m /\ ~(Halved(m, m) > 0)
  BY HalvedEnds
<1> QED
  BY <1>3, <1>4 DEF S

\* The number of rounds it takes is one number.
LEMMA HeightUnique ==
  ASSUME NEW m \in Nat, NEW d \in Nat, NEW e \in Nat, IsHeight(d, m), IsHeight(e, m)
  PROVE  d = e
<1>1. CASE d < e
  <2>1. d \in 0 .. e - 1
    BY <1>1
  <2> QED
    BY <2>1 DEF IsHeight
<1>2. CASE e < d
  <2>1. e \in 0 .. d - 1
    BY <1>2
  <2> QED
    BY <2>1 DEF IsHeight
<1> QED
  BY <1>1, <1>2

-----------------------------------------------------------------------------
(***************************************************************************)
(* The levels of the tree.                                                 *)
(***************************************************************************)

\* A sequence of m hashes, of any kind.
IsList(s, m) == m \in Nat \ {0} /\ s = [i \in 1 .. m |-> s[i]] /\ Len(s) = m

\* Padding adds the last hash of an odd list.
LEMMA PaddedIs ==
  ASSUME NEW s, NEW m, IsList(s, m)
  PROVE  /\ Len(Padded(s)) \div 2 = (m - 1) \div 2 + 1
         /\ \A j \in 1 .. m : Padded(s)[j] = s[j]
         /\ m % 2 = 1 => Padded(s)[m + 1] = s[m]
<1>1. m \in Nat \ {0} /\ Len(s) = m
  BY DEF IsList
<1>2. CASE m % 2 = 1
  <2> DEFINE U == {s[i] : i \in 1 .. m}
  <2>1. s \in [1 .. m -> U]
    BY <1>1 DEF IsList
  <2> HIDE DEF U
  <2>2. s \in Seq(U) /\ m \in 1 .. m /\ s[m] \in U
    <3>1. m \in Nat /\ m \in 1 .. m
      BY <1>1
    <3>2. s[m] \in U
      BY <2>1, <3>1
    <3>3. s \in Seq(U)
      BY <2>1, <3>1
    <3> QED
      BY <3>1, <3>2, <3>3
  <2> DEFINE e == s[m]
  <2> HIDE DEF e
  <2>3. /\ Len(Append(s, e)) = m + 1 /\ Append(s, e)[m + 1] = e
        /\ \A j \in 1 .. m : Append(s, e)[j] = s[j]
    BY <1>1, <2>2 DEF e
  <2>4. Padded(s) = Append(s, e)
    BY <1>1, <1>2 DEF Padded, e
  <2>5. (m + 1) \div 2 = (m - 1) \div 2 + 1
    BY <1>1
  <2> QED
    BY <2>3, <2>4, <2>5 DEF e
<1>3. CASE m % 2 # 1
  <2>1. Padded(s) = s
    BY <1>1, <1>3 DEF Padded
  <2>2. m \div 2 = (m - 1) \div 2 + 1
    BY <1>1, <1>3
  <2> QED
    BY <1>1, <1>3, <2>1, <2>2
<1> QED
  BY <1>2, <1>3

\* The next level: its length, and its hashes.
LEMMA NewHashes ==
  ASSUME NEW s, NEW m, IsList(s, m)
  PROVE  /\ IsList(new_hashes(s), (m - 1) \div 2 + 1)
         /\ \A j \in 1 .. (m - 1) \div 2 + 1 :
              /\ 2 * j - 1 \in 1 .. m
              /\ new_hashes(s)[j] = <<s[2 * j - 1], Padded(s)[2 * j]>>
<1> DEFINE l == (m - 1) \div 2 + 1
           t == new_hashes(s)
<1>1. m \in Nat \ {0} /\ l \in Nat \ {0}
  BY DEF IsList
<1>2. t = [j \in 1 .. l |-> <<Padded(s)[2 * j - 1], Padded(s)[2 * j]>>]
  BY PaddedIs DEF new_hashes, compute_hash
<1>3. \A j \in 1 .. l : 2 * j - 1 \in 1 .. m
  BY <1>1
<1> HIDE DEF l, t
<1>4. Len(t) = l /\ t = [j \in 1 .. l |-> t[j]]
  BY <1>1, <1>2
<1>5. \A j \in 1 .. l : t[j] = <<s[2 * j - 1], Padded(s)[2 * j]>>
  BY <1>2, <1>3, PaddedIs
<1> QED
  BY <1>1, <1>3, <1>4, <1>5 DEF IsList, l, t

\* The first k levels above the hashes T.
Levels(g, T, k) == g = [i \in 0 .. k |-> IF i = 0 THEN T ELSE new_hashes(g[i - 1])]

\* The calculator's loop can run any number of rounds.
LEMMA LevelsExist ==
  ASSUME NEW T, NEW k \in Nat
  PROVE  \E g : Levels(g, T, k)
<1> DEFINE S == {j \in Nat : \E g : Levels(g, T, j)}
<1>1. 0 \in S
  <2> DEFINE g == [i \in 0 .. 0 |-> T]
  <2>1. Levels(g, T, 0)
    BY DEF Levels
  <2> QED
    BY <2>1
<1>2. ASSUME NEW j \in Nat, j \in S
      PROVE  j + 1 \in S
  <2>1. PICK g : Levels(g, T, j)
    BY <1>2
  <2> DEFINE h == [i \in 0 .. j + 1 |-> IF i = j + 1 THEN new_hashes(g[j]) ELSE g[i]]
  <2>2. h = [i \in 0 .. j + 1 |-> h[i]]
    OBVIOUS
  <2>3. ASSUME NEW i \in 0 .. j + 1
        PROVE  h[i] = IF i = 0 THEN T ELSE new_hashes(h[i - 1])
    <3>1. CASE i = j + 1
      <4>1. i # 0 /\ i - 1 = j /\ j \in 0 .. j + 1 /\ j # j + 1
        BY <3>1
      <4>2. h[i] = new_hashes(g[j]) /\ h[i - 1] = g[j]
        BY <3>1, <4>1
      <4> QED
        BY <4>1, <4>2
    <3>2. CASE i # j + 1
      <4>1. i \in 0 .. j /\ g[i] = IF i = 0 THEN T ELSE new_hashes(g[i - 1])
        BY <2>1, <3>2 DEF Levels
      <4>2. h[i] = g[i] /\ (i # 0 => h[i - 1] = g[i - 1])
        BY <3>2
      <4> QED
        BY <4>1, <4>2
    <3> QED
      BY <3>1, <3>2
  <2> HIDE DEF h
  <2>4. Levels(h, T, j + 1)
    BY <2>2, <2>3 DEF Levels
  <2> QED
    BY <2>4
<1> HIDE DEF S
<1>3. k \in S
  BY <1>1, <1>2, InductionOnNat
<1> QED
  BY <1>3 DEF S

\* current_hashes reads any run of the loop that is long enough.
LEMMA LevelReads ==
  ASSUME NEW T, NEW k \in Nat, NEW l \in Nat, k <= l, NEW g, Levels(g, T, l)
  PROVE  current_hashes(T, k) = g[k]
<1> DEFINE p == CHOOSE f : f = [i \in 0 .. k |-> IF i = 0 THEN T ELSE new_hashes(f[i - 1])]
<1>1. p = [i \in 0 .. k |-> IF i = 0 THEN T ELSE new_hashes(p[i - 1])]
  <2>1. \E f : f = [i \in 0 .. k |-> IF i = 0 THEN T ELSE new_hashes(f[i - 1])]
    BY LevelsExist DEF Levels
  <2> QED
    BY <2>1
<1>2. current_hashes(T, k) = p[k]
  BY Zenon DEF current_hashes
<1> HIDE DEF p
<1> DEFINE S == {j \in Nat : j <= k => p[j] = g[j]}
<1>3. 0 \in S
  BY <1>1 DEF Levels
<1>4. ASSUME NEW j \in Nat, j \in S
      PROVE  j + 1 \in S
  <2> SUFFICES ASSUME j + 1 <= k PROVE p[j + 1] = g[j + 1]
    OBVIOUS
  <2>1. j + 1 \in 0 .. k /\ j + 1 \in 0 .. l /\ (j + 1) - 1 = j /\ j + 1 # 0
    OBVIOUS
  <2>2. p[j] = g[j]
    BY <1>4
  <2>3. p[j + 1] = new_hashes(p[j])
    BY <1>1, <2>1
  <2>4. g[j + 1] = new_hashes(g[j])
    BY <2>1 DEF Levels
  <2> QED
    BY <2>2, <2>3, <2>4
<1> HIDE DEF S
<1>5. k \in S
  BY <1>3, <1>4, InductionOnNat
<1> QED
  BY <1>2, <1>5 DEF S

\* One level after another.
LEMMA LevelSteps ==
  ASSUME NEW T
  PROVE  /\ current_hashes(T, 0) = T
         /\ \A k \in Nat : current_hashes(T, k + 1) = new_hashes(current_hashes(T, k))
<1>1. current_hashes(T, 0) = T
  <2>1. 0 \in Nat
    OBVIOUS
  <2>2. PICK g : Levels(g, T, 0)
    BY <2>1, LevelsExist
  <2>3. current_hashes(T, 0) = g[0]
    BY <2>2, LevelReads
  <2> QED
    BY <2>2, <2>3 DEF Levels
<1>2. ASSUME NEW k \in Nat
      PROVE  current_hashes(T, k + 1) = new_hashes(current_hashes(T, k))
  <2>1. k + 1 \in Nat /\ k <= k + 1 /\ k + 1 <= k + 1
    OBVIOUS
  <2>2. PICK g : Levels(g, T, k + 1)
    BY <2>1, LevelsExist
  <2>3. current_hashes(T, k) = g[k] /\ current_hashes(T, k + 1) = g[k + 1]
    BY <2>1, <2>2, LevelReads
  <2>4. k + 1 \in 0 .. k + 1 /\ k + 1 # 0 /\ (k + 1) - 1 = k
    OBVIOUS
  <2>5. g[k + 1] = new_hashes(g[k])
    BY <2>2, <2>4 DEF Levels
  <2> QED
    BY <2>3, <2>5
<1> QED
  BY <1>1, <1>2

\* The length of a level.
LEMMA LevelLength ==
  ASSUME NEW T, NEW m, IsList(T, m), NEW k \in Nat
  PROVE  IsList(current_hashes(T, k), Halved(m - 1, k) + 1)
<1>1. m - 1 \in Nat /\ (m - 1) + 1 = m
  BY DEF IsList
<1> DEFINE S == {j \in Nat : IsList(current_hashes(T, j), Halved(m - 1, j) + 1)}
<1>2. 0 \in S
  <2>1. Halved(m - 1, 0) + 1 = m
    BY <1>1, HalvedSteps
  <2> QED
    BY <2>1, LevelSteps
<1>3. ASSUME NEW j \in Nat, j \in S
      PROVE  j + 1 \in S
  <2> DEFINE s == current_hashes(T, j)
             l == Halved(m - 1, j)
  <2>1. IsList(s, l + 1)
    BY <1>3
  <2>2. l \in Nat /\ Halved(m - 1, j + 1) = l \div 2
    BY <1>1, HalvedSteps
  <2>3. current_hashes(T, j + 1) = new_hashes(s)
    BY LevelSteps
  <2> HIDE DEF s, l
  <2>4. IsList(new_hashes(s), ((l + 1) - 1) \div 2 + 1)
    BY <2>1, NewHashes
  <2>5. (l + 1) - 1 = l
    BY <2>2
  <2>6. j + 1 \in Nat
    OBVIOUS
  <2> QED
    BY <2>2, <2>3, <2>4, <2>5, <2>6
<1> HIDE DEF S
<1>4. k \in S
  BY <1>2, <1>3, InductionOnNat
<1> QED
  BY <1>4 DEF S

\* Equal pairs have equal parts: the hash of two nodes determines both.
LEMMA PairParts ==
  ASSUME NEW s, NEW t, NEW u, NEW v, <<s, t>> = <<u, v>>
  PROVE  s = u /\ t = v
OBVIOUS

\* Different hashes stay different, level by level: pairs are equal only if
\* their parts are.
LEMMA LevelInjective ==
  ASSUME NEW T, NEW m, IsList(T, m), NEW k \in Nat,
         \A u, v \in 1 .. m : T[u] = T[v] => u = v
  PROVE  \A u, v \in 1 .. Halved(m - 1, k) + 1 :
            current_hashes(T, k)[u] = current_hashes(T, k)[v] => u = v
<1>1. m - 1 \in Nat /\ (m - 1) + 1 = m
  BY DEF IsList
<1> DEFINE Inj(s, l) == \A u, v \in 1 .. l : s[u] = s[v] => u = v
           S == {j \in Nat : Inj(current_hashes(T, j), Halved(m - 1, j) + 1)}
<1>2. 0 \in S
  <2>1. Halved(m - 1, 0) + 1 = m
    BY <1>1, HalvedSteps
  <2> QED
    BY <2>1, LevelSteps
<1>3. ASSUME NEW j \in Nat, j \in S
      PROVE  j + 1 \in S
  <2> DEFINE s == current_hashes(T, j)
             l == Halved(m - 1, j) + 1
             t == current_hashes(T, j + 1)
  <2>1. IsList(s, l) /\ Inj(s, l)
    BY <1>3, LevelLength
  <2>2. Halved(m - 1, j) \in Nat /\ l \in Nat
        /\ Halved(m - 1, j + 1) + 1 = (l - 1) \div 2 + 1 /\ t = new_hashes(s)
    <3>1. Halved(m - 1, j) \in Nat /\ Halved(m - 1, j + 1) = Halved(m - 1, j) \div 2
      BY <1>1, HalvedSteps
    <3>2. l \in Nat /\ l - 1 = Halved(m - 1, j)
      BY <3>1
    <3>3. t = new_hashes(s)
      BY LevelSteps
    <3> HIDE DEF l, s, t
    <3> QED
      BY <3>1, <3>2, <3>3
  <2> HIDE DEF s, t, l
  <2>3. ASSUME NEW u \in 1 .. (l - 1) \div 2 + 1, NEW v \in 1 .. (l - 1) \div 2 + 1,
               t[u] = t[v]
        PROVE  u = v
    <3>1. 2 * u - 1 \in 1 .. l /\ t[u] = <<s[2 * u - 1], Padded(s)[2 * u]>>
      BY <2>1, <2>2, NewHashes
    <3>2. 2 * v - 1 \in 1 .. l /\ t[v] = <<s[2 * v - 1], Padded(s)[2 * v]>>
      BY <2>1, <2>2, NewHashes
    <3>3. s[2 * u - 1] = s[2 * v - 1]
      <4>1. <<s[2 * u - 1], Padded(s)[2 * u]>> = <<s[2 * v - 1], Padded(s)[2 * v]>>
        BY <2>3, <3>1, <3>2, Zenon
      <4> QED
        BY <4>1, PairParts, Zenon
    <3>4. 2 * u - 1 = 2 * v - 1
      BY <2>1, <3>1, <3>2, <3>3
    <3> QED
      BY <3>4
  <2>4. Inj(t, Halved(m - 1, j + 1) + 1)
    BY <2>2, <2>3
  <2> QED
    BY <2>4 DEF t
<1> HIDE DEF S
<1>4. k \in S
  BY <1>2, <1>3, InductionOnNat
<1> QED
  BY <1>4 DEF S

\* The loop of merkle_proof_calculator runs once per level below the root.
LEMMA RoundsIsHeight ==
  ASSUME NEW T, NEW m, IsList(T, m)
  PROVE  /\ rounds(T) \in 0 .. m /\ IsHeight(rounds(T), m - 1)
         /\ m > 1 => rounds(T) > 0
<1>1. m - 1 \in Nat /\ (m - 1) + 1 = m /\ Len(T) = m /\ m \in Nat
  BY DEF IsList
<1> DEFINE Done(k) == /\ Len(current_hashes(T, k)) = 1
                      /\ \A j \in 0 .. k - 1 : Len(current_hashes(T, j)) > 1
<1>2. ASSUME NEW k \in Nat
      PROVE  Halved(m - 1, k) \in Nat /\ Len(current_hashes(T, k)) = Halved(m - 1, k) + 1
  <2>1. Halved(m - 1, k) \in Nat
    BY <1>1, HalvedSteps
  <2>2. IsList(current_hashes(T, k), Halved(m - 1, k) + 1)
    BY LevelLength
  <2> QED
    BY <2>1, <2>2 DEF IsList
<1>3. ASSUME NEW k \in 0 .. m
      PROVE  Done(k) <=> IsHeight(k, m - 1)
  <2>1. k \in Nat /\ \A j \in 0 .. k - 1 : j \in Nat
    BY <1>1
  <2>2. Len(current_hashes(T, k)) = 1 <=> Halved(m - 1, k) = 0
    <3>1. Halved(m - 1, k) \in Nat /\ Len(current_hashes(T, k)) = Halved(m - 1, k) + 1
      BY <1>2, <2>1
    <3> QED
      BY <3>1
  <2>3. ASSUME NEW j \in 0 .. k - 1
        PROVE  Len(current_hashes(T, j)) > 1 <=> Halved(m - 1, j) > 0
    <3>1. Halved(m - 1, j) \in Nat /\ Len(current_hashes(T, j)) = Halved(m - 1, j) + 1
      BY <1>2, <2>1
    <3> QED
      BY <3>1
  <2> QED
    BY <2>2, <2>3 DEF IsHeight
<1>4. \E k \in 0 .. m : Done(k)
  <2>1. PICK d \in 0 .. m - 1 : IsHeight(d, m - 1)
    BY <1>1, HeightExists
  <2>2. d \in 0 .. m
    BY <1>1
  <2> QED
    BY <1>3, <2>1, <2>2
<1>5. rounds(T) = CHOOSE k \in 0 .. m : Done(k)
  BY <1>1 DEF rounds
<1> HIDE DEF Done
<1>6. rounds(T) \in 0 .. m /\ Done(rounds(T))
  BY <1>4, <1>5
<1>7. IsHeight(rounds(T), m - 1)
  BY <1>3, <1>6
<1>8. m > 1 => rounds(T) # 0
  <2>1. Halved(m - 1, 0) = m - 1
    BY <1>1, HalvedSteps
  <2> QED
    BY <1>1, <1>7, <2>1 DEF IsHeight
<1> QED
  BY <1>1, <1>6, <1>7, <1>8

\* The node recursion of MerkleRoot.
Nodes(g, T, d) ==
  g = [k \in 0 .. d |->
         [i \in 0 .. Halved(Len(T) - 1, k) |->
            IF k = 0 THEN T[i + 1]
            ELSE <<g[k - 1][2 * i],
                   g[k - 1][IF 2 * i + 1 <= Halved(Len(T) - 1, k - 1) THEN 2 * i + 1 ELSE 2 * i]>>]]

\* The levels the calculator goes through are those nodes.
LEMMA LevelsAreNodes ==
  ASSUME NEW T, NEW m, IsList(T, m), NEW d \in Nat
  PROVE  Nodes([k \in 0 .. d |-> [i \in 0 .. Halved(m - 1, k) |-> current_hashes(T, k)[i + 1]]],
               T, d)
<1> DEFINE last(k) == Halved(m - 1, k)
           lv(k) == [i \in 0 .. last(k) |-> current_hashes(T, k)[i + 1]]
           g == [k \in 0 .. d |-> lv(k)]
           body(k) == [i \in 0 .. last(k) |->
                         IF k = 0 THEN T[i + 1]
                         ELSE <<g[k - 1][2 * i],
                                g[k - 1][IF 2 * i + 1 <= last(k - 1) THEN 2 * i + 1 ELSE 2 * i]>>]
<1>1. m - 1 \in Nat /\ Len(T) = m /\ m \in Nat
  BY DEF IsList
<1>2. ASSUME NEW k \in 0 .. d, NEW i \in 0 .. last(k)
      PROVE  current_hashes(T, k)[i + 1] =
               IF k = 0 THEN T[i + 1]
               ELSE <<g[k - 1][2 * i],
                      g[k - 1][IF 2 * i + 1 <= last(k - 1) THEN 2 * i + 1 ELSE 2 * i]>>
  <2>1. CASE k = 0
    BY <2>1, LevelSteps
  <2>2. CASE k # 0
    <3> DEFINE j == k - 1
               s == current_hashes(T, j)
               l == last(j)
    <3>1. j \in Nat /\ j \in 0 .. d /\ k = j + 1
      BY <2>2
    <3>2. l \in Nat /\ last(k) = l \div 2 /\ IsList(s, l + 1)
      <4>1. l \in Nat /\ Halved(m - 1, j + 1) = l \div 2
        BY <1>1, <3>1, HalvedSteps
      <4>2. IsList(s, l + 1)
        BY <3>1, LevelLength
      <4> HIDE DEF l, s, j
      <4> QED
        BY <3>1, <4>1, <4>2
    <3>3. current_hashes(T, k) = new_hashes(s)
      BY <3>1, LevelSteps
    <3>4. g[j] = [u \in 0 .. l |-> s[u + 1]]
      BY <3>1
    <3> HIDE DEF s, l, j, g
    <3>5. i \in Nat /\ 2 * i <= l /\ i + 1 \in 1 .. ((l + 1) - 1) \div 2 + 1
      BY <3>2
    <3>6. current_hashes(T, k)[i + 1] = <<s[2 * i + 1], Padded(s)[2 * i + 2]>>
      <4>1. 2 * (i + 1) - 1 = 2 * i + 1 /\ 2 * (i + 1) = 2 * i + 2
        BY <3>5
      <4>2. new_hashes(s)[i + 1] = <<s[2 * (i + 1) - 1], Padded(s)[2 * (i + 1)]>>
        BY <3>2, <3>5, NewHashes
      <4> QED
        BY <3>3, <4>1, <4>2
    <3>7. g[j][2 * i] = s[2 * i + 1]
      BY <3>2, <3>4, <3>5
    <3>8. Padded(s)[2 * i + 2] = g[j][IF 2 * i + 1 <= l THEN 2 * i + 1 ELSE 2 * i]
      <4>1. CASE 2 * i + 1 <= l
        <5>1. 2 * i + 1 \in 0 .. l /\ 2 * i + 2 \in 1 .. l + 1 /\ (2 * i + 1) + 1 = 2 * i + 2
          BY <3>2, <3>5, <4>1
        <5>2. Padded(s)[2 * i + 2] = s[2 * i + 2]
          BY <3>2, <5>1, PaddedIs
        <5>3. g[j][2 * i + 1] = s[2 * i + 2]
          BY <3>4, <5>1
        <5> QED
          BY <4>1, <5>2, <5>3
      <4>2. CASE ~(2 * i + 1 <= l)
        <5>1. 2 * i = l /\ (l + 1) % 2 = 1 /\ 2 * i + 2 = (l + 1) + 1 /\ 2 * i + 1 = l + 1
          BY <3>2, <3>5, <4>2
        <5>2. Padded(s)[(l + 1) + 1] = s[l + 1]
          BY <3>2, <5>1, PaddedIs
        <5> QED
          BY <3>7, <4>2, <5>1, <5>2
      <4> QED
        BY <4>1, <4>2
    <3> QED
      BY <2>2, <3>6, <3>7, <3>8 DEF j, l
  <2> QED
    BY <2>1, <2>2
<1>3. ASSUME NEW k \in 0 .. d
      PROVE  lv(k) = body(k)
  BY <1>2
<1> HIDE DEF lv
<1>4. g = [k \in 0 .. d |-> body(k)]
  BY <1>3
<1> HIDE DEF g
<1>5. Nodes(g, T, d)
  BY <1>1, <1>4 DEF Nodes
<1> QED
  BY <1>5 DEF g, lv

\* The root by definition is the last hash the calculator computes.
LEMMA RootIsTop ==
  ASSUME NEW T, NEW m, IsList(T, m)
  PROVE  MerkleRoot(T) = current_hashes(T, rounds(T))[1]
<1> DEFINE last(d) == Halved(Len(T) - 1, d)
           height == CHOOSE d \in 0 .. Len(T) : last(d) = 0 /\ \A e \in 0 .. d - 1 : last(e) > 0
           node == CHOOSE g : Nodes(g, T, height)
<1>1. m - 1 \in Nat /\ Len(T) = m /\ m \in Nat
  BY DEF IsList
<1>2. rounds(T) \in 0 .. m /\ IsHeight(rounds(T), m - 1) /\ rounds(T) \in Nat
  BY <1>1, RoundsIsHeight
<1>3. height = rounds(T)
  <2>1. height = CHOOSE d \in 0 .. m : IsHeight(d, m - 1)
    BY <1>1 DEF IsHeight
  <2> HIDE DEF height
  <2>2. height \in 0 .. m /\ IsHeight(height, m - 1)
    BY <1>2, <2>1
  <2>3. height \in Nat
    BY <1>1, <2>2
  <2> QED
    BY <1>1, <1>2, <2>2, <2>3, HeightUnique
<1>4. MerkleRoot(T) = node[height][0]
  BY Zenon DEF MerkleRoot, Nodes
<1> HIDE DEF height
<1> DEFINE lv == [k \in 0 .. height |->
                    [i \in 0 .. Halved(m - 1, k) |-> current_hashes(T, k)[i + 1]]]
<1>5. Nodes(lv, T, height)
  BY <1>2, <1>3, LevelsAreNodes
<1>6. Nodes(node, T, height)
  BY <1>5
<1>7. lv[height][0] = current_hashes(T, rounds(T))[1]
  <2>1. height \in 0 .. height /\ Halved(m - 1, height) = 0 /\ 0 \in 0 .. 0 /\ 0 + 1 = 1
    BY <1>2, <1>3 DEF IsHeight
  <2> QED
    BY <1>3, <2>1
<1> HIDE DEF node, lv
<1> DEFINE S == {k \in Nat : k <= height => node[k] = lv[k]}
<1>8. height \in S
  <2>1. 0 \in S
    <3>1. 0 \in 0 .. height
      BY <1>2, <1>3
    <3> QED
      BY <1>5, <1>6, <3>1 DEF Nodes
  <2>2. ASSUME NEW k \in Nat, k \in S
        PROVE  k + 1 \in S
    <3> SUFFICES ASSUME k + 1 <= height PROVE node[k + 1] = lv[k + 1]
      OBVIOUS
    <3>1. k + 1 \in 0 .. height /\ k + 1 # 0 /\ (k + 1) - 1 = k /\ node[k] = lv[k]
      BY <1>2, <1>3, <2>2
    <3>2. node[k + 1] = [i \in 0 .. last(k + 1) |->
             <<node[k][2 * i], node[k][IF 2 * i + 1 <= last(k) THEN 2 * i + 1 ELSE 2 * i]>>]
      BY <1>6, <3>1 DEF Nodes
    <3>3. lv[k + 1] = [i \in 0 .. last(k + 1) |->
             <<lv[k][2 * i], lv[k][IF 2 * i + 1 <= last(k) THEN 2 * i + 1 ELSE 2 * i]>>]
      BY <1>5, <3>1 DEF Nodes
    <3> QED
      BY <3>1, <3>2, <3>3
  <2> HIDE DEF S
  <2> QED
    BY <1>2, <1>3, <2>1, <2>2, InductionOnNat
<1>9. node[height] = lv[height]
  BY <1>2, <1>3, <1>8
<1> QED
  BY <1>4, <1>7, <1>9

-----------------------------------------------------------------------------
(***************************************************************************)
(* Roots computed from proofs.                                             *)
(***************************************************************************)

\* compute_hash applied on the side the position says.
Joined(h, q, e) == IF q % 2 = 0 THEN <<h, e>> ELSE <<e, h>>

\* current_hash after every round of compute_root_from_merkle_proof.
Climb(g, h, p, pf) ==
  g = [k \in 0 .. Len(pf) |-> IF k = 0 THEN h ELSE Joined(g[k - 1], Halved(p, k - 1), pf[k])]

\* The loop of compute_root_from_merkle_proof has a run for every proof.
LEMMA ClimbExists ==
  ASSUME NEW h, NEW p, NEW pf, Len(pf) \in Nat
  PROVE  \E g : Climb(g, h, p, pf)
<1> DEFINE Upto(g, l) == /\ g = [k \in 0 .. l |-> g[k]]
                         /\ g[0] = h
                         /\ \A k \in 1 .. l : g[k] = Joined(g[k - 1], Halved(p, k - 1), pf[k])
           S == {l \in Nat : \E g : Upto(g, l)}
<1>1. 0 \in S
  <2> DEFINE g == [k \in 0 .. 0 |-> h]
  <2>1. Upto(g, 0)
    OBVIOUS
  <2> QED
    BY <2>1
<1>2. ASSUME NEW l \in Nat, l \in S
      PROVE  l + 1 \in S
  <2>1. PICK g : Upto(g, l)
    BY <1>2
  <2> DEFINE f == [k \in 0 .. l + 1 |->
                     IF k = l + 1 THEN Joined(g[l], Halved(p, l), pf[l + 1]) ELSE g[k]]
  <2>2. f = [k \in 0 .. l + 1 |-> f[k]] /\ f[0] = h
    BY <2>1
  <2>3. ASSUME NEW k \in 1 .. l + 1
        PROVE  f[k] = Joined(f[k - 1], Halved(p, k - 1), pf[k])
    <3>1. k \in 0 .. l + 1 /\ k - 1 \in 0 .. l + 1 /\ k - 1 # l + 1
      OBVIOUS
    <3>2. f[k - 1] = g[k - 1]
      BY <3>1
    <3>3. CASE k = l + 1
      <4>1. f[k] = Joined(g[l], Halved(p, l), pf[l + 1]) /\ k - 1 = l
        BY <3>1, <3>3
      <4> QED
        BY <3>2, <3>3, <4>1
    <3>4. CASE k # l + 1
      <4>1. f[k] = g[k] /\ k \in 1 .. l
        BY <3>1, <3>4
      <4> QED
        BY <2>1, <3>2, <4>1
    <3> QED
      BY <3>3, <3>4
  <2> HIDE DEF f
  <2>4. Upto(f, l + 1)
    BY <2>2, <2>3, Zenon
  <2>5. l + 1 \in Nat
    OBVIOUS
  <2> HIDE DEF Upto
  <2> QED
    BY <2>4, <2>5
<1> HIDE DEF S
<1>3. Len(pf) \in S
  BY <1>1, <1>2, InductionOnNat
<1>4. PICK g : Upto(g, Len(pf))
  BY <1>3 DEF S
<1>5. ASSUME NEW k \in 0 .. Len(pf)
      PROVE  g[k] = IF k = 0 THEN h ELSE Joined(g[k - 1], Halved(p, k - 1), pf[k])
  <2>1. k = 0 \/ k \in 1 .. Len(pf)
    OBVIOUS
  <2> QED
    BY <1>4, <2>1
<1>6. g = [k \in 0 .. Len(pf) |->
             IF k = 0 THEN h ELSE Joined(g[k - 1], Halved(p, k - 1), pf[k])]
  BY <1>4, <1>5
<1> QED
  BY <1>6 DEF Climb

\* g[0], .., g[d] are rounds of that loop.
Climbs(g, p, pf, d) ==
  \A k \in 0 .. d - 1 : g[k + 1] = Joined(g[k], Halved(p, k), pf[k + 1])

\* The root a proof leads to is the last of them.
LEMMA RootOfClimb ==
  ASSUME NEW h, NEW p, NEW pf, Len(pf) \in Nat
  PROVE  \E g : /\ compute_root_from_merkle_proof(h, p, pf) = g[Len(pf)]
                /\ g[0] = h /\ Climbs(g, p, pf, Len(pf))
<1> DEFINE g == CHOOSE f : Climb(f, h, p, pf)
<1>1. compute_root_from_merkle_proof(h, p, pf) = g[Len(pf)]
  BY Zenon DEF compute_root_from_merkle_proof, compute_hash, Climb, Joined
<1>2. Climb(g, h, p, pf)
  BY ClimbExists
<1> HIDE DEF g
<1>3. g[0] = h
  BY <1>2 DEF Climb
<1>4. ASSUME NEW k \in 0 .. Len(pf) - 1
      PROVE  g[k + 1] = Joined(g[k], Halved(p, k), pf[k + 1])
  <2>1. k + 1 \in 0 .. Len(pf) /\ k + 1 # 0 /\ (k + 1) - 1 = k
    OBVIOUS
  <2> QED
    BY <1>2, <2>1 DEF Climb
<1> QED
  BY <1>1, <1>3, <1>4 DEF Climbs

\* The same for a proof of d hashes.
LEMMA RootIsLast ==
  ASSUME NEW h, NEW p, NEW pf, NEW d, Len(pf) = d, d \in Nat
  PROVE  \E g : /\ compute_root_from_merkle_proof(h, p, pf) = g[d]
                /\ g[0] = h /\ Climbs(g, p, pf, d)
<1>1. Len(pf) \in Nat
  OBVIOUS
<1> QED
  BY <1>1, RootOfClimb, Zenon

\* The proof the calculator makes for position p: the siblings on the way up.
LEMMA CalculatedProof ==
  ASSUME NEW T, NEW m, IsList(T, m), NEW p \in 0 .. m - 1
  PROVE  LET pf == merkle_proof_calculator(T, p)
         IN  /\ Len(pf) = rounds(T) /\ rounds(T) \in Nat
             /\ \A k \in 0 .. rounds(T) - 1 :
                  LET q == Halved(p, k)
                      s == Padded(current_hashes(T, k))
                  IN  pf[k + 1] = IF q % 2 = 1 THEN s[q] ELSE s[q + 2]
<1> DEFINE pf == merkle_proof_calculator(T, p)
           sib(k) == LET q == Halved(p, k - 1)
                         s == Padded(current_hashes(T, k - 1))
                     IN  IF q % 2 = 1 THEN s[q] ELSE s[q + 2]
<1>1. rounds(T) \in Nat
  <2>1. m \in Nat
    BY DEF IsList
  <2> QED
    BY <2>1, RoundsIsHeight
<1>2. pf = [k \in 1 .. rounds(T) |-> sib(k)]
  BY Zenon DEF merkle_proof_calculator
<1> HIDE DEF pf, sib
<1>3. Len(pf) = rounds(T)
  BY <1>1, <1>2
<1>4. ASSUME NEW k \in 0 .. rounds(T) - 1
      PROVE  LET q == Halved(p, k)
                 s == Padded(current_hashes(T, k))
             IN  pf[k + 1] = IF q % 2 = 1 THEN s[q] ELSE s[q + 2]
  <2>1. k + 1 \in 1 .. rounds(T) /\ (k + 1) - 1 = k
    BY <1>1
  <2>2. pf[k + 1] = sib(k + 1)
    BY <1>2, <2>1
  <2> QED
    BY <2>1, <2>2 DEF sib
<1> QED
  BY <1>1, <1>3, <1>4 DEF pf

\* A step up from the ancestor of a transaction with its sibling reaches the
\* ancestor on the next level.
LEMMA StepUp ==
  ASSUME NEW T, NEW m, IsList(T, m), NEW p \in 0 .. m - 1, NEW k \in Nat, NEW e,
         LET q == Halved(p, k)
             s == Padded(current_hashes(T, k))
         IN  e = IF q % 2 = 1 THEN s[q] ELSE s[q + 2]
  PROVE  Joined(current_hashes(T, k)[Halved(p, k) + 1], Halved(p, k), e)
           = current_hashes(T, k + 1)[Halved(p, k + 1) + 1]
<1> DEFINE s == current_hashes(T, k)
           q == Halved(p, k)
           l == Halved(m - 1, k)
<1>1. m - 1 \in Nat /\ p \in Nat /\ p <= m - 1
  BY DEF IsList
<1>2. q \in Nat /\ Halved(p, k + 1) = q \div 2 /\ l \in Nat
  BY <1>1, HalvedSteps
<1>3. q <= l
  BY <1>1, HalvedMono
<1>4. IsList(s, l + 1)
  BY LevelLength
<1>5. current_hashes(T, k + 1) = new_hashes(s)
  BY LevelSteps
<1>6. e = IF q % 2 = 1 THEN Padded(s)[q] ELSE Padded(s)[q + 2]
  OBVIOUS
<1> HIDE DEF s, q, l
<1> DEFINE j == q \div 2 + 1
<1>7. j \in 1 .. ((l + 1) - 1) \div 2 + 1
  BY <1>2, <1>3
<1>8. new_hashes(s)[j] = <<s[2 * j - 1], Padded(s)[2 * j]>>
  BY <1>4, <1>7, NewHashes
<1>9. q + 1 \in 1 .. l + 1 /\ Padded(s)[q + 1] = s[q + 1]
  <2>1. q + 1 \in 1 .. l + 1
    BY <1>2, <1>3
  <2> QED
    BY <1>4, <2>1, PaddedIs
<1>10. CASE q % 2 = 0
  <2>1. 2 * j - 1 = q + 1 /\ 2 * j = q + 2
    BY <1>2, <1>10
  <2>2. new_hashes(s)[j] = <<s[q + 1], Padded(s)[q + 2]>>
    BY <1>8, <2>1
  <2>3. e = Padded(s)[q + 2]
    BY <1>6, <1>10
  <2>4. Joined(s[q + 1], q, e) = <<s[q + 1], e>>
    BY <1>10 DEF Joined
  <2> QED
    BY <1>2, <1>5, <2>2, <2>3, <2>4 DEF s, q
<1>11. CASE q % 2 = 1
  <2>1. 2 * j - 1 = q /\ 2 * j = q + 1 /\ q \in 1 .. l + 1
    BY <1>2, <1>3, <1>11
  <2>2. new_hashes(s)[j] = <<s[q], s[q + 1]>>
    BY <1>8, <1>9, <2>1
  <2>3. e = s[q]
    BY <1>4, <1>6, <1>11, <2>1, PaddedIs
  <2>4. Joined(s[q + 1], q, e) = <<e, s[q + 1]>>
    BY <1>11 DEF Joined
  <2> QED
    BY <1>2, <1>5, <2>2, <2>3, <2>4 DEF s, q
<1>12. q % 2 = 0 \/ q % 2 = 1
  BY <1>2
<1> QED
  BY <1>10, <1>11, <1>12

\* A climb with the calculated proof, from its own transaction, goes through
\* the transaction's ancestors.
LEMMA ClimbsAncestors ==
  ASSUME NEW T, NEW m, IsList(T, m), NEW p \in 0 .. m - 1, NEW g, g[0] = T[p + 1],
         Climbs(g, p, merkle_proof_calculator(T, p), rounds(T))
  PROVE  \A k \in 0 .. rounds(T) : g[k] = current_hashes(T, k)[Halved(p, k) + 1]
<1> DEFINE pf == merkle_proof_calculator(T, p)
           S == {k \in Nat : k <= rounds(T) => g[k] = current_hashes(T, k)[Halved(p, k) + 1]}
<1>1. rounds(T) \in Nat /\ p \in Nat
  <2>1. m \in Nat
    BY DEF IsList
  <2>2. rounds(T) \in Nat
    BY CalculatedProof
  <2> QED
    BY <2>1, <2>2
<1>2. 0 \in S
  <2>1. Halved(p, 0) = p
    BY <1>1, HalvedSteps
  <2> QED
    BY <2>1, LevelSteps
<1>3. ASSUME NEW k \in Nat, k \in S
      PROVE  k + 1 \in S
  <2> SUFFICES ASSUME k + 1 <= rounds(T)
               PROVE  g[k + 1] = current_hashes(T, k + 1)[Halved(p, k + 1) + 1]
    OBVIOUS
  <2>1. k \in 0 .. rounds(T) - 1 /\ g[k] = current_hashes(T, k)[Halved(p, k) + 1]
    BY <1>1, <1>3
  <2>2. LET q == Halved(p, k)
            s == Padded(current_hashes(T, k))
        IN  pf[k + 1] = IF q % 2 = 1 THEN s[q] ELSE s[q + 2]
    BY <2>1, CalculatedProof
  <2>3. g[k + 1] = Joined(g[k], Halved(p, k), pf[k + 1])
    BY <2>1 DEF Climbs
  <2> HIDE DEF pf
  <2> QED
    BY <2>1, <2>2, <2>3, StepUp
<1> HIDE DEF S
<1>4. Nat \subseteq S
  BY <1>2, <1>3, InductionOnNat
<1>5. \A k \in 0 .. rounds(T) : k \in Nat /\ k <= rounds(T)
  BY <1>1
<1> QED
  BY <1>4, <1>5 DEF S

\* So it ends at the root.
LEMMA CalculatedRoot ==
  ASSUME NEW T, NEW m, IsList(T, m), NEW p \in 0 .. m - 1
  PROVE  compute_root_from_merkle_proof(T[p + 1], p, merkle_proof_calculator(T, p))
           = MerkleRoot(T)
<1> DEFINE pf == merkle_proof_calculator(T, p)
           d == rounds(T)
<1>1. Len(pf) = d /\ d \in Nat
  BY CalculatedProof
<1>2. PICK g : /\ compute_root_from_merkle_proof(T[p + 1], p, pf) = g[d]
               /\ g[0] = T[p + 1] /\ Climbs(g, p, pf, d)
  <2> HIDE DEF pf, d
  <2> QED
    BY <1>1, RootIsLast, Zenon
<1>3. g[d] = current_hashes(T, d)[Halved(p, d) + 1]
  <2>1. \A k \in 0 .. d : g[k] = current_hashes(T, k)[Halved(p, k) + 1]
    BY <1>2, ClimbsAncestors
  <2> QED
    BY <1>1, <2>1
<1>4. Halved(p, d) = 0
  <2>1. m - 1 \in Nat /\ p \in Nat /\ p <= m - 1
    BY DEF IsList
  <2>2. Halved(p, d) \in Nat /\ Halved(m - 1, d) = 0
    BY <1>1, <2>1, HalvedSteps, RoundsIsHeight DEF IsHeight
  <2>3. Halved(p, d) <= Halved(m - 1, d)
    BY <1>1, <2>1, HalvedMono
  <2> QED
    BY <2>2, <2>3
<1>5. 0 + 1 = 1
  OBVIOUS
<1> QED
  BY <1>2, <1>3, <1>4, <1>5, RootIsTop

\* Joining with the same hash, on any side, tells the hashes joined apart; and
\* if the sides differ, they are that hash.
LEMMA JoinedInjective ==
  ASSUME NEW s, NEW t, NEW e, NEW q \in Nat, NEW u \in Nat, Joined(s, q, e) = Joined(t, u, e)
  PROVE  s = t /\ (q % 2 # u % 2 => s = e)
<1>1. (q % 2 = 0 \/ q % 2 = 1) /\ (u % 2 = 0 \/ u % 2 = 1)
  OBVIOUS
<1>2. CASE q % 2 = 0 /\ u % 2 = 0
  <2>1. <<s, e>> = <<t, e>>
    BY <1>2 DEF Joined
  <2> QED
    BY <1>2, <2>1
<1>3. CASE q % 2 = 1 /\ u % 2 = 1
  <2>1. <<e, s>> = <<e, t>>
    BY <1>3 DEF Joined
  <2> QED
    BY <1>3, <2>1
<1>4. CASE q % 2 = 0 /\ u % 2 = 1
  <2>1. <<s, e>> = <<e, t>>
    BY <1>4 DEF Joined
  <2> QED
    BY <2>1
<1>5. CASE q % 2 = 1 /\ u % 2 = 0
  <2>1. <<e, s>> = <<t, e>>
    BY <1>5 DEF Joined
  <2> QED
    BY <2>1
<1> QED
  BY <1>1, <1>2, <1>3, <1>4, <1>5

\* Two climbs with one proof that meet at the end were together all the way.
LEMMA ClimbsMeet ==
  ASSUME NEW d \in Nat, NEW pf, NEW g, NEW h, NEW p \in Nat, NEW u \in Nat, g[d] = h[d],
         Climbs(g, p, pf, d), Climbs(h, u, pf, d)
  PROVE  /\ \A k \in 0 .. d : g[k] = h[k]
         /\ \A k \in 0 .. d - 1 :
               Halved(p, k) % 2 # Halved(u, k) % 2 => g[k] = pf[k + 1]
<1>1. ASSUME NEW k \in 0 .. d - 1, g[k + 1] = h[k + 1]
      PROVE  g[k] = h[k] /\ (Halved(p, k) % 2 # Halved(u, k) % 2 => g[k] = pf[k + 1])
  <2>0. k \in Nat
    OBVIOUS
  <2>1. Halved(p, k) \in Nat /\ Halved(u, k) \in Nat
    BY <2>0, HalvedSteps
  <2>2. Joined(g[k], Halved(p, k), pf[k + 1]) = Joined(h[k], Halved(u, k), pf[k + 1])
    BY <1>1 DEF Climbs
  <2> QED
    BY <2>1, <2>2, JoinedInjective
<1> DEFINE S == {j \in Nat : j <= d => g[d - j] = h[d - j]}
<1>2. 0 \in S
  <2>1. d - 0 = d
    OBVIOUS
  <2> QED
    BY <2>1
<1>3. ASSUME NEW j \in Nat, j \in S
      PROVE  j + 1 \in S
  <2> SUFFICES ASSUME j + 1 <= d PROVE g[d - (j + 1)] = h[d - (j + 1)]
    OBVIOUS
  <2>1. d - (j + 1) \in 0 .. d - 1 /\ (d - (j + 1)) + 1 = d - j /\ g[d - j] = h[d - j]
    BY <1>3
  <2> QED
    BY <1>1, <2>1
<1> HIDE DEF S
<1>4. Nat \subseteq S
  BY <1>2, <1>3, InductionOnNat
<1>5. ASSUME NEW k \in 0 .. d
      PROVE  g[k] = h[k]
  <2>1. d - k \in Nat /\ d - k <= d /\ d - (d - k) = k
    OBVIOUS
  <2>2. d - k \in S
    BY <1>4, <2>1
  <2> QED
    BY <2>1, <2>2 DEF S
<1>6. \A k \in 0 .. d - 1 : k + 1 \in 0 .. d
  OBVIOUS
<1> QED
  BY <1>1, <1>5, <1>6

\* What is accepted with the proof of a transaction climbed beside it.
LEMMA AcceptedClimb ==
  ASSUME NEW T, NEW m, IsList(T, m), NEW p \in 0 .. m - 1, NEW h, NEW u \in Nat,
         proof_accepted(MerkleRoot(T), h, u, merkle_proof_calculator(T, p))
  PROVE  /\ h = T[p + 1]
         /\ \A k \in 0 .. rounds(T) - 1 :
               Halved(p, k) % 2 # Halved(u, k) % 2
                 => current_hashes(T, k)[Halved(p, k) + 1] = merkle_proof_calculator(T, p)[k + 1]
<1> DEFINE d == rounds(T)
           pf == merkle_proof_calculator(T, p)
<1>1. p \in Nat
  BY DEF IsList
<1>2. Len(pf) = d /\ d \in Nat
  BY CalculatedProof
<1>3. PICK g : /\ compute_root_from_merkle_proof(T[p + 1], p, pf) = g[d]
               /\ g[0] = T[p + 1] /\ Climbs(g, p, pf, d)
  <2> HIDE DEF pf, d
  <2> QED
    BY <1>2, RootIsLast, Zenon
<1>4. PICK f : /\ compute_root_from_merkle_proof(h, u, pf) = f[d]
               /\ f[0] = h /\ Climbs(f, u, pf, d)
  <2> HIDE DEF pf, d
  <2> QED
    BY <1>2, RootIsLast, Zenon
<1>5. g[d] = f[d]
  <2>1. g[d] = MerkleRoot(T)
    BY <1>3, CalculatedRoot
  <2> QED
    BY <1>4, <2>1 DEF proof_accepted
<1>6. \A k \in 0 .. d : g[k] = current_hashes(T, k)[Halved(p, k) + 1]
  BY <1>3, ClimbsAncestors
<1> HIDE DEF d, pf
<1>7. /\ \A k \in 0 .. d : g[k] = f[k]
      /\ \A k \in 0 .. d - 1 : Halved(p, k) % 2 # Halved(u, k) % 2 => g[k] = pf[k + 1]
  BY <1>1, <1>2, <1>3, <1>4, <1>5, ClimbsMeet
<1>8. 0 \in 0 .. d /\ \A k \in 0 .. d - 1 : k \in 0 .. d
  BY <1>2
<1> QED
  BY <1>3, <1>4, <1>6, <1>7, <1>8 DEF d, pf

-----------------------------------------------------------------------------
(***************************************************************************)
(* The blocks of the specification.                                        *)
(***************************************************************************)

Ranges == n \in 1 .. MaxTx /\ position \in 0 .. n - 1 /\ index \in 0 .. MaxIndex

\* The block and the position grow within the instance's grid only.
LEMMA RangesHold == Spec => []Ranges
<1>1. Init => Ranges
  BY GridAssumption DEF Init, Ranges
<1>2. Ranges /\ [Next]_vars => Ranges'
  <2> SUFFICES ASSUME Ranges, [Next]_vars PROVE Ranges'
    OBVIOUS
  <2>1. n \in Nat \ {0} /\ n <= MaxTx /\ position \in Nat /\ index \in Nat
        /\ MaxTx \in Nat \ {0} /\ MaxIndex \in Nat
    BY GridAssumption DEF Ranges
  <2>2. ASSUME NEW u \in Nat, NEW v \in Nat \ {0} PROVE u % v \in 0 .. v - 1
    OBVIOUS
  <2>3. CASE NextBlock
    <3>1. n % MaxTx \in 0 .. MaxTx - 1
      BY <2>1, <2>2
    <3>2. n' \in 1 .. MaxTx /\ n' \in Nat /\ position' = 0 /\ index' = index
      BY <2>1, <2>3, <3>1 DEF NextBlock
    <3>3. index \in 0 .. MaxIndex
      BY DEF Ranges
    <3>4. \A v \in 1 .. MaxTx : 0 \in 0 .. v - 1
      BY <2>1
    <3>5. position' \in 0 .. n' - 1
      BY <3>2, <3>4, Zenon
    <3> QED
      BY <3>2, <3>3, <3>5, Zenon DEF Ranges
  <2>4. CASE NextPosition
    <3>1. position + 1 \in Nat
      BY <2>1
    <3>2. (position + 1) % n \in 0 .. n - 1
      BY <2>1, <2>2, <3>1
    <3> QED
      BY <2>4, <3>2 DEF NextPosition, Ranges
  <2>5. CASE NextIndex
    <3>1. index + 1 \in Nat /\ MaxIndex + 1 \in Nat \ {0}
      BY <2>1
    <3>2. (index + 1) % (MaxIndex + 1) \in 0 .. (MaxIndex + 1) - 1
      BY <2>2, <3>1
    <3>3. (index + 1) % (MaxIndex + 1) \in 0 .. MaxIndex
      BY <2>1, <3>2
    <3> QED
      BY <2>5, <3>3 DEF NextIndex, Ranges
  <2>6. CASE NextToken
    BY <2>6 DEF NextToken, Ranges
  <2>7. CASE UNCHANGED vars
    BY <2>7 DEF vars, Ranges
  <2> QED
    BY <2>3, <2>4, <2>5, <2>6, <2>7 DEF Next
<1> QED
  BY <1>1, <1>2, PTL DEF Spec

\* The block is a list of different transactions.
LEMMA Block ==
  ASSUME Ranges
  PROVE  /\ IsList(txs, n) /\ position \in 0 .. n - 1 /\ index \in Nat
         /\ n \in Nat \ {0} /\ tx = txs[position + 1]
         /\ \A u, v \in 1 .. n : txs[u] = txs[v] => u = v
<1>1. n \in Nat \ {0} /\ position \in 0 .. n - 1 /\ index \in Nat
  BY GridAssumption DEF Ranges
<1>2. Len(txs) = n /\ txs = [i \in 1 .. n |-> txs[i]]
  BY <1>1 DEF txs
<1>3. ASSUME NEW u \in 1 .. n, NEW v \in 1 .. n, txs[u] = txs[v] PROVE u = v
  <2>1. <<u>> = <<v>>
    BY <1>3 DEF txs
  <2> QED
    BY <2>1
<1> QED
  BY <1>1, <1>2, <1>3 DEF IsList, tx

\* A calculated proof is accepted, with the coinbase proof of its block, for
\* blocks of any number of transactions.
THEOREM CalculatedTheorem == Spec => []CalculatedProofAccepted
<1>1. Ranges => CalculatedProofAccepted
  <2> SUFFICES ASSUME Ranges, n > 1
               PROVE  proof_accepted_v2(MerkleRoot(txs), tx, position, proof,
                                        txs[1], merkle_proof_calculator(txs, 0))
    BY DEF CalculatedProofAccepted
  <2>1. IsList(txs, n) /\ position \in 0 .. n - 1 /\ n \in Nat \ {0} /\ tx = txs[position + 1]
    BY Block
  <2>2. 0 \in 0 .. n - 1 /\ 0 + 1 = 1
    BY <2>1
  <2> DEFINE first == merkle_proof_calculator(txs, 0)
  <2>3. Len(proof) = rounds(txs) /\ Len(first) = rounds(txs) /\ rounds(txs) \in Nat
    BY <2>1, <2>2, CalculatedProof DEF proof
  <2>4. rounds(txs) > 0
    BY <2>1, RoundsIsHeight
  <2>5. compute_root_from_merkle_proof(tx, position, proof) = MerkleRoot(txs)
    BY <2>1, CalculatedRoot DEF proof
  <2>6. compute_root_from_merkle_proof(txs[1], 0, first) = MerkleRoot(txs)
    <3>1. compute_root_from_merkle_proof(txs[0 + 1], 0, first) = MerkleRoot(txs)
      BY <2>1, <2>2, CalculatedRoot
    <3> QED
      BY <2>2, <3>1
  <2>7. proof # <<>>
    BY <2>3, <2>4
  <2> QED
    BY <2>3, <2>5, <2>6, <2>7 DEF proof_accepted_v2, proof_accepted
<1> QED
  BY <1>1, RangesHold, PTL

\* A proof proves its own transaction only, whatever the index claimed.
THEOREM OnlyItsTransactionTheorem == Spec => []ProofProvesOnlyItsTransaction
<1>1. Ranges => ProofProvesOnlyItsTransaction
  <2> SUFFICES ASSUME Ranges, NEW u \in 1 .. n,
                      proof_accepted(MerkleRoot(txs), txs[u], index, proof)
               PROVE  txs[u] = tx
    BY DEF ProofProvesOnlyItsTransaction
  <2>1. IsList(txs, n) /\ position \in 0 .. n - 1 /\ index \in Nat /\ tx = txs[position + 1]
    BY Block
  <2> QED
    BY <2>1, AcceptedClimb DEF proof
<1> QED
  BY <1>1, RangesHold, PTL

\* An index is bound in every bit the proof reads, but at the last hash of an
\* odd level.
THEOREM IndexTheorem == Spec => []IndexAgreesOnProofBits
<1>1. Ranges => IndexAgreesOnProofBits
  <2> SUFFICES ASSUME Ranges, proof_accepted(MerkleRoot(txs), tx, index, proof),
                      NEW k \in 0 .. Len(proof) - 1,
                      Halved(index, k) % 2 # Halved(position, k) % 2
               PROVE  Len(current_hashes(txs, k)) = Halved(position, k) + 1
    BY DEF IndexAgreesOnProofBits
  <2> DEFINE s == current_hashes(txs, k)
             q == Halved(position, k)
             l == Halved(n - 1, k) + 1
  <2>1. IsList(txs, n) /\ position \in 0 .. n - 1 /\ n \in Nat \ {0} /\ n - 1 \in Nat
        /\ position \in Nat /\ position <= n - 1 /\ index \in Nat /\ tx = txs[position + 1]
        /\ \A u, v \in 1 .. n : txs[u] = txs[v] => u = v
    BY Block
  <2>2. Len(proof) = rounds(txs) /\ rounds(txs) \in Nat
    BY <2>1, CalculatedProof DEF proof
  <2>3. k \in Nat /\ k \in 0 .. rounds(txs) - 1
    BY <2>2
  <2>4. s[q + 1] = proof[k + 1]
    BY <2>1, <2>3, AcceptedClimb DEF proof
  <2>5. proof[k + 1] = IF q % 2 = 1 THEN Padded(s)[q] ELSE Padded(s)[q + 2]
    BY <2>1, <2>3, CalculatedProof DEF proof
  <2>6. IsList(s, l) /\ Len(s) = l
    <3>1. IsList(s, l)
      BY <2>1, <2>3, LevelLength
    <3> QED
      BY <3>1 DEF IsList
  <2>7. \A u, v \in 1 .. l : s[u] = s[v] => u = v
    BY <2>1, <2>3, LevelInjective
  <2>8. q \in Nat /\ l \in Nat /\ q + 1 <= l
    <3>1. q \in Nat /\ Halved(n - 1, k) \in Nat
      BY <2>1, <2>3, HalvedSteps
    <3>2. q <= Halved(n - 1, k)
      BY <2>1, <2>3, HalvedMono
    <3> QED
      BY <3>1, <3>2
  <2> HIDE DEF s, q, l
  <2>9. CASE q % 2 = 1
    <3>1. q \in 1 .. l /\ q + 1 \in 1 .. l /\ q # q + 1
      BY <2>8, <2>9
    <3>2. Padded(s)[q] = s[q]
      BY <2>6, <3>1, PaddedIs
    <3> QED
      BY <2>4, <2>5, <2>7, <2>9, <3>1, <3>2
  <2>10. CASE q % 2 # 1 /\ q + 2 <= l
    <3>1. q + 2 \in 1 .. l /\ q + 1 \in 1 .. l /\ q + 2 # q + 1
      BY <2>8, <2>10
    <3>2. Padded(s)[q + 2] = s[q + 2]
      BY <2>6, <3>1, PaddedIs
    <3> QED
      BY <2>4, <2>5, <2>7, <2>10, <3>1, <3>2
  <2>11. CASE ~(q + 2 <= l)
    BY <2>6, <2>8, <2>11 DEF s, q
  <2> QED
    BY <2>9, <2>10, <2>11
<1> QED
  BY <1>1, RangesHold, PTL

-----------------------------------------------------------------------------
(***************************************************************************)
(* Positions in a script.                                                  *)
(***************************************************************************)

\* Where the first k tokens of s start.
Offsets(g, s, k) == g = [i \in 1 .. k |-> IF i = 1 THEN 0 ELSE g[i - 1] + s[i - 1].width]

\* The widths of any number of tokens can be added up.
LEMMA OffsetsExist ==
  ASSUME NEW s, NEW k \in Nat
  PROVE  \E g : Offsets(g, s, k)
<1> DEFINE S == {j \in Nat : \E g : Offsets(g, s, j)}
<1>1. 0 \in S
  <2> DEFINE g == [i \in 1 .. 0 |-> 0]
  <2>1. Offsets(g, s, 0)
    BY DEF Offsets
  <2> QED
    BY <2>1
<1>2. ASSUME NEW j \in Nat, j \in S
      PROVE  j + 1 \in S
  <2>1. PICK g : Offsets(g, s, j)
    BY <1>2
  <2> DEFINE h == [i \in 1 .. j + 1 |->
                     IF i = j + 1 THEN (IF j = 0 THEN 0 ELSE g[j] + s[j].width) ELSE g[i]]
  <2>2. h = [i \in 1 .. j + 1 |-> h[i]]
    OBVIOUS
  <2>3. ASSUME NEW i \in 1 .. j + 1
        PROVE  h[i] = IF i = 1 THEN 0 ELSE h[i - 1] + s[i - 1].width
    <3>1. CASE i = j + 1
      <4>1. i = 1 <=> j = 0
        BY <3>1
      <4>2. j # 0 => i - 1 = j /\ j \in 1 .. j + 1 /\ j # j + 1
        BY <3>1
      <4>3. j # 0 => h[i - 1] = g[j]
        BY <4>2
      <4>4. h[i] = IF j = 0 THEN 0 ELSE g[j] + s[j].width
        BY <3>1
      <4> QED
        BY <4>1, <4>2, <4>3, <4>4
    <3>2. CASE i # j + 1
      <4>1. i \in 1 .. j /\ g[i] = IF i = 1 THEN 0 ELSE g[i - 1] + s[i - 1].width
        BY <2>1, <3>2 DEF Offsets
      <4>2. h[i] = g[i] /\ (i # 1 => h[i - 1] = g[i - 1])
        BY <3>2
      <4> QED
        BY <4>1, <4>2
    <3> QED
      BY <3>1, <3>2
  <2> HIDE DEF h
  <2>4. Offsets(h, s, j + 1)
    BY <2>2, <2>3 DEF Offsets
  <2> QED
    BY <2>4
<1> HIDE DEF S
<1>3. k \in S
  BY <1>1, <1>2, InductionOnNat
<1> QED
  BY <1>3 DEF S

\* Position reads any such sums that are long enough.
LEMMA PositionReads ==
  ASSUME NEW s, NEW k \in Nat \ {0}, NEW l \in Nat, k <= l, NEW g, Offsets(g, s, l)
  PROVE  Position(s, k) = g[k]
<1> DEFINE p == CHOOSE f : f = [i \in 1 .. k |-> IF i = 1 THEN 0 ELSE f[i - 1] + s[i - 1].width]
<1>1. p = [i \in 1 .. k |-> IF i = 1 THEN 0 ELSE p[i - 1] + s[i - 1].width]
  <2>1. \E f : f = [i \in 1 .. k |-> IF i = 1 THEN 0 ELSE f[i - 1] + s[i - 1].width]
    BY OffsetsExist DEF Offsets
  <2> QED
    BY <2>1
<1>2. Position(s, k) = p[k]
  BY Zenon DEF Position
<1> HIDE DEF p
<1> DEFINE S == {j \in Nat : j + 1 <= k => p[j + 1] = g[j + 1]}
<1>3. 0 \in S
  <2>1. 1 \in 1 .. k /\ 1 \in 1 .. l /\ 0 + 1 = 1
    OBVIOUS
  <2> QED
    BY <1>1, <2>1 DEF Offsets
<1>4. ASSUME NEW j \in Nat, j \in S
      PROVE  j + 1 \in S
  <2> SUFFICES ASSUME (j + 1) + 1 <= k PROVE p[(j + 1) + 1] = g[(j + 1) + 1]
    OBVIOUS
  <2> DEFINE i == (j + 1) + 1
  <2>1. i \in 1 .. k /\ i \in 1 .. l /\ i - 1 = j + 1 /\ i # 1
    OBVIOUS
  <2>2. p[j + 1] = g[j + 1]
    BY <1>4
  <2> HIDE DEF i
  <2>3. p[i] = p[j + 1] + s[j + 1].width
    BY <1>1, <2>1
  <2>4. g[i] = g[j + 1] + s[j + 1].width
    BY <2>1 DEF Offsets
  <2> QED
    BY <2>2, <2>3, <2>4 DEF i
<1> HIDE DEF S
<1>5. k - 1 \in Nat /\ (k - 1) + 1 = k
  OBVIOUS
<1>6. k - 1 \in S
  BY <1>3, <1>4, <1>5, InductionOnNat
<1> QED
  BY <1>2, <1>5, <1>6 DEF S

\* One token after another.
LEMMA PositionSteps ==
  ASSUME NEW s
  PROVE  /\ Position(s, 1) = 0
         /\ \A k \in Nat \ {0} : Position(s, k + 1) = Position(s, k) + s[k].width
<1>1. Position(s, 1) = 0
  <2>1. 1 \in Nat \ {0} /\ 1 \in Nat /\ 1 <= 1 /\ 1 \in 1 .. 1
    OBVIOUS
  <2>2. PICK g : Offsets(g, s, 1)
    BY <2>1, OffsetsExist
  <2>3. Position(s, 1) = g[1]
    BY <2>1, <2>2, PositionReads
  <2> QED
    BY <2>1, <2>2, <2>3 DEF Offsets
<1>2. ASSUME NEW k \in Nat \ {0}
      PROVE  Position(s, k + 1) = Position(s, k) + s[k].width
  <2>1. k + 1 \in Nat /\ k + 1 \in Nat \ {0} /\ k <= k + 1 /\ k + 1 <= k + 1
    OBVIOUS
  <2>2. PICK g : Offsets(g, s, k + 1)
    BY <2>1, OffsetsExist
  <2>3. Position(s, k) = g[k] /\ Position(s, k + 1) = g[k + 1]
    BY <2>1, <2>2, PositionReads
  <2>4. k + 1 \in 1 .. k + 1 /\ k + 1 # 1 /\ (k + 1) - 1 = k
    OBVIOUS
  <2>5. g[k + 1] = g[k] + s[k].width
    BY <2>2, <2>4 DEF Offsets
  <2> QED
    BY <2>3, <2>5
<1> QED
  BY <1>1, <1>2

\* A string of tokens, none of them empty.
IsString(s) ==
  /\ Len(s) \in Nat /\ DOMAIN s = 1 .. Len(s)
  /\ \A k \in DOMAIN s : s[k].width \in Nat \ {0}

\* A script in hex, where a hash has 64 digits.
IsScript(s) == IsString(s) /\ \A k \in DOMAIN s : s[k].kind = "hash" => s[k].width = 64

\* A later token starts after the end of an earlier one.
LEMMA PositionsGrow ==
  ASSUME NEW s, IsString(s), NEW j \in DOMAIN s, NEW k \in DOMAIN s, j < k
  PROVE  /\ Position(s, j) \in Nat /\ Position(s, k) \in Nat
         /\ Position(s, k) >= Position(s, j) + s[j].width
<1>1. Len(s) \in Nat /\ j \in 1 .. Len(s) /\ k \in 1 .. Len(s)
  BY DEF IsString
<1> DEFINE P == {i \in Nat : i + 1 <= Len(s) => Position(s, i + 1) \in Nat}
           S == {i \in Nat : (j + 1) + i <= Len(s) =>
                   Position(s, (j + 1) + i) >= Position(s, j) + s[j].width}
<1>2. 0 \in P
  <2>1. 0 + 1 = 1
    OBVIOUS
  <2>2. Position(s, 0 + 1) = 0
    BY <2>1, PositionSteps, Zenon
  <2> QED
    BY <2>2
<1>3. ASSUME NEW i \in Nat, i \in P
      PROVE  i + 1 \in P
  <2> SUFFICES ASSUME (i + 1) + 1 <= Len(s) PROVE Position(s, (i + 1) + 1) \in Nat
    OBVIOUS
  <2>1. i + 1 \in Nat \ {0} /\ i + 1 \in DOMAIN s /\ i + 1 <= Len(s)
    BY <1>1 DEF IsString
  <2>2. Position(s, (i + 1) + 1) = Position(s, i + 1) + s[i + 1].width
    BY <2>1, PositionSteps
  <2>3. Position(s, i + 1) \in Nat /\ s[i + 1].width \in Nat
    BY <1>3, <2>1 DEF IsString
  <2> QED
    BY <2>2, <2>3
<1> HIDE DEF P
<1>4. Nat \subseteq P
  BY <1>2, <1>3, InductionOnNat
<1>5. ASSUME NEW i \in 1 .. Len(s)
      PROVE  Position(s, i) \in Nat /\ s[i].width \in Nat
  <2>1. i - 1 \in Nat /\ (i - 1) + 1 = i /\ i <= Len(s)
    BY <1>1
  <2>2. i - 1 \in P
    BY <1>4, <2>1
  <2> QED
    BY <2>1, <2>2 DEF P, IsString
<1>6. 0 \in S
  <2>1. j \in Nat \ {0} /\ (j + 1) + 0 = j + 1
    BY <1>1
  <2>2. Position(s, j + 1) = Position(s, j) + s[j].width
    BY <2>1, PositionSteps
  <2>3. Position(s, j) + s[j].width \in Nat
    BY <1>1, <1>5
  <2> QED
    BY <2>1, <2>2, <2>3
<1>7. ASSUME NEW i \in Nat, i \in S
      PROVE  i + 1 \in S
  <2> SUFFICES ASSUME (j + 1) + (i + 1) <= Len(s)
               PROVE  Position(s, (j + 1) + (i + 1)) >= Position(s, j) + s[j].width
    OBVIOUS
  <2> DEFINE l == (j + 1) + i
  <2>1. l \in Nat \ {0} /\ l \in 1 .. Len(s) /\ l <= Len(s) /\ l + 1 = (j + 1) + (i + 1)
    BY <1>1
  <2>2. Position(s, l) >= Position(s, j) + s[j].width
    BY <1>7, <2>1
  <2> HIDE DEF l
  <2>3. Position(s, l + 1) = Position(s, l) + s[l].width
    BY <2>1, PositionSteps
  <2>4. Position(s, l) \in Nat /\ s[l].width \in Nat /\ Position(s, j) \in Nat /\ s[j].width \in Nat
    BY <1>1, <1>5, <2>1
  <2> DEFINE u == Position(s, l)
             v == Position(s, j)
             x == s[l].width
             y == s[j].width
  <2>5. Position(s, l + 1) >= v + y
    <3>1. u >= v + y /\ Position(s, l + 1) = u + x
          /\ u \in Nat /\ v \in Nat /\ x \in Nat /\ y \in Nat
      BY <2>2, <2>3, <2>4
    <3> HIDE DEF u, v, x, y
    <3> QED
      BY <3>1
  <2> QED
    BY <2>1, <2>5
<1> HIDE DEF S
<1>8. k - (j + 1) \in Nat /\ (j + 1) + (k - (j + 1)) = k /\ k <= Len(s)
  BY <1>1
<1>9. k - (j + 1) \in S
  BY <1>6, <1>7, <1>8, InductionOnNat
<1> QED
  BY <1>1, <1>5, <1>8, <1>9 DEF S

\* Tokens that start at one place are one.
LEMMA PositionsDiffer ==
  ASSUME NEW s, IsString(s), NEW j \in DOMAIN s, NEW k \in DOMAIN s,
         Position(s, j) = Position(s, k)
  PROVE  j = k
<1>1. j \in Nat /\ k \in Nat
  BY DEF IsString
<1>2. ASSUME NEW u \in DOMAIN s, NEW v \in DOMAIN s, u < v
      PROVE  Position(s, u) # Position(s, v)
  <2>1. Position(s, u) \in Nat /\ Position(s, v) >= Position(s, u) + s[u].width
    BY <1>2, PositionsGrow
  <2>2. s[u].width \in Nat \ {0}
    BY DEF IsString
  <2> DEFINE w == s[u].width
             x == Position(s, u)
  <2> HIDE DEF w, x
  <2>3. x \in Nat /\ w \in Nat \ {0} /\ Position(s, v) >= x + w
    BY <2>1, <2>2 DEF w, x
  <2> QED
    BY <2>3 DEF x
<1> QED
  BY <1>1, <1>2

\* What find finds is there.
LEMMA FindIs ==
  ASSUME NEW s, IsString(s), NEW kind, NEW value, find(s, kind, value) # -1
  PROVE  \E k \in DOMAIN s :
            s[k].kind = kind /\ s[k].value = value /\ find(s, kind, value) = Position(s, k)
<1> DEFINE ks == Occurrences(s, kind, value)
           IsFirst(k) == \A j \in ks : k <= j
           first == CHOOSE k \in ks : IsFirst(k)
<1>1. ks \subseteq Nat /\ ks \subseteq DOMAIN s
  BY DEF Occurrences, IsString
<1>2. ks # {} /\ find(s, kind, value) = Position(s, first)
  BY Zenon DEF find
<1>3. \E k \in ks : IsFirst(k)
  <2> DEFINE R == OpToRel(<, Nat)
  <2>1. IsWellFoundedOn(R, Nat)
    BY NatLessThanWellFounded, Zenon DEF R
  <2> HIDE DEF ks
  <2> HIDE DEF R
  <2>2. PICK k \in ks : \A j \in ks : ~(<<j, k>> \in R)
    BY <1>1, <1>2, <2>1, WFMin
  <2>3. ASSUME NEW j \in ks PROVE k <= j
    <3>1. j \in Nat /\ k \in Nat /\ ~(<<j, k>> \in R)
      BY <1>1, <2>2
    <3>2. ~(j < k)
      BY <3>1, Zenon DEF R, OpToRel
    <3> QED
      BY <3>1, <3>2
  <2> QED
    BY <2>3
<1>4. first \in ks
  BY <1>3, Zenon
<1> QED
  BY <1>1, <1>2, <1>4 DEF Occurrences

\* The first k powers of two.
Powers(g, k) == g = [i \in 0 .. k |-> IF i = 0 THEN 1 ELSE 2 * g[i - 1]]

\* One can be doubled any number of times.
LEMMA PowersExist ==
  ASSUME NEW k \in Nat
  PROVE  \E g \in [0 .. k -> Nat \ {0}] : Powers(g, k)
<1> DEFINE S == {j \in Nat : \E g \in [0 .. j -> Nat \ {0}] : Powers(g, j)}
<1>1. 0 \in S
  <2> DEFINE g == [i \in 0 .. 0 |-> 1]
  <2>1. g \in [0 .. 0 -> Nat \ {0}] /\ Powers(g, 0)
    BY DEF Powers
  <2> QED
    BY <2>1
<1>2. ASSUME NEW j \in Nat, j \in S
      PROVE  j + 1 \in S
  <2>1. PICK g \in [0 .. j -> Nat \ {0}] : Powers(g, j)
    BY <1>2
  <2> DEFINE h == [i \in 0 .. j + 1 |-> IF i = j + 1 THEN 2 * g[j] ELSE g[i]]
  <2>2. g[j] \in Nat \ {0} /\ 2 * g[j] \in Nat \ {0}
    BY <2>1
  <2>3. h \in [0 .. j + 1 -> Nat \ {0}] /\ h = [i \in 0 .. j + 1 |-> h[i]]
    BY <2>1, <2>2
  <2>4. ASSUME NEW i \in 0 .. j + 1
        PROVE  h[i] = IF i = 0 THEN 1 ELSE 2 * h[i - 1]
    <3>1. CASE i = j + 1
      <4>1. i # 0 /\ i - 1 = j /\ j \in 0 .. j + 1 /\ j # j + 1
        BY <3>1
      <4> QED
        BY <3>1, <4>1
    <3>2. CASE i # j + 1
      <4>1. i \in 0 .. j /\ g[i] = IF i = 0 THEN 1 ELSE 2 * g[i - 1]
        BY <2>1, <3>2 DEF Powers
      <4>2. h[i] = g[i] /\ (i # 0 => h[i - 1] = g[i - 1])
        BY <3>2
      <4> QED
        BY <4>1, <4>2
    <3> QED
      BY <3>1, <3>2
  <2> HIDE DEF h
  <2>5. Powers(h, j + 1)
    BY <2>3, <2>4 DEF Powers
  <2> QED
    BY <2>3, <2>5
<1> HIDE DEF S
<1>3. k \in S
  BY <1>1, <1>2, InductionOnNat
<1> QED
  BY <1>3 DEF S

\* Pow2 reads any powers that are enough.
LEMMA PowerReads ==
  ASSUME NEW k \in Nat, NEW l \in Nat, k <= l, NEW g, Powers(g, l)
  PROVE  Pow2(k) = g[k]
<1> DEFINE p == CHOOSE f : f = [i \in 0 .. k |-> IF i = 0 THEN 1 ELSE 2 * f[i - 1]]
<1>1. p = [i \in 0 .. k |-> IF i = 0 THEN 1 ELSE 2 * p[i - 1]]
  <2>1. \E f : f = [i \in 0 .. k |-> IF i = 0 THEN 1 ELSE 2 * f[i - 1]]
    BY PowersExist DEF Powers
  <2> QED
    BY <2>1
<1>2. Pow2(k) = p[k]
  BY Zenon DEF Pow2
<1> HIDE DEF p
<1> DEFINE S == {j \in Nat : j <= k => p[j] = g[j]}
<1>3. 0 \in S
  BY <1>1 DEF Powers
<1>4. ASSUME NEW j \in Nat, j \in S
      PROVE  j + 1 \in S
  <2> SUFFICES ASSUME j + 1 <= k PROVE p[j + 1] = g[j + 1]
    OBVIOUS
  <2>1. j + 1 \in 0 .. k /\ j + 1 \in 0 .. l /\ (j + 1) - 1 = j /\ j + 1 # 0
    OBVIOUS
  <2>2. p[j] = g[j]
    BY <1>4
  <2>3. p[j + 1] = 2 * p[j]
    BY <1>1, <2>1
  <2>4. g[j + 1] = 2 * g[j]
    BY <2>1 DEF Powers
  <2> QED
    BY <2>2, <2>3, <2>4
<1> HIDE DEF S
<1>5. k \in S
  BY <1>3, <1>4, InductionOnNat
<1> QED
  BY <1>2, <1>5 DEF S

\* Each power is positive, and twice the one before.
LEMMA PowerSteps ==
  /\ Pow2(0) = 1
  /\ \A k \in Nat : Pow2(k) \in Nat \ {0} /\ Pow2(k + 1) = 2 * Pow2(k)
<1>1. Pow2(0) = 1
  <2>1. 0 \in Nat /\ 0 <= 0 /\ 0 \in 0 .. 0
    OBVIOUS
  <2>2. PICK g \in [0 .. 0 -> Nat \ {0}] : Powers(g, 0)
    BY <2>1, PowersExist
  <2>3. Pow2(0) = g[0]
    BY <2>1, <2>2, PowerReads
  <2> QED
    BY <2>1, <2>2, <2>3 DEF Powers
<1>2. ASSUME NEW k \in Nat
      PROVE  Pow2(k) \in Nat \ {0} /\ Pow2(k + 1) = 2 * Pow2(k)
  <2>1. k + 1 \in Nat /\ k <= k + 1 /\ k + 1 <= k + 1
    OBVIOUS
  <2>2. PICK g \in [0 .. k + 1 -> Nat \ {0}] : Powers(g, k + 1)
    BY <2>1, PowersExist
  <2>3. Pow2(k) = g[k] /\ Pow2(k + 1) = g[k + 1]
    BY <2>1, <2>2, PowerReads
  <2>4. k + 1 \in 0 .. k + 1 /\ k \in 0 .. k + 1 /\ k + 1 # 0 /\ (k + 1) - 1 = k
    OBVIOUS
  <2>5. g[k + 1] = 2 * g[k]
    BY <2>2, <2>4 DEF Powers
  <2> QED
    BY <2>2, <2>3, <2>4, <2>5
<1> QED
  BY <1>1, <1>2

\* A power of two has one exponent.
LEMMA PowersDiffer ==
  ASSUME NEW j \in Nat, NEW k \in Nat, Pow2(j) = Pow2(k)
  PROVE  j = k
<1>1. ASSUME NEW u \in Nat, NEW v \in Nat, u < v
      PROVE  Pow2(u) < Pow2(v)
  <2> DEFINE S == {i \in Nat : Pow2(u) < Pow2((u + 1) + i)}
  <2>1. 0 \in S
    <3>1. (u + 1) + 0 = u + 1 /\ Pow2(u + 1) = 2 * Pow2(u) /\ Pow2(u) \in Nat \ {0}
      BY PowerSteps
    <3>2. Pow2(u) < Pow2(u + 1)
      BY <3>1
    <3> QED
      BY <3>1, <3>2
  <2>2. ASSUME NEW i \in Nat, i \in S
        PROVE  i + 1 \in S
    <3> DEFINE w == (u + 1) + i
    <3>1. w \in Nat /\ w + 1 = (u + 1) + (i + 1) /\ Pow2(u) < Pow2(w)
      BY <2>2
    <3> HIDE DEF w
    <3>2. Pow2(w + 1) = 2 * Pow2(w) /\ Pow2(w) \in Nat /\ Pow2(u) \in Nat
      BY <3>1, PowerSteps
    <3>3. Pow2(u) < Pow2(w + 1)
      BY <3>1, <3>2
    <3> QED
      BY <3>1, <3>3
  <2> HIDE DEF S
  <2>3. v - (u + 1) \in Nat /\ (u + 1) + (v - (u + 1)) = v
    BY <1>1
  <2>4. v - (u + 1) \in S
    BY <2>1, <2>2, <2>3, InductionOnNat
  <2> QED
    BY <2>3, <2>4 DEF S
<1>2. Pow2(j) \in Nat /\ Pow2(k) \in Nat
  BY PowerSteps
<1>3. j < k \/ k < j \/ j = k
  OBVIOUS
<1> QED
  BY <1>1, <1>2, <1>3

\* Two proofs of one length and for one place that lead to one root start from
\* one hash.
LEMMA OneLeafPerPlace ==
  ASSUME NEW g, NEW h, NEW p, NEW q, NEW x, Len(p) \in Nat, Len(p) = Len(q),
         compute_root_from_merkle_proof(g, x, p) = compute_root_from_merkle_proof(h, x, q)
  PROVE  g = h
<1> DEFINE d == Len(p)
<1>1. d \in Nat /\ Len(q) = d
  OBVIOUS
<1>2. PICK u : compute_root_from_merkle_proof(g, x, p) = u[d] /\ u[0] = g /\ Climbs(u, x, p, d)
  BY <1>1, RootIsLast, Zenon
<1>3. PICK v : compute_root_from_merkle_proof(h, x, q) = v[d] /\ v[0] = h /\ Climbs(v, x, q, d)
  BY <1>1, RootIsLast, Zenon
<1> HIDE DEF d
<1>4. u[d] = v[d]
  BY <1>2, <1>3
<1>5. ASSUME NEW k \in 0 .. d - 1, u[k + 1] = v[k + 1]
      PROVE  u[k] = v[k]
  <2>1. Joined(u[k], Halved(x, k), p[k + 1]) = Joined(v[k], Halved(x, k), q[k + 1])
    BY <1>2, <1>3, <1>5 DEF Climbs
  <2>2. ASSUME NEW r, NEW t, NEW y, NEW e, NEW f, Joined(r, y, e) = Joined(t, y, f)
        PROVE  r = t
    <3>1. CASE y % 2 = 0
      <4>1. <<r, e>> = <<t, f>>
        BY <2>2, <3>1 DEF Joined
      <4> QED
        BY <4>1
    <3>2. CASE y % 2 # 0
      <4>1. <<e, r>> = <<f, t>>
        BY <2>2, <3>2 DEF Joined
      <4> QED
        BY <4>1
    <3> QED
      BY <3>1, <3>2
  <2> QED
    BY <2>1, <2>2, Zenon
<1> DEFINE S == {j \in Nat : j <= d => u[d - j] = v[d - j]}
<1>6. 0 \in S
  <2>1. d - 0 = d
    BY <1>1
  <2> QED
    BY <1>4, <2>1
<1>7. ASSUME NEW j \in Nat, j \in S
      PROVE  j + 1 \in S
  <2> SUFFICES ASSUME j + 1 <= d PROVE u[d - (j + 1)] = v[d - (j + 1)]
    OBVIOUS
  <2>1. d - (j + 1) \in 0 .. d - 1 /\ (d - (j + 1)) + 1 = d - j /\ u[d - j] = v[d - j]
    BY <1>1, <1>7
  <2> QED
    BY <1>5, <2>1
<1> HIDE DEF S
<1>8. d \in S
  BY <1>1, <1>6, <1>7, InductionOnNat
<1>9. d <= d /\ d - d = 0
  BY <1>1
<1> QED
  BY <1>2, <1>3, <1>8, <1>9 DEF S

-----------------------------------------------------------------------------
(***************************************************************************)
(* Merged mining.                                                          *)
(***************************************************************************)

\* What check_aux asks of the place of the root leaves one root: it follows
\* the only marker, or starts in the first 40 digits, where two do not fit.
LEMMA OneRootInPlace ==
  ASSUME NEW s, IsScript(s), NEW r, NEW t,
         find(s, "hash", r) # -1, root_in_place(s, find(s, "hash", r)),
         find(s, "hash", t) # -1, root_in_place(s, find(s, "hash", t))
  PROVE  r = t /\ find(s, "hash", r) = find(s, "hash", t)
<1>1. PICK j \in DOMAIN s :
         s[j].kind = "hash" /\ s[j].value = r /\ find(s, "hash", r) = Position(s, j)
  BY FindIs DEF IsScript
<1>2. PICK k \in DOMAIN s :
         s[k].kind = "hash" /\ s[k].value = t /\ find(s, "hash", t) = Position(s, k)
  BY FindIs DEF IsScript
<1> DEFINE pos == find(s, "MERGED_MINING_HEADER", 0)
           u == Position(s, j)
           v == Position(s, k)
<1>3. IF pos # -1 THEN pos + 8 = u /\ pos + 8 = v ELSE u <= 40 /\ v <= 40
  <2>1. root_in_place(s, u) /\ root_in_place(s, v)
    BY <1>1, <1>2
  <2> QED
    BY <2>1, Zenon DEF root_in_place
<1>4. ASSUME NEW i \in DOMAIN s, NEW l \in DOMAIN s, i < l, s[i].kind = "hash"
      PROVE  ~(Position(s, l) <= 40)
  <2> DEFINE w == Position(s, i)
             z == Position(s, l)
  <2>1. w \in Nat /\ z \in Nat /\ z >= w + s[i].width /\ s[i].width = 64
    BY <1>4, PositionsGrow DEF IsScript
  <2> HIDE DEF w, z
  <2>2. z >= w + 64
    BY <2>1
  <2>3. ~(z <= 40)
    BY <2>1, <2>2
  <2> QED
    BY <2>3 DEF z
<1>5. j = k
  <2>1. CASE pos # -1
    <3>1. u = v
      BY <1>3, <2>1, Zenon
    <3> QED
      BY <3>1, PositionsDiffer DEF IsScript
  <2>2. CASE pos = -1
    <3>1. u <= 40 /\ v <= 40
      BY <1>3, <2>2, Zenon
    <3>2. ~(j < k) /\ ~(k < j)
      BY <1>1, <1>2, <1>4, <3>1, Zenon
    <3>3. j \in Nat /\ k \in Nat
      BY DEF IsScript, IsString
    <3> QED
      BY <3>2, <3>3
  <2> QED
    BY <2>1, <2>2
<1> QED
  BY <1>1, <1>2, <1>5

\* A coinbase, and so a parent block, proves the work of one header only,
\* whatever its script and the proofs that come with it: check_aux accepts two
\* headers with one coinbase only if they are the same.
THEOREM OneHeaderPerCoinbase ==
  ASSUME NEW g, NEW h, NEW x, NEW y, x.coinbase_tx = y.coinbase_tx, IsScript(x.coinbase_tx),
         Len(x.chain_merkle_proof) \in Nat, Len(y.chain_merkle_proof) \in Nat,
         check_aux(g, x), check_aux(h, y)
  PROVE  block_hash(g) = block_hash(h)
<1> DEFINE s == x.coinbase_tx
           p == x.chain_merkle_proof
           q == y.chain_merkle_proof
           r == compute_root_from_merkle_proof(block_hash(g), x.chain_id, p)
           t == compute_root_from_merkle_proof(block_hash(h), y.chain_id, q)
           u == find(s, "hash", r)
           v == find(s, "hash", t)
           nonce(e) == number_at(s, (e + 64) + 8, (e + 64) + 16)
<1>1. /\ u # -1 /\ root_in_place(s, u) /\ get_chain_id(g) = aux_chain_id
      /\ number_at(s, u + 64, (u + 64) + 8) = Pow2(Len(p))
      /\ x.chain_id = get_expected_index(nonce(u), get_chain_id(g), Len(p))
  BY Zenon DEF check_aux
<1>2. /\ v # -1 /\ root_in_place(s, v) /\ get_chain_id(h) = aux_chain_id
      /\ number_at(s, v + 64, (v + 64) + 8) = Pow2(Len(q))
      /\ y.chain_id = get_expected_index(nonce(v), get_chain_id(h), Len(q))
  BY Zenon DEF check_aux
<1> HIDE DEF nonce
<1>3. r = t /\ u = v
  <2> HIDE DEF s, r, t
  <2>1. IsScript(s)
    BY DEF s
  <2> QED
    BY <1>1, <1>2, <2>1, OneRootInPlace
<1> HIDE DEF u, v
<1>4. Len(p) = Len(q) /\ Len(p) \in Nat
  <2>1. Pow2(Len(p)) = Pow2(Len(q))
    BY <1>1, <1>2, <1>3, Zenon
  <2> QED
    BY <2>1, PowersDiffer
<1>5. x.chain_id = y.chain_id
  BY <1>1, <1>2, <1>3, <1>4, Zenon
<1>6. compute_root_from_merkle_proof(block_hash(g), x.chain_id, p)
        = compute_root_from_merkle_proof(block_hash(h), x.chain_id, q)
  BY <1>3, <1>5, Zenon
<1> QED
  BY <1>4, <1>6, OneLeafPerPlace, Zenon

\* The coinbase scripts of the specification are strings of its tokens.
LEMMA ScriptsHold == Spec => []IsScript(script)
<1> DEFINE I == script \in Seq(ScriptTokens)
<1>1. Init => I
  BY DEF Init
<1>2. I /\ [Next]_vars => I'
  <2> SUFFICES ASSUME I, [Next]_vars PROVE I'
    OBVIOUS
  <2>1. CASE NextToken
    <3>1. script' = <<>> \/ \E t \in ScriptTokens : script' = Append(script, t)
      BY <2>1 DEF NextToken
    <3>2. ASSUME NEW S, NEW s \in Seq(S), NEW t \in S PROVE Append(s, t) \in Seq(S)
      OBVIOUS
    <3>3. script' \in Seq(ScriptTokens)
      <4>1. CASE script' = <<>>
        BY <4>1
      <4>2. CASE \E t \in ScriptTokens : script' = Append(script, t)
        BY <3>2, <4>2, Zenon
      <4> QED
        BY <3>1, <4>1, <4>2
    <3> QED
      BY <3>3
  <2>2. CASE NextBlock \/ NextPosition \/ NextIndex \/ UNCHANGED vars
    BY <2>2 DEF NextBlock, NextPosition, NextIndex, vars
  <2> QED
    BY <2>1, <2>2 DEF Next
<1>3. I => IsScript(script)
  <2>1. ASSUME NEW t \in ScriptTokens
        PROVE  t.width \in Nat \ {0} /\ (t.kind = "hash" => t.width = 64)
    <3>1. \/ t = MergedMiningHeader \/ t = Token("number", 0, 2)
          \/ \E v \in {1, 2, 4} : t = Number(v)
          \/ \E tree \in Trees : t = Root(tree)
      BY SMT DEF ScriptTokens
    <3>2. CASE t = MergedMiningHeader
      BY <3>2 DEF MergedMiningHeader, Token
    <3>5. CASE t = Token("number", 0, 2)
      BY <3>5 DEF Token
    <3>3. CASE \E v \in {1, 2, 4} : t = Number(v)
      BY <3>3 DEF Number, Token
    <3>4. CASE \E tree \in Trees : t = Root(tree)
      <4>1. PICK tree \in Trees : t = Root(tree)
        BY <3>4
      <4> DEFINE root == MerkleRoot(Leaves(tree))
      <4> HIDE DEF root
      <4>2. t = [kind |-> "hash", value |-> root, width |-> 64]
        BY <4>1 DEF Root, Token, root
      <4> QED
        BY <4>2
    <3> QED
      BY <3>1, <3>2, <3>3, <3>4, <3>5
  <2> DEFINE S == ScriptTokens
  <2>2. \A t \in S : t.width \in Nat \ {0} /\ (t.kind = "hash" => t.width = 64)
    BY <2>1
  <2> HIDE DEF S
  <2>3. ASSUME script \in Seq(S) PROVE IsScript(script)
    <3>1. Len(script) \in Nat /\ DOMAIN script = 1 .. Len(script)
      BY <2>3
    <3>2. \A k \in DOMAIN script : script[k] \in S
      BY <2>3
    <3> QED
      BY <2>2, <3>1, <3>2, Zenon DEF IsScript, IsString
  <2> QED
    BY <2>3 DEF S
<1> QED
  BY <1>1, <1>2, <1>3, PTL DEF Spec

\* The leaves of a chain tree are a list.
LEMMA LeavesList ==
  ASSUME NEW tree, NEW m \in Nat \ {0}, DOMAIN tree = 1 .. m
  PROVE  IsList(Leaves(tree), m)
<1> DEFINE s == Leaves(tree)
<1>1. s = [i \in 1 .. m |-> block_hash(tree[i])]
  BY DEF Leaves
<1> HIDE DEF s
<1>2. s = [i \in 1 .. m |-> s[i]] /\ Len(s) = m
  BY <1>1
<1> QED
  BY <1>2 DEF IsList, s

\* The parts of the proof that a parent block gives.
LEMMA AuxParts ==
  ASSUME NEW tree \in Trees, NEW i \in DOMAIN tree, NEW s, NEW m
  PROVE  LET x == Aux(tree, i, s, m)
         IN  x.coinbase_tx = s /\ Len(x.chain_merkle_proof) \in Nat
<1>1. PICK l \in Nat \ {0} : DOMAIN tree = 1 .. l
  <2>1. ASSUME NEW f, NEW g, NEW h
        PROVE  /\ DOMAIN <<f>> = 1 .. 1 /\ DOMAIN <<f, g>> = 1 .. 2
               /\ DOMAIN <<h, f, g, h>> = 1 .. 4
    <3>1. DOMAIN <<f>> = 1 .. 1
      OBVIOUS
    <3>2. DOMAIN <<f, g>> = 1 .. 2
      OBVIOUS
    <3>3. DOMAIN <<h, f, g, h>> = 1 .. 4
      OBVIOUS
    <3> QED
      BY <3>1, <3>2, <3>3
  <2>2. tree = <<a>> \/ tree = <<b>> \/ tree = <<a, b>> \/ tree = <<c, a, b, c>>
    BY DEF Trees
  <2>3. DOMAIN tree = 1 .. 1 \/ DOMAIN tree = 1 .. 2 \/ DOMAIN tree = 1 .. 4
    BY <2>1, <2>2, Zenon
  <2>4. 1 \in Nat \ {0} /\ 2 \in Nat \ {0} /\ 4 \in Nat \ {0}
    OBVIOUS
  <2> QED
    BY <2>3, <2>4, Zenon
<1>2. IsList(Leaves(tree), l) /\ i - 1 \in 0 .. l - 1
  BY <1>1, LeavesList
<1>3. Len(merkle_proof_calculator(Leaves(tree), i - 1)) \in Nat
  BY <1>2, CalculatedProof
<1> QED
  BY <1>3 DEF Aux

\* One parent block proves the work of one header, for every coinbase script
\* of any length.
THEOREM OneHeaderTheorem == Spec => []OneHeaderPerParent
<1>1. IsScript(script) => OneHeaderPerParent
  <2> SUFFICES ASSUME IsScript(script), NEW t \in Trees, NEW u \in Trees,
                      NEW i \in DOMAIN t, NEW j \in DOMAIN u,
                      pow_accepted(a, <<Aux(t, i, script, n)>>),
                      pow_accepted(b, <<Aux(u, j, script, n)>>)
               PROVE  FALSE
    BY DEF OneHeaderPerParent
  <2> DEFINE x == Aux(t, i, script, n)
             y == Aux(u, j, script, n)
  <2>1. /\ x.coinbase_tx = script /\ Len(x.chain_merkle_proof) \in Nat
        /\ y.coinbase_tx = script /\ Len(y.chain_merkle_proof) \in Nat
    BY AuxParts
  <2> HIDE DEF x, y
  <2>2. ASSUME NEW h, NEW z, pow_accepted(h, <<z>>) PROVE check_aux(h, z)
    <3>1. <<z>> # <<>> /\ <<z>>[1] = z
      OBVIOUS
    <3> QED
      BY <2>2, <3>1 DEF pow_accepted
  <2>3. check_aux(a, x) /\ check_aux(b, y)
    BY <2>2 DEF x, y
  <2>4. block_hash(a) = block_hash(b)
    BY <2>1, <2>3, OneHeaderPerCoinbase
  <2>5. a.merkle_root = b.merkle_root
    <3>1. block_hash(a)[3].value = a.merkle_root /\ block_hash(b)[3].value = b.merkle_root
      BY DEF block_hash, get_block_header_vec, Token
    <3> QED
      BY <2>4, <3>1
  <2>6. <<"a">> = <<"b">>
    BY <2>5 DEF a, b, HeaderOf
  <2> QED
    BY <2>6
<1> QED
  BY <1>1, ScriptsHold, PTL

-----------------------------------------------------------------------------
(***************************************************************************)
(* Reading what was written.                                               *)
(***************************************************************************)

\* The next token starts where this one ends.
LEMMA PositionNext ==
  ASSUME NEW s, NEW k \in Nat \ {0}, NEW l, l = k + 1, NEW x, NEW y,
         Position(s, k) = x, s[k].width = y
  PROVE  Position(s, l) = x + y
<1>1. Position(s, k + 1) = Position(s, k) + s[k].width
  BY PositionSteps
<1> QED
  BY <1>1, Zenon

\* A text that is there once is found where it is.
LEMMA FindOne ==
  ASSUME NEW s, IsString(s), NEW kind, NEW value, NEW k \in DOMAIN s,
         s[k].kind = kind, s[k].value = value,
         \A j \in DOMAIN s : s[j].kind = kind /\ s[j].value = value => j = k
  PROVE  /\ Occurrences(s, kind, value) = {k}
         /\ find(s, kind, value) = Position(s, k)
<1> DEFINE ks == Occurrences(s, kind, value)
           first == CHOOSE i \in ks : \A j \in ks : i <= j
<1>1. ks = {k}
  BY DEF Occurrences
<1>2. k <= k
  BY DEF IsString
<1>3. first = k
  <2> HIDE DEF ks
  <2>1. \E i \in ks : \A j \in ks : i <= j
    BY <1>1, <1>2
  <2>2. first \in ks
    BY <2>1
  <2> QED
    BY <1>1, <2>2
<1>4. ks # {} /\ find(s, kind, value) = IF ks = {} THEN -1 ELSE Position(s, first)
  BY <1>1, Zenon DEF find
<1> QED
  BY <1>1, <1>3, <1>4, Zenon

\* A text that is not there is not found.
LEMMA FindNone ==
  ASSUME NEW s, NEW kind, NEW value,
         \A j \in DOMAIN s : ~(s[j].kind = kind /\ s[j].value = value)
  PROVE  find(s, kind, value) = -1
<1> DEFINE ks == Occurrences(s, kind, value)
<1>1. ks = {}
  BY DEF Occurrences
<1>2. find(s, kind, value)
        = IF ks = {} THEN -1 ELSE Position(s, CHOOSE i \in ks : \A j \in ks : i <= j)
  BY Zenon DEF find
<1> QED
  BY <1>1, <1>2, Zenon

\* A number is read where it was written.
LEMMA NumberAt ==
  ASSUME NEW s, IsString(s), NEW k \in DOMAIN s, NEW x, NEW y,
         s[k].kind = "number", Position(s, k) = x, s[k].width = y - x
  PROVE  number_at(s, x, y) = s[k].value
<1> DEFINE ks == {j \in DOMAIN s : /\ s[j].kind = "number"
                                   /\ Position(s, j) = x
                                   /\ s[j].width = y - x}
<1>1. ks = {k}
  BY PositionsDiffer
<1>2. number_at(s, x, y) = IF ks = {} THEN 0 ELSE s[CHOOSE j \in ks : TRUE].value
  BY Zenon DEF number_at
<1> HIDE DEF ks
<1>3. (CHOOSE j \in ks : TRUE) = k /\ ks # {}
  BY <1>1
<1> QED
  BY <1>2, <1>3, Zenon

\* And so is a hash.
LEMMA HashAt ==
  ASSUME NEW s, IsString(s), NEW k \in DOMAIN s, NEW x, NEW y, Position(s, k) = x
  PROVE  hash_at(s, x, y) = s[k].value
<1> DEFINE l == CHOOSE i \in DOMAIN s : Position(s, i) = x
<1>1. l \in DOMAIN s /\ Position(s, l) = x
  BY Zenon
<1> HIDE DEF l
<1>2. l = k
  BY <1>1, PositionsDiffer
<1>3. hash_at(s, x, y) = s[l].value
  BY Zenon DEF hash_at, l
<1> QED
  BY <1>2, <1>3, Zenon

\* The parts of a token.
LEMMA TokenParts ==
  ASSUME NEW x, NEW kind, NEW value, NEW width, x = Token(kind, value, width)
  PROVE  x.kind = kind /\ x.value = value /\ x.width = width
BY DEF Token

\* A header is read from its bytes as it was written.
LEMMA HeaderBytes ==
  ASSUME NEW h, NEW v, NEW p, NEW r, NEW t, NEW e, NEW w,
         h = [version |-> v, prev_block_hash |-> p, merkle_root |-> r,
              time |-> t, bits |-> e, nonce |-> w]
  PROVE  from_block_header_vec(get_block_header_vec(h)) = h
<1> DEFINE s == get_block_header_vec(h)
<1>1. /\ Len(s) = 6 /\ DOMAIN s = 1 .. 6
      /\ s[1] = Token("number", v, 4) /\ s[2] = Token("hash", p, 32)
      /\ s[3] = Token("hash", r, 32) /\ s[4] = Token("number", t, 4)
      /\ s[5] = Token("number", e, 4) /\ s[6] = Token("number", w, 4)
  BY DEF get_block_header_vec
<1> HIDE DEF s
<1>3. /\ s[1].width = 4 /\ s[2].width = 32 /\ s[3].width = 32
      /\ s[4].width = 4 /\ s[5].width = 4 /\ s[6].width = 4
      /\ s[1].kind = "number" /\ s[4].kind = "number" /\ s[5].kind = "number"
      /\ s[6].kind = "number" /\ s[1].value = v /\ s[2].value = p /\ s[3].value = r
      /\ s[4].value = t /\ s[5].value = e /\ s[6].value = w
  <2>1. s[1].kind = "number" /\ s[1].value = v /\ s[1].width = 4
    BY <1>1, TokenParts
  <2>2. s[2].value = p /\ s[2].width = 32
    BY <1>1, TokenParts
  <2>3. s[3].value = r /\ s[3].width = 32
    BY <1>1, TokenParts
  <2>4. s[4].kind = "number" /\ s[4].value = t /\ s[4].width = 4
    BY <1>1, TokenParts
  <2>5. s[5].kind = "number" /\ s[5].value = e /\ s[5].width = 4
    BY <1>1, TokenParts
  <2>6. s[6].kind = "number" /\ s[6].value = w /\ s[6].width = 4
    BY <1>1, TokenParts
  <2> QED
    BY <2>1, <2>2, <2>3, <2>4, <2>5, <2>6, Zenon
<1>4. IsString(s)
  <2>1. \A k \in 1 .. 6 : k = 1 \/ k = 2 \/ k = 3 \/ k = 4 \/ k = 5 \/ k = 6
    OBVIOUS
  <2>2. \A k \in DOMAIN s : s[k].width = 4 \/ s[k].width = 32
    BY <1>1, <1>3, <2>1, Zenon
  <2>3. 6 \in Nat /\ 4 \in Nat \ {0} /\ 32 \in Nat \ {0}
    OBVIOUS
  <2> QED
    BY <1>1, <2>2, <2>3, Zenon DEF IsString
<1>5. /\ Position(s, 1) = 0 /\ Position(s, 2) = 4 /\ Position(s, 3) = 36
      /\ Position(s, 4) = 68 /\ Position(s, 5) = 72 /\ Position(s, 6) = 76
      /\ Position(s, 7) = 80
  <2>1. Position(s, 1) = 0
    BY PositionSteps
  <2>2. Position(s, 2) = 0 + 4
    BY <1>3, <2>1, PositionNext
  <2>3. Position(s, 3) = 4 + 32
    BY <1>3, <2>2, PositionNext
  <2>4. Position(s, 4) = 36 + 32
    BY <1>3, <2>3, PositionNext
  <2>5. Position(s, 5) = 68 + 4
    BY <1>3, <2>4, PositionNext
  <2>6. Position(s, 6) = 72 + 4
    BY <1>3, <2>5, PositionNext
  <2>7. Position(s, 7) = 76 + 4
    BY <1>3, <2>6, PositionNext
  <2> QED
    BY <2>1, <2>2, <2>3, <2>4, <2>5, <2>6, <2>7
<1>6. len(s) = SIZE
  <2>1. Len(s) + 1 = 7 /\ SIZE = 80
    BY <1>1 DEF SIZE
  <2> QED
    BY <1>5, <2>1, Zenon DEF len
<1>7. 1 \in DOMAIN s /\ 2 \in DOMAIN s /\ 3 \in DOMAIN s /\ 4 \in DOMAIN s
      /\ 5 \in DOMAIN s /\ 6 \in DOMAIN s
  BY <1>1
<1>8. 4 - 0 = 4 /\ 72 - 68 = 4 /\ 76 - 72 = 4 /\ 80 - 76 = 4
  OBVIOUS
<1>9. /\ number_at(s, 0, 4) = v /\ number_at(s, 68, 72) = t
      /\ number_at(s, 72, 76) = e /\ number_at(s, 76, 80) = w
  <2>1. number_at(s, 0, 4) = v
    BY <1>3, <1>4, <1>5, <1>7, <1>8, NumberAt
  <2>2. number_at(s, 68, 72) = t
    BY <1>3, <1>4, <1>5, <1>7, <1>8, NumberAt
  <2>3. number_at(s, 72, 76) = e
    BY <1>3, <1>4, <1>5, <1>7, <1>8, NumberAt
  <2>4. number_at(s, 76, 80) = w
    BY <1>3, <1>4, <1>5, <1>7, <1>8, NumberAt
  <2> QED
    BY <2>1, <2>2, <2>3, <2>4
<1>10. hash_at(s, 4, 36) = p /\ hash_at(s, 36, 68) = r
  <2>1. hash_at(s, 4, 36) = p
    BY <1>3, <1>4, <1>5, <1>7, HashAt
  <2>2. hash_at(s, 36, 68) = r
    BY <1>3, <1>4, <1>5, <1>7, HashAt
  <2> QED
    BY <2>1, <2>2
<1>11. from_block_header_vec(s) = h
  BY <1>6, <1>9, <1>10, Zenon DEF from_block_header_vec
<1> QED
  BY <1>11 DEF s

\* The same for the headers of the specification.
LEMMA HeaderOfBytes ==
  ASSUME NEW id, NEW root, NEW nonce
  PROVE  from_block_header_vec(get_block_header_vec(HeaderOf(id, root, nonce)))
           = HeaderOf(id, root, nonce)
<1> DEFINE v == id * 65536 + 256
<1>1. HeaderOf(id, root, nonce)
        = [version |-> v, prev_block_hash |-> <<"prev">>, merkle_root |-> root,
           time |-> 7, bits |-> 5, nonce |-> nonce]
  BY DEF HeaderOf
<1> HIDE DEF v
<1> QED
  BY <1>1, HeaderBytes

\* A script that ends, from token k and digit pos on, with its first root, a
\* size and a nonce.
EndsWith(s, k, pos, r, x, y) ==
  /\ k \in Nat \ {0} /\ pos \in Nat
  /\ IsString(s) /\ Len(s) = k + 2 /\ Position(s, k) = pos
  /\ s[k] = Token("hash", r, 64) /\ s[k + 1] = Token("number", x, 8)
  /\ s[k + 2] = Token("number", y, 8) /\ \A j \in 1 .. k - 1 : s[j].kind # "hash"

\* check_aux finds root, size and nonce where they were written.
LEMMA EndReads ==
  ASSUME NEW s, NEW k, NEW pos, NEW r, NEW x, NEW y, EndsWith(s, k, pos, r, x, y)
  PROVE  /\ find(s, "hash", r) = pos
         /\ number_at(s, pos + 64, (pos + 64) + 8) = x
         /\ number_at(s, (pos + 64) + 8, (pos + 64) + 16) = y
         /\ len(s) - (pos + 64) >= 16
<1> USE DEF EndsWith
<1>1. /\ k \in DOMAIN s /\ k + 1 \in DOMAIN s /\ k + 2 \in DOMAIN s
      /\ k + 1 \in Nat \ {0} /\ k + 2 \in Nat \ {0} /\ k + 2 = (k + 1) + 1
      /\ Len(s) + 1 = (k + 2) + 1
      /\ \A j \in DOMAIN s : j \in 1 .. k - 1 \/ j = k \/ j = k + 1 \/ j = k + 2
  BY DEF IsString
<1>2. s[k].kind = "hash" /\ s[k].value = r /\ s[k].width = 64
  BY TokenParts
<1>3. s[k + 1].kind = "number" /\ s[k + 1].value = x /\ s[k + 1].width = 8
  BY TokenParts
<1>4. s[k + 2].kind = "number" /\ s[k + 2].value = y /\ s[k + 2].width = 8
  BY TokenParts
<1>5. \A j \in DOMAIN s : s[j].kind = "hash" => j = k
  <2>1. "number" # "hash"
    OBVIOUS
  <2> QED
    BY <1>1, <1>3, <1>4, <2>1, Zenon
<1>6. find(s, "hash", r) = pos
  BY <1>1, <1>2, <1>5, FindOne
<1>7. Position(s, k + 1) = pos + 64
  <2>1. Position(s, k + 1) = Position(s, k) + s[k].width
    BY PositionSteps
  <2> QED
    BY <1>2, <2>1, Zenon
<1>8. Position(s, k + 2) = (pos + 64) + 8
  BY <1>1, <1>3, <1>7, PositionNext
<1>9. Position(s, Len(s) + 1) = ((pos + 64) + 8) + 8
  BY <1>1, <1>4, <1>8, PositionNext
<1>10. ((pos + 64) + 8) - (pos + 64) = 8 /\ ((pos + 64) + 16) - ((pos + 64) + 8) = 8
       /\ (((pos + 64) + 8) + 8) - (pos + 64) >= 16
  OBVIOUS
<1>11. number_at(s, pos + 64, (pos + 64) + 8) = x
  BY <1>1, <1>3, <1>7, <1>10, NumberAt
<1>12. number_at(s, (pos + 64) + 8, (pos + 64) + 16) = y
  BY <1>1, <1>4, <1>8, <1>10, NumberAt
<1>13. len(s) - (pos + 64) >= 16
  BY <1>9, <1>10, Zenon DEF len
<1> QED
  BY <1>6, <1>11, <1>12, <1>13

\* What check_aux asks of a script with the root r: it is in its place, and
\* followed by the size and the nonce.
InPlace(s, r, size, nonce) ==
  LET pos == find(s, "hash", r)
  IN  /\ pos # -1 /\ root_in_place(s, pos) /\ len(s) - (pos + 64) >= 16
      /\ number_at(s, pos + 64, (pos + 64) + 8) = size
      /\ number_at(s, (pos + 64) + 8, (pos + 64) + 16) = nonce

\* The root of a mined script is in its place, with and without the marker,
\* and its size and nonce are read.
LEMMA MinedScriptReads ==
  ASSUME NEW nonce, NEW h, NEW marked \in BOOLEAN
  PROVE  InPlace(MinedScript(nonce, h, marked), MerkleRoot(Leaves(MinedTree(nonce, h))),
                 Pow2(h), nonce)
<1> DEFINE s == MinedScript(nonce, h, marked)
           r == MerkleRoot(Leaves(MinedTree(nonce, h)))
           pos == find(s, "hash", r)
           two == Pow2(h)
           Marker == Token("MERGED_MINING_HEADER", 0, 8)
           Goal == /\ pos # -1 /\ root_in_place(s, pos) /\ len(s) - (pos + 64) >= 16
                   /\ number_at(s, pos + 64, (pos + 64) + 8) = two
                   /\ number_at(s, (pos + 64) + 8, (pos + 64) + 16) = nonce
<1> DEFINE R == Token("hash", r, 64)
           N == Token("number", two, 8)
           M == Token("number", nonce, 8)
           Z == Token("number", 0, 2)
<1>1. s = IF marked THEN <<Z, Marker, R, N, M>> ELSE <<R, N, M>>
  BY Zenon DEF MinedScript, MergedMiningHeader, Root, Number
<1>2. /\ R.kind = "hash" /\ R.width = 64 /\ N.kind = "number" /\ N.width = 8
      /\ M.kind = "number" /\ M.width = 8 /\ Z.kind = "number" /\ Z.width = 2
      /\ Marker.kind = "MERGED_MINING_HEADER" /\ Marker.width = 8 /\ Marker.value = 0
  <2>1. R.kind = "hash" /\ R.width = 64
    BY TokenParts
  <2>2. N.kind = "number" /\ N.width = 8
    BY TokenParts
  <2>3. M.kind = "number" /\ M.width = 8
    BY TokenParts
  <2>4. Z.kind = "number" /\ Z.width = 2
    BY TokenParts
  <2>5. Marker.kind = "MERGED_MINING_HEADER" /\ Marker.width = 8 /\ Marker.value = 0
    BY TokenParts
  <2> QED
    BY <2>1, <2>2, <2>3, <2>4, <2>5
<1>3. 2 \in Nat \ {0} /\ 8 \in Nat \ {0} /\ 64 \in Nat \ {0} /\ 3 \in Nat /\ 5 \in Nat
  OBVIOUS
<1>4. ASSUME marked PROVE Goal
  <2>1. /\ Len(s) = 5 /\ DOMAIN s = 1 .. 5
        /\ s[1] = Z /\ s[2] = Marker /\ s[3] = R /\ s[4] = N /\ s[5] = M
    <3>1. s = <<Z, Marker, R, N, M>>
      BY <1>1, <1>4
    <3> HIDE DEF R, N, M, Z, Marker, s
    <3> QED
      BY <3>1
  <2>2. \A k \in 1 .. 5 : k = 1 \/ k = 2 \/ k = 3 \/ k = 4 \/ k = 5
    OBVIOUS
  <2> HIDE DEF R, N, M, Z, Marker, s
  <2>3. IsString(s)
    <3>1. s[1].width = 2 /\ s[2].width = 8 /\ s[3].width = 64 /\ s[4].width = 8 /\ s[5].width = 8
      BY <1>2, <2>1
    <3>2. \A k \in DOMAIN s : s[k].width = 2 \/ s[k].width = 8 \/ s[k].width = 64
      BY <2>1, <2>2, <3>1
    <3> QED
      BY <1>3, <2>1, <3>2, Zenon DEF IsString
  <2>4. Position(s, 1) = 0 /\ Position(s, 2) = 2 /\ Position(s, 3) = 10
    <3>1. Position(s, 1) = 0
      BY PositionSteps
    <3>2. s[1].width = 2 /\ s[2].width = 8
      BY <1>2, <2>1
    <3>3. Position(s, 2) = 0 + 2
      BY <3>1, <3>2, PositionNext
    <3>4. Position(s, 3) = 2 + 8
      BY <3>2, <3>3, PositionNext
    <3> QED
      BY <3>1, <3>3, <3>4
  <2>5. /\ pos = 10
        /\ number_at(s, pos + 64, (pos + 64) + 8) = two
        /\ number_at(s, (pos + 64) + 8, (pos + 64) + 16) = nonce
        /\ len(s) - (pos + 64) >= 16
    <3>1. 3 \in Nat \ {0} /\ 10 \in Nat /\ Len(s) = 3 + 2 /\ 3 + 1 = 4 /\ 3 + 2 = 5
      BY <2>1
    <3>2. \A j \in 1 .. 3 - 1 : s[j].kind # "hash"
      <4>1. \A j \in 1 .. 3 - 1 : j = 1 \/ j = 2
        OBVIOUS
      <4>2. s[1].kind = "number" /\ s[2].kind = "MERGED_MINING_HEADER"
        BY <1>2, <2>1
      <4>3. "number" # "hash" /\ "MERGED_MINING_HEADER" # "hash"
        OBVIOUS
      <4> QED
        BY <4>1, <4>2, <4>3, Zenon
    <3>3. /\ s[3] = Token("hash", r, 64) /\ s[3 + 1] = Token("number", two, 8)
          /\ s[3 + 2] = Token("number", nonce, 8)
      BY <2>1, <3>1, Zenon DEF R, N, M
    <3> HIDE DEF r, two
    <3>4. EndsWith(s, 3, 10, r, two, nonce)
      BY <2>3, <2>4, <3>1, <3>2, <3>3, Zenon DEF EndsWith
    <3>5. /\ find(s, "hash", r) = 10
          /\ number_at(s, 10 + 64, (10 + 64) + 8) = two
          /\ number_at(s, (10 + 64) + 8, (10 + 64) + 16) = nonce
          /\ len(s) - (10 + 64) >= 16
      BY <3>4, EndReads, Zenon
    <3> QED
      BY <3>5, Zenon
  <2>6. /\ Occurrences(s, "MERGED_MINING_HEADER", 0) = {2}
        /\ find(s, "MERGED_MINING_HEADER", 0) = 2
    <3>1. 2 \in DOMAIN s /\ s[2].kind = "MERGED_MINING_HEADER" /\ s[2].value = 0
      BY <1>2, <2>1
    <3>2. \A j \in DOMAIN s : s[j].kind = "MERGED_MINING_HEADER" => j = 2
      <4>1. /\ s[1].kind = "number" /\ s[3].kind = "hash"
            /\ s[4].kind = "number" /\ s[5].kind = "number"
        BY <1>2, <2>1
      <4>2. "number" # "MERGED_MINING_HEADER" /\ "hash" # "MERGED_MINING_HEADER"
        OBVIOUS
      <4> QED
        BY <2>1, <2>2, <4>1, <4>2, Zenon
    <3> QED
      BY <2>3, <2>4, <3>1, <3>2, FindOne
  <2>7. root_in_place(s, 10)
    <3>1. Cardinality({2}) = 1
      BY FS_Singleton
    <3>2. 2 # -1 /\ 2 + 8 = 10
      OBVIOUS
    <3> QED
      BY <2>6, <3>1, <3>2, Zenon DEF root_in_place
  <2>8. 10 # -1
    OBVIOUS
  <2> HIDE DEF pos
  <2> QED
    BY <2>5, <2>7, <2>8, Zenon
<1>5. ASSUME ~marked PROVE Goal
  <2>1. Len(s) = 3 /\ DOMAIN s = 1 .. 3 /\ s[1] = R /\ s[2] = N /\ s[3] = M
    <3>1. s = <<R, N, M>>
      BY <1>1, <1>5
    <3> HIDE DEF R, N, M, Z, Marker, s
    <3> QED
      BY <3>1
  <2>2. \A k \in 1 .. 3 : k = 1 \/ k = 2 \/ k = 3
    OBVIOUS
  <2> HIDE DEF R, N, M, Z, Marker, s
  <2>3. IsString(s)
    <3>1. \A k \in DOMAIN s : s[k].width = 8 \/ s[k].width = 64
      BY <1>2, <2>1, <2>2, Zenon
    <3> QED
      BY <1>3, <2>1, <3>1, Zenon DEF IsString
  <2>4. Position(s, 1) = 0
    BY PositionSteps
  <2>5. /\ pos = 0
        /\ number_at(s, pos + 64, (pos + 64) + 8) = two
        /\ number_at(s, (pos + 64) + 8, (pos + 64) + 16) = nonce
        /\ len(s) - (pos + 64) >= 16
    <3>1. 1 \in Nat \ {0} /\ 0 \in Nat /\ Len(s) = 1 + 2 /\ 1 + 1 = 2 /\ 1 + 2 = 3
      BY <2>1
    <3>2. \A j \in 1 .. 1 - 1 : s[j].kind # "hash"
      OBVIOUS
    <3>3. /\ s[1] = Token("hash", r, 64) /\ s[1 + 1] = Token("number", two, 8)
          /\ s[1 + 2] = Token("number", nonce, 8)
      BY <2>1, <3>1, Zenon DEF R, N, M
    <3> HIDE DEF r, two
    <3>4. EndsWith(s, 1, 0, r, two, nonce)
      BY <2>3, <2>4, <3>1, <3>2, <3>3, Zenon DEF EndsWith
    <3>5. /\ find(s, "hash", r) = 0
          /\ number_at(s, 0 + 64, (0 + 64) + 8) = two
          /\ number_at(s, (0 + 64) + 8, (0 + 64) + 16) = nonce
          /\ len(s) - (0 + 64) >= 16
      BY <3>4, EndReads, Zenon
    <3> QED
      BY <3>5, Zenon
  <2>6. find(s, "MERGED_MINING_HEADER", 0) = -1
    <3>1. \A j \in DOMAIN s : s[j].kind = "hash" \/ s[j].kind = "number"
      BY <1>2, <2>1, <2>2, Zenon
    <3>2. "number" # "MERGED_MINING_HEADER" /\ "hash" # "MERGED_MINING_HEADER"
      OBVIOUS
    <3>3. \A j \in DOMAIN s : ~(s[j].kind = "MERGED_MINING_HEADER" /\ s[j].value = 0)
      BY <3>1, <3>2, Zenon
    <3> QED
      BY <3>3, FindNone
  <2>7. root_in_place(s, 0)
    <3>1. 0 <= 40
      OBVIOUS
    <3> QED
      BY <2>6, <3>1, Zenon DEF root_in_place
  <2>8. 0 # -1
    OBVIOUS
  <2> HIDE DEF pos
  <2> QED
    BY <2>5, <2>7, <2>8, Zenon
<1>6. Goal
  BY <1>4, <1>5
<1> QED
  BY <1>6, Zenon DEF InPlace

\* A power of two less one is halved to nothing in as many rounds.
LEMMA PowerHeight ==
  ASSUME NEW h \in Nat
  PROVE  IsHeight(h, Pow2(h) - 1)
<1> DEFINE m == Pow2(h) - 1
           S == {k \in Nat : k <= h => Halved(m, k) = Pow2(h - k) - 1}
<1>1. m \in Nat
  BY PowerSteps
<1>2. 0 \in S
  <2>1. Halved(m, 0) = m /\ h - 0 = h
    BY <1>1, HalvedSteps
  <2> QED
    BY <2>1
<1>3. ASSUME NEW k \in Nat, k \in S
      PROVE  k + 1 \in S
  <2> SUFFICES ASSUME k + 1 <= h PROVE Halved(m, k + 1) = Pow2(h - (k + 1)) - 1
    OBVIOUS
  <2> DEFINE e == h - (k + 1)
             x == Pow2(e)
  <2>1. e \in Nat /\ h - k = e + 1 /\ Halved(m, k) = Pow2(h - k) - 1
    BY <1>3
  <2>2. Pow2(e + 1) = 2 * x /\ x \in Nat \ {0}
    BY <2>1, PowerSteps
  <2>3. Halved(m, k + 1) = Halved(m, k) \div 2
    BY <1>1, HalvedSteps
  <2> HIDE DEF m, e, x
  <2>4. Halved(m, k) = 2 * x - 1
    BY <2>1, <2>2
  <2>5. (2 * x - 1) \div 2 = x - 1
    BY <2>2
  <2> QED
    BY <2>3, <2>4, <2>5 DEF x, e
<1> HIDE DEF S
<1>4. Nat \subseteq S
  BY <1>2, <1>3, InductionOnNat
<1>5. \A k \in 0 .. h : Halved(m, k) = Pow2(h - k) - 1
  <2>1. \A k \in 0 .. h : k \in Nat /\ k <= h
    OBVIOUS
  <2> QED
    BY <1>4, <2>1 DEF S
<1>6. Halved(m, h) = 0
  <2>1. h \in 0 .. h /\ h - h = 0
    OBVIOUS
  <2>2. Halved(m, h) = Pow2(0) - 1
    BY <1>5, <2>1
  <2> QED
    BY <2>2, PowerSteps
<1>7. ASSUME NEW k \in 0 .. h - 1
      PROVE  Halved(m, k) > 0
  <2>1. k \in 0 .. h /\ h - k = (h - k - 1) + 1 /\ h - k - 1 \in Nat
    OBVIOUS
  <2> DEFINE x == Pow2(h - k - 1)
  <2>2. Pow2(h - k) = 2 * x /\ x \in Nat \ {0}
    BY <2>1, PowerSteps
  <2>3. Halved(m, k) = Pow2(h - k) - 1
    BY <1>5, <2>1
  <2> HIDE DEF x
  <2>4. Halved(m, k) = 2 * x - 1
    BY <2>2, <2>3
  <2> QED
    BY <2>2, <2>4
<1> QED
  BY <1>6, <1>7 DEF IsHeight

\* Arithmetic modulo a word at every step gives the same slot, which is one of
\* the tree's.
LEMMA SlotExpected ==
  ASSUME NEW nonce \in Nat, NEW h \in Nat
  PROVE  /\ get_expected_index(nonce, aux_chain_id, h) = Slot(nonce, h)
         /\ Slot(nonce, h) \in 0 .. Pow2(h) - 1
<1> DEFINE round(r) == r * 20077 + 12345
<1>1. Multiplier = 20077 /\ Word = 32768
  BY DEF Multiplier, Word
<1>2. \A r : rand_step(r) = round(r) % 32768
  BY <1>1 DEF rand_step
<1>3. ASSUME NEW r \in Nat
      PROVE  round(r) \in Nat /\ r % 32768 \in Nat /\ round(r % 32768) % 32768 = round(r) % 32768
  <2> DEFINE q == r \div 32768
             e == r % 32768
  <2>1. q \in Nat /\ e \in Nat /\ r = 32768 * q + e
    OBVIOUS
  <2> HIDE DEF q, e
  <2>2. round(r) = 32768 * (q * 20077) + round(e)
    BY <2>1
  <2>3. \A u, v \in Nat : (32768 * u + v) % 32768 = v % 32768
    OBVIOUS
  <2>4. q * 20077 \in Nat /\ round(e) \in Nat
    BY <2>1
  <2>5. round(r) % 32768 = round(e) % 32768
    BY <2>2, <2>3, <2>4
  <2> QED
    BY <2>1, <2>5 DEF e
<1>4. aux_chain_id \in Nat
  BY ChainAssumption
<1> DEFINE x == round(nonce)
           y == (x % 32768) + aux_chain_id
<1>5. Slot(nonce, h) = (round(y) % 32768) % Pow2(h)
  BY <1>1 DEF Slot
<1>6. get_expected_index(nonce, aux_chain_id, h)
        = rand_step((rand_step(nonce % 32768) + aux_chain_id) % 32768) % Pow2(h)
  BY <1>1 DEF get_expected_index
<1> HIDE DEF round
<1>7. y \in Nat
  <2>1. x \in Nat
    BY <1>3
  <2> HIDE DEF x
  <2>2. x % 32768 \in Nat
    BY <1>3, <2>1
  <2> QED
    BY <1>4, <2>2
<1>8. rand_step(nonce % 32768) = x % 32768
  BY <1>2, <1>3
<1> HIDE DEF x, y
<1>9. rand_step(y % 32768) = round(y) % 32768
  BY <1>2, <1>3, <1>7
<1>10. get_expected_index(nonce, aux_chain_id, h) = Slot(nonce, h)
  BY <1>5, <1>6, <1>8, <1>9 DEF y
<1> DEFINE u == round(y) % 32768
           v == Pow2(h)
<1>11. u \in Nat /\ v \in Nat \ {0}
  <2>1. round(y) \in Nat
    BY <1>3, <1>7
  <2>2. \A r \in Nat : r % 32768 \in Nat
    BY <1>3
  <2>3. u \in Nat
    BY <2>1, <2>2
  <2>4. v \in Nat \ {0}
    BY PowerSteps
  <2> QED
    BY <2>3, <2>4
<1> HIDE DEF u, v
<1>12. u % v \in 0 .. v - 1
  BY <1>11
<1> QED
  BY <1>5, <1>10, <1>12 DEF u, v

\* A mined tree has a where the generator puts it; the proof of a is as long as
\* the tree is high, and leads to its root.
LEMMA MinedTreeProof ==
  ASSUME NEW nonce \in Nat, NEW h \in Nat
  PROVE  LET tree == MinedTree(nonce, h)
             i == CHOOSE j \in DOMAIN tree : tree[j] = a
             pf == merkle_proof_calculator(Leaves(tree), i - 1)
         IN  /\ i - 1 = get_expected_index(nonce, aux_chain_id, h)
             /\ Len(pf) = h
             /\ compute_root_from_merkle_proof(block_hash(a), i - 1, pf)
                  = MerkleRoot(Leaves(tree))
<1> DEFINE tree == MinedTree(nonce, h)
           slot == Slot(nonce, h)
           m == Pow2(h)
           i == CHOOSE j \in DOMAIN tree : tree[j] = a
           L == Leaves(tree)
           pf == merkle_proof_calculator(L, i - 1)
<1>1. slot = get_expected_index(nonce, aux_chain_id, h) /\ slot \in 0 .. m - 1 /\ m \in Nat \ {0}
  BY SlotExpected, PowerSteps
<1>2. tree = [j \in 1 .. m |-> IF j = slot + 1 THEN a ELSE c]
  BY Zenon DEF MinedTree
<1>3. a # c
  <2>1. a.merkle_root = <<"a">> /\ c.merkle_root = <<"c">>
    BY DEF a, c, HeaderOf
  <2>2. <<"a">> # <<"c">>
    OBVIOUS
  <2> QED
    BY <2>1, <2>2
<1> HIDE DEF tree, slot, m
<1>4. DOMAIN tree = 1 .. m /\ slot + 1 \in 1 .. m /\ tree[slot + 1] = a
      /\ \A j \in 1 .. m : tree[j] = a => j = slot + 1
  BY <1>1, <1>2, <1>3
<1>5. i = slot + 1
  <2>1. i \in DOMAIN tree /\ tree[i] = a
    BY <1>4
  <2> HIDE DEF i
  <2> QED
    BY <1>4, <2>1
<1>6. i - 1 = slot /\ i - 1 \in 0 .. m - 1 /\ (i - 1) + 1 = i
  <2> HIDE DEF i
  <2> QED
    BY <1>1, <1>5
<1>7. IsList(L, m)
  BY <1>1, <1>4, LeavesList
<1>8. L[i] = block_hash(a)
  BY <1>4, <1>5, Zenon DEF Leaves
<1> HIDE DEF i, L
<1>9. Len(pf) = h
  <2>1. Len(pf) = rounds(L) /\ rounds(L) \in Nat
    BY <1>6, <1>7, CalculatedProof
  <2>2. IsHeight(rounds(L), m - 1)
    BY <1>7, RoundsIsHeight
  <2>3. IsHeight(h, m - 1) /\ m - 1 \in Nat
    BY <1>1, PowerHeight DEF m
  <2>4. rounds(L) = h
    BY <2>1, <2>2, <2>3, HeightUnique
  <2> QED
    BY <2>1, <2>4
<1>10. compute_root_from_merkle_proof(block_hash(a), i - 1, pf) = MerkleRoot(L)
  <2>1. compute_root_from_merkle_proof(L[(i - 1) + 1], i - 1, pf) = MerkleRoot(L)
    BY <1>6, <1>7, CalculatedRoot
  <2> QED
    BY <1>6, <1>8, <2>1
<1> QED
  BY <1>1, <1>6, <1>9, <1>10 DEF tree, i, L

\* The coinbase is in the parent block.
LEMMA ParentProof ==
  ASSUME NEW s, NEW m \in Nat \ {0}
  PROVE  \E root : /\ Parent(s, m).header = HeaderOf(0, root, 5)
                   /\ compute_root_from_merkle_proof(compute_txid(s), 0, Parent(s, m).branch) = root
<1> DEFINE T == [i \in 1 .. m |-> IF i = 1 THEN compute_txid(s) ELSE <<i>>]
           root == MerkleRoot(T)
           pf == merkle_proof_calculator(T, 0)
<1>1. IsList(T, m) /\ T[1] = compute_txid(s)
  BY DEF IsList
<1>2. Parent(s, m) = [header |-> HeaderOf(0, root, 5), branch |-> pf]
  BY Zenon DEF Parent
<1> HIDE DEF T
<1>3. 0 \in 0 .. m - 1 /\ 0 + 1 = 1
  OBVIOUS
<1>4. compute_root_from_merkle_proof(T[0 + 1], 0, pf) = root
  BY <1>1, <1>3, CalculatedRoot
<1> HIDE DEF root, pf
<1>5. Parent(s, m).header = HeaderOf(0, root, 5) /\ Parent(s, m).branch = pf
  BY <1>2
<1> QED
  BY <1>1, <1>3, <1>4, <1>5, Zenon

\* The proof of a in a tree with this coinbase script.
MinedAux(tree, s, m) ==
  LET k == (CHOOSE j \in DOMAIN tree : tree[j] = a) - 1
  IN  [coinbase_tx |-> s, merkle_proof |-> Parent(s, m).branch,
       chain_merkle_proof |-> merkle_proof_calculator(Leaves(tree), k),
       chain_id |-> k, parent_block |-> Parent(s, m).header]

\* The relayer gets the header and its proof out of the node's answer.
LEMMA MinedRawParts ==
  ASSUME NEW nonce, NEW h, NEW marked, NEW m \in Nat \ {0}
  PROVE  LET got == get_aux_block_header(MinedRaw(nonce, h, marked, m))
         IN  /\ got.header = a
             /\ get_aux_data(got.aux)
                  = <<MinedAux(MinedTree(nonce, h), MinedScript(nonce, h, marked), m)>>
<1> DEFINE s == MinedScript(nonce, h, marked)
           tree == MinedTree(nonce, h)
           i == CHOOSE j \in DOMAIN tree : tree[j] = a
           raw == MinedRaw(nonce, h, marked, m)
           pf == merkle_proof_calculator(Leaves(tree), i - 1)
           br == Parent(s, m).branch
           ph == Parent(s, m).header
           k == i - 1
           bv == get_block_header_vec(a)
           bh == block_hash(ph)
           pv == get_block_header_vec(ph)
<1>1. raw = <<bv, s, bh, br, 0, pf, k, pv>>
  BY Zenon DEF MinedRaw
<1>2. from_block_header_vec(bv) = a
  BY HeaderOfBytes, Zenon DEF a
<1>3. from_block_header_vec(pv) = ph
  <2>1. PICK root : ph = HeaderOf(0, root, 5)
    BY ParentProof
  <2> HIDE DEF ph
  <2> QED
    BY <2>1, HeaderOfBytes, Zenon
<1> HIDE DEF s, pf, br, ph, k, bv, bh, pv, raw
<1>4. /\ Len(raw) # 1 /\ raw[1] = bv /\ raw[2] = s /\ raw[3] = bh /\ raw[4] = br /\ raw[5] = 0
      /\ raw[6] = pf /\ raw[7] = k /\ raw[8] = pv
  BY <1>1
<1> DEFINE x == [coinbase_tx |-> s, parent_block_hash |-> bh,
                 merkle_branch |-> br, merkle_index |-> 0,
                 chainmerkle_branch |-> pf, chain_index |-> k, parent_block |-> ph]
           got == get_aux_block_header(raw)
           aux == [coinbase_tx |-> s, merkle_proof |-> br, chain_merkle_proof |-> pf,
                   chain_id |-> k, parent_block |-> ph]
<1>5. got = [header |-> a, aux |-> <<x>>]
  BY <1>2, <1>3, <1>4, Zenon DEF get_aux_block_header
<1>6. got.header = a /\ got.aux = <<x>>
  <2> HIDE DEF got, x
  <2> QED
    BY <1>5
<1>7. get_aux_data(<<x>>) = <<aux>>
  <2>1. x.coinbase_tx = s /\ x.merkle_branch = br /\ x.chainmerkle_branch = pf
        /\ x.chain_index = k /\ x.parent_block = ph
    OBVIOUS
  <2> HIDE DEF x
  <2>2. DOMAIN <<x>> = 1 .. 1 /\ \A j \in 1 .. 1 : <<x>>[j] = x
    OBVIOUS
  <2>3. get_aux_data(<<x>>) = [j \in 1 .. 1 |-> aux]
    BY <2>1, <2>2, Zenon DEF get_aux_data
  <2> HIDE DEF aux
  <2>4. [j \in 1 .. 1 |-> aux] = <<aux>>
    OBVIOUS
  <2> QED
    BY <2>3, <2>4, Zenon
<1>8. aux = MinedAux(tree, s, m)
  BY Zenon DEF MinedAux, pf, br, ph, k
<1> QED
  BY <1>6, <1>7, <1>8, Zenon DEF s, raw

\* The relayer and the contract accept a node's answer.
RawAccepted(raw) ==
  LET got == get_aux_block_header(raw) IN pow_accepted(got.header, get_aux_data(got.aux))

\* A mined header is accepted, in a tree of any height that check_aux admits.
LEMMA MinedAccepted ==
  ASSUME NEW nonce \in Nat, NEW h \in 0 .. 30, NEW marked \in BOOLEAN, NEW m \in Nat \ {0}
  PROVE  RawAccepted(MinedRaw(nonce, h, marked, m))
<1> DEFINE s == MinedScript(nonce, h, marked)
           tree == MinedTree(nonce, h)
           i == CHOOSE j \in DOMAIN tree : tree[j] = a
           k == i - 1
           pf == merkle_proof_calculator(Leaves(tree), k)
           r == MerkleRoot(Leaves(tree))
           br == Parent(s, m).branch
           ph == Parent(s, m).header
           x == [coinbase_tx |-> s, merkle_proof |-> br, chain_merkle_proof |-> pf,
                 chain_id |-> k, parent_block |-> ph]
           got == get_aux_block_header(MinedRaw(nonce, h, marked, m))
           pos == find(s, "hash", r)
<1>1. h \in Nat /\ h <= 30
  OBVIOUS
<1>2. got.header = a /\ get_aux_data(got.aux) = <<x>>
  <2>1. x = MinedAux(tree, s, m)
    BY Zenon DEF MinedAux
  <2> HIDE DEF x
  <2> QED
    BY <2>1, MinedRawParts, Zenon
<1>3. /\ k = get_expected_index(nonce, aux_chain_id, h) /\ Len(pf) = h
      /\ compute_root_from_merkle_proof(block_hash(a), k, pf) = r
  BY <1>1, MinedTreeProof, Zenon
<1>4. /\ pos # -1 /\ root_in_place(s, pos) /\ len(s) - (pos + 64) >= 16
      /\ number_at(s, pos + 64, (pos + 64) + 8) = Pow2(h)
      /\ number_at(s, (pos + 64) + 8, (pos + 64) + 16) = nonce
  <2>1. InPlace(s, r, Pow2(h), nonce)
    BY MinedScriptReads
  <2> QED
    BY <2>1, Zenon DEF InPlace
<1>5. PICK root : /\ ph = HeaderOf(0, root, 5)
                  /\ compute_root_from_merkle_proof(compute_txid(s), 0, br) = root
  BY ParentProof, Zenon
<1> HIDE DEF s, k, pf, r, br, ph, got
<1>6. /\ x.coinbase_tx = s /\ x.merkle_proof = br /\ x.chain_merkle_proof = pf
      /\ x.chain_id = k /\ x.parent_block = ph
  OBVIOUS
<1> HIDE DEF x
<1>7. a.version = aux_chain_id * 65536 + 256 /\ a.bits = 5
  BY DEF a, HeaderOf
<1>8. ph.version = 0 * 65536 + 256 /\ ph.merkle_root = root /\ ph.nonce = 5
  BY <1>5 DEF HeaderOf
<1>9. (a.version \div 256) % 2 = 1 /\ get_chain_id(a) = aux_chain_id
  <2>1. ASSUME NEW v \in Nat
        PROVE  ((v * 65536 + 256) \div 256) % 2 = 1 /\ (v * 65536 + 256) \div 65536 = v
    OBVIOUS
  <2>2. aux_chain_id \in Nat
    BY ChainAssumption
  <2>3. /\ ((aux_chain_id * 65536 + 256) \div 256) % 2 = 1
        /\ (aux_chain_id * 65536 + 256) \div 65536 = aux_chain_id
    BY <2>1, <2>2
  <2> QED
    BY <1>7, <2>3 DEF get_chain_id
<1>10. get_chain_id(ph) # aux_chain_id
  <2>1. (0 * 65536 + 256) \div 65536 = 0
    OBVIOUS
  <2>2. get_chain_id(ph) = 0
    BY <1>8, <2>1 DEF get_chain_id
  <2> QED
    BY <2>2, ChainAssumption
<1>11. pow_hash_meets(ph, a.bits)
  BY <1>7, <1>8 DEF pow_hash_meets
<1>12. compute_root_from_merkle_proof(compute_txid(s), 0, br) = ph.merkle_root
  BY <1>5, <1>8
<1>13. k = get_expected_index(nonce, get_chain_id(a), h)
  BY <1>3, <1>9
<1> HIDE DEF pos
<1>14. check_aux(a, x)
  <2>1. compute_root_from_merkle_proof(block_hash(a), x.chain_id, x.chain_merkle_proof) = r
    BY <1>3, <1>6, Zenon
  <2>2. find(x.coinbase_tx, "hash", r) = pos
    BY <1>6, Zenon DEF pos
  <2> QED
    BY <1>1, <1>3, <1>4, <1>6, <1>9, <1>10, <1>11, <1>12, <1>13, <2>1, <2>2, Zenon DEF check_aux
<1>15. <<x>> # <<>> /\ <<x>>[1] = x
  OBVIOUS
<1>16. pow_accepted(a, <<x>>)
  BY <1>14, <1>15, Zenon DEF pow_accepted
<1> QED
  BY <1>2, <1>16, Zenon DEF got, RawAccepted

\* A header mined with another chain's block passes, for parents of any number
\* of transactions and every nonce.
THEOREM MinedTheorem == Spec => []MinedProofAccepted
<1>1. Ranges => MinedProofAccepted
  <2> SUFFICES ASSUME Ranges PROVE MinedProofAccepted
    OBVIOUS
  <2>1. ASSUME NEW h \in 0 .. 3, NEW marked \in BOOLEAN
        PROVE  RawAccepted(MinedRaw(index * 1637, h, marked, n))
    <3>1. n \in Nat \ {0} /\ index * 1637 \in Nat /\ h \in 0 .. 30
      BY GridAssumption DEF Ranges
    <3> QED
      BY <3>1, MinedAccepted
  <2> QED
    BY <2>1, Zenon DEF MinedProofAccepted, RawAccepted
<1> QED
  BY <1>1, RangesHold, PTL
=============================================================================
