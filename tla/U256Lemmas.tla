----------------------------- MODULE U256Lemmas -----------------------------
(***************************************************************************)
(* The operations of btc-types/src/u256.rs and the compact form of         *)
(* btc-types/src/utils.rs compute what integer arithmetic does, for limbs  *)
(* of every even width and bytes of every width that divides them.         *)
(***************************************************************************)
EXTENDS U256, TLAPS, WellFoundedInduction

-----------------------------------------------------------------------------
(***************************************************************************)
(* Powers of two.                                                          *)
(***************************************************************************)

\* Induction on the natural numbers, as membership in a set.
LEMMA NatSetInduction ==
  ASSUME NEW S, 0 \in S, \A n \in Nat : n \in S => n + 1 \in S
  PROVE  Nat \subseteq S
<1> SUFFICES ASSUME Nat \ S # {} PROVE FALSE
  OBVIOUS
<1> DEFINE R == OpToRel(<, Nat)
           T == Nat \ S
<1>1. IsWellFoundedOn(R, Nat)
  BY NatLessThanWellFounded, Zenon DEF R
<1>2. T \subseteq Nat /\ T # {}
  OBVIOUS
<1> HIDE DEF R, T
<1>3. PICK n \in T : \A k \in T : ~(<<k, n>> \in R)
  BY <1>1, <1>2, WFMin
<1>4. n \in Nat /\ n # 0 /\ n - 1 \in Nat /\ n - 1 < n /\ (n - 1) + 1 = n
  BY <1>3 DEF T
<1>5. n - 1 \in T
  BY <1>3, <1>4 DEF T
<1>6. <<n - 1, n>> \in R
  BY <1>4 DEF R, OpToRel
<1> QED
  BY <1>3, <1>5, <1>6

\* The doublings up to 2^n.
Doubles(g, n) == g = [k \in 0 .. n |-> IF k = 0 THEN 1 ELSE 2 * g[k - 1]]

\* Such a function exists, with positive values.
LEMMA DoublesExist ==
  ASSUME NEW n \in Nat
  PROVE  \E g \in [0 .. n -> Nat \ {0}] : Doubles(g, n)
<1> DEFINE S == {j \in Nat : \E g \in [0 .. j -> Nat \ {0}] : Doubles(g, j)}
<1>1. 0 \in S
  <2> DEFINE g == [k \in 0 .. 0 |-> 1]
  <2>1. g \in [0 .. 0 -> Nat \ {0}]
    OBVIOUS
  <2>2. Doubles(g, 0)
    BY DEF Doubles
  <2> QED
    BY <2>1, <2>2
<1>2. ASSUME NEW j \in Nat, j \in S
      PROVE  j + 1 \in S
  <2>1. PICK g \in [0 .. j -> Nat \ {0}] : Doubles(g, j)
    BY <1>2
  <2> DEFINE h == [k \in 0 .. j + 1 |-> IF k = j + 1 THEN 2 * g[j] ELSE g[k]]
  <2>2. g[j] \in Nat \ {0} /\ 2 * g[j] \in Nat \ {0}
    BY <2>1
  <2>3. h \in [0 .. j + 1 -> Nat \ {0}]
    BY <2>1, <2>2
  <2>4. ASSUME NEW k \in 0 .. j + 1
        PROVE  h[k] = IF k = 0 THEN 1 ELSE 2 * h[k - 1]
    <3>1. CASE k = j + 1
      <4>1. k # 0 /\ k - 1 = j /\ j \in 0 .. j + 1 /\ j # j + 1
        BY <3>1
      <4> QED
        BY <3>1, <4>1
    <3>2. CASE k # j + 1
      <4>1. k \in 0 .. j /\ g[k] = IF k = 0 THEN 1 ELSE 2 * g[k - 1]
        BY <2>1, <3>2 DEF Doubles
      <4>2. CASE k = 0
        BY <3>2, <4>1, <4>2
      <4>3. CASE k # 0
        <5>1. k - 1 \in 0 .. j + 1 /\ k - 1 # j + 1
          BY <3>2, <4>3
        <5> QED
          BY <3>2, <4>1, <4>3, <5>1
      <4> QED
        BY <4>2, <4>3
    <3> QED
      BY <3>1, <3>2
  <2>5. h = [k \in 0 .. j + 1 |-> h[k]]
    OBVIOUS
  <2> HIDE DEF h
  <2>6. Doubles(h, j + 1)
    BY <2>4, <2>5 DEF Doubles
  <2> QED
    BY <2>3, <2>6
<1> HIDE DEF S
<1>3. n \in S
  BY <1>1, <1>2, NatSetInduction
<1> QED
  BY <1>3 DEF S

\* Two of them agree where both are defined.
LEMMA DoublesAgree ==
  ASSUME NEW n \in Nat, NEW j \in Nat, NEW g, NEW h, Doubles(g, n), Doubles(h, j),
         NEW k \in Nat, k <= n, k <= j
  PROVE  g[k] = h[k]
<1> DEFINE S == {l \in Nat : l <= n /\ l <= j => g[l] = h[l]}
<1>1. 0 \in S
  BY DEF Doubles
<1>2. ASSUME NEW l \in Nat, l \in S
      PROVE  l + 1 \in S
  <2> SUFFICES ASSUME l + 1 <= n, l + 1 <= j PROVE g[l + 1] = h[l + 1]
    OBVIOUS
  <2>1. l + 1 \in 0 .. n /\ l + 1 \in 0 .. j /\ (l + 1) - 1 = l /\ l + 1 # 0
    OBVIOUS
  <2>2. g[l] = h[l]
    BY <1>2
  <2>3. g[l + 1] = 2 * g[l]
    BY <2>1 DEF Doubles
  <2>4. h[l + 1] = 2 * h[l]
    BY <2>1 DEF Doubles
  <2> QED
    BY <2>2, <2>3, <2>4
<1> HIDE DEF S
<1>3. k \in S
  BY <1>1, <1>2, NatSetInduction
<1> QED
  BY <1>3 DEF S

\* Pow2 reads any of them.
LEMMA Pow2Reads ==
  ASSUME NEW n \in Nat, NEW j \in Nat, n <= j, NEW g, Doubles(g, j)
  PROVE  Pow2(n) = g[n]
<1> DEFINE p == CHOOSE f : f = [k \in 0 .. n |-> IF k = 0 THEN 1 ELSE 2 * f[k - 1]]
<1>1. p = [k \in 0 .. n |-> IF k = 0 THEN 1 ELSE 2 * p[k - 1]]
  <2>1. \E f : f = [k \in 0 .. n |-> IF k = 0 THEN 1 ELSE 2 * f[k - 1]]
    BY DoublesExist DEF Doubles
  <2> QED
    BY <2>1
<1>2. Pow2(n) = p[n]
  BY Zenon DEF Pow2
<1> HIDE DEF p
<1>3. Doubles(p, n)
  BY <1>1 DEF Doubles
<1> QED
  BY <1>2, <1>3, DoublesAgree

\* Powers of two are positive.
LEMMA Pow2Type ==
  ASSUME NEW n \in Nat
  PROVE  Pow2(n) \in Nat \ {0}
<1>1. PICK g \in [0 .. n -> Nat \ {0}] : Doubles(g, n)
  BY DoublesExist
<1>2. Pow2(n) = g[n]
  BY <1>1, Pow2Reads
<1> QED
  BY <1>1, <1>2

\* The first power of two.
LEMMA Pow2Zero == Pow2(0) = 1
<1>1. PICK g \in [0 .. 0 -> Nat \ {0}] : Doubles(g, 0)
  BY DoublesExist
<1>2. Pow2(0) = g[0]
  BY <1>1, Pow2Reads
<1> QED
  BY <1>1, <1>2 DEF Doubles

\* Each power of two is twice the one before.
LEMMA Pow2Step ==
  ASSUME NEW n \in Nat
  PROVE  Pow2(n + 1) = 2 * Pow2(n)
<1>0. n + 1 \in Nat
  OBVIOUS
<1>1. PICK g \in [0 .. n + 1 -> Nat \ {0}] : Doubles(g, n + 1)
  BY <1>0, DoublesExist
<1>2. Pow2(n + 1) = g[n + 1] /\ Pow2(n) = g[n]
  BY <1>1, Pow2Reads
<1>3. n + 1 \in 0 .. n + 1 /\ n + 1 # 0 /\ (n + 1) - 1 = n
  OBVIOUS
<1>4. g[n + 1] = 2 * g[n]
  BY <1>1, <1>3 DEF Doubles
<1> QED
  BY <1>2, <1>4

\* Exponents add.
LEMMA Pow2Add ==
  ASSUME NEW n \in Nat, NEW j \in Nat
  PROVE  Pow2(n + j) = Pow2(n) * Pow2(j)
<1> DEFINE S == {k \in Nat : Pow2(n + k) = Pow2(n) * Pow2(k)}
<1>1. 0 \in S
  <2>1. Pow2(n) \in Nat /\ n + 0 = n
    BY Pow2Type
  <2> QED
    BY <2>1, Pow2Zero
<1>2. ASSUME NEW k \in Nat, k \in S
      PROVE  k + 1 \in S
  <2>1. Pow2(n + k) = Pow2(n) * Pow2(k)
    BY <1>2
  <2>2. Pow2(k + 1) = 2 * Pow2(k)
    BY Pow2Step
  <2>3. Pow2((n + k) + 1) = 2 * Pow2(n + k)
    BY Pow2Step
  <2>4. Pow2(n) \in Nat /\ Pow2(k) \in Nat /\ n + (k + 1) = (n + k) + 1
    BY Pow2Type
  <2>5. Pow2(n) * (2 * Pow2(k)) = 2 * (Pow2(n) * Pow2(k))
    BY <2>4
  <2> QED
    BY <2>1, <2>2, <2>3, <2>4, <2>5
<1> HIDE DEF S
<1>3. j \in S
  BY <1>1, <1>2, NatSetInduction
<1> QED
  BY <1>3 DEF S

\* Larger exponents give larger powers.
LEMMA Pow2Mono ==
  ASSUME NEW n \in Nat, NEW j \in Nat, n <= j
  PROVE  Pow2(n) <= Pow2(j)
<1>1. j - n \in Nat /\ n + (j - n) = j
  OBVIOUS
<1>2. Pow2(j) = Pow2(n) * Pow2(j - n)
  BY <1>1, Pow2Add
<1>3. Pow2(n) \in Nat /\ Pow2(j - n) \in Nat \ {0}
  BY <1>1, Pow2Type
<1>4. ASSUME NEW u \in Nat, NEW v \in Nat \ {0} PROVE u <= u * v
  OBVIOUS
<1> QED
  BY <1>2, <1>3, <1>4

-----------------------------------------------------------------------------
(***************************************************************************)
(* Quotients and remainders.                                               *)
(***************************************************************************)

\* Euclid.
LEMMA DivMod ==
  ASSUME NEW n \in Int, NEW d \in Nat \ {0}
  PROVE  /\ n \div d \in Int /\ n % d \in 0 .. d - 1
         /\ n = (n \div d) * d + (n % d)
OBVIOUS

\* A number written as quotient times divisor plus a remainder has that quotient and that remainder.
LEMMA DivModUnique ==
  ASSUME NEW d \in Nat \ {0}, NEW q \in Int, NEW r \in 0 .. d - 1
  PROVE  (q * d + r) \div d = q /\ (q * d + r) % d = r
OBVIOUS

\* The quotient of a natural number is one, and below q for a number below q * d.
LEMMA DivBounds ==
  ASSUME NEW n \in Nat, NEW d \in Nat \ {0}
  PROVE  /\ n \div d \in Nat
         /\ \A q \in Nat : n < q * d => n \div d < q
         /\ \A q \in Nat : q * d <= n => q <= n \div d
<1> DEFINE e == n \div d
           r == n % d
<1>1. e \in Int /\ r \in 0 .. d - 1 /\ n = e * d + r
  BY DivMod
<1> HIDE DEF e, r
<1>2. e \in Nat
  <2> SUFFICES ASSUME e <= -1 PROVE FALSE
    BY <1>1
  <2>1. e * d <= -d
    BY <1>1
  <2> QED
    BY <1>1, <2>1
<1>3. ASSUME NEW q \in Nat, n < q * d PROVE e < q
  <2> SUFFICES ASSUME e >= q PROVE FALSE
    BY <1>1
  <2>1. e * d >= q * d
    BY <1>2
  <2> QED
    BY <1>1, <1>3, <2>1
<1>4. ASSUME NEW q \in Nat, q * d <= n PROVE q <= e
  <2> SUFFICES ASSUME e + 1 <= q PROVE FALSE
    BY <1>1
  <2>1. (e + 1) * d <= q * d
    BY <1>2
  <2> QED
    BY <1>1, <1>4, <2>1
<1> QED
  BY <1>2, <1>3, <1>4 DEF e

\* Euclid, for natural numbers.
LEMMA DivModNat ==
  ASSUME NEW n \in Nat, NEW d \in Nat \ {0}
  PROVE  /\ n \div d \in Nat /\ n % d \in Nat /\ n % d < d
         /\ n = (n \div d) * d + (n % d)
<1>1. n \in Int
  OBVIOUS
<1>2. n % d \in 0 .. d - 1 /\ n = (n \div d) * d + (n % d)
  BY <1>1, DivMod
<1>3. n \div d \in Nat
  BY DivBounds
<1> QED
  BY <1>2, <1>3

\* A multiple of the modulus does not change a remainder, nor does taking the
\* remainder of a summand first.
LEMMA ModShift ==
  ASSUME NEW n \in Int, NEW q \in Int, NEW d \in Nat \ {0}
  PROVE  (q * d + n) % d = n % d
<1> DEFINE e == n \div d
           r == n % d
<1>1. e \in Int /\ r \in 0 .. d - 1 /\ n = e * d + r
  BY DivMod
<1> HIDE DEF e, r
<1>2. q + e \in Int /\ q * d + n = (q + e) * d + r
  BY <1>1
<1>3. ((q + e) * d + r) % d = r
  BY <1>1, <1>2, DivModUnique
<1> QED
  BY <1>2, <1>3 DEF r

\* A sum may be reduced before the addition or after it.
LEMMA ModAdd ==
  ASSUME NEW n \in Int, NEW j \in Int, NEW d \in Nat \ {0}
  PROVE  ((n % d) + j) % d = (n + j) % d
<1> DEFINE e == n \div d
           r == n % d
<1>1. e \in Int /\ r \in 0 .. d - 1 /\ n = e * d + r
  BY DivMod
<1> HIDE DEF e, r
<1>2. n + j = e * d + (r + j) /\ r + j \in Int
  BY <1>1
<1>3. (e * d + (r + j)) % d = (r + j) % d
  BY <1>1, <1>2, ModShift
<1> QED
  BY <1>2, <1>3 DEF r

\* A remainder is below the modulus, and a number below it is its own.
LEMMA ModSmall ==
  ASSUME NEW d \in Nat \ {0}, NEW n \in 0 .. d - 1
  PROVE  n % d = n /\ n \div d = 0
OBVIOUS

-----------------------------------------------------------------------------
(***************************************************************************)
(* Limbs.                                                                  *)
(***************************************************************************)

Limb == 0 .. Base - 1

\* The limb's base is the square of its half, as the carry of overflowing_mul relies on.
LEMMA BaseType ==
  Base \in Nat \ {0} /\ Half \in Nat \ {0} /\ Base = Half * Half /\ Size \in Nat \ {0}
<1>1. LimbBits \in Nat /\ LimbBits \div 2 \in Nat
      /\ (LimbBits \div 2) + (LimbBits \div 2) = LimbBits
  BY WidthsAssumption
<1>2. Base = Half * Half
  BY <1>1, Pow2Add DEF Base, Half
<1>3. Base \in Nat \ {0} /\ Half \in Nat \ {0}
  BY <1>1, Pow2Type DEF Base, Half
<1>4. Base * Base \in Nat \ {0}
  BY <1>3
<1> QED
  BY <1>2, <1>3, <1>4 DEF Size

\* A pair of limbs and the number it stands for.
LEMMA PairValue ==
  ASSUME NEW h \in Limb, NEW l \in Limb
  PROVE  /\ h * Base + l \in 0 .. Size - 1
         /\ Of(h * Base + l) = <<h, l>>
         /\ Val(<<h, l>>) = h * Base + l
<1>1. Base \in Nat \ {0} /\ h \in 0 .. Base - 1 /\ l \in 0 .. Base - 1
  BY BaseType DEF Limb
<1>2. h * Base <= (Base - 1) * Base /\ (Base - 1) * Base = Base * Base - Base
      /\ h * Base \in Nat /\ Base * Base \in Nat
  BY <1>1
<1>3. h * Base + l \in 0 .. Base * Base - 1
  BY <1>1, <1>2
<1>4. (h * Base + l) \div Base = h /\ (h * Base + l) % Base = l
  BY <1>1, DivModUnique
<1> QED
  BY <1>3, <1>4 DEF Of, Val, Size

\* The limbs of a number.
LEMMA NumberLimbs ==
  ASSUME NEW n \in 0 .. Size - 1
  PROVE  \E h \in Limb, l \in Limb : n = h * Base + l /\ Of(n) = <<h, l>>
<1> DEFINE h == n \div Base
           l == n % Base
<1>1. Base \in Nat \ {0} /\ n \in Nat /\ n < Base * Base
  BY BaseType DEF Size
<1>2. h \in Int /\ l \in 0 .. Base - 1 /\ n = h * Base + l
  BY <1>1, DivMod
<1>3. h \in Nat /\ h < Base
  BY <1>1, DivBounds
<1>4. h \in Limb /\ l \in Limb
  BY <1>1, <1>2, <1>3 DEF Limb
<1>5. Of(n) = <<h, l>>
  BY DEF Of
<1> QED
  BY <1>2, <1>4, <1>5

\* Reading back the limbs of a number gives the number.
LEMMA ValOf ==
  ASSUME NEW n \in 0 .. Size - 1
  PROVE  Val(Of(n)) = n
<1>1. PICK h \in Limb, l \in Limb : n = h * Base + l /\ Of(n) = <<h, l>>
  BY NumberLimbs
<1> QED
  BY <1>1, PairValue

\* A number whose high part need not fit, wrapped to the width.
LEMMA Wrapped ==
  ASSUME NEW u \in Int, NEW l \in Limb
  PROVE  Of((u * Base + l) % Size) = <<u % Base, l>>
<1> DEFINE e == u \div Base
           r == u % Base
<1>1. Base \in Nat \ {0} /\ l \in 0 .. Base - 1 /\ Size \in Nat \ {0}
  BY BaseType DEF Limb
<1>2. e \in Int /\ r \in 0 .. Base - 1 /\ u = e * Base + r
  BY <1>1, DivMod
<1> HIDE DEF e, r
<1>3. r \in Limb
  BY <1>2 DEF Limb
<1>4. r * Base + l \in 0 .. Size - 1 /\ Of(r * Base + l) = <<r, l>>
  BY <1>3, PairValue
<1>5. u * Base + l = e * Size + (r * Base + l)
  <2>1. (e * Base + r) * Base = e * (Base * Base) + r * Base
    BY <1>1, <1>2
  <2> QED
    BY <1>1, <1>2, <2>1 DEF Size
<1>6. (e * Size + (r * Base + l)) % Size = r * Base + l
  BY <1>1, <1>2, <1>4, DivModUnique
<1> QED
  BY <1>4, <1>5, <1>6 DEF r

\* A number is too large for the width when its high part is too large for a limb.
LEMMA SizeBound ==
  ASSUME NEW u \in Nat, NEW l \in Limb
  PROVE  u * Base + l >= Size <=> u >= Base
<1>1. Base \in Nat \ {0} /\ l \in 0 .. Base - 1
  BY BaseType DEF Limb
<1>2. CASE u >= Base
  <2>1. u * Base >= Base * Base /\ u * Base \in Int /\ Base * Base \in Int
    BY <1>1, <1>2
  <2> QED
    BY <1>1, <1>2, <2>1 DEF Size
<1>3. CASE u <= Base - 1
  <2>1. u * Base <= (Base - 1) * Base /\ (Base - 1) * Base = Base * Base - Base
    BY <1>1, <1>3
  <2>2. u * Base \in Int /\ Base * Base \in Int
    BY <1>1
  <2> QED
    BY <1>1, <1>3, <2>1, <2>2 DEF Size
<1> QED
  BY <1>1, <1>2, <1>3

-----------------------------------------------------------------------------
(***************************************************************************)
(* Addition and subtraction.                                               *)
(***************************************************************************)

\* The order of pairs is the order of their numbers.
LEMMA LeIsLe ==
  ASSUME NEW m \in 0 .. Size - 1, NEW n \in 0 .. Size - 1
  PROVE  Le(Of(m), Of(n)) <=> m <= n
<1>1. PICK a1 \in Limb, a2 \in Limb : m = a1 * Base + a2 /\ Of(m) = <<a1, a2>>
  BY NumberLimbs
<1>2. PICK b1 \in Limb, b2 \in Limb : n = b1 * Base + b2 /\ Of(n) = <<b1, b2>>
  BY NumberLimbs
<1>3. Base \in Nat \ {0} /\ a1 \in 0 .. Base - 1 /\ a2 \in 0 .. Base - 1
      /\ b1 \in 0 .. Base - 1 /\ b2 \in 0 .. Base - 1
  BY BaseType DEF Limb
<1>4. Le(Of(m), Of(n)) <=> a1 < b1 \/ (a1 = b1 /\ a2 <= b2)
  BY <1>1, <1>2 DEF Le
<1>5. ASSUME NEW g \in 0 .. Base - 1, NEW h \in 0 .. Base - 1, g < h
      PROVE  g * Base + Base <= h * Base
  <2>1. g + 1 <= h /\ (g + 1) * Base = g * Base + Base
    BY <1>3, <1>5
  <2>2. (g + 1) * Base <= h * Base
    BY <1>3, <2>1
  <2> QED
    BY <2>1, <2>2
<1>6. a1 * Base \in Int /\ b1 * Base \in Int
  BY <1>3
<1>7. CASE a1 < b1
  BY <1>1, <1>2, <1>3, <1>4, <1>5, <1>6, <1>7
<1>8. CASE b1 < a1
  BY <1>1, <1>2, <1>3, <1>4, <1>5, <1>6, <1>8
<1>9. CASE a1 = b1
  BY <1>1, <1>2, <1>3, <1>4, <1>6, <1>9
<1> QED
  BY <1>3, <1>7, <1>8, <1>9

\* overflowing_add is addition: the carry of the low limbs is at most one.
LEMMA AddExact ==
  ASSUME NEW m \in 0 .. Size - 1, NEW n \in 0 .. Size - 1
  PROVE  overflowing_add(Of(m), Of(n)) =
           [val |-> Of((m + n) % Size), overflow |-> m + n >= Size]
<1>1. PICK a1 \in Limb, a2 \in Limb : m = a1 * Base + a2 /\ Of(m) = <<a1, a2>>
  BY NumberLimbs
<1>2. PICK b1 \in Limb, b2 \in Limb : n = b1 * Base + b2 /\ Of(n) = <<b1, b2>>
  BY NumberLimbs
<1>3. Base \in Nat \ {0} /\ a1 \in 0 .. Base - 1 /\ a2 \in 0 .. Base - 1
      /\ b1 \in 0 .. Base - 1 /\ b2 \in 0 .. Base - 1
  BY BaseType DEF Limb
<1> DEFINE carry == (a2 + b2) \div Base
           low   == (a2 + b2) % Base
           high  == (a1 + b1) % Base
<1>0. a1 + b1 \in Nat /\ a2 + b2 \in Nat /\ a1 + b1 \in Int /\ a2 + b2 \in Int
  BY <1>3
<1>4. carry \in Int /\ low \in 0 .. Base - 1 /\ a2 + b2 = carry * Base + low
  BY <1>0, <1>3, DivMod
<1>5. carry \in Nat
  BY <1>0, <1>3, DivBounds
<1>6. overflowing_add(Of(m), Of(n)) =
        [val      |-> <<(high + carry) % Base, low>>,
         overflow |-> a1 + b1 >= Base \/ high + carry >= Base]
  BY <1>1, <1>2 DEF overflowing_add
<1>7. high \in 0 .. Base - 1 /\ (a1 + b1 < Base => high = a1 + b1)
  <2>1. high \in 0 .. Base - 1
    BY <1>0, <1>3, DivMod
  <2>2. a1 + b1 < Base => a1 + b1 \in 0 .. Base - 1
    BY <1>0, <1>3
  <2> QED
    BY <1>3, <2>1, <2>2, ModSmall
<1>8. (high + carry) % Base = ((a1 + b1) + carry) % Base
  BY <1>0, <1>3, <1>4, ModAdd
<1> HIDE DEF carry, low, high
<1> DEFINE u == a1 + b1 + carry
<1>9. u \in Nat /\ m + n = u * Base + low
  <2>1. u * Base = a1 * Base + b1 * Base + carry * Base
    BY <1>3, <1>4
  <2>2. a1 * Base \in Int /\ b1 * Base \in Int /\ carry * Base \in Int
    BY <1>3, <1>4
  <2> QED
    BY <1>1, <1>2, <1>3, <1>4, <1>5, <2>1, <2>2
<1>10. Of((m + n) % Size) = <<u % Base, low>>
  BY <1>4, <1>9, Wrapped DEF Limb
<1>11. m + n >= Size <=> u >= Base
  BY <1>4, <1>9, SizeBound DEF Limb
<1>12. (a1 + b1 >= Base \/ high + carry >= Base) <=> u >= Base
  BY <1>3, <1>5, <1>7
<1> HIDE DEF u
<1>13. (high + carry) % Base = u % Base
  BY <1>8 DEF u
<1>14. (a1 + b1 >= Base \/ high + carry >= Base) = (m + n >= Size)
  BY <1>11, <1>12
<1> QED
  BY <1>6, <1>10, <1>13, <1>14, Zenon

\* wrapping_add is addition modulo 2^256.
LEMMA WrappingAdd ==
  ASSUME NEW m \in 0 .. Size - 1, NEW n \in 0 .. Size - 1
  PROVE  wrapping_add(Of(m), Of(n)) = Of((m + n) % Size)
BY AddExact DEF wrapping_add

\* The complement of a number.
LEMMA NotExact ==
  ASSUME NEW n \in 0 .. Size - 1
  PROVE  Not(Of(n)) = Of(Size - 1 - n) /\ Size - 1 - n \in 0 .. Size - 1
<1>1. PICK h \in Limb, l \in Limb : n = h * Base + l /\ Of(n) = <<h, l>>
  BY NumberLimbs
<1>2. Base \in Nat \ {0} /\ h \in 0 .. Base - 1 /\ l \in 0 .. Base - 1 /\ Size \in Nat
  BY BaseType DEF Limb
<1>3. Base - 1 - h \in Limb /\ Base - 1 - l \in Limb
  BY <1>2 DEF Limb
<1>4. (Base - 1 - h) * Base + (Base - 1 - l) = Size - 1 - n
  <2>1. (Base - 1 - h) * Base = Base * Base - Base - h * Base
    BY <1>2
  <2>2. Base * Base \in Int /\ h * Base \in Int
    BY <1>2
  <2> QED
    BY <1>1, <1>2, <2>1, <2>2 DEF Size
<1>5. Not(Of(n)) = <<Base - 1 - h, Base - 1 - l>>
  BY <1>1 DEF Not
<1>6. Of((Base - 1 - h) * Base + (Base - 1 - l)) = <<Base - 1 - h, Base - 1 - l>>
  BY <1>3, PairValue
<1> QED
  BY <1>2, <1>4, <1>5, <1>6

\* The constants ONE and ZERO of the type are the limbs of 1 and 0.
LEMMA OneIsOne == ONE = Of(1) /\ ZERO = Of(0) /\ Base >= 2 /\ 1 \in 0 .. Size - 1
<1>1. LimbBits \in Nat /\ LimbBits - 1 \in Nat /\ (LimbBits - 1) + 1 = LimbBits
  BY WidthsAssumption
<1>2. Base = 2 * Pow2(LimbBits - 1) /\ Pow2(LimbBits - 1) \in Nat \ {0}
  BY <1>1, Pow2Step, Pow2Type DEF Base
<1>3. Base \in Nat /\ Base >= 2
  BY <1>2
<1>4. 0 \in Limb /\ 1 \in Limb /\ 0 * Base + 1 = 1 /\ 0 * Base + 0 = 0
  BY <1>3 DEF Limb
<1>5. Of(0 * Base + 1) = <<0, 1>> /\ Of(0 * Base + 0) = <<0, 0>>
      /\ 0 * Base + 1 \in 0 .. Size - 1
  BY <1>4, PairValue
<1> QED
  BY <1>3, <1>4, <1>5 DEF ONE, ZERO

\* overflowing_sub, self + !rhs + 1, is subtraction.
LEMMA SubExact ==
  ASSUME NEW m \in 0 .. Size - 1, NEW n \in 0 .. Size - 1
  PROVE  overflowing_sub(Of(m), Of(n)) =
           [val |-> Of((m - n) % Size), overflow |-> n > m]
<1> DEFINE c == Size - 1 - n
           s == (m + c) % Size
<1>1. Size \in Nat \ {0} /\ c \in 0 .. Size - 1 /\ Not(Of(n)) = Of(c)
  BY BaseType, NotExact
<1>0. m + c \in Int /\ m - n \in Int /\ 1 \in Int
  BY <1>1
<1>2. s \in 0 .. Size - 1
  BY <1>0, <1>1, DivMod
<1>3. wrapping_add(Of(m), Not(Of(n))) = Of(s)
  BY <1>1, WrappingAdd
<1>4. wrapping_add(Of(s), ONE) = Of((s + 1) % Size)
  BY <1>2, OneIsOne, WrappingAdd
<1>5. (s + 1) % Size = ((m + c) + 1) % Size
  BY <1>0, <1>1, ModAdd
<1>6. (m + c) + 1 = 1 * Size + (m - n)
  BY <1>1
<1>7. (1 * Size + (m - n)) % Size = (m - n) % Size
  BY <1>0, <1>1, ModShift
<1> HIDE DEF s
<1>8. wrapping_add(wrapping_add(Of(m), Not(Of(n))), ONE) = Of((m - n) % Size)
  BY <1>3, <1>4, <1>5, <1>6, <1>7
<1>9. (~Le(Of(n), Of(m))) = (n > m)
  <2>1. Le(Of(n), Of(m)) <=> n <= m
    BY LeIsLe
  <2>2. ~(n <= m) <=> n > m
    OBVIOUS
  <2> QED
    BY <2>1, <2>2
<1> QED
  BY <1>8, <1>9, Zenon DEF overflowing_sub

-----------------------------------------------------------------------------
(***************************************************************************)
(* Multiplication.                                                         *)
(***************************************************************************)

\* The carry taken from the upper half of the low limb is the carry of the
\* product, or one less.
LEMMA CarryBounds ==
  ASSUME NEW l \in Limb, NEW m \in 0 .. Half - 1
  PROVE  LET t == (l * m) \div Base
             g == ((l \div Half) * m) \div Half
         IN  t \in Nat /\ g \in Nat /\ g <= t /\ t <= g + 1
<1> DEFINE p == l \div Half
           s == l % Half
           g == (p * m) \div Half
           r == (p * m) % Half
           t == (l * m) \div Base
<1>1. Base \in Nat \ {0} /\ Half \in Nat \ {0} /\ Base = Half * Half
      /\ l \in Nat /\ l < Base /\ m \in Nat /\ m < Half
  BY BaseType DEF Limb
<1>2. p \in Nat /\ s \in Nat /\ s < Half /\ l = p * Half + s
  BY <1>1, DivModNat
<1> HIDE DEF p, s
<1>3. p * m \in Nat
  BY <1>1, <1>2
<1>4. g \in Nat /\ r \in Nat /\ r < Half /\ p * m = g * Half + r
  BY <1>1, <1>3, DivModNat
<1> HIDE DEF g, r
<1>5. l * m = (p * m) * Half + s * m
  BY <1>1, <1>2
<1>6. (p * m) * Half = g * Base + r * Half
  <2>1. (g * Half + r) * Half = g * (Half * Half) + r * Half
    BY <1>1, <1>4
  <2> QED
    BY <1>1, <1>4, <2>1
<1>7. s * m \in Nat /\ s * m < Base
  <2>1. s * m <= s * Half
    BY <1>1, <1>2
  <2>2. s * Half <= (Half - 1) * Half /\ (Half - 1) * Half = Half * Half - Half
    BY <1>1, <1>2
  <2>3. s * m \in Nat /\ s * Half \in Nat /\ Half * Half \in Nat
    BY <1>1, <1>2
  <2> QED
    BY <1>1, <2>1, <2>2, <2>3
<1>8. r * Half \in Nat /\ r * Half < Base
  <2>1. r * Half <= (Half - 1) * Half /\ (Half - 1) * Half = Half * Half - Half
    BY <1>1, <1>4
  <2>2. r * Half \in Nat /\ Half * Half \in Nat
    BY <1>1, <1>4
  <2> QED
    BY <1>1, <2>1, <2>2
<1>9. l * m \in Nat /\ g * Base \in Nat /\ (g + 2) * Base = g * Base + Base + Base
      /\ g + 2 \in Nat
  BY <1>1, <1>4
<1>10. g * Base <= l * m /\ l * m < (g + 2) * Base
  BY <1>1, <1>5, <1>6, <1>7, <1>8, <1>9
<1>11. t \in Nat /\ g <= t /\ t < g + 2
  BY <1>1, <1>4, <1>9, <1>10, DivBounds
<1> HIDE DEF t
<1>12. t <= g + 1
  BY <1>4, <1>11
<1> QED
  BY <1>4, <1>11, <1>12 DEF t, g, p

\* overflowing_mul: exact, or one limb unit short.
LEMMA MulExact ==
  ASSUME NEW n \in 0 .. Size - 1, NEW m \in 0 .. Half - 1
  PROVE  LET p     == overflowing_mul(Of(n), m)
             exact == [val |-> Of((n * m) % Size), overflow |-> n * m >= Size]
             lost  == ((n % Base) * m) \div Base > (((n % Base) \div Half) * m) \div Half
         IN  IF lost THEN p.val = Of((n * m - Base) % Size) ELSE p = exact
<1>1. PICK h \in Limb, l \in Limb : n = h * Base + l /\ Of(n) = <<h, l>>
  BY NumberLimbs
<1> DEFINE t == (l * m) \div Base
           g == ((l \div Half) * m) \div Half
           high == (h * m) % Base
           low == (l * m) % Base
           carry == IF l * m >= Base THEN g ELSE 0
<1>2. Base \in Nat \ {0} /\ h \in 0 .. Base - 1 /\ l \in 0 .. Base - 1
      /\ Half \in Nat \ {0} /\ m \in Nat /\ h \in Nat /\ l \in Nat
  BY BaseType DEF Limb
<1>3. n % Base = l
  <2>1. h \in Int
    BY <1>2
  <2>2. (h * Base + l) % Base = l
    BY <1>2, <2>1, DivModUnique
  <2> QED
    BY <1>1, <2>2
<1>4. t \in Nat /\ g \in Nat /\ g <= t /\ t <= g + 1
  BY CarryBounds
<1>5. l * m \in Nat /\ h * m \in Nat /\ l * m \in Int /\ h * m \in Int
  BY <1>2
<1>6. low \in 0 .. Base - 1 /\ l * m = t * Base + low
  BY <1>2, <1>5, DivMod
<1>7. l * m < Base => t = 0
  <2>1. l * m < Base => l * m \in 0 .. Base - 1
    BY <1>2, <1>5
  <2> QED
    BY <1>2, <2>1, ModSmall
<1>8. carry = g
  BY <1>4, <1>5, <1>7, <1>2
<1>9. overflowing_mul(Of(n), m) =
        [val      |-> <<(high + carry) % Base, low>>,
         overflow |-> h * m >= Base \/ high + carry >= Base]
  BY <1>1 DEF overflowing_mul
<1>10. high \in 0 .. Base - 1 /\ (h * m < Base => high = h * m)
  <2>1. high \in 0 .. Base - 1
    BY <1>2, <1>5, DivMod
  <2>2. h * m < Base => h * m \in 0 .. Base - 1
    BY <1>2, <1>5
  <2> QED
    BY <1>2, <2>1, <2>2, ModSmall
<1>11. (high + g) % Base = (h * m + g) % Base
  <2>1. g \in Int
    BY <1>4
  <2> QED
    BY <1>2, <1>5, <2>1, ModAdd
<1> DEFINE v == h * m
<1>12. v \in Nat /\ n * m = (v + t) * Base + low
  <2>1. (h * Base + l) * m = (h * m) * Base + l * m
    BY <1>2
  <2>2. (v + t) * Base = v * Base + t * Base
    BY <1>2, <1>4, <1>5
  <2>3. v * Base \in Int /\ t * Base \in Int
    BY <1>2, <1>4, <1>5
  <2> QED
    BY <1>1, <1>5, <1>6, <2>1, <2>2, <2>3
<1> HIDE DEF t, g, high, low, carry
<1>13. CASE t = g
  <2>1. Of((n * m) % Size) = <<(v + t) % Base, low>>
    <3>1. v + t \in Int /\ low \in Limb
      BY <1>4, <1>6, <1>12 DEF Limb
    <3> QED
      BY <1>12, <3>1, Wrapped
  <2>2. (high + carry) % Base = (v + t) % Base
    BY <1>8, <1>11, <1>13
  <2>3. n * m >= Size <=> v + t >= Base
    <3>1. v + t \in Nat /\ low \in Limb
      BY <1>4, <1>6, <1>12 DEF Limb
    <3> QED
      BY <1>12, <3>1, SizeBound
  <2>4. (h * m >= Base \/ high + carry >= Base) <=> v + t >= Base
    BY <1>2, <1>4, <1>5, <1>8, <1>10, <1>13
  <2>5. (h * m >= Base \/ high + carry >= Base) = (n * m >= Size)
    BY <2>3, <2>4
  <2>6. overflowing_mul(Of(n), m) = [val |-> Of((n * m) % Size), overflow |-> n * m >= Size]
    BY <1>9, <2>1, <2>2, <2>5, Zenon
  <2>7. ~(t > g)
    BY <1>4, <1>13
  <2> QED
    BY <1>3, <2>6, <2>7, Zenon DEF t, g
<1>14. CASE t = g + 1
  <2>1. n * m - Base = (v + g) * Base + low
    <3>1. (v + (g + 1)) * Base = (v + g) * Base + Base
      BY <1>2, <1>4, <1>12
    <3>2. (v + g) * Base \in Int
      BY <1>2, <1>4, <1>12
    <3> QED
      BY <1>2, <1>6, <1>12, <1>14, <3>1, <3>2
  <2>2. v + g \in Int /\ low \in Limb
    BY <1>4, <1>6, <1>12 DEF Limb
  <2>3. Of((n * m - Base) % Size) = <<(v + g) % Base, low>>
    BY <2>1, <2>2, Wrapped
  <2>4. overflowing_mul(Of(n), m).val = Of((n * m - Base) % Size)
    BY <1>8, <1>9, <1>11, <2>3
  <2>5. t > g
    BY <1>4, <1>14
  <2> QED
    BY <1>3, <2>4, <2>5, Zenon DEF t, g
<1> QED
  BY <1>4, <1>13, <1>14

-----------------------------------------------------------------------------
(***************************************************************************)
(* Shifts.                                                                 *)
(***************************************************************************)

\* The powers of two a limb is split at.
LEMMA SplitBase ==
  ASSUME NEW k \in 0 .. LimbBits
  PROVE  /\ Pow2(k) \in Nat \ {0} /\ Pow2(LimbBits - k) \in Nat \ {0}
         /\ Base = Pow2(LimbBits - k) * Pow2(k)
<1>1. LimbBits \in Nat
  BY WidthsAssumption
<1>2. k \in Nat /\ LimbBits - k \in Nat /\ (LimbBits - k) + k = LimbBits
  BY <1>1
<1> QED
  BY <1>2, Pow2Add, Pow2Type DEF Base

\* A limb times 2^k is split by the upper k bits of the limb.
LEMMA LimbShl ==
  ASSUME NEW P \in Nat \ {0}, NEW Q \in Nat \ {0}, Base = Q * P, NEW l \in Limb
  PROVE  LET c == l \div Q
             s == l % Q
         IN  /\ c \in Nat /\ c < P /\ s \in Nat /\ s * P \in Nat /\ s * P <= Base - P
             /\ l * P = c * Base + s * P /\ (l * P) % Base = s * P
<1> DEFINE c == l \div Q
           s == l % Q
<1>1. Base \in Nat \ {0} /\ l \in Nat /\ l < Base
  BY BaseType DEF Limb
<1>2. c \in Nat /\ s \in Nat /\ s < Q /\ l = c * Q + s
  BY <1>1, DivModNat
<1>3. c < P
  <2>1. l < P * Q
    BY <1>1
  <2> QED
    BY <1>1, <2>1, DivBounds
<1> HIDE DEF c, s
<1>4. s * P <= (Q - 1) * P /\ (Q - 1) * P = Q * P - P
  BY <1>2
<1>5. s * P \in Nat /\ Q * P \in Nat
  BY <1>2
<1>6. s * P <= Base - P
  BY <1>4, <1>5
<1>7. l * P = c * Base + s * P
  <2>1. (c * Q + s) * P = c * (Q * P) + s * P
    BY <1>2
  <2> QED
    BY <1>2, <2>1
<1>8. c \in Int /\ s * P \in 0 .. Base - 1
  BY <1>1, <1>2, <1>5, <1>6
<1>9. (c * Base + s * P) % Base = s * P
  BY <1>1, <1>8, DivModUnique
<1> QED
  BY <1>2, <1>3, <1>5, <1>6, <1>7, <1>9 DEF c, s

\* wrapping_shl multiplies by a power of two.
LEMMA ShlExact ==
  ASSUME NEW n \in 0 .. Size - 1, NEW k \in 0 .. 2 * LimbBits - 1
  PROVE  wrapping_shl(Of(n), k) = Of((n * Pow2(k)) % Size)
<1>1. PICK h \in Limb, l \in Limb : n = h * Base + l /\ Of(n) = <<h, l>>
  BY NumberLimbs
<1>2. Base \in Nat \ {0} /\ h \in Nat /\ h < Base /\ l \in Nat /\ l < Base
  BY BaseType DEF Limb
<1>3. LimbBits \in Nat \ {0} /\ k \in Nat /\ k % (2 * LimbBits) = k
  <2>1. LimbBits \in Nat \ {0}
    BY WidthsAssumption
  <2>2. 2 * LimbBits \in Nat \ {0}
    BY <2>1
  <2> QED
    BY <2>1, <2>2, ModSmall
<1>4. CASE k >= LimbBits
  <2> DEFINE j == k - LimbBits
             P == Pow2(j)
  <2>1. j \in 0 .. LimbBits - 1 /\ j \in 0 .. LimbBits /\ j \in Nat /\ k = j + LimbBits
    BY <1>3, <1>4
  <2>2. k % LimbBits = j
    <3>1. 1 \in Int
      OBVIOUS
    <3>2. (1 * LimbBits + j) % LimbBits = j
      BY <1>3, <2>1, <3>1, DivModUnique, Zenon
    <3> QED
      BY <1>3, <2>1, <3>2
  <2>3. P \in Nat \ {0} /\ Pow2(k) = P * Base
    BY <1>3, <2>1, Pow2Type, Pow2Add DEF Base
  <2>4. wrapping_shl(Of(n), k) = <<(l * P) % Base, 0>>
    BY <1>1, <1>3, <1>4, <2>2 DEF wrapping_shl
  <2> HIDE DEF j, P
  <2>5. n * Pow2(k) = (n * P) * Base + 0 /\ n * P \in Int /\ 0 \in Limb
    BY <1>2, <2>3 DEF Limb
  <2>6. Of((n * Pow2(k)) % Size) = <<(n * P) % Base, 0>>
    BY <2>5, Wrapped
  <2>7. n * P = (h * P) * Base + l * P /\ h * P \in Int /\ l * P \in Int
    BY <1>1, <1>2, <2>3
  <2>8. ((h * P) * Base + l * P) % Base = (l * P) % Base
    BY <1>2, <2>7, ModShift
  <2> QED
    BY <2>4, <2>6, <2>7, <2>8
<1>5. CASE k < LimbBits
  <2> DEFINE P == Pow2(k)
             Q == Pow2(LimbBits - k)
             c == l \div Q
             carry == IF k > 0 THEN l \div Q ELSE 0
             s == l % Q
             d == h \div Q
             e == h % Q
  <2>1. k \in 0 .. LimbBits /\ k \in 0 .. LimbBits - 1 /\ k \in 0 .. 2 * LimbBits - 1
    BY <1>3, <1>5
  <2>2. k % LimbBits = k
    BY <1>3, <2>1, ModSmall
  <2>3. P \in Nat \ {0} /\ Q \in Nat \ {0} /\ Base = Q * P
    BY <2>1, SplitBase
  <2>4. wrapping_shl(Of(n), k) = <<((h * P) % Base) + carry, (l * P) % Base>>
    BY <1>1, <1>3, <1>5, <2>2 DEF wrapping_shl
  <2>5. k = 0 => Q = Base
    <3>1. k = 0 => LimbBits - k = LimbBits
      BY <1>3
    <3> QED
      BY <3>1 DEF Base
  <2>6. carry = c
    <3>1. k = 0 => c = 0
      <4>1. l \in 0 .. Base - 1
        BY <1>2
      <4> QED
        BY <1>2, <2>5, <4>1, ModSmall
    <3> QED
      BY <1>3, <3>1
  <2> HIDE DEF P, Q, carry
  <2>7. /\ c \in Nat /\ c < P /\ s \in Nat /\ s * P \in Nat /\ s * P <= Base - P
        /\ l * P = c * Base + s * P /\ (l * P) % Base = s * P
    BY <2>3, LimbShl
  <2>8. /\ d \in Nat /\ e \in Nat /\ e * P \in Nat /\ e * P <= Base - P
        /\ h * P = d * Base + e * P /\ (h * P) % Base = e * P
    BY <2>3, LimbShl
  <2> HIDE DEF c, s, d, e
  <2>9. n * P = (h * P + c) * Base + s * P
    <3>1. (h * Base + l) * P = (h * P) * Base + l * P
      BY <1>2, <2>3
    <3>2. (h * P + c) * Base = (h * P) * Base + c * Base
      BY <1>2, <2>3, <2>7
    <3>3. (h * P) * Base \in Int /\ c * Base \in Int
      BY <1>2, <2>3, <2>7
    <3> QED
      BY <1>1, <2>7, <3>1, <3>2, <3>3
  <2>10. h * P + c \in Int /\ s * P \in Limb
    BY <1>2, <2>3, <2>7 DEF Limb
  <2>11. Of((n * P) % Size) = <<(h * P + c) % Base, s * P>>
    BY <2>9, <2>10, Wrapped
  <2>12. (h * P + c) % Base = e * P + c
    <3>1. e * P + c \in 0 .. Base - 1 /\ d \in Int
      BY <1>2, <2>3, <2>7, <2>8
    <3>2. (d * Base + (e * P + c)) % Base = e * P + c
      BY <1>2, <3>1, DivModUnique
    <3>3. d * Base \in Int /\ e * P \in Int /\ c \in Int
      BY <1>2, <2>7, <2>8
    <3>4. h * P + c = d * Base + (e * P + c)
      BY <2>8, <3>3
    <3> QED
      BY <3>2, <3>4
  <2>13. wrapping_shl(Of(n), k) = <<e * P + c, s * P>>
    BY <2>4, <2>6, <2>7, <2>8
  <2>14. wrapping_shl(Of(n), k) = Of((n * P) % Size)
    BY <2>11, <2>12, <2>13
  <2> QED
    BY <2>14 DEF P
<1> QED
  BY <1>3, <1>4, <1>5

\* wrapping_shr divides by a power of two.
LEMMA ShrExact ==
  ASSUME NEW n \in 0 .. Size - 1, NEW k \in 0 .. 2 * LimbBits - 1
  PROVE  wrapping_shr(Of(n), k) = Of(n \div Pow2(k))
<1>1. PICK h \in Limb, l \in Limb : n = h * Base + l /\ Of(n) = <<h, l>>
  BY NumberLimbs
<1>2. Base \in Nat \ {0} /\ h \in Nat /\ h < Base /\ l \in Nat /\ l < Base
  BY BaseType DEF Limb
<1>3. LimbBits \in Nat \ {0} /\ k \in Nat /\ k % (2 * LimbBits) = k
  <2>1. LimbBits \in Nat \ {0}
    BY WidthsAssumption
  <2>2. 2 * LimbBits \in Nat \ {0}
    BY <2>1
  <2> QED
    BY <2>1, <2>2, ModSmall
<1>4. CASE k >= LimbBits
  <2> DEFINE j == k - LimbBits
             P == Pow2(j)
             f == h \div P
             g == h % P
  <2>1. j \in 0 .. LimbBits - 1 /\ j \in Nat /\ k = j + LimbBits
    BY <1>3, <1>4
  <2>2. k % LimbBits = j
    <3>1. 1 \in Int
      OBVIOUS
    <3>2. (1 * LimbBits + j) % LimbBits = j
      BY <1>3, <2>1, <3>1, DivModUnique, Zenon
    <3> QED
      BY <1>3, <2>1, <3>2
  <2>3. P \in Nat \ {0} /\ Pow2(k) = P * Base
    BY <1>3, <2>1, Pow2Type, Pow2Add DEF Base
  <2>4. wrapping_shr(Of(n), k) = <<0, f>>
    BY <1>1, <1>3, <1>4, <2>2 DEF wrapping_shr
  <2> HIDE DEF j, P
  <2>5. f \in Nat /\ g \in Nat /\ g < P /\ h = f * P + g
    BY <1>2, <2>3, DivModNat
  <2> HIDE DEF f, g
  <2>6. n = f * (P * Base) + (g * Base + l)
    <3>1. (f * P + g) * Base = f * (P * Base) + g * Base
      BY <1>2, <2>3, <2>5
    <3>2. f * (P * Base) \in Int /\ g * Base \in Int
      BY <1>2, <2>3, <2>5
    <3> QED
      BY <1>1, <1>2, <2>5, <3>1, <3>2
  <2>7. g * Base + l \in 0 .. (P * Base) - 1 /\ P * Base \in Nat \ {0} /\ f \in Int
    <3>1. g * Base <= (P - 1) * Base /\ (P - 1) * Base = P * Base - Base
      BY <1>2, <2>3, <2>5
    <3>2. g * Base \in Nat /\ P * Base \in Nat /\ P * Base # 0
      BY <1>2, <2>3, <2>5
    <3> QED
      BY <1>2, <2>5, <3>1, <3>2
  <2>8. (f * (P * Base) + (g * Base + l)) \div (P * Base) = f
    BY <2>7, DivModUnique
  <2>9. f \in Limb
    <3>1. f <= f * P /\ f * P \in Nat
      BY <2>3, <2>5
    <3> QED
      BY <1>2, <2>5, <3>1 DEF Limb
  <2>10. 0 \in Limb /\ 0 * Base + f = f
    BY <1>2, <2>5 DEF Limb
  <2>11. Of(f) = <<0, f>>
    BY <2>9, <2>10, PairValue
  <2> QED
    BY <2>3, <2>4, <2>6, <2>8, <2>11
<1>5. CASE k < LimbBits
  <2> DEFINE P == Pow2(k)
             Q == Pow2(LimbBits - k)
             carry == IF k > 0 THEN (h * Q) % Base ELSE 0
             f == h \div P
             g == h % P
             u == l \div P
             z == l % P
  <2>1. k \in 0 .. LimbBits /\ k \in 0 .. LimbBits - 1
    BY <1>3, <1>5
  <2>2. k % LimbBits = k
    BY <1>3, <2>1, ModSmall
  <2>3. P \in Nat \ {0} /\ Q \in Nat \ {0} /\ Base = Q * P /\ Base = P * Q
    BY <2>1, SplitBase
  <2>4. wrapping_shr(Of(n), k) = <<f, u + carry>>
    BY <1>1, <1>3, <1>5, <2>2 DEF wrapping_shr
  <2>5. k = 0 => P = 1
    BY Pow2Zero
  <2> HIDE DEF P, Q
  <2>6. f \in Nat /\ f < Q /\ g \in Nat /\ g < P /\ h = f * P + g
        /\ g * Q <= Base - Q /\ g * Q \in Nat /\ (h * Q) % Base = g * Q
    <3>1. f \in Nat /\ g \in Nat /\ g < P /\ h = f * P + g
      BY <1>2, <2>3, DivModNat
    <3> QED
      BY <2>3, <3>1, LimbShl
  <2>7. u \in Nat /\ z \in Nat /\ z < P /\ l = u * P + z /\ u < Q
    <3>1. l < Q * P
      BY <1>2, <2>3
    <3> QED
      BY <1>2, <2>3, <3>1, DivModNat, DivBounds
  <2> HIDE DEF f, g, u, z
  <2>8. carry = g * Q
    <3>1. k = 0 => g = 0
      BY <2>5, <2>6
    <3>2. k = 0 => g * Q = 0
      BY <2>3, <3>1
    <3> QED
      BY <1>3, <2>6, <3>2
  <2>9. n = (f * Base + (g * Q + u)) * P + z
    <3>1. h * Base = f * Base * P + (g * Q) * P
      <4>1. (f * P + g) * Base = f * Base * P + g * Base
        BY <1>2, <2>3, <2>6
      <4>2. g * (Q * P) = (g * Q) * P
        BY <2>3, <2>6
      <4> QED
        BY <2>3, <2>6, <4>1, <4>2
    <3>2. (f * Base + (g * Q + u)) * P = f * Base * P + (g * Q) * P + u * P
      BY <1>2, <2>3, <2>6, <2>7
    <3>3. f * Base * P \in Int /\ (g * Q) * P \in Int /\ u * P \in Int
      BY <1>2, <2>3, <2>6, <2>7
    <3> QED
      BY <1>1, <2>7, <3>1, <3>2, <3>3
  <2>10. n \div P = f * Base + (g * Q + u)
    <3>1. f * Base + (g * Q + u) \in Int /\ z \in 0 .. P - 1
      BY <1>2, <2>3, <2>6, <2>7
    <3> QED
      BY <2>3, <2>9, <3>1, DivModUnique
  <2>11. f \in Limb /\ g * Q + u \in Limb
    <3>1. f <= f * P /\ f * P \in Nat
      BY <2>3, <2>6
    <3>2. f < Base
      BY <1>2, <2>6, <3>1
    <3> QED
      BY <1>2, <2>3, <2>6, <2>7, <3>2 DEF Limb
  <2>12. Of(f * Base + (g * Q + u)) = <<f, g * Q + u>>
    BY <2>11, PairValue
  <2>13. wrapping_shr(Of(n), k) = <<f, g * Q + u>>
    BY <2>4, <2>6, <2>7, <2>8
  <2>14. wrapping_shr(Of(n), k) = Of(n \div P)
    BY <2>10, <2>12, <2>13
  <2> QED
    BY <2>14 DEF P
<1> QED
  BY <1>3, <1>4, <1>5

-----------------------------------------------------------------------------
(***************************************************************************)
(* The number of bits.                                                     *)
(***************************************************************************)

\* k is the least number of bits that hold n.
IsWidth(k, n) == n < Pow2(k) /\ (k > 0 => n >= Pow2(k - 1))

\* A number below a power of two has a width no larger than the exponent.
LEMMA WidthExists ==
  ASSUME NEW b \in Nat, NEW n \in Nat, n < Pow2(b)
  PROVE  \E k \in 0 .. b : IsWidth(k, n)
<1> DEFINE S == {j \in Nat : n < Pow2(j) => \E k \in 0 .. j : IsWidth(k, n)}
<1>1. 0 \in S
  <2>1. 0 \in 0 .. 0 /\ ~(0 > 0)
    OBVIOUS
  <2> QED
    BY <2>1 DEF IsWidth
<1>2. ASSUME NEW j \in Nat, j \in S
      PROVE  j + 1 \in S
  <2> SUFFICES ASSUME n < Pow2(j + 1) PROVE \E k \in 0 .. j + 1 : IsWidth(k, n)
    OBVIOUS
  <2>1. CASE n < Pow2(j)
    <3>1. PICK k \in 0 .. j : IsWidth(k, n)
      BY <1>2, <2>1
    <3>2. k \in 0 .. j + 1
      OBVIOUS
    <3> QED
      BY <3>1, <3>2
  <2>2. CASE ~(n < Pow2(j))
    <3>1. Pow2(j) \in Nat /\ j + 1 \in 0 .. j + 1 /\ (j + 1) - 1 = j
      BY Pow2Type
    <3>2. IsWidth(j + 1, n)
      BY <2>2, <3>1 DEF IsWidth
    <3> QED
      BY <3>1, <3>2
  <2> QED
    BY <2>1, <2>2
<1> HIDE DEF S
<1>3. b \in S
  BY <1>1, <1>2, NatSetInduction
<1> QED
  BY <1>3 DEF S

\* The leading zeros of one limb give its width.
LEMMA LimbWidth ==
  ASSUME NEW l \in Limb
  PROVE  limb_bits(l) \in 0 .. LimbBits /\ IsWidth(limb_bits(l), l)
<1>1. LimbBits \in Nat /\ l \in Nat /\ l < Pow2(LimbBits)
  BY WidthsAssumption, BaseType DEF Limb, Base
<1>2. \E k \in 0 .. LimbBits : l < Pow2(k) /\ (k > 0 => l >= Pow2(k - 1))
  BY <1>1, WidthExists DEF IsWidth
<1> QED
  BY <1>2 DEF limb_bits, IsWidth

\* bits of a pair is the number of bits of its number.
LEMMA BitsExact ==
  ASSUME NEW n \in 0 .. Size - 1
  PROVE  bits(Of(n)) \in 0 .. 2 * LimbBits /\ IsWidth(bits(Of(n)), n)
<1>1. PICK h \in Limb, l \in Limb : n = h * Base + l /\ Of(n) = <<h, l>>
  BY NumberLimbs
<1>2. Base \in Nat \ {0} /\ h \in Nat /\ h < Base /\ l \in Nat /\ l < Base
      /\ LimbBits \in Nat
  BY BaseType, WidthsAssumption DEF Limb
<1>3. CASE h > 0
  <2> DEFINE k == limb_bits(h)
  <2>1. bits(Of(n)) = LimbBits + k
    BY <1>1, <1>3 DEF bits
  <2>2. k \in 0 .. LimbBits /\ h < Pow2(k) /\ (k > 0 => h >= Pow2(k - 1))
    BY LimbWidth DEF IsWidth
  <2> HIDE DEF k
  <2>3. k > 0
    <3>1. k = 0 => h < 1
      BY <2>2, Pow2Zero
    <3> QED
      BY <1>2, <1>3, <2>2, <3>1
  <2>4. k \in Nat /\ k - 1 \in Nat /\ (k - 1) + LimbBits = (LimbBits + k) - 1
        /\ k + LimbBits = LimbBits + k
    BY <1>2, <2>2, <2>3
  <2> DEFINE P == Pow2(k)
             Q == Pow2(k - 1)
  <2>5. P \in Nat /\ Q \in Nat /\ Pow2(LimbBits + k) = P * Base
        /\ Pow2((LimbBits + k) - 1) = Q * Base
    BY <1>2, <2>4, Pow2Type, Pow2Add DEF Base
  <2> HIDE DEF P, Q
  <2>6. h + 1 <= P /\ Q <= h
    BY <1>2, <2>2, <2>3, <2>5 DEF P, Q
  <2>7. (h + 1) * Base <= P * Base /\ (h + 1) * Base = h * Base + Base
    BY <1>2, <2>5, <2>6
  <2>8. Q * Base <= h * Base
    BY <1>2, <2>5, <2>6
  <2>9. P * Base \in Int /\ Q * Base \in Int /\ h * Base \in Int
    BY <1>2, <2>5
  <2>10. n < P * Base /\ n >= Q * Base
    BY <1>1, <1>2, <2>7, <2>8, <2>9
  <2> QED
    BY <1>2, <2>1, <2>2, <2>5, <2>10 DEF IsWidth
<1>4. CASE h = 0
  <2>1. n = l
    BY <1>1, <1>2, <1>4
  <2>2. bits(Of(n)) = limb_bits(l)
    BY <1>1, <1>4 DEF bits
  <2> QED
    BY <1>2, <2>1, <2>2, LimbWidth
<1> QED
  BY <1>2, <1>3, <1>4

-----------------------------------------------------------------------------
(***************************************************************************)
(* Long division.                                                          *)
(***************************************************************************)

\* What holds before and after a round of the division of m by n: ret is the
\* quotient found so far, sub_copy what is left of m.
Dividing(r, m, n, bound) ==
  \E s \in Nat, q \in Nat :
     /\ r.sub_copy = Of(s) /\ r.ret = Of(q)
     /\ m = q * n + s /\ s < bound

\* One round settles one bit.
LEMMA DivRound ==
  ASSUME NEW m \in 0 .. Size - 1, NEW n \in 0 .. Size - 1, n > 0,
         NEW k \in 0 .. 2 * LimbBits - 1, n * Pow2(k) < Size,
         NEW r, r.shift_copy = Of(n * Pow2(k)), Dividing(r, m, n, 2 * (n * Pow2(k)))
  PROVE  /\ Dividing(div_round(r, k), m, n, n * Pow2(k))
         /\ div_round(r, k).shift_copy = Of((n * Pow2(k)) \div 2)
<1> DEFINE P == Pow2(k)
           d == n * Pow2(k)
<1>1. Size \in Nat \ {0} /\ P \in Nat \ {0} /\ LimbBits \in Nat \ {0}
  BY BaseType, Pow2Type, WidthsAssumption
<1>2. d \in 0 .. Size - 1 /\ P <= d
  BY <1>1
<1>3. PICK s \in Nat, q \in Nat : /\ r.sub_copy = Of(s) /\ r.ret = Of(q)
                                  /\ m = q * n + s /\ s < 2 * d
  BY DEF Dividing
<1>4. s \in 0 .. Size - 1 /\ q \in 0 .. Size - 1
  <2>1. q * n \in Nat /\ q <= q * n
    BY <1>3
  <2> QED
    BY <1>1, <1>3, <2>1
<1> DEFINE fits == Le(Of(d), Of(s))
<1>5. fits <=> d <= s
  BY <1>2, <1>4, LeIsLe
<1>6. wrapping_shr(Of(d), 1) = Of(d \div 2)
  <2>1. 1 \in 0 .. 2 * LimbBits - 1 /\ 0 + 1 = 1
    BY <1>1
  <2>2. wrapping_shr(Of(d), 1) = Of(d \div Pow2(1))
    BY <1>2, <2>1, ShrExact
  <2>3. Pow2(0 + 1) = 2 * Pow2(0)
    BY Pow2Step
  <2>4. Pow2(1) = 2
    BY <2>1, <2>3, Pow2Zero
  <2> QED
    BY <2>2, <2>4
<1>7. div_round(r, k) =
        [sub_copy   |-> IF fits THEN wrapping_sub(Of(s), Of(d)) ELSE Of(s),
         shift_copy |-> Of(d \div 2),
         ret        |-> IF fits THEN SetBit(Of(q), k) ELSE Of(q)]
  BY <1>3, <1>6 DEF div_round
<1> HIDE DEF fits
<1>8. CASE d <= s
  <2>1. s - d \in 0 .. Size - 1 /\ s - d \in Nat /\ s - d < d
    <3> HIDE DEF d
    <3> QED
      BY <1>1, <1>2, <1>3, <1>4, <1>8
  <2>2. wrapping_sub(Of(s), Of(d)) = Of(s - d)
    <3>1. wrapping_sub(Of(s), Of(d)) = Of((s - d) % Size)
      BY <1>2, <1>4, SubExact DEF wrapping_sub
    <3> QED
      BY <1>1, <2>1, <3>1, ModSmall
  <2>3. m = (q + P) * n + (s - d)
    <3>1. (q + P) * n = q * n + n * P
      BY <1>1
    <3>2. q * n \in Int /\ n * P \in Int
      BY <1>1
    <3> QED
      BY <1>3, <3>1, <3>2
  <2>4. q + P \in 0 .. Size - 1 /\ q + P \in Nat
    <3>1. q + P <= (q + P) * n /\ (q + P) * n \in Nat
      BY <1>1
    <3> QED
      BY <1>1, <2>1, <2>3, <3>1
  <2>5. P \in 0 .. Size - 1 /\ 1 * Pow2(k) = P
    BY <1>1, <1>2
  <2>6. wrapping_shl(ONE, k) = Of(P)
    <3>1. wrapping_shl(Of(1), k) = Of((1 * Pow2(k)) % Size)
      BY OneIsOne, ShlExact, Zenon
    <3>2. P % Size = P
      BY <1>1, <2>5, ModSmall
    <3> QED
      BY <2>5, <3>1, <3>2, OneIsOne
  <2>7. SetBit(Of(q), k) = Of(q + P)
    <3>1. wrapping_add(Of(q), Of(P)) = Of((q + P) % Size)
      BY <1>4, <2>5, WrappingAdd
    <3>2. (q + P) % Size = q + P
      BY <1>1, <2>4, ModSmall
    <3> QED
      BY <2>6, <3>1, <3>2 DEF SetBit
  <2>8. /\ div_round(r, k).sub_copy = Of(s - d) /\ div_round(r, k).ret = Of(q + P)
        /\ div_round(r, k).shift_copy = Of(d \div 2)
    BY <1>5, <1>7, <1>8, <2>2, <2>7
  <2> HIDE DEF P, d
  <2>9. Dividing(div_round(r, k), m, n, d)
    BY <2>1, <2>3, <2>4, <2>8 DEF Dividing
  <2> QED
    BY <2>8, <2>9 DEF d
<1>9. CASE ~(d <= s)
  <2>1. /\ div_round(r, k).sub_copy = Of(s) /\ div_round(r, k).ret = Of(q)
        /\ div_round(r, k).shift_copy = Of(d \div 2)
    BY <1>5, <1>7, <1>9
  <2>2. s < d
    BY <1>2, <1>3, <1>9
  <2> HIDE DEF P, d
  <2>3. Dividing(div_round(r, k), m, n, d)
    BY <1>3, <2>1, <2>2 DEF Dividing
  <2> QED
    BY <2>1, <2>3 DEF d
<1> QED
  BY <1>8, <1>9

\* The rounds of the division of a by b, as div_rem runs them.
Rounds(g, a, b, shift) ==
  g = [j \in 0 .. shift + 1 |->
         IF j = 0
           THEN [sub_copy |-> a, shift_copy |-> wrapping_shl(b, shift), ret |-> ZERO]
           ELSE div_round(g[j - 1], shift - j + 1)]

\* That many rounds can be run.
LEMMA RoundsExist ==
  ASSUME NEW a, NEW b, NEW shift \in Nat
  PROVE  \E g : Rounds(g, a, b, shift)
<1> DEFINE first == [sub_copy |-> a, shift_copy |-> wrapping_shl(b, shift), ret |-> ZERO]
           Upto(g, n) == /\ g = [j \in 0 .. n |-> g[j]]
                         /\ g[0] = first
                         /\ \A j \in 1 .. n : g[j] = div_round(g[j - 1], shift - j + 1)
           S == {n \in Nat : \E g : Upto(g, n)}
<1> HIDE DEF first
<1>1. 0 \in S
  <2> DEFINE g == [j \in 0 .. 0 |-> first]
  <2>1. Upto(g, 0)
    OBVIOUS
  <2> QED
    BY <2>1
<1>2. ASSUME NEW n \in Nat, n \in S
      PROVE  n + 1 \in S
  <2>1. PICK g : Upto(g, n)
    BY <1>2
  <2> DEFINE h == [j \in 0 .. n + 1 |->
                     IF j = n + 1 THEN div_round(g[n], shift - (n + 1) + 1) ELSE g[j]]
  <2>2. h = [j \in 0 .. n + 1 |-> h[j]] /\ h[0] = first
    BY <2>1
  <2>3. ASSUME NEW j \in 1 .. n + 1
        PROVE  h[j] = div_round(h[j - 1], shift - j + 1)
    <3>1. j \in 0 .. n + 1 /\ j - 1 \in 0 .. n + 1 /\ j - 1 # n + 1
      OBVIOUS
    <3>2. h[j - 1] = g[j - 1]
      BY <3>1
    <3>3. CASE j = n + 1
      <4>1. h[j] = div_round(g[n], shift - (n + 1) + 1) /\ j - 1 = n
        BY <3>1, <3>3
      <4> QED
        BY <3>2, <3>3, <4>1
    <3>4. CASE j # n + 1
      <4>1. h[j] = g[j] /\ j \in 1 .. n
        BY <3>1, <3>4
      <4> QED
        BY <2>1, <3>2, <4>1
    <3> QED
      BY <3>3, <3>4
  <2> HIDE DEF h
  <2>4. Upto(h, n + 1) /\ n + 1 \in Nat
    BY <2>2, <2>3
  <2> HIDE DEF Upto
  <2> QED
    BY <2>4
<1> HIDE DEF S
<1>3. shift + 1 \in S
  BY <1>1, <1>2, NatSetInduction
<1>4. PICK g : Upto(g, shift + 1)
  BY <1>3 DEF S
<1>5. ASSUME NEW j \in 0 .. shift + 1
      PROVE  g[j] = IF j = 0 THEN first ELSE div_round(g[j - 1], shift - j + 1)
  <2>1. j = 0 \/ j \in 1 .. shift + 1
    OBVIOUS
  <2> QED
    BY <1>4, <2>1
<1>6. g = [j \in 0 .. shift + 1 |->
             IF j = 0 THEN first ELSE div_round(g[j - 1], shift - j + 1)]
  BY <1>4, <1>5
<1> QED
  BY <1>6 DEF Rounds, first

\* div_rem is Euclidean division.
LEMMA DivRemExact ==
  ASSUME NEW m \in 0 .. Size - 1, NEW n \in 0 .. Size - 1, n > 0
  PROVE  div_rem(Of(m), Of(n)) = [quot |-> Of(m \div n), rem |-> Of(m % n)]
<1> DEFINE bm == bits(Of(m))
           bn == bits(Of(n))
           shift == bm - bn
<1>1. LimbBits \in Nat \ {0} /\ Size \in Nat \ {0} /\ m \in Nat /\ n \in Nat \ {0}
  BY WidthsAssumption, BaseType
<1>2. /\ bm \in 0 .. 2 * LimbBits /\ m < Pow2(bm) /\ (bm > 0 => m >= Pow2(bm - 1))
      /\ bn \in 0 .. 2 * LimbBits /\ n < Pow2(bn) /\ (bn > 0 => n >= Pow2(bn - 1))
  BY BitsExact DEF IsWidth
<1> HIDE DEF bm, bn
<1>3. bn > 0 /\ bn - 1 \in Nat /\ n >= Pow2(bn - 1) /\ bm \in Nat /\ bn \in Nat
  <2>1. bn = 0 => n < 1
    BY <1>2, Pow2Zero
  <2>2. bn > 0
    BY <1>1, <1>2, <2>1
  <2> QED
    BY <1>1, <1>2, <2>2
<1>4. Pow2(bm) \in Nat /\ Pow2(bn) \in Nat /\ Pow2(bn - 1) \in Nat
  BY <1>3, Pow2Type
<1>5. CASE shift < 0
  <2>1. Pow2(bm) <= Pow2(bn - 1)
    BY <1>3, <1>5, Pow2Mono
  <2>2. m < n
    BY <1>1, <1>2, <1>3, <1>4, <2>1
  <2>3. m \div n = 0 /\ m % n = m
    <3>1. m \in 0 .. n - 1
      BY <1>1, <2>2
    <3> QED
      BY <1>1, <3>1, ModSmall
  <2>4. div_rem(Of(m), Of(n)) = [quot |-> ZERO, rem |-> Of(m)]
    BY <1>5 DEF div_rem, bm, bn
  <2> QED
    BY <2>3, <2>4, OneIsOne
<1>6. CASE shift >= 0
  <2> DEFINE round == CHOOSE g : Rounds(g, Of(m), Of(n), shift)
  <2>1. shift \in Nat /\ shift \in 0 .. 2 * LimbBits - 1 /\ shift + 1 \in Nat
        /\ bn + shift = bm /\ (bn - 1) + (shift + 1) = bm
    BY <1>1, <1>2, <1>3, <1>6
  <2>2. div_rem(Of(m), Of(n)) =
          [quot |-> round[shift + 1].ret, rem |-> round[shift + 1].sub_copy]
    <3>1. ~(bits(Of(m)) - bits(Of(n)) < 0)
      BY <2>1 DEF bm, bn
    <3> QED
      BY <3>1, Zenon DEF div_rem, Rounds, bm, bn
  <2>3. Rounds(round, Of(m), Of(n), shift)
    BY <2>1, RoundsExist
  <2> HIDE DEF round
  <2>4. ASSUME NEW k \in Nat, k <= shift
        PROVE  Pow2(k) \in Nat \ {0} /\ n * Pow2(k) \in Nat /\ n * Pow2(k) < Size
    <3>1. Pow2(k) \in Nat \ {0} /\ Pow2(shift) \in Nat \ {0} /\ Pow2(k) <= Pow2(shift)
      BY <2>1, <2>4, Pow2Type, Pow2Mono
    <3>2. n * Pow2(k) <= n * Pow2(shift)
      BY <1>1, <3>1
    <3>3. n * Pow2(shift) < Pow2(bn) * Pow2(shift)
      BY <1>1, <1>2, <1>4, <3>1
    <3>4. Pow2(bn) * Pow2(shift) = Pow2(bm)
      BY <1>3, <2>1, Pow2Add
    <3>5. Pow2(bm) <= Size
      <4>1. LimbBits + LimbBits \in Nat /\ bm <= LimbBits + LimbBits
        BY <1>1, <1>2
      <4>2. Pow2(LimbBits + LimbBits) = Size
        BY <1>1, Pow2Add DEF Size, Base
      <4> QED
        BY <1>3, <4>1, <4>2, Pow2Mono
    <3>6. n * Pow2(k) \in Nat /\ n * Pow2(shift) \in Nat
      BY <1>1, <3>1
    <3> QED
      BY <1>1, <1>4, <3>1, <3>2, <3>3, <3>4, <3>5, <3>6
  <2> DEFINE Good(j) ==
               /\ Dividing(round[j], m, n, n * Pow2((shift + 1) - j))
               /\ j <= shift => round[j].shift_copy = Of(n * Pow2(shift - j))
             S == {j \in Nat : j <= shift + 1 => Good(j)}
  <2>5. 0 \in S
    <3>1. round[0] = [sub_copy |-> Of(m), shift_copy |-> wrapping_shl(Of(n), shift),
                      ret |-> ZERO]
      BY <2>1, <2>3 DEF Rounds
    <3>2. wrapping_shl(Of(n), shift) = Of(n * Pow2(shift))
      <4>1. wrapping_shl(Of(n), shift) = Of((n * Pow2(shift)) % Size)
        BY <2>1, ShlExact
      <4>2. n * Pow2(shift) \in 0 .. Size - 1
        BY <1>1, <2>1, <2>4
      <4> QED
        BY <1>1, <4>1, <4>2, ModSmall
    <3>3. m < n * Pow2(shift + 1)
      <4>1. Pow2(bn - 1) * Pow2(shift + 1) = Pow2(bm) /\ Pow2(shift + 1) \in Nat
        BY <1>3, <2>1, Pow2Add, Pow2Type
      <4>2. Pow2(bn - 1) * Pow2(shift + 1) <= n * Pow2(shift + 1)
        BY <1>1, <1>3, <1>4, <4>1
      <4>3. n * Pow2(shift + 1) \in Nat
        BY <1>1, <4>1
      <4> QED
        BY <1>1, <1>2, <1>4, <4>1, <4>2, <4>3
    <3>4. 0 \in Nat /\ m = 0 * n + m
      BY <1>1
    <3>5. (shift + 1) - 0 = shift + 1 /\ shift - 0 = shift
      BY <2>1
    <3>6. Dividing(round[0], m, n, n * Pow2(shift + 1))
      BY <1>1, <3>1, <3>3, <3>4, OneIsOne DEF Dividing
    <3>7. round[0].shift_copy = Of(n * Pow2(shift))
      BY <3>1, <3>2
    <3> HIDE DEF shift
    <3> QED
      BY <3>5, <3>6, <3>7
  <2>6. ASSUME NEW j \in Nat, j \in S
        PROVE  j + 1 \in S
    <3> SUFFICES ASSUME j + 1 <= shift + 1 PROVE Good(j + 1)
      OBVIOUS
    <3> DEFINE k == shift - j
    <3>1. j <= shift /\ j <= shift + 1 /\ k \in Nat /\ k <= shift
          /\ k \in 0 .. 2 * LimbBits - 1 /\ (shift + 1) - j = k + 1
          /\ (shift + 1) - (j + 1) = k
      BY <1>1, <2>1
    <3>2. Good(j)
      BY <2>6, <3>1
    <3>3. Pow2(k + 1) = 2 * Pow2(k) /\ Pow2(k) \in Nat
      BY <3>1, Pow2Step, Pow2Type
    <3>4. n * Pow2(k + 1) = 2 * (n * Pow2(k))
      BY <1>1, <3>3
    <3>5. round[j + 1] = div_round(round[j], k)
      <4>1. j + 1 \in 0 .. shift + 1 /\ j + 1 # 0 /\ (j + 1) - 1 = j
            /\ shift - (j + 1) + 1 = k
        BY <2>1, <3>1
      <4> QED
        BY <2>3, <4>1 DEF Rounds
    <3>6. Dividing(round[j], m, n, 2 * (n * Pow2(k)))
      BY <3>1, <3>2, <3>4
    <3>7. round[j].shift_copy = Of(n * Pow2(k))
      BY <3>1, <3>2
    <3>8. n * Pow2(k) < Size
      BY <2>4, <3>1
    <3>9. /\ Dividing(round[j + 1], m, n, n * Pow2(k))
          /\ round[j + 1].shift_copy = Of((n * Pow2(k)) \div 2)
      BY <3>1, <3>5, <3>6, <3>7, <3>8, DivRound
    <3>10. ASSUME j + 1 <= shift
           PROVE  (n * Pow2(k)) \div 2 = n * Pow2(shift - (j + 1))
      <4> DEFINE l == shift - (j + 1)
      <4>1. l \in Nat /\ k = l + 1
        BY <2>1, <3>10
      <4>2. Pow2(k) = 2 * Pow2(l) /\ Pow2(l) \in Nat
        BY <4>1, Pow2Step, Pow2Type
      <4> HIDE DEF l, k
      <4>3. n * Pow2(k) = (n * Pow2(l)) * 2 + 0 /\ n * Pow2(l) \in Int
        BY <1>1, <4>2
      <4>4. 2 \in Nat \ {0} /\ 0 \in 0 .. 2 - 1
        OBVIOUS
      <4>5. ((n * Pow2(l)) * 2 + 0) \div 2 = n * Pow2(l)
        BY <4>3, <4>4, DivModUnique, Zenon
      <4> QED
        BY <4>3, <4>5 DEF l
    <3> HIDE DEF k
    <3> QED
      BY <3>1, <3>9, <3>10
  <2> HIDE DEF S
  <2>7. shift + 1 \in S
    BY <2>1, <2>5, <2>6, NatSetInduction
  <2>8. Good(shift + 1)
    BY <2>1, <2>7 DEF S
  <2>9. n * Pow2((shift + 1) - (shift + 1)) = n
    <3>1. (shift + 1) - (shift + 1) = 0
      BY <2>1
    <3> QED
      BY <1>1, <3>1, Pow2Zero
  <2>10. PICK s \in Nat, q \in Nat : /\ round[shift + 1].sub_copy = Of(s)
                                     /\ round[shift + 1].ret = Of(q)
                                     /\ m = q * n + s /\ s < n
    BY <2>8, <2>9 DEF Dividing
  <2>11. m \div n = q /\ m % n = s
    <3>1. q \in Int /\ s \in 0 .. n - 1
      BY <1>1, <2>10
    <3> QED
      BY <1>1, <2>10, <3>1, DivModUnique
  <2> QED
    BY <2>2, <2>10, <2>11
<1> QED
  BY <1>3, <1>5, <1>6

-----------------------------------------------------------------------------
(***************************************************************************)
(* The inverse of a target.                                                *)
(***************************************************************************)

\* wrapping_inc adds one.
LEMMA IncExact ==
  ASSUME NEW n \in 0 .. Size - 1, n < Size - 1
  PROVE  wrapping_inc(Of(n)) = Of(n + 1) /\ n + 1 \in 0 .. Size - 1
<1>1. PICK h \in Limb, l \in Limb : n = h * Base + l /\ Of(n) = <<h, l>>
  BY NumberLimbs
<1>2. Base \in Nat \ {0} /\ h \in Nat /\ h < Base /\ l \in Nat /\ l < Base
      /\ Size \in Nat /\ Base >= 2
  BY BaseType, OneIsOne DEF Limb
<1>3. n + 1 \in 0 .. Size - 1
  BY <1>2
<1> DEFINE low == (l + 1) % Base
<1>4. wrapping_inc(Of(n)) = <<IF low = 0 THEN (h + 1) % Base ELSE h, low>>
  BY <1>1 DEF wrapping_inc
<1>5. CASE l + 1 < Base
  <2>1. l + 1 \in 0 .. Base - 1 /\ l + 1 # 0 /\ h * Base + (l + 1) = n + 1
    <3>1. h * Base \in Int
      BY <1>2
    <3> QED
      BY <1>1, <1>2, <1>5, <3>1
  <2>2. low = l + 1
    BY <1>2, <2>1, ModSmall
  <2>3. wrapping_inc(Of(n)) = <<h, l + 1>>
    BY <1>4, <2>1, <2>2
  <2>4. Of(h * Base + (l + 1)) = <<h, l + 1>>
    BY <2>1, PairValue DEF Limb
  <2> QED
    BY <1>3, <2>1, <2>3, <2>4
<1>6. CASE l + 1 = Base
  <2>1. low = 0
    <3>1. (1 * Base + 0) % Base = 0 /\ l + 1 = 1 * Base + 0
      BY <1>2, <1>6
    <3> QED
      BY <3>1
  <2>2. n + 1 = (h + 1) * Base + 0 /\ h + 1 \in Nat
    <3>1. (h + 1) * Base = h * Base + Base /\ h * Base \in Int
      BY <1>2
    <3> QED
      BY <1>1, <1>2, <1>6, <3>1
  <2>3. 0 \in Limb
    BY <1>2 DEF Limb
  <2>4. ~(h + 1 >= Base)
    <3>1. (h + 1) * Base + 0 >= Size <=> h + 1 >= Base
      BY <2>2, <2>3, SizeBound
    <3> QED
      BY <1>2, <1>3, <2>2, <3>1
  <2>5. h + 1 \in 0 .. Base - 1 /\ (h + 1) % Base = h + 1
    <3>1. h + 1 \in 0 .. Base - 1
      BY <1>2, <2>4
    <3> QED
      BY <1>2, <3>1, ModSmall
  <2>6. Of((h + 1) * Base + 0) = <<h + 1, 0>>
    BY <2>3, <2>5, PairValue DEF Limb
  <2>7. wrapping_inc(Of(n)) = <<h + 1, 0>>
    BY <1>4, <2>1, <2>5
  <2> QED
    BY <1>3, <2>2, <2>6, <2>7
<1> QED
  BY <1>2, <1>5, <1>6

\* inverse(n) is 2^256 / (n + 1), outside the values the code sets apart.
LEMMA InverseIs ==
  ASSUME NEW n \in 0 .. Size - 1
  PROVE  Val(inverse(Of(n))) = CASE n <= 1 -> Size - 1
                                 [] n = Size - 1 -> 1
                                 [] OTHER -> Size \div (n + 1)
<1>1. Size \in Nat \ {0} /\ Base \in Nat /\ Base >= 2 /\ 1 \in 0 .. Size - 1 /\ n \in Nat
  BY BaseType, OneIsOne
<1>2. Size >= 4
  <2>1. Base * Base >= 2 * Base
    BY <1>1
  <2> QED
    BY <1>1, <2>1 DEF Size
<1>3. MAX = Of(Size - 1) /\ Size - 1 \in 0 .. Size - 1
  <2>1. Base - 1 \in Limb /\ (Base - 1) * Base + (Base - 1) = Size - 1
    BY <1>1 DEF Limb, Size
  <2>2. Of((Base - 1) * Base + (Base - 1)) = <<Base - 1, Base - 1>>
    BY <2>1, PairValue
  <2> QED
    BY <1>1, <2>1, <2>2 DEF MAX
<1>4. ASSUME NEW k \in 0 .. Size - 1, Of(n) = Of(k)
      PROVE  n = k
  BY <1>4, ValOf
<1>5. CASE n <= 1
  <2>1. Of(n) \in {ZERO, ONE}
    <3>1. n = 0 \/ n = 1
      BY <1>1, <1>5
    <3> QED
      BY <3>1, OneIsOne
  <2>2. inverse(Of(n)) = MAX
    BY <2>1 DEF inverse
  <2>3. Val(MAX) = Size - 1
    BY <1>3, ValOf
  <2>4. n # Size - 1
    BY <1>1, <1>2, <1>5
  <2> QED
    BY <1>5, <2>2, <2>3, <2>4
<1>6. CASE n > 1
  <2>1. ~(Of(n) \in {ZERO, ONE})
    <3>1. 0 \in 0 .. Size - 1 /\ n # 0 /\ n # 1
      BY <1>1, <1>6
    <3>2. Of(n) # Of(0) /\ Of(n) # Of(1)
      BY <1>1, <1>4, <3>1, Zenon
    <3> QED
      BY <3>2, OneIsOne
  <2>2. CASE n = Size - 1
    <3>1. inverse(Of(n)) = ONE
      BY <1>3, <2>1, <2>2 DEF inverse
    <3>2. Val(Of(1)) = 1
      BY <1>1, ValOf, Zenon
    <3>3. ~(n <= 1)
      BY <1>1, <1>6
    <3> QED
      BY <2>2, <3>1, <3>2, <3>3, OneIsOne
  <2>3. CASE n # Size - 1
    <3> DEFINE d == n + 1
               e == Size - 1 - n
               q == e \div d
    <3>1. Of(n) # MAX
      BY <1>3, <1>4, <2>3
    <3>2. inverse(Of(n)) = wrapping_inc(quotient(Not(Of(n)), wrapping_inc(Of(n))))
      BY <2>1, <3>1 DEF inverse
    <3>3. Not(Of(n)) = Of(e) /\ e \in 0 .. Size - 1
      BY NotExact
    <3>4. wrapping_inc(Of(n)) = Of(d) /\ d \in 0 .. Size - 1 /\ d > 0
      <4>1. n < Size - 1
        BY <1>1, <2>3
      <4> QED
        BY <1>1, <4>1, IncExact
    <3>5. quotient(Of(e), Of(d)) = Of(q)
      BY <3>3, <3>4, DivRemExact DEF quotient
    <3>6. e \in Nat /\ d \in Nat \ {0} /\ d >= 3 /\ e = Size - d
      BY <1>1, <1>6, <3>3
    <3>7. q \in Nat /\ e % d \in Nat /\ e % d < d /\ e = q * d + (e % d)
      BY <3>6, DivModNat
    <3> HIDE DEF d, e, q
    <3>8. q \in 0 .. Size - 1 /\ q < Size - 1
      <4>1. q <= q * d /\ q * d \in Nat
        BY <3>6, <3>7
      <4> QED
        BY <1>1, <3>6, <3>7, <4>1
    <3>9. wrapping_inc(Of(q)) = Of(q + 1) /\ q + 1 \in 0 .. Size - 1
      BY <3>8, IncExact
    <3>10. Val(inverse(Of(n))) = q + 1
      BY <3>2, <3>3, <3>4, <3>5, <3>9, ValOf
    <3>11. Size \div d = q + 1
      <4> DEFINE r == e % d
      <4> HIDE DEF r
      <4>1. (q + 1) * d = q * d + d /\ q * d \in Int
        BY <3>6, <3>7
      <4>2. r \in 0 .. d - 1 /\ Size = (q + 1) * d + r /\ q + 1 \in Int
        BY <1>1, <3>6, <3>7, <4>1 DEF r
      <4> QED
        BY <3>6, <4>2, DivModUnique
    <3>12. ~(n <= 1)
      BY <1>1, <1>6
    <3> QED
      BY <2>3, <3>10, <3>11, <3>12 DEF d
  <2> QED
    BY <2>2, <2>3
<1> QED
  BY <1>1, <1>5, <1>6

-----------------------------------------------------------------------------
(***************************************************************************)
(* Bytes.                                                                  *)
(***************************************************************************)

\* Bytes(n) is positive, and grows with n.
LEMMA BytesType ==
  ASSUME NEW n \in Nat
  PROVE  Bytes(n) \in Nat \ {0} /\ \A j \in 0 .. n : Bytes(j) <= Bytes(n)
<1>1. ByteBits \in Nat /\ ByteBits * n \in Nat
  BY WidthsAssumption
<1>2. ASSUME NEW j \in 0 .. n PROVE Bytes(j) <= Bytes(n)
  <2>1. ByteBits * j \in Nat /\ ByteBits * j <= ByteBits * n
    BY <1>1
  <2> QED
    BY <1>1, <2>1, Pow2Mono DEF Bytes
<1> QED
  BY <1>1, <1>2, Pow2Type DEF Bytes

\* n bytes and j more are n + j bytes.
LEMMA BytesAdd ==
  ASSUME NEW n \in Nat, NEW j \in Nat
  PROVE  Bytes(n + j) = Bytes(n) * Bytes(j)
<1>1. /\ ByteBits * n \in Nat /\ ByteBits * j \in Nat
      /\ ByteBits * (n + j) = ByteBits * n + ByteBits * j
  BY WidthsAssumption
<1> QED
  BY <1>1, Pow2Add DEF Bytes

\* The sign bit is half of the mantissa, which fits a limb.
LEMMA MantissaType ==
  /\ Bytes(0) = 1 /\ Bytes(1) = Byte /\ Byte \in Nat /\ Byte >= 2
  /\ SignBit \in Nat \ {0} /\ Mantissa = 2 * SignBit /\ Mantissa = Bytes(3)
  /\ Mantissa <= Base
<1>1. ByteBits \in Nat \ {0} /\ LimbBits \in Nat /\ 3 * ByteBits <= LimbBits
  BY WidthsAssumption
<1>2. ByteBits * 0 = 0 /\ ByteBits * 1 = ByteBits /\ ByteBits * 3 = 3 * ByteBits
  BY <1>1
<1>3. Bytes(0) = 1 /\ Bytes(1) = Byte
  BY <1>2, Pow2Zero DEF Bytes, Byte
<1>4. ASSUME NEW k \in Nat \ {0}
      PROVE  Pow2(k) = 2 * Pow2(k - 1) /\ Pow2(k - 1) \in Nat \ {0}
  <2>1. k - 1 \in Nat /\ (k - 1) + 1 = k
    OBVIOUS
  <2> QED
    BY <2>1, Pow2Step, Pow2Type
<1>5. Byte \in Nat /\ Byte >= 2
  BY <1>1, <1>4 DEF Byte
<1>6. Mantissa = Bytes(3) /\ Bytes(3) = Pow2(3 * ByteBits) /\ 3 * ByteBits \in Nat \ {0}
  BY <1>1, <1>2 DEF Mantissa, Bytes
<1>7. PICK t \in Nat \ {0} : Mantissa = 2 * t
  BY <1>4, <1>6
<1>8. SignBit = t
  BY <1>7 DEF SignBit
<1>9. Mantissa <= Base
  BY <1>1, <1>6, Pow2Mono DEF Base
<1> QED
  BY <1>3, <1>5, <1>6, <1>7, <1>8, <1>9

\* A quotient of a quotient.
LEMMA DivDiv ==
  ASSUME NEW n \in Nat, NEW d \in Nat \ {0}, NEW e \in Nat \ {0}
  PROVE  (n \div d) \div e = n \div (d * e)
<1> DEFINE q == n \div d
           r == n % d
           p == q \div e
           s == q % e
<1>1. q \in Nat /\ r \in Nat /\ r < d /\ n = q * d + r
  BY DivModNat
<1>2. p \in Nat /\ s \in Nat /\ s < e /\ q = p * e + s
  BY <1>1, DivModNat
<1> HIDE DEF q, r, p, s
<1>3. n = p * (d * e) + (s * d + r)
  <2>1. (p * e + s) * d = p * (d * e) + s * d
    BY <1>2
  <2> QED
    BY <1>1, <1>2, <2>1
<1>4. s * d + r \in 0 .. d * e - 1
  <2>1. s + 1 <= e /\ (s + 1) * d <= e * d /\ (s + 1) * d = s * d + d
    BY <1>2
  <2>2. s * d \in Nat /\ e * d = d * e /\ d * e \in Nat
    BY <1>2
  <2> QED
    BY <1>1, <2>1, <2>2
<1>5. d * e \in Nat \ {0} /\ p \in Int
  BY <1>2
<1>6. n \div (d * e) = p
  BY <1>3, <1>4, <1>5, DivModUnique
<1> QED
  BY <1>6 DEF p, q

-----------------------------------------------------------------------------
(***************************************************************************)
(* The compact form.                                                       *)
(***************************************************************************)

\* n is the least size with room for v and a sign bit.
IsSize(n, v) == 2 * v < Bytes(n) /\ \A k \in 0 .. n - 1 : 2 * v >= Bytes(k)

Mant(n, v) == IF n <= 3 THEN v * Bytes(3 - n) ELSE v \div Bytes(n - 3)

\* There is one least size.
LEMMA SizeUnique ==
  ASSUME NEW v \in Nat, NEW n \in Nat, NEW j \in Nat, IsSize(n, v), IsSize(j, v)
  PROVE  n = j
<1>1. ASSUME NEW d \in Nat, NEW e \in Nat, IsSize(d, v), IsSize(e, v), d < e PROVE FALSE
  <2>1. d \in 0 .. e - 1
    BY <1>1
  <2>2. 2 * v < Bytes(d) /\ 2 * v >= Bytes(d) /\ Bytes(d) \in Nat
    BY <1>1, <2>1, BytesType DEF IsSize
  <2> QED
    BY <2>2
<1> QED
  BY <1>1

\* A size that fits while the one below does not is the least.
LEMMA SizeIs ==
  ASSUME NEW v \in Nat, NEW n \in Nat, 2 * v < Bytes(n), n > 0 => 2 * v >= Bytes(n - 1)
  PROVE  IsSize(n, v)
<1> SUFFICES ASSUME NEW k \in 0 .. n - 1 PROVE 2 * v >= Bytes(k)
  BY DEF IsSize
<1>1. n - 1 \in Nat /\ k \in Nat /\ k \in 0 .. n - 1 /\ n > 0
  OBVIOUS
<1>2. Bytes(k) <= Bytes(n - 1) /\ Bytes(k) \in Nat /\ Bytes(n - 1) \in Nat
  BY <1>1, BytesType
<1> QED
  BY <1>1, <1>2

\* CompactForm puts the least size above the mantissa.
LEMMA CompactReads ==
  ASSUME NEW v \in Nat, NEW n \in 0 .. 2 * LimbBits + 1, IsSize(n, v)
  PROVE  CompactForm(v) = n * Mantissa + Mant(n, v)
<1> DEFINE size == CHOOSE k \in 0 .. 2 * LimbBits + 1 :
                     2 * v < Bytes(k) /\ \A j \in 0 .. k - 1 : 2 * v >= Bytes(j)
<1>1. size \in 0 .. 2 * LimbBits + 1 /\ IsSize(size, v)
  BY DEF IsSize
<1>2. CompactForm(v) = size * Mantissa + Mant(size, v)
  BY Zenon DEF CompactForm, Mant
<1> HIDE DEF size
<1>3. size \in Nat /\ n \in Nat
  BY <1>1, WidthsAssumption
<1>4. size = n
  BY <1>1, <1>3, SizeUnique
<1> QED
  BY <1>2, <1>4

\* The mantissa leaves the sign bit clear.
LEMMA MantBounds ==
  ASSUME NEW v \in Nat, NEW n \in Nat, IsSize(n, v)
  PROVE  Mant(n, v) \in 0 .. SignBit - 1
<1>1. SignBit \in Nat \ {0} /\ Bytes(3) = 2 * SignBit
  BY MantissaType
<1>2. 2 * v < Bytes(n) /\ Bytes(n) \in Nat \ {0}
  BY BytesType DEF IsSize
<1>3. CASE n <= 3
  <2> DEFINE P == Bytes(3 - n)
  <2>1. 3 - n \in Nat /\ n + (3 - n) = 3
    BY <1>3
  <2>2. P \in Nat \ {0} /\ Bytes(n) * P = 2 * SignBit
    BY <1>1, <2>1, BytesType, BytesAdd
  <2> HIDE DEF P
  <2>3. (2 * v) * P < Bytes(n) * P
    BY <1>2, <2>2
  <2>4. (2 * v) * P = 2 * (v * P) /\ v * P \in Nat
    BY <2>2
  <2>5. Mant(n, v) = v * P
    BY <1>3 DEF Mant, P
  <2> QED
    BY <1>1, <2>2, <2>3, <2>4, <2>5
<1>4. CASE ~(n <= 3)
  <2> DEFINE P == Bytes(n - 3)
  <2>1. n - 3 \in Nat /\ 3 + (n - 3) = n /\ 3 \in Nat
    BY <1>4
  <2>2. P \in Nat \ {0} /\ Bytes(n) = (2 * SignBit) * P
    <3>1. Bytes(3 + (n - 3)) = Bytes(3) * P
      BY <2>1, BytesAdd
    <3> QED
      BY <1>1, <2>1, <3>1, BytesType
  <2>3. Mant(n, v) = v \div P
    BY <1>4 DEF Mant
  <2> HIDE DEF P
  <2>4. v < SignBit * P
    <3>1. (2 * SignBit) * P = 2 * (SignBit * P) /\ SignBit * P \in Nat
      BY <1>1, <2>2
    <3> QED
      BY <1>2, <2>2, <3>1
  <2>5. v \div P \in Nat /\ v \div P < SignBit
    BY <1>1, <2>2, <2>4, DivBounds
  <2> QED
    BY <1>1, <2>3, <2>5
<1> QED
  BY <1>3, <1>4

\* target_to_bits starts from the number of bytes, which fits the type.
LEMMA BytesOfBits ==
  ASSUME NEW v \in 0 .. Size - 1
  PROVE  LET n == (bits(Of(v)) + ByteBits - 1) \div ByteBits
         IN  /\ n \in 0 .. 2 * LimbBits /\ ByteBits * n <= 2 * LimbBits
             /\ v < Bytes(n) /\ (n > 0 => v >= Bytes(n - 1))
<1> DEFINE w == bits(Of(v))
           e == w + ByteBits - 1
           n == e \div ByteBits
           r == e % ByteBits
           c == (2 * LimbBits) \div ByteBits
<1>1. ByteBits \in Nat \ {0} /\ LimbBits \in Nat \ {0} /\ v \in Nat
  BY WidthsAssumption
<1>2. /\ w \in 0 .. 2 * LimbBits /\ v < Pow2(w) /\ (w > 0 => v >= Pow2(w - 1))
  BY BitsExact DEF IsWidth
<1>3. c \in Nat /\ 2 * LimbBits = c * ByteBits
  <2> DEFINE u == 2 * LimbBits
  <2>1. u \in Nat /\ u % ByteBits = 0
    BY <1>1, WidthsAssumption
  <2> HIDE DEF u
  <2>2. u \div ByteBits \in Nat /\ u = (u \div ByteBits) * ByteBits + (u % ByteBits)
    BY <1>1, <2>1, DivModNat
  <2>3. u = (u \div ByteBits) * ByteBits
    BY <1>1, <2>1, <2>2
  <2> QED
    BY <2>2, <2>3 DEF u
<1> HIDE DEF w, c
<1>4. e \in Nat /\ n \in Nat /\ r \in Nat /\ r < ByteBits /\ e = n * ByteBits + r
  <2>1. e \in Nat
    BY <1>1, <1>2
  <2> QED
    BY <1>1, <2>1, DivModNat
<1>5. n <= c
  <2>1. e < (c + 1) * ByteBits
    <3>1. (c + 1) * ByteBits = c * ByteBits + ByteBits
      BY <1>1, <1>3
    <3> QED
      BY <1>1, <1>2, <1>3, <3>1
  <2>2. c + 1 \in Nat
    BY <1>3
  <2>3. n < c + 1
    BY <1>1, <1>4, <2>1, <2>2, DivBounds
  <2> HIDE DEF n
  <2> QED
    BY <1>3, <1>4, <2>3
<1>6. e = w + ByteBits - 1
  OBVIOUS
<1> HIDE DEF n, r, e
<1>7. n \in 0 .. 2 * LimbBits /\ ByteBits * n <= 2 * LimbBits
  <2>1. ByteBits * n <= ByteBits * c /\ ByteBits * c = c * ByteBits /\ n <= ByteBits * n
    BY <1>1, <1>3, <1>4, <1>5
  <2> QED
    BY <1>1, <1>3, <1>4, <2>1
<1>8. ByteBits * n \in Nat /\ ByteBits * n >= w /\ w \in Nat
  <2>1. ByteBits * n = n * ByteBits /\ n * ByteBits \in Nat
    BY <1>1, <1>4
  <2> QED
    BY <1>1, <1>2, <1>4, <1>6, <2>1
<1>9. v < Bytes(n)
  <2>1. Pow2(w) <= Pow2(ByteBits * n) /\ Pow2(w) \in Nat /\ Pow2(ByteBits * n) \in Nat
    BY <1>8, Pow2Mono, Pow2Type
  <2> QED
    BY <1>1, <1>2, <2>1 DEF Bytes
<1>10. ASSUME n > 0 PROVE v >= Bytes(n - 1)
  <2>1. (n - 1) * ByteBits = n * ByteBits - ByteBits /\ ByteBits * (n - 1) = (n - 1) * ByteBits
        /\ n * ByteBits \in Nat /\ n - 1 \in Nat
    BY <1>1, <1>4, <1>10
  <2>2. ByteBits * (n - 1) \in Nat
    BY <1>1, <2>1
  <2>3. w > 0 /\ w - 1 \in Nat /\ ByteBits * (n - 1) <= w - 1
    BY <1>1, <1>4, <1>6, <1>8, <2>1, <2>2
  <2>4. Pow2(ByteBits * (n - 1)) <= Pow2(w - 1) /\ Pow2(w - 1) \in Nat
        /\ Pow2(ByteBits * (n - 1)) \in Nat
    BY <2>2, <2>3, Pow2Mono, Pow2Type
  <2> QED
    BY <1>1, <1>2, <2>3, <2>4 DEF Bytes
<1> QED
  BY <1>7, <1>9, <1>10 DEF n, e, w

\* A number below the limb's base is the low limb of its pair.
LEMMA LowLimb ==
  ASSUME NEW n \in Nat, n < Base
  PROVE  n \in 0 .. Size - 1 /\ Of(n) = <<0, n>> /\ Of(n)[2] = n /\ from(n) = Of(n)
<1>1. Base \in Nat \ {0} /\ n \in 0 .. Base - 1 /\ 0 \in 0 .. Base - 1
  BY BaseType
<1>2. 0 * Base + n = n
  BY <1>1
<1>3. n \in 0 .. Size - 1 /\ Of(n) = <<0, n>>
  BY <1>1, <1>2, PairValue DEF Limb
<1> QED
  BY <1>3 DEF from

\* The mantissa target_to_bits computes first has the sign bit set exactly if
\* the number needs one byte more.
LEMMA FirstMantissa ==
  ASSUME NEW v \in Nat, NEW n \in Nat
  PROVE  Mant(n, v) \in Nat /\ (Mant(n, v) >= SignBit <=> 2 * v >= Bytes(n))
<1>1. SignBit \in Nat \ {0} /\ Bytes(3) = 2 * SignBit
  BY MantissaType
<1>2. CASE n <= 3
  <2> DEFINE P == Bytes(3 - n)
             N == Bytes(n)
  <2>1. 3 - n \in Nat /\ n + (3 - n) = 3
    BY <1>2
  <2>2. P \in Nat \ {0} /\ N \in Nat \ {0}
    BY <2>1, BytesType
  <2>3. N * P = 2 * SignBit
    <3>1. Bytes(n + (3 - n)) = N * P
      BY <2>1, BytesAdd
    <3> QED
      BY <1>1, <2>1, <3>1
  <2>4. Mant(n, v) = v * P
    BY <1>2 DEF Mant
  <2> HIDE DEF P, N
  <2>5. v * P \in Nat /\ (2 * v) * P = 2 * (v * P)
    BY <2>2
  <2>6. ASSUME 2 * v >= N PROVE v * P >= SignBit
    <3>1. (2 * v) * P >= N * P
      BY <2>2, <2>6
    <3> QED
      BY <1>1, <2>3, <2>5, <3>1
  <2>7. ASSUME 2 * v < N PROVE v * P < SignBit
    <3>1. (2 * v) * P < N * P
      BY <2>2, <2>7
    <3> QED
      BY <1>1, <2>3, <2>5, <3>1
  <2>8. v * P >= SignBit <=> 2 * v >= N
    BY <1>1, <2>2, <2>5, <2>6, <2>7
  <2> QED
    BY <2>4, <2>5, <2>8 DEF N
<1>3. CASE ~(n <= 3)
  <2> DEFINE P == Bytes(n - 3)
  <2>1. n - 3 \in Nat /\ 3 + (n - 3) = n /\ 3 \in Nat
    BY <1>3
  <2>2. P \in Nat \ {0} /\ Bytes(n) = 2 * (SignBit * P) /\ SignBit * P \in Nat
    <3>1. Bytes(3 + (n - 3)) = Bytes(3) * P
      BY <2>1, BytesAdd
    <3>2. P \in Nat \ {0}
      BY <2>1, BytesType
    <3>3. (2 * SignBit) * P = 2 * (SignBit * P) /\ SignBit * P \in Nat
      BY <1>1, <3>2
    <3> QED
      BY <1>1, <2>1, <3>1, <3>2, <3>3
  <2>3. Mant(n, v) = v \div P
    BY <1>3 DEF Mant
  <2> HIDE DEF P
  <2>4. /\ v \div P \in Nat
        /\ v < SignBit * P => v \div P < SignBit
        /\ SignBit * P <= v => SignBit <= v \div P
    BY <1>1, <2>2, DivBounds
  <2> QED
    BY <1>1, <2>2, <2>3, <2>4
<1> QED
  BY <1>2, <1>3

\* Where it is, dropping a byte of it gives the mantissa of the larger size.
LEMMA NextMantissa ==
  ASSUME NEW v \in Nat, NEW n \in Nat
  PROVE  Mant(n + 1, v) = Mant(n, v) \div Byte
<1>1. Bytes(0) = 1 /\ Bytes(1) = Byte /\ Byte \in Nat \ {0}
  BY MantissaType
<1>2. CASE n <= 2
  <2> DEFINE P == Bytes(2 - n)
  <2>1. 2 - n \in Nat /\ (2 - n) + 1 = 3 - n /\ 3 - (n + 1) = 2 - n /\ 1 \in Nat
    BY <1>2
  <2>2. Bytes((2 - n) + 1) = P * Bytes(1) /\ P \in Nat
    BY <2>1, BytesAdd, BytesType
  <2>3. Mant(n + 1, v) = v * P
    BY <1>2, <2>1 DEF Mant
  <2>4. Mant(n, v) = v * (P * Byte)
    BY <1>1, <1>2, <2>1, <2>2 DEF Mant
  <2> HIDE DEF P
  <2>5. v * (P * Byte) = (v * P) * Byte + 0 /\ v * P \in Int /\ 0 \in 0 .. Byte - 1
    BY <1>1, <2>2
  <2>6. ((v * P) * Byte + 0) \div Byte = v * P
    BY <1>1, <2>5, DivModUnique
  <2> QED
    BY <2>3, <2>4, <2>5, <2>6
<1>3. CASE n = 3
  <2>1. 3 - n = 0 /\ (n + 1) - 3 = 1 /\ n <= 3 /\ ~(n + 1 <= 3)
    BY <1>3
  <2>2. Mant(n, v) = v * Bytes(0) /\ Mant(n + 1, v) = v \div Bytes(1)
    BY <2>1 DEF Mant
  <2>3. v * 1 = v
    OBVIOUS
  <2> QED
    BY <1>1, <2>2, <2>3
<1>4. CASE n > 3
  <2> DEFINE P == Bytes(n - 3)
  <2>1. n - 3 \in Nat /\ (n + 1) - 3 = (n - 3) + 1 /\ 1 \in Nat
        /\ ~(n <= 3) /\ ~(n + 1 <= 3)
    BY <1>4
  <2>2. Bytes((n - 3) + 1) = P * Bytes(1) /\ P \in Nat \ {0}
    BY <2>1, BytesAdd, BytesType
  <2>3. Mant(n, v) = v \div P /\ Mant(n + 1, v) = v \div (P * Byte)
    BY <1>1, <2>1, <2>2 DEF Mant
  <2> HIDE DEF P
  <2> QED
    BY <1>1, <2>2, <2>3, DivDiv
<1> QED
  BY <1>2, <1>3, <1>4

\* target_to_bits is the compact form, for every value of the type.
LEMMA ToBitsExact ==
  ASSUME NEW v \in 0 .. Size - 1
  PROVE  /\ target_to_bits(Of(v)) = CompactForm(v)
         /\ \E n \in 0 .. 2 * LimbBits + 1 : ByteBits * n <= 2 * LimbBits + ByteBits /\ IsSize(n, v)
<1> DEFINE n == (bits(Of(v)) + ByteBits - 1) \div ByteBits
           c == IF n <= 3 THEN Of(v)[2] * Bytes(3 - n)
                ELSE wrapping_shr(Of(v), ByteBits * (n - 3))[2] % Mantissa
<1>1. /\ n \in 0 .. 2 * LimbBits /\ ByteBits * n <= 2 * LimbBits
      /\ v < Bytes(n) /\ (n > 0 => v >= Bytes(n - 1))
  BY BytesOfBits
<1>2. target_to_bits(Of(v)) = IF c >= SignBit THEN (n + 1) * Mantissa + c \div Byte
                              ELSE n * Mantissa + c
  BY Zenon DEF target_to_bits
<1> HIDE DEF n
<1>3. v \in Nat /\ n \in Nat /\ LimbBits \in Nat /\ ByteBits \in Nat \ {0} /\ Size \in Nat
  BY <1>1, WidthsAssumption, BaseType
<1>4. /\ SignBit \in Nat \ {0} /\ Bytes(3) = 2 * SignBit /\ Mantissa = Bytes(3)
      /\ Mantissa <= Base /\ Base \in Nat /\ Byte \in Nat /\ Byte >= 2 /\ Bytes(1) = Byte
  BY MantissaType, BaseType
<1>5. c = Mant(n, v)
  <2>1. CASE n <= 3
    <3>1. 3 \in Nat /\ n \in 0 .. 3
      BY <1>3, <2>1
    <3>2. Bytes(n) <= Bytes(3) /\ Bytes(n) \in Nat
      BY <1>3, <3>1, BytesType
    <3>3. v < Base
      BY <1>1, <1>3, <1>4, <3>2
    <3>4. Of(v)[2] = v
      BY <1>3, <3>3, LowLimb
    <3> QED
      BY <2>1, <3>4 DEF Mant
  <2>2. CASE ~(n <= 3)
    <3> DEFINE k == ByteBits * (n - 3)
               P == Bytes(n - 3)
    <3>1. n - 3 \in Nat /\ 3 + (n - 3) = n /\ 3 \in Nat
      BY <1>3, <2>2
    <3>2. k \in 0 .. 2 * LimbBits - 1
      <4>1. k = ByteBits * n - 3 * ByteBits /\ ByteBits * n \in Nat /\ k \in Nat
        BY <1>3, <3>1
      <4> QED
        BY <1>1, <1>3, <4>1
    <3>3. wrapping_shr(Of(v), k) = Of(v \div P)
      BY <3>2, ShrExact DEF Bytes
    <3>4. P \in Nat \ {0} /\ Bytes(3 + (n - 3)) = Bytes(3) * P
      BY <3>1, BytesAdd, BytesType
    <3>5. v < Mantissa * P
      BY <1>1, <1>4, <3>1, <3>4
    <3> HIDE DEF P
    <3>6. v \div P \in Nat /\ v \div P < Mantissa /\ Mantissa \in Nat \ {0}
      <4>1. Mantissa \in Nat \ {0}
        BY <1>4
      <4> QED
        BY <1>3, <3>4, <3>5, <4>1, DivBounds
    <3>7. v \div P < Base /\ v \div P \in 0 .. Mantissa - 1
      BY <1>4, <3>6
    <3>8. Of(v \div P)[2] = v \div P
      BY <3>6, <3>7, LowLimb
    <3>9. (v \div P) % Mantissa = v \div P
      BY <3>6, <3>7, ModSmall
    <3>10. c = v \div P
      BY <2>2, <3>3, <3>8, <3>9
    <3>11. Mant(n, v) = v \div P
      BY <2>2 DEF Mant, P
    <3> QED
      BY <3>10, <3>11
  <2> QED
    BY <2>1, <2>2
<1> HIDE DEF c
<1>6. c \in Nat /\ (c >= SignBit <=> 2 * v >= Bytes(n)) /\ Bytes(n) \in Nat
  BY <1>3, <1>5, FirstMantissa, BytesType
<1>7. CASE c >= SignBit
  <2>1. n + 1 \in Nat /\ (n + 1) - 1 = n /\ n + 1 \in 0 .. 2 * LimbBits + 1 /\ 1 \in Nat
    BY <1>1, <1>3
  <2>2. Bytes(n + 1) = Bytes(n) * Byte
    BY <1>3, <1>4, <2>1, BytesAdd
  <2>3. 2 * v < Bytes(n + 1)
    <3>1. Bytes(n) * Byte >= Bytes(n) * 2 /\ Bytes(n) * Byte \in Int
      BY <1>4, <1>6
    <3> QED
      BY <1>1, <1>3, <1>6, <2>2, <3>1
  <2>4. IsSize(n + 1, v)
    BY <1>3, <1>6, <1>7, <2>1, <2>3, SizeIs
  <2>5. CompactForm(v) = (n + 1) * Mantissa + Mant(n + 1, v)
    BY <1>3, <2>1, <2>4, CompactReads
  <2>6. Mant(n + 1, v) = c \div Byte
    BY <1>3, <1>5, NextMantissa
  <2>7. ByteBits * (n + 1) <= 2 * LimbBits + ByteBits
    <3>1. ByteBits * (n + 1) = ByteBits * n + ByteBits /\ ByteBits * n \in Nat
      BY <1>3
    <3> QED
      BY <1>1, <1>3, <3>1
  <2> QED
    BY <1>2, <1>7, <2>1, <2>4, <2>5, <2>6, <2>7
<1>8. CASE ~(c >= SignBit)
  <2>1. n \in 0 .. 2 * LimbBits + 1
    BY <1>1, <1>3
  <2>2. 2 * v < Bytes(n) /\ (n > 0 => 2 * v >= Bytes(n - 1))
    <3>1. n > 0 => n - 1 \in Nat
      BY <1>3
    <3>2. n > 0 => Bytes(n - 1) \in Nat
      BY <3>1, BytesType
    <3> QED
      BY <1>1, <1>3, <1>6, <1>8, <3>2
  <2>3. IsSize(n, v)
    BY <1>3, <2>2, SizeIs
  <2>4. CompactForm(v) = n * Mantissa + c
    BY <1>3, <1>5, <2>1, <2>3, CompactReads
  <2>5. ByteBits * n <= 2 * LimbBits + ByteBits
    <3>1. ByteBits * n \in Nat
      BY <1>3
    <3> QED
      BY <1>1, <1>3, <3>1
  <2> QED
    BY <1>2, <1>8, <2>1, <2>3, <2>4, <2>5
<1> QED
  BY <1>7, <1>8

\* Any shift amount is masked to the width.
LEMMA ShlMasked ==
  ASSUME NEW n \in 0 .. Size - 1, NEW k \in Nat
  PROVE  LET j == k % (2 * LimbBits)
         IN  j \in 0 .. 2 * LimbBits - 1 /\ wrapping_shl(Of(n), k) = Of((n * Pow2(j)) % Size)
<1> DEFINE W == 2 * LimbBits
           j == k % W
<1>1. W \in Nat \ {0} /\ k \in Int
  BY WidthsAssumption
<1>2. j \in 0 .. W - 1
  BY <1>1, DivMod
<1>3. j % W = j
  BY <1>1, <1>2, ModSmall
<1>4. wrapping_shl(Of(n), k) = wrapping_shl(Of(n), j)
  <2>1. k % (2 * LimbBits) = j % (2 * LimbBits)
    BY <1>3
  <2> HIDE DEF j
  <2> QED
    BY <2>1, Zenon DEF wrapping_shl
<1> QED
  BY <1>2, <1>4, ShlExact

\* The parts of a compact form.
LEMMA CompactParts ==
  ASSUME NEW n \in Nat, NEW t \in 0 .. SignBit - 1
  PROVE  (n * Mantissa + t) \div Mantissa = n /\ (n * Mantissa + t) % Mantissa = t
<1>1. Mantissa \in Nat \ {0} /\ t \in 0 .. Mantissa - 1 /\ n \in Int
  BY MantissaType
<1> QED
  BY <1>1, DivModUnique

\* target_from_bits reads a size of up to three bytes ...
LEMMA FromBitsSmall ==
  ASSUME NEW b \in Nat, b \div Mantissa <= 3, NEW t \in 0 .. SignBit - 1,
         (b % Mantissa) \div Bytes(3 - (b \div Mantissa)) = t
  PROVE  target_from_bits(b) = Of(t) /\ t \in 0 .. Size - 1
<1>1. t \in Nat /\ t < Base /\ ~(t >= SignBit)
  BY MantissaType, BaseType
<1>2. t \in 0 .. Size - 1 /\ from(t) = Of(t)
  BY <1>1, LowLimb
<1>3. target_from_bits(b) = wrapping_shl(from(t), 0)
  BY <1>1, Zenon DEF target_from_bits
<1>4. 0 \in 0 .. 2 * LimbBits - 1
  BY WidthsAssumption
<1>5. wrapping_shl(Of(t), 0) = Of((t * Pow2(0)) % Size)
  BY <1>2, <1>4, ShlExact
<1>6. t * Pow2(0) = t
  BY <1>1, Pow2Zero
<1>7. t % Size = t
  BY <1>2, BaseType, ModSmall
<1> QED
  BY <1>2, <1>3, <1>5, <1>6, <1>7

\* ... and a larger one.
LEMMA FromBitsLarge ==
  ASSUME NEW b \in Nat, ~(b \div Mantissa <= 3), NEW t \in 0 .. SignBit - 1,
         b % Mantissa = t
  PROVE  LET k == (ByteBits * ((b \div Mantissa) - 3)) % (2 * LimbBits)
         IN  /\ k \in 0 .. 2 * LimbBits - 1 /\ t \in 0 .. Size - 1
             /\ target_from_bits(b) = Of((t * Pow2(k)) % Size)
<1> DEFINE j == ByteBits * ((b \div Mantissa) - 3)
<1>1. t \in Nat /\ t < Base /\ ~(t >= SignBit)
  BY MantissaType, BaseType
<1>2. t \in 0 .. Size - 1 /\ from(t) = Of(t)
  BY <1>1, LowLimb
<1>3. target_from_bits(b) = wrapping_shl(from(t), j)
  BY <1>1, Zenon DEF target_from_bits
<1>4. j \in Nat
  <2>1. Mantissa \in Nat \ {0}
    BY MantissaType
  <2>2. b \div Mantissa \in Nat
    BY <2>1, DivBounds
  <2>3. (b \div Mantissa) - 3 \in Nat
    BY <2>2
  <2> QED
    BY <2>3, WidthsAssumption
<1> HIDE DEF j
<1>5. /\ j % (2 * LimbBits) \in 0 .. 2 * LimbBits - 1
      /\ wrapping_shl(Of(t), j) = Of((t * Pow2(j % (2 * LimbBits))) % Size)
  BY <1>2, <1>4, ShlMasked
<1> QED
  BY <1>2, <1>3, <1>5 DEF j

\* A target is a mantissa below the sign bit, shifted, whatever the bits.
LEMMA TargetShape ==
  ASSUME NEW b \in Nat
  PROVE  \E t \in 0 .. SignBit - 1, k \in 0 .. 2 * LimbBits - 1 :
            /\ t * Pow2(k) \in Nat
            /\ target_from_bits(b) = Of((t * Pow2(k)) % Size)
<1> DEFINE n == b \div Mantissa
           t == IF n <= 3 THEN (b % Mantissa) \div Bytes(3 - n) ELSE b % Mantissa
<1>1. /\ SignBit \in Nat \ {0} /\ Size \in Nat \ {0} /\ 0 \in 0 .. SignBit - 1
      /\ 0 \in 0 .. 2 * LimbBits - 1 /\ Mantissa \in Nat \ {0}
  BY MantissaType, BaseType, WidthsAssumption
<1>2. n \in Nat /\ b % Mantissa \in Nat
  BY <1>1, DivModNat
<1>3. t \in Nat
  <2>1. CASE n <= 3
    <3>1. 3 - n \in Nat
      BY <1>2, <2>1
    <3>2. Bytes(3 - n) \in Nat \ {0}
      BY <3>1, BytesType
    <3>3. (b % Mantissa) \div Bytes(3 - n) \in Nat
      BY <1>2, <3>2, DivBounds
    <3> QED
      BY <2>1, <3>3
  <2>2. CASE ~(n <= 3)
    BY <1>2, <2>2
  <2> QED
    BY <2>1, <2>2
<1>4. CASE t >= SignBit
  <2>1. target_from_bits(b) = ZERO
    BY <1>4, Zenon DEF target_from_bits
  <2>2. ZERO = Of(0)
    BY OneIsOne
  <2>3. 0 * Pow2(0) = 0 /\ 0 % Size = 0
    BY <1>1, Pow2Zero
  <2> QED
    BY <1>1, <2>1, <2>2, <2>3
<1>5. CASE n <= 3 /\ ~(t >= SignBit)
  <2>1. t \in 0 .. SignBit - 1
    BY <1>1, <1>3, <1>5
  <2>2. t = (b % Mantissa) \div Bytes(3 - n)
    BY <1>5
  <2> HIDE DEF t
  <2>3. target_from_bits(b) = Of(t) /\ t \in 0 .. Size - 1
    BY <1>5, <2>1, <2>2, FromBitsSmall
  <2>4. t * Pow2(0) = t /\ t % Size = t
    BY <1>1, <1>3, <2>3, Pow2Zero, ModSmall
  <2> QED
    BY <1>1, <1>3, <2>1, <2>3, <2>4
<1>6. CASE ~(n <= 3) /\ ~(t >= SignBit)
  <2> DEFINE k == (ByteBits * (n - 3)) % (2 * LimbBits)
  <2>1. t \in 0 .. SignBit - 1
    BY <1>1, <1>3, <1>6
  <2>2. t = b % Mantissa
    BY <1>6
  <2> HIDE DEF t
  <2>3. k \in 0 .. 2 * LimbBits - 1 /\ target_from_bits(b) = Of((t * Pow2(k)) % Size)
    BY <1>6, <2>1, <2>2, FromBitsLarge
  <2> HIDE DEF k
  <2>4. k \in Nat /\ Pow2(k) \in Nat
    BY <2>3, Pow2Type, WidthsAssumption
  <2>5. t * Pow2(k) \in Nat
    BY <1>3, <2>4
  <2> QED
    BY <2>1, <2>3, <2>5
<1> QED
  BY <1>4, <1>5, <1>6

\* Encoding a value and decoding it gives a value that is not larger and has
\* the same compact form.
LEMMA CompactStable ==
  ASSUME NEW v \in 0 .. Size - 1
  PROVE  \E w \in 0 .. v : /\ target_from_bits(CompactForm(v)) = Of(w)
                           /\ CompactForm(w) = CompactForm(v)
<1>1. PICK n \in 0 .. 2 * LimbBits + 1 :
             ByteBits * n <= 2 * LimbBits + ByteBits /\ IsSize(n, v)
  BY ToBitsExact
<1>2. /\ v \in Nat /\ n \in Nat /\ LimbBits \in Nat /\ ByteBits \in Nat \ {0}
      /\ Size \in Nat \ {0} /\ SignBit \in Nat \ {0} /\ Mantissa = 2 * SignBit
  BY <1>1, WidthsAssumption, BaseType, MantissaType
<1> DEFINE t == Mant(n, v)
           b == n * Mantissa + t
<1>3. CompactForm(v) = b
  BY <1>1, <1>2, CompactReads
<1>4. t \in 0 .. SignBit - 1
  BY <1>1, <1>2, MantBounds
<1> HIDE DEF t
<1>5. b \in Nat
  <2>1. n * Mantissa \in Nat
    BY <1>2
  <2> QED
    BY <1>2, <1>4, <2>1
<1>6. b \div Mantissa = n /\ b % Mantissa = t
  BY <1>2, <1>4, CompactParts
<1> HIDE DEF b
<1>7. CASE n <= 3
  <2> DEFINE P == Bytes(3 - n)
  <2>1. 3 - n \in Nat /\ t = v * P
    BY <1>2, <1>7 DEF t, Mant
  <2>2. P \in Nat \ {0}
    BY <2>1, BytesType
  <2>3. t \div P = v
    <3> HIDE DEF P
    <3>1. v * P + 0 = t /\ v \in Int /\ 0 \in 0 .. P - 1
      BY <1>2, <2>1, <2>2
    <3>2. (v * P + 0) \div P = v
      BY <2>2, <3>1, DivModUnique
    <3> QED
      BY <3>1, <3>2
  <2>4. v \in 0 .. SignBit - 1
    <3> HIDE DEF P
    <3>1. v <= v * P
      BY <1>2, <2>2
    <3> QED
      BY <1>2, <1>4, <2>1, <3>1
  <2>5. target_from_bits(b) = Of(v)
    BY <1>5, <1>6, <1>7, <2>3, <2>4, FromBitsSmall
  <2>6. v \in 0 .. v
    BY <1>2
  <2> QED
    BY <1>3, <2>5, <2>6
<1>8. CASE ~(n <= 3)
  <2> DEFINE P == Bytes(n - 3)
             k == ByteBits * (n - 3)
             w == t * P
  <2>1. /\ n - 3 \in Nat /\ n - 1 \in Nat /\ 2 \in Nat
        /\ 2 + (n - 3) = n - 1
    BY <1>2, <1>8
  <2>2. P \in Nat \ {0} /\ P = Pow2(k) /\ t = v \div P
    BY <1>8, <2>1, BytesType DEF Bytes, t, Mant
  <2>3. k \in 0 .. 2 * LimbBits - 1
    <3>1. k = ByteBits * n - 3 * ByteBits /\ ByteBits * n \in Nat /\ k \in Nat
      BY <1>2, <2>1
    <3> QED
      BY <1>1, <1>2, <3>1
  <2> HIDE DEF k
  <2>4. k % (2 * LimbBits) = k
    <3>1. 2 * LimbBits \in Nat \ {0}
      BY WidthsAssumption
    <3> QED
      BY <2>3, <3>1, ModSmall
  <2>5. target_from_bits(b) = Of((t * Pow2(k)) % Size)
    BY <1>4, <1>5, <1>6, <1>8, <2>4, FromBitsLarge DEF k
  <2> HIDE DEF P
  <2>6. w \in 0 .. v
    <3>1. v % P \in Nat /\ v = t * P + (v % P)
      BY <1>2, <2>2, DivModNat
    <3>2. t * P \in Nat
      BY <1>2, <1>4, <2>2
    <3> QED
      BY <1>2, <3>1, <3>2
  <2>7. target_from_bits(b) = Of(w)
    <3>1. w \in 0 .. Size - 1
      BY <1>2, <2>6
    <3>2. w % Size = w
      BY <1>2, <3>1, ModSmall
    <3> QED
      BY <2>2, <2>5, <3>2
  <2>8. IsSize(n, w)
    <3> HIDE DEF w
    <3>1. 2 * v < Bytes(n) /\ 2 * v >= Bytes(n - 1)
      <4>1. n - 1 \in 0 .. n - 1
        BY <2>1
      <4> QED
        BY <1>1, <4>1 DEF IsSize
    <3>2. PICK e \in Nat : Bytes(n - 1) = (2 * e) * P
      <4>1. Bytes(2 + (n - 3)) = Bytes(2) * P
        BY <2>1, BytesAdd DEF P
      <4>2. ByteBits * 2 - 1 \in Nat /\ (ByteBits * 2 - 1) + 1 = ByteBits * 2
        BY <1>2
      <4>3. Bytes(2) = 2 * Pow2(ByteBits * 2 - 1) /\ Pow2(ByteBits * 2 - 1) \in Nat
        BY <4>2, Pow2Step, Pow2Type DEF Bytes
      <4> QED
        BY <2>1, <4>1, <4>3
    <3>3. (2 * e) * P = 2 * (e * P) /\ e * P \in Nat
      BY <2>2
    <3>4. e <= t
      <4>1. e * P <= v
        BY <1>2, <3>1, <3>2, <3>3
      <4> QED
        BY <1>2, <2>2, <4>1, DivBounds
    <3>5. e * P <= w
      BY <1>2, <1>4, <2>2, <3>4 DEF w
    <3>6. w \in Nat /\ Bytes(n) \in Nat
      BY <1>2, <2>6, BytesType
    <3>7. 2 * w < Bytes(n) /\ 2 * w >= Bytes(n - 1)
      BY <1>2, <2>6, <3>1, <3>2, <3>3, <3>5, <3>6
    <3> QED
      BY <1>2, <3>6, <3>7, SizeIs
  <2>9. Mant(n, w) = t
    <3>1. t * P + 0 = w /\ t \in Int /\ 0 \in 0 .. P - 1
      BY <1>2, <1>4, <2>2
    <3>2. (t * P + 0) \div P = t
      BY <2>2, <3>1, DivModUnique
    <3>3. Mant(n, w) = w \div P
      BY <1>8 DEF Mant, P
    <3> QED
      BY <3>1, <3>2, <3>3
  <2> HIDE DEF w
  <2>10. CompactForm(w) = n * Mantissa + t
    <3>1. w \in Nat
      BY <1>2, <2>6
    <3> QED
      BY <1>1, <2>8, <2>9, <3>1, CompactReads
  <2> QED
    BY <1>3, <2>6, <2>7, <2>10 DEF b
<1> QED
  BY <1>7, <1>8

-----------------------------------------------------------------------------
(***************************************************************************)
(* Scaling a target.                                                       *)
(***************************************************************************)

\* A multiple of half a limb's base loses nothing in the carry.
LEMMA CarryOfMultiple ==
  ASSUME NEW z \in Nat, NEW m \in Nat
  PROVE  LET l == z * Half
         IN  (l * m) \div Base = ((l \div Half) * m) \div Half
<1>1. Half \in Nat \ {0} /\ Base = Half * Half
  BY BaseType
<1>2. (z * Half) \div Half = z
  <2>1. z * Half = z * Half + 0 /\ z \in Int /\ 0 \in 0 .. Half - 1
    BY <1>1
  <2> QED
    BY <1>1, <2>1, DivModUnique
<1>3. (z * Half) * m = (z * m) * Half + 0 /\ (z * Half) * m \in Nat /\ z * m \in Int
      /\ 0 \in 0 .. Half - 1
  BY <1>1
<1>4. ((z * Half) * m) \div Half = z * m
  BY <1>1, <1>3, DivModUnique
<1>5. ((z * Half) * m) \div (Half * Half) = (((z * Half) * m) \div Half) \div Half
  BY <1>1, <1>3, DivDiv
<1> QED
  BY <1>1, <1>2, <1>4, <1>5

\* The remainder of a multiple, for a modulus that is one, is a multiple.
LEMMA RemainderOfMultiple ==
  ASSUME NEW u \in Nat, NEW c \in Nat \ {0}
  PROVE  \E z \in Nat : (u * Half) % (c * Half) = z * Half
<1>1. Half \in Nat \ {0}
  BY BaseType
<1> DEFINE q == u \div c
           z == u % c
<1>2. q \in Nat /\ z \in Nat /\ z < c /\ u = q * c + z
  BY DivModNat
<1> HIDE DEF q, z
<1>3. u * Half = q * (c * Half) + z * Half
  BY <1>1, <1>2
<1>4. c * Half \in Nat \ {0} /\ z * Half \in 0 .. c * Half - 1 /\ q \in Int
  <2>1. z + 1 <= c /\ (z + 1) * Half <= c * Half /\ (z + 1) * Half = z * Half + Half
    BY <1>1, <1>2
  <2>2. z * Half \in Nat /\ c * Half \in Nat
    BY <1>1, <1>2
  <2> QED
    BY <1>1, <1>2, <2>1, <2>2
<1>5. (u * Half) % (c * Half) = z * Half
  BY <1>3, <1>4, DivModUnique
<1> QED
  BY <1>2, <1>5

\* The product of a target and a time span is exact, overflow flag included: a
\* target shifted by half a limb has no bits in the half the carry ignores, and
\* the low limb of another is too small for a carry.
LEMMA ScaledExact ==
  ASSUME NEW t \in 0 .. SignBit - 1, NEW k \in 0 .. 2 * LimbBits - 1,
         NEW m \in 0 .. Half - 1, (SignBit - 1) * m < 2 * Half
  PROVE  LET n == (t * Pow2(k)) % Size
         IN  /\ n \in 0 .. Size - 1
             /\ overflowing_mul(Of(n), m) = [val |-> Of((n * m) % Size), overflow |-> n * m >= Size]
<1> DEFINE g == t * Pow2(k)
           n == g % Size
           l == n % Base
           H == LimbBits \div 2
<1>1. /\ SignBit \in Nat \ {0} /\ Half \in Nat \ {0} /\ Base \in Nat \ {0}
      /\ Base = Half * Half /\ Size \in Nat \ {0} /\ LimbBits \in Nat
      /\ H \in Nat \ {0} /\ Half = Pow2(H) /\ m \in Nat /\ t \in Nat /\ k \in Nat
  BY MantissaType, BaseType, WidthsAssumption DEF Half
<1>2. Pow2(k) \in Nat \ {0} /\ g \in Nat
  <2>1. Pow2(k) \in Nat \ {0}
    BY <1>1, Pow2Type
  <2> QED
    BY <1>1, <2>1
<1> HIDE DEF g, H
<1>3. n \in Nat /\ n < Size /\ n \in 0 .. Size - 1
  BY <1>1, <1>2, DivModNat
<1>4. l \in Nat /\ l <= n /\ n <= g
  <2>1. ASSUME NEW a \in Nat, NEW d \in Nat \ {0} PROVE a % d \in Nat /\ a % d <= a
    <3>1. a \div d \in Nat /\ a % d \in Nat /\ a = (a \div d) * d + (a % d)
      BY DivModNat
    <3>2. (a \div d) * d \in Nat
      BY <3>1
    <3> QED
      BY <3>1, <3>2
  <2> QED
    BY <1>1, <1>2, <1>3, <2>1
<1>5. ~((l * m) \div Base > ((l \div Half) * m) \div Half)
  <2>1. CASE k >= H
    <3>1. k - H \in Nat /\ H + (k - H) = k
      BY <1>1, <2>1
    <3>2. PICK u \in Nat : g = u * Half
      <4>1. Pow2(H + (k - H)) = Pow2(H) * Pow2(k - H) /\ Pow2(k - H) \in Nat
        BY <1>1, <3>1, Pow2Add, Pow2Type
      <4>2. g = (t * Pow2(k - H)) * Half /\ t * Pow2(k - H) \in Nat
        BY <1>1, <3>1, <4>1 DEF g
      <4> QED
        BY <4>2
    <3>3. PICK y \in Nat : n = y * Half
      <4>1. Base * Half \in Nat \ {0} /\ Size = (Base * Half) * Half
        BY <1>1 DEF Size
      <4> QED
        BY <3>2, <4>1, RemainderOfMultiple
    <3>4. PICK z \in Nat : l = z * Half
      <4> HIDE DEF n
      <4>1. PICK z \in Nat : (y * Half) % (Half * Half) = z * Half
        BY <1>1, RemainderOfMultiple
      <4> QED
        BY <1>1, <3>3, <4>1
    <3> HIDE DEF l
    <3>5. (l * m) \div Base = ((l \div Half) * m) \div Half
      BY <1>1, <3>4, CarryOfMultiple
    <3>6. (l * m) \div Base \in Int
      <4>1. l * m \in Nat
        BY <1>1, <1>4
      <4> QED
        BY <1>1, <4>1, DivBounds
    <3> QED
      BY <3>5, <3>6
  <2>2. CASE k < H
    <3> DEFINE Q == Pow2(H - 1)
    <3>1. H - 1 \in Nat /\ (H - 1) + 1 = H /\ k <= H - 1
      BY <1>1, <2>2
    <3>2. Q \in Nat /\ Pow2(k) <= Q /\ Half = 2 * Q
      BY <1>1, <3>1, Pow2Step, Pow2Type, Pow2Mono
    <3> HIDE DEF Q, l, n
    <3>3. g * m <= ((SignBit - 1) * m) * Q
      <4>1. t * m <= (SignBit - 1) * m /\ t * m \in Nat /\ (SignBit - 1) * m \in Nat
        BY <1>1
      <4>2. (t * m) * Pow2(k) <= (t * m) * Q /\ (t * m) * Q <= ((SignBit - 1) * m) * Q
        BY <1>2, <3>2, <4>1
      <4>3. (t * Pow2(k)) * m = (t * m) * Pow2(k)
        BY <1>1, <1>2
      <4>4. (t * m) * Pow2(k) \in Int /\ (t * m) * Q \in Int /\ ((SignBit - 1) * m) * Q \in Int
        BY <1>2, <3>2, <4>1
      <4> QED
        BY <4>2, <4>3, <4>4 DEF g
    <3>4. ((SignBit - 1) * m) * Q < Base
      <4>1. (SignBit - 1) * m \in Nat /\ Q > 0
        BY <1>1, <3>2
      <4>2. ((SignBit - 1) * m) * Q < (2 * Half) * Q
        BY <1>1, <3>2, <4>1
      <4>3. (2 * Half) * Q = Half * (2 * Q)
        BY <1>1, <3>2
      <4> QED
        BY <1>1, <3>2, <4>2, <4>3
    <3>5. l * m <= g * m /\ l * m \in Nat /\ g * m \in Nat
      <4>1. l <= g
        BY <1>2, <1>3, <1>4
      <4> QED
        BY <1>1, <1>2, <1>4, <4>1
    <3>6. l * m \in 0 .. Base - 1
      <4>1. ((SignBit - 1) * m) * Q \in Int
        BY <1>1, <3>2
      <4> QED
        BY <1>1, <3>3, <3>4, <3>5, <4>1
    <3>7. (l * m) \div Base = 0
      BY <1>1, <3>6, ModSmall
    <3>8. ((l \div Half) * m) \div Half \in Nat
      <4>1. l \div Half \in Nat
        BY <1>1, <1>4, DivBounds
      <4>2. (l \div Half) * m \in Nat
        BY <1>1, <4>1
      <4> QED
        BY <1>1, <4>2, DivBounds
    <3> QED
      BY <3>7, <3>8
  <2> QED
    BY <1>1, <2>1, <2>2
<1> HIDE DEF n
<1>6. overflowing_mul(Of(n), m) = [val |-> Of((n * m) % Size), overflow |-> n * m >= Size]
  BY <1>3, <1>5, MulExact DEF l
<1> QED
  BY <1>3, <1>6 DEF n, g
=============================================================================
