-------------------------- MODULE DeploymentProofs -------------------------
(***************************************************************************)
(* The contract as deployed.  An upgrade loses nothing: its invariant and  *)
(* its refinement of HeaviestChain hold across DeployCode and migrate. And *)
(* time moves forward: the median time past never decreases along the main *)
(* chain, whichever coin the contract is built for.                        *)
(***************************************************************************)
EXTENDS PowRules, Upgrade, HeaviestChainProofs

CONSTANTS
  DigishieldHeight, MinDifficultyHeight,           \* of Dogecoin
  MAX_FUTURE_BLOCK_TIME_MTP,                       \* of Zcash
  pow_max_adjust_down, pow_max_adjust_up,
  pow_allow_min_difficulty_blocks_after_height, EquihashValid

-----------------------------------------------------------------------------
(***************************************************************************)
(* Upgrades.                                                               *)
(***************************************************************************)

\* migrate gives every field the value it had.
LEMMA MigratedFields ==
  ASSUME NEW s, IsStorage(s)
  PROVE  LET t == migrated(s)
         IN  /\ IsStorage(t)
             /\ t.height_to_header = s.height_to_header
             /\ t.header_to_height = s.header_to_height
             /\ t.tip_blockhash = s.tip_blockhash
             /\ t.initial_blockhash = s.initial_blockhash
             /\ t.headers_pool = s.headers_pool
BY DEF migrated, IsStorage

\* Soundness and storage usage depend on the fields only.
LEMMA MigratedSound ==
  ASSUME NEW s, IsStorage(s), Sound(s)
  PROVE  /\ IsStorage(migrated(s)) /\ Sound(migrated(s))
         /\ storage_usage(migrated(s)) = storage_usage(s)
<1> DEFINE t == migrated(s)
<1>1. /\ IsStorage(t)
      /\ t.height_to_header = s.height_to_header
      /\ t.header_to_height = s.header_to_height
      /\ t.tip_blockhash = s.tip_blockhash
      /\ t.initial_blockhash = s.initial_blockhash
      /\ t.headers_pool = s.headers_pool
  BY MigratedFields
<1> HIDE DEF t
<1>2. Sound(t)
  <2>1. Tip(t) = Tip(s) /\ Initial(t) = Initial(s)
    BY <1>1 DEF Tip, Initial
  <2>2. IsPath(t)
    BY <1>1, <2>1 DEF Sound, IsPath
  <2>3. IsHeaviest(t) /\ IsTrue(t)
    BY <1>1, <2>1 DEF Sound, IsHeaviest, IsTrue
  <2> QED
    BY <2>2, <2>3 DEF Sound
<1>3. storage_usage(t) = storage_usage(s)
  BY <1>1 DEF storage_usage
<1> QED
  BY <1>1, <1>2, <1>3 DEF t

\* Both invariants hold after every step of the contract and of its upgrade,
\* and each is a step of the abstract chain or leaves it alone.
LEMMA UpgradeStep ==
  Inv /\ LinkInv /\ [UpgradeNext]_upgradeVars
    => Inv' /\ LinkInv' /\ [HC!Next]_(saved.height_to_header)
<1> SUFFICES ASSUME Inv, LinkInv, [UpgradeNext]_upgradeVars
             PROVE  Inv' /\ LinkInv' /\ [HC!Next]_(saved.height_to_header)
  OBVIOUS
<1>1. ASSUME [Next]_vars
      PROVE  Inv' /\ LinkInv' /\ [HC!Next]_(saved.height_to_header)
  BY <1>1, NextInv, NextLink, NextImplements
<1>2. CASE migrate
  <2>1. /\ IsStorage(saved) /\ Sound(saved)
        /\ pc = "idle" /\ pc' = "idle" /\ db' = saved'
        /\ UNCHANGED <<call, cursor, fork_tip, paused, balance, clock>>
    BY <1>2 DEF migrate, Inv, TypeOK, SavedInv
  <2>2. /\ IsStorage(saved') /\ Sound(saved')
        /\ storage_usage(saved') = storage_usage(saved)
        /\ saved'.height_to_header = saved.height_to_header
    BY <1>2, <2>1, MigratedSound, MigratedFields DEF migrate
  <2>3. TypeOK'
    BY <2>1, <2>2 DEF Inv, TypeOK
  <2>4. SavedInv' /\ WorkingInv'
    BY <2>1, <2>2 DEF SavedInv, WorkingInv
  <2>5. StorageIsPaidFor'
    BY <2>1, <2>2 DEF Inv, StorageIsPaidFor
  <2>6. LinkInv'
    BY <2>1 DEF LinkInv
  <2> QED
    BY <2>2, <2>3, <2>4, <2>5, <2>6 DEF Inv
<1>3. CASE Call
  BY <1>1, <1>3 DEF Call
<1>4. CASE DeployCode \/ UNCHANGED upgradeVars
  BY <1>1, <1>4 DEF DeployCode, upgradeVars
<1> QED
  BY <1>2, <1>3, <1>4 DEF UpgradeNext

\* The committed main chain is one path of parent links, before, during and
\* after an upgrade of the contract's code.
THEOREM UpgradedMainchain == UpgradeSpec => []MainchainIsPath
<1>1. Inv => MainchainIsPath
  BY SavedIsSound DEF MainchainIsPath, Sound
<1> QED
  BY <1>1, InitInv, InitLink, UpgradeStep, PTL DEF UpgradeSpec, UpgradeInit

\* To the outside an upgrade is invisible: the contract goes on implementing
\* the chain it promises.
THEOREM UpgradeImplements == UpgradeSpec => ImplementsHeaviestChain
<1>1. Init => HC!Init
  BY DEF Init, HC!Init, HC!Empty, EmptyStorage
<1> QED
  BY <1>1, InitInv, InitLink, UpgradeStep, PTL
     DEF UpgradeSpec, UpgradeInit, ImplementsHeaviestChain, HC!Spec

-----------------------------------------------------------------------------
(***************************************************************************)
(* Medians of n times f[0], .., f[n - 1].                                  *)
(***************************************************************************)
UpTo(f, n, t) == {i \in 0 .. n - 1 : f[i] <= t}

Before(f, n, t) == {i \in 0 .. n - 1 : f[i] < t}

\* t is the least of the times that more than half of them do not exceed.
IsMiddle(f, n, t) ==
  /\ \E i \in 0 .. n - 1 : f[i] = t
  /\ 2 * Cardinality(UpTo(f, n, t)) > n
  /\ \A j \in 0 .. n - 1 : 2 * Cardinality(UpTo(f, n, f[j])) > n => t <= f[j]

\* t is what the code takes from the sorted times.
IsMedian(f, n, t) ==
  /\ \E i \in 0 .. n - 1 : f[i] = t
  /\ Cardinality(Before(f, n, t)) <= n \div 2
  /\ Cardinality(UpTo(f, n, t)) > n \div 2

\* Sets of indices are finite, and a larger set has no fewer of them.
LEMMA IndexSets ==
  ASSUME NEW n \in Nat, NEW T \in SUBSET (0 .. n - 1), NEW S \in SUBSET T
  PROVE  /\ Cardinality(S) \in Nat /\ Cardinality(T) \in Nat
         /\ Cardinality(S) <= Cardinality(T)
         /\ Cardinality(0 .. n - 1) = n
<1>1. n - 1 \in Int /\ 0 \in Int
  OBVIOUS
<1>2. IsFiniteSet(0 .. n - 1) /\ Cardinality(0 .. n - 1) = n
  BY <1>1, FS_Interval
<1>3. IsFiniteSet(T)
  BY <1>2, FS_Subset
<1>4. IsFiniteSet(S) /\ Cardinality(S) <= Cardinality(T)
  BY <1>3, FS_Subset
<1> QED
  BY <1>2, <1>3, <1>4, FS_CardinalityType

\* Among some of the times one is the latest.
LEMMA LatestExists ==
  ASSUME NEW n \in Nat, NEW f \in [0 .. n - 1 -> Nat],
         NEW S \in SUBSET (0 .. n - 1), S # {}
  PROVE  \E j \in S : \A i \in S : f[i] <= f[j]
<1> DEFINE P == {k \in Nat : \/ S \cap (0 .. k - 1) = {}
                             \/ \E j \in S : \A i \in S \cap (0 .. k - 1) : f[i] <= f[j]}
<1>1. 0 \in P
  OBVIOUS
<1>2. ASSUME NEW k \in Nat, k \in P PROVE k + 1 \in P
  <2>0. k + 1 \in Nat
    OBVIOUS
  <2>1. \A i \in 0 .. (k + 1) - 1 : i = k \/ i \in 0 .. k - 1
    OBVIOUS
  <2>2. \A i \in S : f[i] \in Nat
    OBVIOUS
  <2>3. CASE k \notin S
    <3>1. S \cap (0 .. (k + 1) - 1) = S \cap (0 .. k - 1)
      BY <2>1, <2>3
    <3>2. \/ S \cap (0 .. (k + 1) - 1) = {}
          \/ \E j \in S : \A i \in S \cap (0 .. (k + 1) - 1) : f[i] <= f[j]
      BY <1>2, <3>1, Zenon
    <3> QED
      BY <2>0, <3>2, Zenon
  <2>4. CASE k \in S /\ S \cap (0 .. k - 1) = {}
    <3>1. \A i \in S \cap (0 .. (k + 1) - 1) : i = k
      BY <2>1, <2>4
    <3>2. \A i \in S \cap (0 .. (k + 1) - 1) : f[i] <= f[k]
      BY <2>2, <2>4, <3>1
    <3> QED
      BY <2>0, <2>4, <3>2, Zenon
  <2>5. CASE k \in S /\ \E j \in S : \A i \in S \cap (0 .. k - 1) : f[i] <= f[j]
    <3>1. PICK j \in S : \A i \in S \cap (0 .. k - 1) : f[i] <= f[j]
      BY <2>5
    <3>2. f[j] \in Nat /\ f[k] \in Nat
      BY <2>2, <2>5
    <3>3. CASE f[k] <= f[j]
      <4>1. \A i \in S \cap (0 .. (k + 1) - 1) : f[i] <= f[j]
        BY <2>1, <3>1, <3>3
      <4> QED
        BY <2>0, <4>1, Zenon
    <3>4. CASE f[j] <= f[k]
      <4>1. \A i \in S \cap (0 .. (k + 1) - 1) : f[i] <= f[k]
        BY <2>1, <2>2, <3>1, <3>2, <3>4
      <4> QED
        BY <2>0, <2>5, <4>1, Zenon
    <3>5. f[k] <= f[j] \/ f[j] <= f[k]
      BY <3>2
    <3> QED
      BY <3>3, <3>4, <3>5, Zenon
  <2> QED
    BY <1>2, <2>3, <2>4, <2>5
<1> HIDE DEF P
<1>3. n \in P
  BY <1>1, <1>2, SetInduction
<1>4. S \cap (0 .. n - 1) = S
  OBVIOUS
<1> QED
  BY <1>3, <1>4 DEF P

\* The latest of them all is no earlier than more than half of them.
LEMMA SomeLate ==
  ASSUME NEW n \in Nat \ {0}, NEW f \in [0 .. n - 1 -> Nat]
  PROVE  \E j \in 0 .. n - 1 : 2 * Cardinality(UpTo(f, n, f[j])) > n
<1>1. 0 .. n - 1 # {} /\ n \in Nat
  BY DEF UpTo
<1>2. PICK j \in 0 .. n - 1 : \A i \in 0 .. n - 1 : f[i] <= f[j]
  BY <1>1, LatestExists
<1>3. UpTo(f, n, f[j]) = 0 .. n - 1
  BY <1>2 DEF UpTo
<1>4. Cardinality(0 .. n - 1) = n
  BY <1>1, IndexSets
<1>5. 2 * Cardinality(UpTo(f, n, f[j])) > n
  BY <1>3, <1>4
<1> QED
  BY <1>5

\* n times have such a middle.
LEMMA MiddleExists ==
  ASSUME NEW n \in Nat \ {0}, NEW f \in [0 .. n - 1 -> Nat]
  PROVE  \E t \in Nat : IsMiddle(f, n, t)
<1> DEFINE T == {f[j] : j \in {i \in 0 .. n - 1 : 2 * Cardinality(UpTo(f, n, f[i])) > n}}
           R == OpToRel(<, Nat)
<1>1. T \in SUBSET Nat /\ T # {}
  BY SomeLate
<1>2. IsWellFoundedOn(R, Nat)
  BY NatLessThanWellFounded, Zenon DEF R
<1> HIDE DEF R, T
<1>3. PICK t \in T : \A u \in T : ~(<<u, t>> \in R)
  BY <1>1, <1>2, WFMin
<1>4. \A u \in T : u \in Nat /\ t \in Nat /\ ~(u < t)
  BY <1>1, <1>3 DEF R, OpToRel
<1>5. \A u \in T : t <= u
  BY <1>4
<1>6. IsMiddle(f, n, t)
  BY <1>3, <1>5 DEF T, IsMiddle
<1> QED
  BY <1>1, <1>3, <1>6

\* There is one middle only.
LEMMA MiddleUnique ==
  ASSUME NEW n \in Nat, NEW f \in [0 .. n - 1 -> Nat], NEW t, NEW u,
         IsMiddle(f, n, t), IsMiddle(f, n, u)
  PROVE  t = u
<1>1. t \in Nat /\ u \in Nat
  BY DEF IsMiddle
<1>2. t <= u /\ u <= t
  BY DEF IsMiddle
<1> QED
  BY <1>1, <1>2

\* The middle is the median of the sorted times.
LEMMA MiddleIsMedian ==
  ASSUME NEW n \in Nat, NEW f \in [0 .. n - 1 -> Nat], NEW t, IsMiddle(f, n, t)
  PROVE  IsMedian(f, n, t)
<1> DEFINE A == UpTo(f, n, t)
           E == Before(f, n, t)
<1>1. t \in Nat
  BY DEF IsMiddle
<1>2. A \in SUBSET (0 .. n - 1) /\ E \in SUBSET (0 .. n - 1)
  BY DEF UpTo, Before
<1>3. Cardinality(A) \in Nat /\ Cardinality(E) \in Nat
  BY <1>2, IndexSets
<1>4. 2 * Cardinality(A) > n
  BY DEF IsMiddle
<1>5. ASSUME Cardinality(E) > n \div 2 PROVE FALSE
  <2>0. 2 * Cardinality(E) > n
    BY <1>3, <1>5
  <2>1. E # {}
    <3>1. Cardinality({}) = 0 /\ ~(0 > n \div 2)
      BY FS_EmptySet
    <3> HIDE DEF E
    <3> QED
      BY <1>5, <3>1
  <2>2. PICK j \in E : \A i \in E : f[i] <= f[j]
    BY <1>2, <2>1, LatestExists
  <2>3. j \in 0 .. n - 1 /\ f[j] \in Nat /\ f[j] < t
    BY <2>2 DEF Before
  <2>4. \A i \in E : i \in UpTo(f, n, f[j])
    BY <2>2 DEF UpTo, Before
  <2>5. \A i \in UpTo(f, n, f[j]) : i \in E
    BY <1>1, <2>3 DEF UpTo, Before
  <2>6. UpTo(f, n, f[j]) = E
    BY <2>4, <2>5
  <2>7. t <= f[j]
    BY <2>0, <2>3, <2>6 DEF IsMiddle
  <2> QED
    BY <1>1, <2>3, <2>7
<1>6. Cardinality(A) > n \div 2
  BY <1>3, <1>4
<1>7. Cardinality(E) <= n \div 2
  BY <1>3, <1>5
<1> QED
  BY <1>6, <1>7 DEF IsMedian, IsMiddle

\* Sorted times have one median only.
LEMMA MedianUnique ==
  ASSUME NEW n \in Nat, NEW f \in [0 .. n - 1 -> Nat], NEW t, NEW u,
         IsMedian(f, n, t), IsMedian(f, n, u)
  PROVE  t = u
<1>1. t \in Nat /\ u \in Nat
  BY DEF IsMedian
<1>2. ASSUME NEW v \in Nat, NEW w \in Nat, IsMedian(f, n, v), IsMedian(f, n, w), v < w
      PROVE  FALSE
  <2>1. UpTo(f, n, v) \in SUBSET Before(f, n, w)
    BY <1>2 DEF UpTo, Before
  <2>2. Before(f, n, w) \in SUBSET (0 .. n - 1)
    BY DEF Before
  <2>3. /\ Cardinality(UpTo(f, n, v)) \in Nat /\ Cardinality(Before(f, n, w)) \in Nat
        /\ Cardinality(UpTo(f, n, v)) <= Cardinality(Before(f, n, w))
    BY <2>1, <2>2, IndexSets
  <2>4. Cardinality(UpTo(f, n, v)) > n \div 2 /\ Cardinality(Before(f, n, w)) <= n \div 2
    BY <1>2 DEF IsMedian
  <2> QED
    BY <2>3, <2>4
<1> QED
  BY <1>1, <1>2

\* A time later than the middle of n times, put before them while the last of
\* them is dropped, does not lower the middle.
LEMMA MiddleMoves ==
  ASSUME NEW n \in Nat \ {0}, NEW f \in [0 .. n - 1 -> Nat], NEW g \in [0 .. n - 1 -> Nat],
         \A i \in 1 .. n - 1 : g[i] = f[i - 1],
         NEW t, IsMiddle(f, n, t), NEW u, IsMiddle(g, n, u), g[0] > t
  PROVE  t <= u
<1> DEFINE A == UpTo(g, n, u)
           E == UpTo(f, n, u)
<1>1. t \in Nat /\ u \in Nat
  BY DEF IsMiddle
<1> SUFFICES ASSUME u < t PROVE FALSE
  BY <1>1
<1>2. g[0] \in Nat /\ ~(g[0] <= u) /\ g[0] # u
  BY <1>1
<1>3. A \in SUBSET (0 .. n - 1) /\ E \in SUBSET (0 .. n - 1) /\ 0 \notin A
  BY <1>2 DEF UpTo
<1>4. \A i \in A : i \in 1 .. n - 1 /\ i - 1 \in E
  <2> SUFFICES ASSUME NEW i \in A PROVE i \in 1 .. n - 1 /\ i - 1 \in E
    OBVIOUS
  <2>1. i \in 1 .. n - 1 /\ g[i] <= u
    BY <1>3 DEF UpTo
  <2>2. f[i - 1] <= u /\ i - 1 \in 0 .. n - 1
    BY <2>1
  <2> QED
    BY <2>1, <2>2 DEF UpTo
<1> DEFINE down == [i \in A |-> i - 1]
<1>5. down \in Injection(A, E)
  <2>1. down \in [A -> E]
    BY <1>4
  <2>2. \A i, j \in A : down[i] = down[j] => i = j
    BY <1>4
  <2> QED
    BY <2>1, <2>2 DEF Injection, IsInjective
<1>6. IsFiniteSet(E) /\ Cardinality(E) \in Nat /\ Cardinality(A) \in Nat
  <2>1. n \in Nat /\ 0 \in Int /\ n - 1 \in Int
    OBVIOUS
  <2>2. IsFiniteSet(0 .. n - 1)
    BY <2>1, FS_Interval
  <2> QED
    BY <1>3, <2>1, <2>2, FS_Subset, IndexSets
<1> HIDE DEF A, E, down
<1>7. Cardinality(A) <= Cardinality(E)
  BY <1>5, <1>6, FS_Injection
<1>8. 2 * Cardinality(E) > n
  <2>1. 2 * Cardinality(A) > n
    BY DEF A, IsMiddle
  <2> QED
    BY <1>6, <1>7, <2>1
<1>9. PICK j \in 0 .. n - 1 : f[j] = u
  <2>1. PICK i \in 0 .. n - 1 : g[i] = u
    BY DEF IsMiddle
  <2>2. i \in 1 .. n - 1
    BY <1>2, <2>1
  <2>3. i - 1 \in 0 .. n - 1 /\ f[i - 1] = u
    BY <2>1, <2>2
  <2> QED
    BY <2>3
<1>10. t <= f[j]
  BY <1>8, <1>9 DEF E, IsMiddle
<1> QED
  BY <1>1, <1>9, <1>10

-----------------------------------------------------------------------------
(***************************************************************************)
(* Walks back from a header: in the network, and in the contract's pool.   *)
(***************************************************************************)

\* Two sequences of ancestors agree as far as both go.
LEMMA LinesAgree ==
  ASSUME NEW h, NEW n \in Nat, NEW m \in Nat, m <= n, NEW g, IsLine(g, h, n),
         NEW e, IsLine(e, h, m)
  PROVE  e[m] = g[m]
<1> DEFINE S == {i \in Nat : i <= m => e[i] = g[i]}
<1>1. 0 \in S
  BY DEF IsLine
<1>2. ASSUME NEW i \in Nat, i \in S PROVE i + 1 \in S
  <2> SUFFICES ASSUME i + 1 <= m PROVE e[i + 1] = g[i + 1]
    OBVIOUS
  <2>1. /\ i + 1 \in 0 .. n /\ i + 1 \in 0 .. m
        /\ i + 1 # 0 /\ (i + 1) - 1 = i /\ i <= m
    OBVIOUS
  <2>2. e[i] = g[i]
    BY <1>2, <2>1
  <2>3. e[i + 1] = IF e[i] \in Hash THEN Prev[e[i]] ELSE NoHash
    BY <2>1 DEF IsLine
  <2>4. g[i + 1] = IF g[i] \in Hash THEN Prev[g[i]] ELSE NoHash
    BY <2>1 DEF IsLine
  <2> HIDE DEF S
  <2> QED
    BY <2>2, <2>3, <2>4
<1> HIDE DEF S
<1>3. m \in S
  BY <1>1, <1>2, SetInduction
<1> QED
  BY <1>3 DEF S

\* Ancestor reads any sequence of ancestors that is long enough.
LEMMA AncestorReads ==
  ASSUME NEW h, NEW n \in Nat, NEW m \in Nat, m <= n, NEW g, IsLine(g, h, n)
  PROVE  Ancestor(h, m) = g[m]
<1> DEFINE e == CHOOSE f : IsLine(f, h, m)
<1>1. IsLine(e, h, m)
  BY LineExists
<1>2. Ancestor(h, m) = e[m]
  BY DEF Ancestor, HC!Ancestor, IsLine
<1> HIDE DEF e
<1> QED
  BY <1>1, <1>2, LinesAgree

\* A header is its own ancestor of order 0, and each ancestor the parent of
\* the one before.
LEMMA AncestorSteps ==
  ASSUME NEW h, NEW n \in Nat
  PROVE  /\ Ancestor(h, 0) = h
         /\ Ancestor(h, n + 1) =
              IF Ancestor(h, n) \in Hash THEN Prev[Ancestor(h, n)] ELSE NoHash
<1>1. n + 1 \in Nat /\ n <= n + 1 /\ 0 <= n + 1 /\ n + 1 <= n + 1 /\ 0 \in Nat
  OBVIOUS
<1>2. PICK g : IsLine(g, h, n + 1)
  BY <1>1, LineExists
<1>3. Ancestor(h, 0) = g[0] /\ Ancestor(h, n) = g[n] /\ Ancestor(h, n + 1) = g[n + 1]
  BY <1>1, <1>2, AncestorReads
<1>4. /\ g[0] = h
      /\ g[n + 1] = IF g[n] \in Hash THEN Prev[g[n]] ELSE NoHash
  <2>1. n + 1 \in 0 .. n + 1 /\ n + 1 # 0 /\ (n + 1) - 1 = n /\ 0 \in 0 .. n + 1
    OBVIOUS
  <2> QED
    BY <1>2, <2>1 DEF IsLine
<1> QED
  BY <1>3, <1>4

\* The ancestors of a parent are those of the child, one order lower.
LEMMA AncestorOfParent ==
  ASSUME NEW h \in Hash, NEW n \in Nat
  PROVE  Ancestor(Prev[h], n) = Ancestor(h, n + 1)
<1> DEFINE S == {i \in Nat : Ancestor(Prev[h], i) = Ancestor(h, i + 1)}
<1>1. 0 \in S
  <2>1. 0 \in Nat /\ 0 + 1 = 1
    OBVIOUS
  <2>2. /\ Ancestor(Prev[h], 0) = Prev[h] /\ Ancestor(h, 0) = h
        /\ Ancestor(h, 0 + 1) =
             IF Ancestor(h, 0) \in Hash THEN Prev[Ancestor(h, 0)] ELSE NoHash
    BY <2>1, AncestorSteps, Zenon
  <2> QED
    BY <2>1, <2>2
<1>2. ASSUME NEW i \in Nat, i \in S PROVE i + 1 \in S
  <2>1. i + 1 \in Nat
    OBVIOUS
  <2>2. Ancestor(Prev[h], i + 1) =
          IF Ancestor(Prev[h], i) \in Hash THEN Prev[Ancestor(Prev[h], i)] ELSE NoHash
    BY AncestorSteps
  <2>3. Ancestor(h, (i + 1) + 1) =
          IF Ancestor(h, i + 1) \in Hash THEN Prev[Ancestor(h, i + 1)] ELSE NoHash
    BY <2>1, AncestorSteps
  <2>4. Ancestor(Prev[h], i) = Ancestor(h, i + 1)
    BY <1>2
  <2> QED
    BY <2>1, <2>2, <2>3, <2>4
<1> HIDE DEF S
<1>3. n \in S
  BY <1>1, <1>2, SetInduction
<1> QED
  BY <1>3 DEF S

\* The calls of get_prev_header that get_prev_headers(s, h, n) ends.
IsWalk(g, s, h, n) ==
  g = [i \in 0 .. n |->
         IF i = 0 THEN h
         ELSE IF g[i - 1] # NoHash /\ Prev[g[i - 1]] \in DOMAIN s.headers_pool
           THEN Prev[g[i - 1]]
           ELSE NoHash]

\* There are such calls from every header and of every number.
LEMMA WalkExists ==
  ASSUME NEW s, NEW h, NEW n \in Nat
  PROVE  \E g : IsWalk(g, s, h, n)
<1> DEFINE S == {m \in Nat : \E g : IsWalk(g, s, h, m)}
<1>1. 0 \in S
  <2>1. IsWalk([i \in 0 .. 0 |-> h], s, h, 0)
    BY DEF IsWalk
  <2> QED
    BY <2>1
<1>2. \A m \in Nat : m \in S => m + 1 \in S
  <2> SUFFICES ASSUME NEW m \in Nat, NEW g, IsWalk(g, s, h, m)
               PROVE  \E e : IsWalk(e, s, h, m + 1)
    OBVIOUS
  <2> DEFINE step(x) == IF x # NoHash /\ Prev[x] \in DOMAIN s.headers_pool
                          THEN Prev[x] ELSE NoHash
             e == [i \in 0 .. m + 1 |-> IF i = m + 1 THEN step(g[m]) ELSE g[i]]
  <2>1. ASSUME NEW i \in 0 .. m + 1
        PROVE  e[i] = IF i = 0 THEN h ELSE step(e[i - 1])
    <3>1. CASE i = m + 1
      <4>1. i # 0 /\ i - 1 = m /\ m \in 0 .. m + 1 /\ m # m + 1
        BY <3>1
      <4>2. e[i] = step(g[m]) /\ e[m] = g[m]
        BY <3>1, <4>1
      <4> QED
        BY <4>1, <4>2
    <3>2. CASE i # m + 1
      <4>1. i \in 0 .. m /\ e[i] = g[i]
        BY <3>2
      <4>2. i # 0 => i - 1 \in 0 .. m + 1 /\ i - 1 # m + 1 /\ e[i - 1] = g[i - 1]
        BY <3>2
      <4>3. g[i] = IF i = 0 THEN h ELSE step(g[i - 1])
        BY <4>1 DEF IsWalk
      <4> QED
        BY <4>1, <4>2, <4>3
    <3> QED
      BY <3>1, <3>2
  <2>2. e = [i \in 0 .. m + 1 |-> e[i]]
    OBVIOUS
  <2> HIDE DEF e
  <2>3. IsWalk(e, s, h, m + 1)
    BY <2>1, <2>2 DEF IsWalk
  <2> QED
    BY <2>3
<1> HIDE DEF S
<1>3. n \in S
  BY <1>1, <1>2, SetInduction
<1> QED
  BY <1>3 DEF S

\* A walk of which the last call succeeds has gone through the ancestors, all
\* of them headers.
LEMMA WalkIsAncestors ==
  ASSUME NEW s, IsStorage(s), NEW h \in Hash, NEW n \in Nat,
         get_prev_headers(s, h, n) # NoHash
  PROVE  Ancestor(h, n) \in Hash /\ get_prev_headers(s, h, n) = Ancestor(h, n)
<1> DEFINE g == CHOOSE f : IsWalk(f, s, h, n)
<1>1. IsWalk(g, s, h, n)
  BY WalkExists
<1>2. get_prev_headers(s, h, n) = g[n]
  BY DEF get_prev_headers, IsWalk
<1> HIDE DEF g
<1> DEFINE S == {i \in Nat : i <= n /\ g[i] # NoHash => g[i] \in Hash /\ g[i] = Ancestor(h, i)}
<1>3. 0 \in S
  <2>1. 0 \in 0 .. n /\ 0 \in Nat
    OBVIOUS
  <2>2. g[0] = h
    BY <1>1, <2>1 DEF IsWalk
  <2>3. Ancestor(h, 0) = h
    BY <2>1, AncestorSteps, Zenon
  <2> QED
    BY <2>2, <2>3
<1>4. ASSUME NEW i \in Nat, i \in S PROVE i + 1 \in S
  <2>0. i + 1 \in Nat
    OBVIOUS
  <2> SUFFICES ASSUME i + 1 <= n, g[i + 1] # NoHash
               PROVE  g[i + 1] \in Hash /\ g[i + 1] = Ancestor(h, i + 1)
    BY <2>0
  <2>1. i + 1 \in 0 .. n /\ i + 1 # 0 /\ (i + 1) - 1 = i /\ i <= n
    OBVIOUS
  <2>2. g[i + 1] = IF g[i] # NoHash /\ Prev[g[i]] \in DOMAIN s.headers_pool
                     THEN Prev[g[i]] ELSE NoHash
    BY <1>1, <2>1 DEF IsWalk
  <2>3. g[i] \in Hash /\ g[i] = Ancestor(h, i)
    BY <1>4, <2>1, <2>2
  <2>4. g[i + 1] = Prev[g[i]] /\ g[i + 1] \in Hash
    BY <2>2 DEF IsStorage
  <2>5. Ancestor(h, i + 1) = IF Ancestor(h, i) \in Hash THEN Prev[Ancestor(h, i)] ELSE NoHash
    BY AncestorSteps
  <2> HIDE DEF S
  <2> QED
    BY <2>3, <2>4, <2>5
<1> HIDE DEF S
<1>5. n \in S
  BY <1>3, <1>4, SetInduction
<1> QED
  BY <1>2, <1>5 DEF S

\* Where one call succeeds, so did those before it.
LEMMA WalkSucceeds ==
  ASSUME NEW s, NEW h, NEW n \in Nat, NEW m \in Nat, m <= n,
         get_prev_headers(s, h, n) # NoHash
  PROVE  get_prev_headers(s, h, m) # NoHash
<1> DEFINE g == CHOOSE f : IsWalk(f, s, h, n)
           e == CHOOSE f : IsWalk(f, s, h, m)
<1>1. IsWalk(g, s, h, n) /\ IsWalk(e, s, h, m)
  BY WalkExists
<1>2. get_prev_headers(s, h, n) = g[n] /\ get_prev_headers(s, h, m) = e[m]
  BY DEF get_prev_headers, IsWalk
<1> HIDE DEF g, e
<1> DEFINE step(x) == IF x # NoHash /\ Prev[x] \in DOMAIN s.headers_pool
                        THEN Prev[x] ELSE NoHash
<1>3. /\ g[0] = h /\ e[0] = h
      /\ \A i \in Nat : i + 1 <= n => g[i + 1] = step(g[i])
      /\ \A i \in Nat : i + 1 <= m => e[i + 1] = step(e[i])
  <2>1. 0 \in 0 .. n /\ 0 \in 0 .. m
    OBVIOUS
  <2>2. ASSUME NEW i \in Nat
        PROVE  /\ (i + 1) - 1 = i /\ i + 1 # 0
               /\ i + 1 <= n => i + 1 \in 0 .. n
               /\ i + 1 <= m => i + 1 \in 0 .. m
    OBVIOUS
  <2> QED
    BY <1>1, <2>1, <2>2 DEF IsWalk
<1> HIDE DEF step
<1> DEFINE S == {i \in Nat : i <= m => e[i] = g[i]}
<1>4. m \in S
  <2>1. 0 \in S
    BY <1>3
  <2>2. ASSUME NEW i \in Nat, i \in S PROVE i + 1 \in S
    <3> SUFFICES ASSUME i + 1 <= m PROVE e[i + 1] = g[i + 1]
      OBVIOUS
    <3>1. i + 1 <= n /\ i <= m
      OBVIOUS
    <3> QED
      BY <1>3, <2>2, <3>1
  <2> HIDE DEF S
  <2> QED
    BY <2>1, <2>2, SetInduction
<1> DEFINE D == {d \in Nat : m + d <= n => g[m] # NoHash \/ g[m + d] = NoHash}
<1>5. n - m \in D
  <2>1. 0 \in D
    <3>1. m + 0 = m
      OBVIOUS
    <3> QED
      BY <3>1
  <2>2. ASSUME NEW d \in Nat, d \in D PROVE d + 1 \in D
    <3> SUFFICES ASSUME m + (d + 1) <= n, g[m] = NoHash PROVE g[m + (d + 1)] = NoHash
      OBVIOUS
    <3>1. m + d <= n /\ m + d \in Nat /\ m + (d + 1) = (m + d) + 1
      OBVIOUS
    <3>2. g[m + d] = NoHash
      BY <2>2, <3>1
    <3>3. g[(m + d) + 1] = step(g[m + d])
      BY <1>3, <3>1
    <3>4. step(NoHash) = NoHash
      BY DEF step
    <3> HIDE DEF D
    <3> QED
      BY <3>1, <3>2, <3>3, <3>4
  <2>3. n - m \in Nat
    OBVIOUS
  <2> HIDE DEF D
  <2> QED
    BY <2>1, <2>2, <2>3, SetInduction
<1>6. m + (n - m) = n
  OBVIOUS
<1> QED
  BY <1>2, <1>4, <1>5, <1>6

-----------------------------------------------------------------------------
(***************************************************************************)
(* The median time past.                                                   *)
(***************************************************************************)
Span == 0 .. MEDIAN_TIME_SPAN - 1

\* The times the network's rule looks at.
Past(h) == [i \in Span |-> Time[Ancestor(h, i)]]

\* Enough ancestors of h are headers.
HasPast(h) == \A i \in Span : Ancestor(h, i) \in Hash

\* They are times.
LEMMA PastType ==
  ASSUME NEW h, HasPast(h)
  PROVE  Past(h) \in [0 .. MEDIAN_TIME_SPAN - 1 -> Nat]
BY FieldsAssumption DEF Past, HasPast, Span

\* The network's median is their middle.
LEMMA MedianTimePastIs ==
  ASSUME NEW h, HasPast(h)
  PROVE  IsMiddle(Past(h), MEDIAN_TIME_SPAN, MedianTimePast(h)) /\ MedianTimePast(h) \in Nat
<1> DEFINE n == MEDIAN_TIME_SPAN
           f == Past(h)
           most(t) == 2 * Cardinality({i \in DOMAIN f : f[i] <= t}) > n
           Is(t) == t \in Range(f) /\ most(t) /\ \A u \in Range(f) : most(u) => t <= u
<1>1. n \in Nat \ {0} /\ f \in [0 .. n - 1 -> Nat] /\ DOMAIN f = 0 .. n - 1
  BY SpanAssumption, PastType
<1>2. \A t : {i \in DOMAIN f : f[i] <= t} = UpTo(f, n, t)
  BY <1>1 DEF UpTo
<1>3. MedianTimePast(h) = CHOOSE t : Is(t)
  <2>1. MedianTimePast(h) = CHOOSE t \in Range(f) : most(t) /\ \A u \in Range(f) : most(u) => t <= u
    BY Zenon DEF MedianTimePast, Past, Span
  <2> QED
    BY <2>1, Zenon
<1> HIDE DEF f, n
<1>4. \A t : Is(t) <=> IsMiddle(f, n, t)
  <2> SUFFICES ASSUME NEW t PROVE Is(t) <=> IsMiddle(f, n, t)
    OBVIOUS
  <2>1. t \in Range(f) <=> \E i \in 0 .. n - 1 : f[i] = t
    BY <1>1 DEF Range
  <2>2. most(t) <=> 2 * Cardinality(UpTo(f, n, t)) > n
    BY <1>2
  <2>3. (\A u \in Range(f) : most(u) => t <= u)
          <=> \A j \in 0 .. n - 1 : 2 * Cardinality(UpTo(f, n, f[j])) > n => t <= f[j]
    BY <1>1, <1>2, Zenon DEF Range
  <2> HIDE DEF most
  <2> QED
    BY <2>1, <2>2, <2>3, Zenon DEF IsMiddle
<1>5. PICK t \in Nat : IsMiddle(f, n, t)
  BY <1>1, MiddleExists
<1>6. Is(MedianTimePast(h))
  <2>1. Is(t)
    BY <1>4, <1>5
  <2> HIDE DEF Is
  <2> QED
    BY <1>3, <2>1, Zenon
<1>7. IsMiddle(f, n, MedianTimePast(h))
  BY <1>4, <1>6
<1>8. MedianTimePast(h) = t
  <2>1. n \in Nat
    BY <1>1
  <2> QED
    BY <1>1, <1>5, <1>7, <2>1, MiddleUnique
<1> QED
  BY <1>5, <1>7, <1>8 DEF f, n

\* The code's median is the median of the times of the blocks read.
LEMMA MedianIs ==
  ASSUME NEW n \in Nat \ {0}, NEW at, NEW f \in [0 .. n - 1 -> Nat],
         \A i \in 0 .. n - 1 : f[i] = Time[at[i]]
  PROVE  IsMedian(f, n, Median(at, n))
<1> DEFINE Is(t) == /\ t \in {Time[at[i]] : i \in 0 .. n - 1}
                    /\ Cardinality({i \in 0 .. n - 1 : Time[at[i]] < t}) <= n \div 2
                    /\ Cardinality({i \in 0 .. n - 1 : Time[at[i]] <= t}) > n \div 2
<1>1. Median(at, n) = CHOOSE t : Is(t)
  BY Zenon DEF Median
<1>2. \A t : Is(t) <=> IsMedian(f, n, t)
  <2> SUFFICES ASSUME NEW t PROVE Is(t) <=> IsMedian(f, n, t)
    OBVIOUS
  <2>1. {i \in 0 .. n - 1 : Time[at[i]] < t} = Before(f, n, t)
    BY DEF Before
  <2>2. {i \in 0 .. n - 1 : Time[at[i]] <= t} = UpTo(f, n, t)
    BY DEF UpTo
  <2>3. t \in {Time[at[i]] : i \in 0 .. n - 1} <=> \E i \in 0 .. n - 1 : f[i] = t
    BY Zenon
  <2> QED
    BY <2>1, <2>2, <2>3, Zenon DEF IsMedian
<1> HIDE DEF Is
<1>3. PICK t \in Nat : IsMiddle(f, n, t)
  BY MiddleExists
<1>4. IsMedian(f, n, t)
  BY <1>3, MiddleIsMedian
<1>5. Is(t)
  BY <1>2, <1>4
<1> QED
  BY <1>1, <1>2, <1>5, Zenon

\* The blocks at[0], .. that a check reads before h, by get_prev_header, one
\* of which lies beyond the span of the median.
ReadsPast(s, h, at) ==
  /\ \E n \in Nat : n >= MEDIAN_TIME_SPAN /\ get_prev_headers(s, h, n) # NoHash
  /\ \A i \in Span : at[i] = get_prev_headers(s, h, i)

\* What the contract computes from its pool is the median of the network's
\* rule, on a fork and on the main chain.
LEMMA MedianAgrees ==
  ASSUME NEW s, IsStorage(s), NEW h \in Hash, NEW at, ReadsPast(s, h, at)
  PROVE  HasPast(h) /\ Median(at, MEDIAN_TIME_SPAN) = MedianTimePast(h)
<1> DEFINE n == MEDIAN_TIME_SPAN
           f == Past(h)
<1>0. n \in Nat \ {0} /\ n \in Nat
  BY SpanAssumption
<1>1. PICK k \in Nat : k >= n /\ get_prev_headers(s, h, k) # NoHash
  BY DEF ReadsPast
<1>2. ASSUME NEW i \in Span PROVE Ancestor(h, i) \in Hash /\ at[i] = Ancestor(h, i)
  <2>1. i \in Nat /\ i <= k
    BY <1>0, <1>1 DEF Span
  <2>2. get_prev_headers(s, h, i) # NoHash
    BY <1>1, <2>1, WalkSucceeds
  <2>3. Ancestor(h, i) \in Hash /\ get_prev_headers(s, h, i) = Ancestor(h, i)
    BY <2>1, <2>2, WalkIsAncestors
  <2> QED
    BY <2>3 DEF ReadsPast
<1>3. HasPast(h)
  BY <1>2 DEF HasPast
<1>4. f \in [0 .. n - 1 -> Nat]
  BY <1>3, PastType
<1>5. \A i \in 0 .. n - 1 : f[i] = Time[at[i]]
  BY <1>2 DEF Past, Span
<1>6. IsMiddle(f, n, MedianTimePast(h))
  BY <1>3, MedianTimePastIs
<1> HIDE DEF f, n
<1>7. IsMedian(f, n, Median(at, n))
  BY <1>0, <1>4, <1>5, MedianIs
<1>8. IsMedian(f, n, MedianTimePast(h))
  BY <1>0, <1>4, <1>6, MiddleIsMedian
<1>9. Median(at, n) = MedianTimePast(h)
  BY <1>0, <1>4, <1>7, <1>8, MedianUnique
<1> QED
  BY <1>3, <1>9 DEF n

\* h is later than the median time past of the blocks before it.
IsLater(h) == h \in Hash /\ HasPast(Prev[h]) /\ Time[h] > MedianTimePast(Prev[h])

\* The median time past of such a block is no lower than that of its parent.
LEMMA LaterRaises ==
  ASSUME NEW h, IsLater(h)
  PROVE  MedianTimePast(Prev[h]) <= MedianTimePast(h)
<1> DEFINE n == MEDIAN_TIME_SPAN
           f == Past(Prev[h])
           g == Past(h)
           t == MedianTimePast(Prev[h])
           u == MedianTimePast(h)
<1>0. n \in Nat \ {0} /\ h \in Hash
  BY SpanAssumption DEF IsLater
<1>1. Ancestor(h, 0) = h
  <2>1. 0 \in Nat
    OBVIOUS
  <2> QED
    BY <2>1, AncestorSteps, Zenon
<1>2. ASSUME NEW i \in 1 .. n - 1
      PROVE  Ancestor(h, i) = Ancestor(Prev[h], i - 1) /\ i - 1 \in Span /\ i \in Span
  <2>1. i - 1 \in Nat /\ (i - 1) + 1 = i /\ i - 1 \in Span /\ i \in Span
    BY <1>0 DEF Span
  <2>2. Ancestor(Prev[h], i - 1) = Ancestor(h, (i - 1) + 1)
    BY <1>0, <2>1, AncestorOfParent
  <2> QED
    BY <2>1, <2>2
<1>3. HasPast(h)
  <2> SUFFICES ASSUME NEW i \in Span PROVE Ancestor(h, i) \in Hash
    BY DEF HasPast
  <2>1. i = 0 \/ i \in 1 .. n - 1
    BY <1>0 DEF Span
  <2> QED
    BY <1>0, <1>1, <1>2, <2>1 DEF IsLater, HasPast
<1>4. /\ f \in [0 .. n - 1 -> Nat] /\ g \in [0 .. n - 1 -> Nat]
      /\ IsMiddle(f, n, t) /\ IsMiddle(g, n, u)
  BY <1>3, PastType, MedianTimePastIs DEF IsLater
<1>5. \A i \in 1 .. n - 1 : g[i] = f[i - 1]
  BY <1>2 DEF Past
<1>6. g[0] > t
  <2>1. 0 \in Span
    BY <1>0 DEF Span
  <2> QED
    BY <1>1, <2>1 DEF Past, IsLater
<1> HIDE DEF f, g, n, t, u
<1>7. t <= u
  BY <1>0, <1>4, <1>5, <1>6, MiddleMoves
<1> QED
  BY <1>7 DEF t, u

-----------------------------------------------------------------------------
(***************************************************************************)
(* The checks of the four coins.                                           *)
(***************************************************************************)
Btc  == INSTANCE Bitcoin
Ltc  == INSTANCE Litecoin
Doge == INSTANCE Dogecoin
Zec  == INSTANCE Zcash

\* The contract is built for one of them.  Zcash takes its median from the
\* averaging window, which is at least as long.
BuiltForACoin ==
  \/ \A s, h, now : CheckTarget(s, h, now) => Btc!check_pow(s, h, now)
  \/ \A s, h, now : CheckTarget(s, h, now) => Ltc!check_pow(s, h, now)
  \/ \A s, h, now : CheckTarget(s, h, now) => Doge!check_pow(s, h, now)
  \/ /\ \A s, h, now : CheckTarget(s, h, now) => Zec!check_pow(s, h, now)
     /\ pow_averaging_window \in Nat
     /\ pow_averaging_window >= MEDIAN_TIME_SPAN

\* A header passed the comparison with the median of the blocks read.
ChecksMedian(s, h) ==
  \E at : ReadsPast(s, Prev[h], at) /\ Time[h] > Median(at, MEDIAN_TIME_SPAN)

\* time_accepted makes this comparison.
LEMMA TimeAcceptedChecks ==
  ASSUME NEW s, NEW h, NEW now, time_accepted(s, h, now)
  PROVE  ChecksMedian(s, h)
<1> DEFINE at == [i \in 0 .. MEDIAN_TIME_SPAN |-> get_prev_headers(s, Prev[h], i)]
<1>1. at[MEDIAN_TIME_SPAN] # NoHash /\ Time[h] > Median(at, MEDIAN_TIME_SPAN)
  BY Zenon DEF time_accepted, get_median_time_past
<1>2. MEDIAN_TIME_SPAN \in Nat /\ MEDIAN_TIME_SPAN >= MEDIAN_TIME_SPAN
      /\ MEDIAN_TIME_SPAN \in 0 .. MEDIAN_TIME_SPAN
  BY SpanAssumption
<1>3. get_prev_headers(s, Prev[h], MEDIAN_TIME_SPAN) # NoHash
  BY <1>1, <1>2
<1>4. \A i \in Span : at[i] = get_prev_headers(s, Prev[h], i)
  BY <1>2 DEF Span
<1> HIDE DEF at
<1>5. ReadsPast(s, Prev[h], at)
  BY <1>2, <1>3, <1>4 DEF ReadsPast
<1> QED
  BY <1>1, <1>5 DEF ChecksMedian

\* So do Bitcoin ...
LEMMA BitcoinChecks ==
  ASSUME NEW s, NEW h, NEW now, Btc!check_pow(s, h, now)
  PROVE  ChecksMedian(s, h)
<1>1. time_accepted(s, h, now)
  BY Zenon DEF Btc!check_pow, time_accepted, Btc!time_accepted,
     get_median_time_past, Btc!get_median_time_past, Median, Btc!Median,
     get_prev_headers, Btc!get_prev_headers, Cardinality, Btc!Cardinality,
     IsFiniteSet, Btc!IsFiniteSet
<1> QED
  BY <1>1, TimeAcceptedChecks

\* ... Litecoin ...
LEMMA LitecoinChecks ==
  ASSUME NEW s, NEW h, NEW now, Ltc!check_pow(s, h, now)
  PROVE  ChecksMedian(s, h)
<1>1. time_accepted(s, h, now)
  BY Zenon DEF Ltc!check_pow, time_accepted, Ltc!time_accepted,
     get_median_time_past, Ltc!get_median_time_past, Median, Ltc!Median,
     get_prev_headers, Ltc!get_prev_headers, Cardinality, Ltc!Cardinality,
     IsFiniteSet, Ltc!IsFiniteSet
<1> QED
  BY <1>1, TimeAcceptedChecks

\* ... and Dogecoin.
LEMMA DogecoinChecks ==
  ASSUME NEW s, NEW h, NEW now, Doge!check_pow(s, h, now)
  PROVE  ChecksMedian(s, h)
<1>1. time_accepted(s, h, now)
  BY Zenon DEF Doge!check_pow, time_accepted, Doge!time_accepted,
     get_median_time_past, Doge!get_median_time_past, Median, Doge!Median,
     get_prev_headers, Doge!get_prev_headers, Cardinality, Doge!Cardinality,
     IsFiniteSet, Doge!IsFiniteSet
<1> QED
  BY <1>1, TimeAcceptedChecks

\* Zcash reads the median with the window, and blocks beyond it.
LEMMA ZcashChecks ==
  ASSUME NEW s, NEW h, NEW now, Zec!check_pow(s, h, now),
         pow_averaging_window \in Nat, pow_averaging_window >= MEDIAN_TIME_SPAN
  PROVE  ChecksMedian(s, h)
<1> DEFINE n == MEDIAN_TIME_SPAN
           w == pow_averaging_window
           p == Prev[h]
           at == [i \in 0 .. w |-> Zec!get_prev_headers(s, p, i)]
           before == [i \in 0 .. n |-> Zec!get_prev_headers(s, p, w + i)]
<1>0. n \in Nat /\ w \in Nat /\ w >= n /\ n \in 0 .. n /\ w + n \in Nat /\ w + n >= n
  BY SpanAssumption
<1>1. before[n] # NoHash /\ Time[h] > Zec!Median(at, n)
  <2>1. PICK r \in Zec!zcash_get_next_work_required(s, h) :
                 Time[h] > r.prev_block_median_time_past
    BY Zenon DEF Zec!check_pow
  <2>2. /\ before[n] # NoHash
        /\ r.prev_block_median_time_past = Zec!Median(at, n)
    BY <2>1 DEF Zec!zcash_get_next_work_required
  <2> QED
    BY <2>1, <2>2
<1>2. \A x, i : Zec!get_prev_headers(s, x, i) = get_prev_headers(s, x, i)
  BY Zenon DEF Zec!get_prev_headers, get_prev_headers
<1>3. \A e : Zec!Median(e, n) = Median(e, n)
  BY Zenon DEF Zec!Median, Median, Cardinality, Zec!Cardinality, IsFiniteSet, Zec!IsFiniteSet
<1>4. get_prev_headers(s, p, w + n) # NoHash
  BY <1>0, <1>1, <1>2
<1>5. \A i \in Span : at[i] = get_prev_headers(s, p, i)
  BY <1>0, <1>2 DEF Span
<1>6. Time[h] > Median(at, n)
  BY <1>1, <1>3
<1> HIDE DEF at, before
<1>7. ReadsPast(s, p, at)
  BY <1>0, <1>4, <1>5 DEF ReadsPast
<1> QED
  BY <1>6, <1>7 DEF ChecksMedian

\* A header one of these checks accepts is later than the median of its own
\* ancestors.
LEMMA AcceptedIsLater ==
  ASSUME BuiltForACoin, NEW s, IsStorage(s), NEW h \in Hash,
         Prev[h] \in Hash, NEW now, CheckTarget(s, h, now)
  PROVE  IsLater(h)
<1>1. ChecksMedian(s, h)
  BY BitcoinChecks, LitecoinChecks, DogecoinChecks, ZcashChecks, Zenon DEF BuiltForACoin
<1>2. PICK at : ReadsPast(s, Prev[h], at) /\ Time[h] > Median(at, MEDIAN_TIME_SPAN)
  BY <1>1 DEF ChecksMedian
<1>3. HasPast(Prev[h]) /\ Median(at, MEDIAN_TIME_SPAN) = MedianTimePast(Prev[h])
  BY <1>2, MedianAgrees
<1> QED
  BY <1>2, <1>3 DEF IsLater

-----------------------------------------------------------------------------
(***************************************************************************)
(* Every header stored came with init or passed its coin's check.  What    *)
(* that says of the header and its own ancestors stays true whatever       *)
(* becomes of them in the storage, so the pool stays within any set that   *)
(* is closed under the ways a header comes in.                             *)
(***************************************************************************)
Closed(V) ==
  /\ \A h \in Trusted : h = GenesisHash \/ Prev[h] \in V => h \in V
  /\ \A s, h, now :
        /\ IsStorage(s) /\ IsTrue(s) /\ DOMAIN s.headers_pool \subseteq V
        /\ h \in Hash /\ Prev[h] \in DOMAIN s.headers_pool
        /\ CheckTarget(s, h, now) /\ h \in PowHashMeetsTarget
        => h \in V

PoolInv(V) ==
  /\ DOMAIN saved.headers_pool \subseteq V
  /\ DOMAIN db.headers_pool \subseteq V
  /\ pc \in {"headers", "walk"} =>
        (call.init => call.headers \in InitBlocks) /\ (call.skip => call.init)

\* A header of an initial chain is trusted.
LEMMA InitIsTrusted ==
  ASSUME NEW hs \in InitBlocks, NEW i \in 1 .. Len(hs)
  PROVE  hs[i] \in Trusted
<1>1. hs \in Seq(Hash)
  BY ParametersAssumption
<1>2. DOMAIN hs = 1 .. Len(hs)
  BY <1>1
<1>3. hs[i] \in Range(hs)
  BY <1>2 DEF Range
<1> QED
  BY <1>3 DEF Trusted

\* Collection only takes headers out of the pool.
LEMMA GcPool ==
  ASSUME NEW s, IsStorage(s), NEW n \in Nat, gc_succeeds(s, n)
  PROVE  DOMAIN gc(s, n).headers_pool \subseteq DOMAIN s.headers_pool
<1> DEFINE K == gc_heights(s, n)
           r == remove_heights(s, K)
           e == s.height_to_header[gc_end(s, n)]
<1>1. CASE ~(get_mainchain_size(s) > gc_threshold)
  BY <1>1 DEF gc
<1>2. CASE get_mainchain_size(s) > gc_threshold
  <2>1. gc(s, n) = [r EXCEPT !.initial_blockhash = e]
    BY <1>2, Zenon DEF gc
  <2>2. K \in SUBSET DOMAIN s.height_to_header
    BY <1>2 DEF gc_succeeds
  <2> HIDE DEF K, e
  <2>3. /\ IsStorage(r)
        /\ r.headers_pool = Restrict(s.headers_pool, DOMAIN s.headers_pool \ HashesAt(s, K))
    BY <2>2, RemoveHeightsFields
  <2>4. gc(s, n).headers_pool = r.headers_pool
    BY <2>1, <2>3 DEF IsStorage
  <2> QED
    BY <2>3, <2>4 DEF Restrict
<1> QED
  BY <1>1, <1>2

\* A header step adds the header it is at, and no other.
LEMMA HeaderStepPool ==
  ASSUME Inv, ExtendMainchain \/ StoreFork \/ StartReorg
  PROVE  DOMAIN db'.headers_pool \subseteq DOMAIN db.headers_pool \cup {Header}
<1> DEFINE v == extend_header(db, Header)
<1>1. HeaderPending /\ header_accepted(db, Header)
  BY DEF ExtendMainchain, StoreFork, StartReorg
<1>2. /\ Header \in Hash
      /\ IsStorage(db) /\ IsTrue(db)
      /\ Prev[Header] \in DOMAIN db.headers_pool
  BY <1>1, HeaderIsHash DEF Inv, TypeOK, WorkingInv, HeaderPending, header_accepted, Sound
<1>3. v \in ExtendedHeader
  BY <1>2, ExtendIsTrue
<1> HIDE DEF v
<1>4. CASE ExtendMainchain
  <2> DEFINE r == store_block_header(db, Header, v)
  <2>1. db' = [r EXCEPT !.tip_blockhash = Header]
    BY <1>4 DEF ExtendMainchain, v
  <2>2. IsStorage(r) /\ r.headers_pool = Insert(db.headers_pool, Header, v)
    BY <1>2, <1>3, StoreBlockFields
  <2> HIDE DEF r
  <2>3. db'.headers_pool = r.headers_pool
    BY <2>1, <2>2 DEF IsStorage
  <2> QED
    BY <2>2, <2>3 DEF Insert
<1>5. CASE StoreFork
  <2>1. db' = store_fork_header(db, Header, v)
    BY <1>5 DEF StoreFork, v
  <2>2. db'.headers_pool = Insert(db.headers_pool, Header, v)
    BY <1>2, <1>3, <2>1, StoreForkFields
  <2> QED
    BY <2>2 DEF Insert
<1>6. CASE StartReorg
  <2> DEFINE r == store_fork_header(db, Header, v)
             K == heights_above(db, Header)
  <2>1. db' = remove_heights(r, K) /\ K \in SUBSET DOMAIN db.height_to_header
    BY <1>6 DEF StartReorg, v
  <2>2. /\ IsStorage(r) /\ r.headers_pool = Insert(db.headers_pool, Header, v)
        /\ r.height_to_header = db.height_to_header
    BY <1>2, <1>3, StoreForkFields
  <2> HIDE DEF r, K
  <2>3. K \in SUBSET DOMAIN r.height_to_header
    BY <2>1, <2>2
  <2>4. db'.headers_pool = Restrict(r.headers_pool, DOMAIN r.headers_pool \ HashesAt(r, K))
    BY <2>1, <2>2, <2>3, RemoveHeightsFields
  <2> QED
    BY <2>2, <2>4 DEF Insert, Restrict
<1> QED
  BY <1>4, <1>5, <1>6

\* And that header is in the closed set.
LEMMA HeaderStepInPool ==
  ASSUME ~skip_pow_verification, NEW V, Closed(V), Inv, PoolInv(V),
         ExtendMainchain \/ StoreFork \/ StartReorg
  PROVE  PoolInv(V)'
<1>1. HeaderPending /\ header_accepted(db, Header) /\ NextHeader /\ saved' = saved
  BY DEF ExtendMainchain, StoreFork, StartReorg
<1>2. /\ Header \in Hash /\ IsStorage(db)
      /\ Prev[Header] \in DOMAIN db.headers_pool
      /\ pc \in {"headers", "walk"}
      /\ call.next \in Nat \ {0} /\ call.next <= Len(call.headers)
      /\ call.headers \in Seq(Hash)
  BY <1>1, HeaderIsHash DEF Inv, TypeOK, HeaderPending, header_accepted
<1>3. Prev[Header] \in V /\ DOMAIN db.headers_pool \subseteq V /\ IsTrue(db)
  BY <1>1, <1>2 DEF PoolInv, Inv, WorkingInv, Sound, HeaderPending
<1>4. Header \in V
  <2>1. CASE call.skip
    <3>1. call.headers \in InitBlocks
      BY <1>2, <2>1 DEF PoolInv
    <3>2. call.next \in 1 .. Len(call.headers)
      BY <1>2
    <3> QED
      BY <1>3, <3>1, <3>2, InitIsTrusted DEF Header, Closed
  <2>2. CASE ~call.skip
    <3>1. CheckTarget(db, Header, clock) /\ Header \in PowHashMeetsTarget
      BY <1>1, <2>2 DEF header_accepted
    <3> QED
      BY <1>2, <1>3, <3>1 DEF Closed
  <2> QED
    BY <2>1, <2>2
<1>5. DOMAIN db'.headers_pool \subseteq V
  BY <1>4, HeaderStepPool DEF PoolInv
<1>6. call'.init = call.init /\ call'.skip = call.skip /\ call'.headers = call.headers
  BY <1>1 DEF NextHeader, Inv, TypeOK
<1> QED
  BY <1>1, <1>2, <1>5, <1>6 DEF PoolInv

\* Every step of the contract keeps it.
LEMMA NextPool ==
  ASSUME ~skip_pow_verification, NEW V, Closed(V), Inv, PoolInv(V), [Next]_vars
  PROVE  PoolInv(V)'
<1>0. IsStorage(db) /\ IsStorage(saved)
  BY DEF Inv, TypeOK
<1>1. ASSUME NEW hs \in InitBlocks, init(hs) PROVE PoolInv(V)'
  <2>1. /\ db' = genesis_storage /\ saved' = saved
        /\ call'.headers = hs /\ call'.init
        /\ hs # <<>> /\ hs[1] = GenesisHash
    BY <1>1 DEF init, init_requires, NoCall
  <2>2. DOMAIN genesis_storage.headers_pool = {GenesisHash}
    BY DEF genesis_storage, store_block_header, EmptyStorage, Insert
  <2>3. hs \in Seq(Hash) /\ 1 \in 1 .. Len(hs)
    BY <2>1, ParametersAssumption
  <2>4. GenesisHash \in V
    BY <2>1, <2>3, InitIsTrusted DEF Closed
  <2> QED
    BY <2>1, <2>2, <2>4 DEF PoolInv
<1>2. ASSUME NEW a, NEW hs, NEW amount, submit_blocks(a, hs, amount) PROVE PoolInv(V)'
  <2>1. db' = db /\ saved' = saved /\ ~call'.skip /\ ~call'.init
    BY <1>2 DEF submit_blocks, NoCall
  <2> QED
    BY <2>1 DEF PoolInv
<1>3. ASSUME NEW a \in Account, NEW n \in GCBatchSizes, run_mainchain_gc(a, n)
      PROVE  PoolInv(V)'
  <2>1. /\ db' = gc(db, n) /\ saved' = db' /\ pc' = pc /\ pc = "idle" /\ gc_succeeds(db, n)
        /\ n \in Nat
    BY <1>3, ParametersAssumption DEF run_mainchain_gc
  <2>2. DOMAIN db'.headers_pool \subseteq DOMAIN db.headers_pool
    BY <1>0, <2>1, GcPool
  <2> QED
    BY <2>1, <2>2 DEF PoolInv
<1>4. ASSUME WalkFork PROVE PoolInv(V)'
  <2>1. /\ db' = promote(db, cursor) /\ cursor \in DOMAIN db.headers_pool
        /\ pc = "walk" /\ pc' = pc /\ call' = call /\ saved' = saved
    BY <1>4 DEF WalkFork, Walking, Inv, WorkingInv, MidReorg
  <2>2. DOMAIN db'.headers_pool \subseteq DOMAIN db.headers_pool
    <3> DEFINE gone == HashesAt(db, {db.headers_pool[cursor].block_height})
    <3>1. promote(db, cursor).headers_pool
             = Restrict(db.headers_pool, DOMAIN db.headers_pool \ gone)
      BY <1>0, <2>1, PromoteFields
    <3> HIDE DEF gone
    <3> QED
      BY <2>1, <3>1 DEF Restrict
  <2> QED
    BY <2>1, <2>2 DEF PoolInv
<1>5. ASSUME FinishReorg PROVE PoolInv(V)'
  <2>1. /\ db'.headers_pool = db.headers_pool
        /\ pc = "walk" /\ call' = call /\ saved' = saved
    BY <1>0, <1>5 DEF FinishReorg, IsStorage
  <2> QED
    BY <2>1 DEF PoolInv
<1>6. ASSUME FinishInit PROVE PoolInv(V)'
  <2>1. db' = db /\ saved' = db /\ pc' = "idle"
    BY <1>6 DEF FinishInit, Commit
  <2> QED
    BY <2>1 DEF PoolInv
<1>7. ASSUME FinishSubmit PROVE PoolInv(V)'
  <2> DEFINE n == Len(call.headers)
  <2>1. n \in Nat
    BY DEF Inv, TypeOK
  <2>2. db' = gc(db, n) /\ saved' = gc(db, n) /\ pc' = "idle" /\ gc_succeeds(db, n)
    BY <1>7 DEF FinishSubmit, Commit, submit_blocks_succeeds
  <2> HIDE DEF n
  <2>3. DOMAIN gc(db, n).headers_pool \subseteq DOMAIN db.headers_pool
    BY <1>0, <2>1, <2>2, GcPool
  <2> QED
    BY <2>2, <2>3 DEF PoolInv
<1>8. ASSUME Panic \/ GasExceeded PROVE PoolInv(V)'
  <2>1. db' = saved /\ saved' = saved /\ pc' \in {"uninit", "idle"}
    BY <1>8 DEF Panic, GasExceeded, Rollback
  <2> QED
    BY <2>1 DEF PoolInv
<1>9. ASSUME Pause \/ Unpause \/ Tick \/ UNCHANGED vars PROVE PoolInv(V)'
  <2>1. db' = db /\ saved' = saved /\ pc' = pc /\ call' = call
    BY <1>9 DEF Pause, Unpause, Tick, vars
  <2> QED
    BY <2>1 DEF PoolInv
<1> QED
  BY <1>1, <1>2, <1>3, <1>4, <1>5, <1>6, <1>7, <1>8, <1>9, HeaderStepInPool
     DEF Next, Start, Step

-----------------------------------------------------------------------------
(***************************************************************************)
(* Median times: the closed set of the headers that are trusted or later   *)
(* than the median of their ancestors.                                     *)
(***************************************************************************)
Verified == {h \in Hash : h \in Trusted \/ IsLater(h)}

\* It is closed.
LEMMA VerifiedClosed ==
  ASSUME BuiltForACoin
  PROVE  Closed(Verified)
<1>1. Trusted \subseteq Hash
  <2> SUFFICES ASSUME NEW hs \in InitBlocks PROVE Range(hs) \subseteq Hash
    BY DEF Trusted
  <2>1. hs \in Seq(Hash)
    BY ParametersAssumption
  <2> QED
    BY <2>1 DEF Range
<1>2. \A h \in Trusted : h = GenesisHash \/ Prev[h] \in Verified => h \in Verified
  BY <1>1 DEF Verified
<1>3. ASSUME NEW s, NEW h, NEW now, IsStorage(s),
             h \in Hash, Prev[h] \in DOMAIN s.headers_pool, CheckTarget(s, h, now)
      PROVE  h \in Verified
  <2>1. Prev[h] \in Hash
    BY <1>3 DEF IsStorage
  <2>2. IsLater(h)
    BY <1>3, <2>1, AcceptedIsLater
  <2> QED
    BY <1>3, <2>2 DEF Verified
<1> QED
  BY <1>2, <1>3 DEF Closed

\* A pool within it has the property.
LEMMA VerifiedMedian ==
  ASSUME Inv, PoolInv(Verified)
  PROVE  MedianTimeNeverDecreases
<1> SUFFICES ASSUME NEW k \in DOMAIN saved.height_to_header,
                    saved.height_to_header[k] \notin Trusted
             PROVE  MedianTimePast(Prev[saved.height_to_header[k]])
                      <= MedianTimePast(saved.height_to_header[k])
  BY DEF MedianTimeNeverDecreases
<1>1. Initialised
  BY DEF Initialised, EmptyStorage
<1>2. saved.height_to_header[k] \in DOMAIN saved.headers_pool
  BY <1>1, SavedIsSound DEF Sound, IsPath
<1>3. IsLater(saved.height_to_header[k])
  BY <1>2 DEF PoolInv, Verified
<1> QED
  BY <1>3, LaterRaises

\* The pool is empty at first.
LEMMA InitPool ==
  ASSUME NEW V
  PROVE  Init => PoolInv(V)
BY DEF Init, PoolInv, EmptyStorage

\* Built for any of the coins, and with its verification on, the contract has
\* a main chain along which the median time past never decreases, though block
\* times do and forks, reorganisations and collections come in any order.
THEOREM MedianTheorem ==
  ASSUME ~skip_pow_verification, BuiltForACoin
  PROVE  Spec => []MedianTimeNeverDecreases
<1>1. Init => PoolInv(Verified)
  BY InitPool
<1>2. Inv /\ PoolInv(Verified) /\ [Next]_vars => PoolInv(Verified)'
  BY VerifiedClosed, NextPool
<1>3. Inv /\ PoolInv(Verified) => MedianTimeNeverDecreases
  BY VerifiedMedian
<1> QED
  BY <1>1, <1>2, <1>3, SpecInv, PTL DEF Spec

\* The same across an upgrade of the contract's code.
THEOREM UpgradedMedian ==
  ASSUME ~skip_pow_verification, BuiltForACoin
  PROVE  UpgradeSpec => []MedianTimeNeverDecreases
<1>1. Init => PoolInv(Verified)
  BY InitPool
<1>2. Inv /\ PoolInv(Verified) /\ [UpgradeNext]_upgradeVars => PoolInv(Verified)'
  <2> SUFFICES ASSUME Inv, PoolInv(Verified), [UpgradeNext]_upgradeVars
               PROVE  PoolInv(Verified)'
    OBVIOUS
  <2>1. CASE migrate
    <3>1. IsStorage(saved)
      BY DEF Inv, TypeOK
    <3>2. saved'.headers_pool = saved.headers_pool /\ db' = saved' /\ pc' = pc /\ pc = "idle"
      BY <2>1, <3>1, MigratedFields DEF migrate
    <3> QED
      BY <3>2 DEF PoolInv
  <2>2. CASE Call \/ DeployCode \/ UNCHANGED upgradeVars
    <3>1. [Next]_vars
      BY <2>2 DEF Call, DeployCode, upgradeVars
    <3> QED
      BY <3>1, VerifiedClosed, NextPool
  <2> QED
    BY <2>1, <2>2 DEF UpgradeNext
<1>3. Inv /\ PoolInv(Verified) => MedianTimeNeverDecreases
  BY VerifiedMedian
<1> QED
  BY <1>1, <1>2, <1>3, InitInv, InitLink, UpgradeStep, PTL DEF UpgradeSpec, UpgradeInit
=============================================================================
