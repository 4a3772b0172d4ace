------------------------- MODULE LightClientProofs -------------------------
(***************************************************************************)
(* The storage invariants of the contract, for every network of headers,   *)
(* every deployment and every sequence of calls.                           *)
(***************************************************************************)
EXTENDS LightClient, FiniteSetTheorems, TLAPS

\* What holds of the storage whenever no reorganisation is under way.
Sound(s) == IsPath(s) /\ IsHeaviest(s) /\ IsTrue(s)

\* The same, with heights and work read off the network, not off the pool.
SoundPath(s) ==
  LET at == s.height_to_header
      lo == TrueHeight(s.initial_blockhash)
      hi == TrueHeight(s.tip_blockhash)
  IN  /\ s.initial_blockhash \in DOMAIN s.headers_pool
      /\ s.tip_blockhash \in DOMAIN s.headers_pool
      /\ lo <= hi
      /\ DOMAIN at = lo .. hi
      /\ at[lo] = s.initial_blockhash
      /\ at[hi] = s.tip_blockhash
      /\ DOMAIN s.header_to_height = {at[k] : k \in lo .. hi}
      /\ \A k \in lo .. hi :
            /\ s.header_to_height[at[k]] = k
            /\ at[k] \in DOMAIN s.headers_pool
            /\ TrueHeight(at[k]) = k
            /\ k > lo => Prev[at[k]] = at[k - 1]

SoundWork(s) ==
  \A h \in DOMAIN s.headers_pool : TrueWork(h) <= TrueWork(s.tip_blockhash)

-----------------------------------------------------------------------------
(***************************************************************************)
(* Heights and work in the network.                                        *)
(***************************************************************************)

\* Heights and work are integers, and grow from a parent to its child.
LEMMA TrueValues ==
  ASSUME NEW h \in Hash
  PROVE  /\ TrueHeight(h) \in Int
         /\ TrueWork(h) \in Int
         /\ Work[h] \in Nat /\ Work[h] > 0
         /\ Prev[h] \in Hash \cup {NoHash}
         /\ Prev[h] \in Hash =>
              /\ TrueHeight(h) = TrueHeight(Prev[h]) + 1
              /\ TrueWork(h) = TrueWork(Prev[h]) + Work[h]
<1>1. /\ GenesisHash \in Hash
      /\ Work \in [Hash -> Nat \ {0}]
      /\ Prev \in [Hash -> Hash \cup {NoHash}]
  BY HeadersAssumption
<1>2. /\ NetHeight \in [Hash -> Nat]
      /\ NetWork \in [Hash -> Nat]
      /\ Prev[h] \in Hash =>
           /\ NetHeight[h] = NetHeight[Prev[h]] + 1
           /\ NetWork[h] = NetWork[Prev[h]] + Work[h]
  BY NetworkAssumption
<1>3. GenesisHeight \in Nat
  BY ParametersAssumption
<1> QED
  BY <1>1, <1>2, <1>3 DEF TrueHeight, TrueWork

\* extend_header computes the height and the work a header has.
LEMMA ExtendIsTrue ==
  ASSUME NEW s, IsStorage(s), IsTrue(s), NEW h \in Hash,
         Prev[h] \in DOMAIN s.headers_pool
  PROVE  /\ extend_header(s, h).block_height = TrueHeight(h)
         /\ extend_header(s, h).chain_work = TrueWork(h)
         /\ extend_header(s, h) \in ExtendedHeader
<1>1. Prev[h] \in Hash
  BY DEF IsStorage
<1>2. s.headers_pool[Prev[h]] \in ExtendedHeader
  BY DEF IsStorage
<1>3. /\ s.headers_pool[Prev[h]].block_height = TrueHeight(Prev[h])
      /\ s.headers_pool[Prev[h]].chain_work = TrueWork(Prev[h])
  BY DEF IsTrue
<1> QED
  BY <1>1, <1>2, <1>3, TrueValues DEF extend_header, ExtendedHeader

-----------------------------------------------------------------------------
(***************************************************************************)
(* What the storage operations do to each field.                           *)
(***************************************************************************)
\* store_fork_header writes the pool only.
LEMMA StoreForkFields ==
  ASSUME NEW s, IsStorage(s), NEW h \in Hash, NEW v \in ExtendedHeader
  PROVE  LET t == store_fork_header(s, h, v) IN
         /\ IsStorage(t)
         /\ t.height_to_header = s.height_to_header
         /\ t.header_to_height = s.header_to_height
         /\ t.tip_blockhash = s.tip_blockhash
         /\ t.initial_blockhash = s.initial_blockhash
         /\ t.headers_pool = Insert(s.headers_pool, h, v)
BY DEF IsStorage, store_fork_header, Insert

\* store_block_header with the new tip writes all three maps at one block.
LEMMA StoreBlockFields ==
  ASSUME NEW s, IsStorage(s), NEW h \in Hash, NEW v \in ExtendedHeader
  PROVE  LET t == store_block_header(s, h, v) IN
         /\ IsStorage(t)
         /\ t.height_to_header = Insert(s.height_to_header, v.block_height, h)
         /\ t.header_to_height = Insert(s.header_to_height, h, v.block_height)
         /\ t.tip_blockhash = s.tip_blockhash
         /\ t.initial_blockhash = s.initial_blockhash
         /\ t.headers_pool = Insert(s.headers_pool, h, v)
<1> DEFINE t == store_block_header(s, h, v)
<1>1. /\ DOMAIN t = DOMAIN s
      /\ t.height_to_header = Insert(s.height_to_header, v.block_height, h)
      /\ t.header_to_height = Insert(s.header_to_height, h, v.block_height)
      /\ t.tip_blockhash = s.tip_blockhash
      /\ t.initial_blockhash = s.initial_blockhash
      /\ t.headers_pool = Insert(s.headers_pool, h, v)
  BY DEF IsStorage, store_block_header
<1>2. v.block_height \in Nat
  BY DEF ExtendedHeader
<1> HIDE DEF t
<1>3. IsStorage(t)
  BY <1>1, <1>2 DEF IsStorage, Insert
<1> QED
  BY <1>1, <1>3 DEF t

\* remove_heights takes the blocks at those heights out of all three maps.
LEMMA RemoveHeightsFields ==
  ASSUME NEW s, IsStorage(s), NEW K \in SUBSET DOMAIN s.height_to_header
  PROVE  LET t == remove_heights(s, K)
             hs == HashesAt(s, K)
         IN
         /\ IsStorage(t)
         /\ t.height_to_header = Restrict(s.height_to_header, DOMAIN s.height_to_header \ K)
         /\ t.header_to_height = Restrict(s.header_to_height, DOMAIN s.header_to_height \ hs)
         /\ t.tip_blockhash = s.tip_blockhash
         /\ t.initial_blockhash = s.initial_blockhash
         /\ t.headers_pool = Restrict(s.headers_pool, DOMAIN s.headers_pool \ hs)
<1> DEFINE t == remove_heights(s, K)
           hs == HashesAt(s, K)
<1> HIDE DEF hs
<1>1. /\ DOMAIN t = DOMAIN s
      /\ t.height_to_header = Restrict(s.height_to_header, DOMAIN s.height_to_header \ K)
      /\ t.header_to_height = Restrict(s.header_to_height, DOMAIN s.header_to_height \ hs)
      /\ t.tip_blockhash = s.tip_blockhash
      /\ t.initial_blockhash = s.initial_blockhash
      /\ t.headers_pool = Restrict(s.headers_pool, DOMAIN s.headers_pool \ hs)
  BY DEF IsStorage, remove_heights, remove_block_headers, hs
<1> HIDE DEF t
<1>2. IsStorage(t)
  BY <1>1 DEF IsStorage, Restrict
<1> QED
  BY <1>1, <1>2 DEF t, hs

\* One iteration of the loop of reorg_chain, map by map.
LEMMA PromoteFields ==
  ASSUME NEW s, IsStorage(s), NEW h \in DOMAIN s.headers_pool
  PROVE  LET t == promote(s, h)
             n == s.headers_pool[h].block_height
             hs == HashesAt(s, {n})
             m == Insert(s.header_to_height, h, n)
         IN
         /\ IsStorage(t)
         /\ t.height_to_header = Insert(s.height_to_header, n, h)
         /\ t.header_to_height = Restrict(m, DOMAIN m \ hs)
         /\ t.tip_blockhash = s.tip_blockhash
         /\ t.initial_blockhash = s.initial_blockhash
         /\ t.headers_pool = Restrict(s.headers_pool, DOMAIN s.headers_pool \ hs)
<1> DEFINE t == promote(s, h)
           n == s.headers_pool[h].block_height
           hs == HashesAt(s, {n})
           m == Insert(s.header_to_height, h, n)
<1> HIDE DEF hs, m, n
<1>1. /\ DOMAIN t = DOMAIN s
      /\ t.height_to_header = Insert(s.height_to_header, n, h)
      /\ t.header_to_height = Restrict(m, DOMAIN m \ hs)
      /\ t.tip_blockhash = s.tip_blockhash
      /\ t.initial_blockhash = s.initial_blockhash
      /\ t.headers_pool = Restrict(s.headers_pool, DOMAIN s.headers_pool \ hs)
  BY DEF IsStorage, promote, remove_block_headers, hs, m, n
<1>2. n \in Nat
  BY DEF n, IsStorage, ExtendedHeader
<1> HIDE DEF t
<1>3. DOMAIN m \subseteq Hash /\ m \in [DOMAIN m -> Nat]
  BY <1>2 DEF m, Insert, IsStorage
<1>4. IsStorage(t)
  BY <1>1, <1>2, <1>3 DEF IsStorage, Restrict, Insert
<1> QED
  BY <1>1, <1>4 DEF t, hs, m, n

-----------------------------------------------------------------------------
(***************************************************************************)
(* Storage operations preserve soundness.                                  *)
(***************************************************************************)

\* On true pools the two readings of soundness agree.
LEMMA SoundReadings ==
  ASSUME NEW s, IsStorage(s)
  PROVE  Sound(s) <=> SoundPath(s) /\ SoundWork(s) /\ IsTrue(s)
<1>1. ASSUME Sound(s) PROVE SoundPath(s) /\ SoundWork(s) /\ IsTrue(s)
  <2>1. /\ Initial(s).block_height = TrueHeight(s.initial_blockhash)
        /\ Tip(s).block_height = TrueHeight(s.tip_blockhash)
        /\ Tip(s).chain_work = TrueWork(s.tip_blockhash)
    BY <1>1 DEF Sound, IsPath, IsTrue, Initial, Tip
  <2>2. SoundPath(s)
    BY <1>1, <2>1 DEF Sound, IsPath, IsTrue, SoundPath
  <2>3. SoundWork(s)
    BY <1>1, <2>1 DEF Sound, IsHeaviest, IsTrue, SoundWork
  <2> QED
    BY <1>1, <2>2, <2>3 DEF Sound
<1>2. ASSUME SoundPath(s), SoundWork(s), IsTrue(s) PROVE Sound(s)
  <2>1. /\ Initial(s).block_height = TrueHeight(s.initial_blockhash)
        /\ Tip(s).block_height = TrueHeight(s.tip_blockhash)
        /\ Tip(s).chain_work = TrueWork(s.tip_blockhash)
    BY <1>2 DEF SoundPath, IsTrue, Initial, Tip
  <2>2. IsPath(s)
    BY <1>2, <2>1 DEF IsPath, IsTrue, SoundPath
  <2>3. IsHeaviest(s)
    BY <1>2, <2>1 DEF IsHeaviest, IsTrue, SoundWork
  <2> QED
    BY <1>2, <2>2, <2>3 DEF Sound
<1> QED
  BY <1>1, <1>2

\* A header of more height or work than the tip is new to the main chain.
LEMMA NotOnMainchain ==
  ASSUME NEW s, IsStorage(s), SoundPath(s), NEW h \in Hash,
         TrueHeight(h) > TrueHeight(s.tip_blockhash)
  PROVE  h \notin DOMAIN s.header_to_height
BY TrueValues DEF SoundPath, IsStorage

\* store_block_header of a child of the tip, and the new tip.
LEMMA ExtendSound ==
  ASSUME NEW s, IsStorage(s), Sound(s), NEW h \in Hash, Prev[h] = s.tip_blockhash
  PROVE  LET t == [store_block_header(s, h, extend_header(s, h)) EXCEPT !.tip_blockhash = h]
         IN  IsStorage(t) /\ Sound(t)
<1> DEFINE v == extend_header(s, h)
           r == store_block_header(s, h, v)
           t == [r EXCEPT !.tip_blockhash = h]
           at == s.height_to_header
           lo == TrueHeight(s.initial_blockhash)
           hi == TrueHeight(s.tip_blockhash)
<1>1. SoundPath(s) /\ SoundWork(s) /\ IsTrue(s)
  BY SoundReadings
<1>2. Prev[h] \in DOMAIN s.headers_pool /\ Prev[h] \in Hash
  BY <1>1 DEF SoundPath, IsStorage
<1>3. /\ v \in ExtendedHeader
      /\ v.block_height = TrueHeight(h)
      /\ v.chain_work = TrueWork(h)
  BY <1>1, <1>2, ExtendIsTrue
<1>4. /\ TrueHeight(h) = hi + 1 /\ TrueWork(h) > TrueWork(s.tip_blockhash)
      /\ lo \in Int /\ hi \in Int /\ TrueWork(s.tip_blockhash) \in Int
      /\ TrueHeight(h) \in Int /\ TrueWork(h) \in Int
  <2>1. s.tip_blockhash \in Hash /\ s.initial_blockhash \in Hash
    BY <1>1 DEF SoundPath, IsStorage
  <2> QED
    BY <2>1, TrueValues
<1> HIDE DEF v
<1>5. /\ IsStorage(r)
      /\ r.height_to_header = Insert(at, TrueHeight(h), h)
      /\ r.header_to_height = Insert(s.header_to_height, h, TrueHeight(h))
      /\ r.tip_blockhash = s.tip_blockhash
      /\ r.initial_blockhash = s.initial_blockhash
      /\ r.headers_pool = Insert(s.headers_pool, h, v)
  BY <1>3, StoreBlockFields
<1> HIDE DEF r
<1>6. /\ IsStorage(t)
      /\ t.height_to_header = Insert(at, hi + 1, h)
      /\ t.header_to_height = Insert(s.header_to_height, h, hi + 1)
      /\ t.tip_blockhash = h
      /\ t.initial_blockhash = s.initial_blockhash
      /\ t.headers_pool = Insert(s.headers_pool, h, v)
  BY <1>4, <1>5 DEF IsStorage
<1> HIDE DEF t
<1>7. IsTrue(t)
  BY <1>1, <1>3, <1>6 DEF IsTrue, Insert
<1>8. SoundWork(t)
  BY <1>1, <1>4, <1>6, TrueValues DEF SoundWork, Insert, IsStorage
<1>9. SoundPath(t)
  <2> DEFINE at2 == t.height_to_header
  <2>1. /\ DOMAIN at2 = lo .. (hi + 1)
        /\ at2[hi + 1] = h
        /\ \A k \in lo .. hi : at2[k] = at[k]
    BY <1>1, <1>4, <1>6 DEF SoundPath, Insert
  <2>2. h \notin DOMAIN s.header_to_height
    BY <1>1, <1>4, NotOnMainchain
  <2>3. /\ DOMAIN t.header_to_height = {at2[k] : k \in lo .. (hi + 1)}
        /\ \A k \in lo .. (hi + 1) : t.header_to_height[at2[k]] = k
    <3>1. \A k \in lo .. (hi + 1) : k \in lo .. hi \/ k = hi + 1
      BY <1>4
    <3>2. lo .. hi \subseteq lo .. (hi + 1) /\ hi + 1 \in lo .. (hi + 1)
      BY <1>1, <1>4 DEF SoundPath
    <3>3. DOMAIN s.header_to_height = {at2[k] : k \in lo .. hi}
      BY <1>1, <2>1 DEF SoundPath
    <3>4. DOMAIN t.header_to_height = DOMAIN s.header_to_height \cup {h}
      BY <1>6 DEF Insert
    <3>5. DOMAIN t.header_to_height = {at2[k] : k \in lo .. (hi + 1)}
      <4>1. ASSUME NEW g \in DOMAIN t.header_to_height
            PROVE  \E k \in lo .. (hi + 1) : g = at2[k]
        BY <2>1, <3>2, <3>3, <3>4
      <4>2. ASSUME NEW k \in lo .. (hi + 1)
            PROVE  at2[k] \in DOMAIN t.header_to_height
        BY <2>1, <3>1, <3>3, <3>4
      <4> QED
        BY <4>1, <4>2
    <3>6. \A k \in lo .. hi : at2[k] \in DOMAIN s.header_to_height /\ at2[k] # h
      BY <2>2, <3>3
    <3>7. \A k \in lo .. hi : t.header_to_height[at2[k]] = k
      <4>1. \A k \in lo .. hi : s.header_to_height[at2[k]] = k
        BY <1>1, <2>1 DEF SoundPath
      <4>2. \A g \in DOMAIN s.header_to_height :
              g # h => t.header_to_height[g] = s.header_to_height[g]
        BY <1>6 DEF Insert
      <4> QED
        BY <3>6, <4>1, <4>2
    <3>8. t.header_to_height[at2[hi + 1]] = hi + 1
      BY <1>6, <2>1 DEF Insert
    <3> QED
      BY <3>1, <3>5, <3>7, <3>8
  <2>4. \A k \in lo .. (hi + 1) :
          /\ at2[k] \in DOMAIN t.headers_pool
          /\ TrueHeight(at2[k]) = k
          /\ k > lo => Prev[at2[k]] = at2[k - 1]
    BY <1>1, <1>4, <1>6, <2>1 DEF SoundPath, Insert
  <2> HIDE DEF at2
  <2>5. /\ t.initial_blockhash \in DOMAIN t.headers_pool
        /\ t.tip_blockhash \in DOMAIN t.headers_pool
        /\ at2[lo] = t.initial_blockhash
    BY <1>1, <1>4, <1>6, <2>1 DEF SoundPath, Insert
  <2> QED
    BY <1>1, <1>4, <1>6, <2>1, <2>3, <2>4, <2>5 DEF SoundPath, at2
<1> QED
  BY <1>6, <1>7, <1>8, <1>9, SoundReadings DEF t, r, v

\* store_fork_header of a header that does not outweigh the tip.
LEMMA ForkSound ==
  ASSUME NEW s, IsStorage(s), Sound(s), NEW h \in Hash,
         Prev[h] \in DOMAIN s.headers_pool, ~fork_wins(s, h)
  PROVE  LET t == store_fork_header(s, h, extend_header(s, h))
         IN  IsStorage(t) /\ Sound(t)
<1> DEFINE v == extend_header(s, h)
           t == store_fork_header(s, h, v)
<1>1. SoundPath(s) /\ SoundWork(s) /\ IsTrue(s)
  BY SoundReadings
<1>2. /\ v \in ExtendedHeader
      /\ v.block_height = TrueHeight(h)
      /\ v.chain_work = TrueWork(h)
  BY <1>1, ExtendIsTrue
<1>3. TrueWork(h) <= TrueWork(s.tip_blockhash)
  BY <1>1, <1>2, TrueValues DEF fork_wins, Tip, IsTrue, SoundPath, IsStorage
<1> HIDE DEF v
<1>4. /\ IsStorage(t)
      /\ t.height_to_header = s.height_to_header
      /\ t.header_to_height = s.header_to_height
      /\ t.tip_blockhash = s.tip_blockhash
      /\ t.initial_blockhash = s.initial_blockhash
      /\ t.headers_pool = Insert(s.headers_pool, h, v)
  BY <1>2, StoreForkFields
<1> HIDE DEF t
<1>5. IsTrue(t)
  BY <1>1, <1>2, <1>4 DEF IsTrue, Insert
<1>6. SoundWork(t)
  BY <1>1, <1>3, <1>4 DEF SoundWork, Insert
<1>7. SoundPath(t)
  BY <1>1, <1>4 DEF SoundPath, Insert
<1> QED
  BY <1>4, <1>5, <1>6, <1>7, SoundReadings DEF t, v

\* run_mainchain_gc.
LEMMA GcSound ==
  ASSUME NEW s, IsStorage(s), Sound(s), NEW n \in Nat, gc_succeeds(s, n)
  PROVE  IsStorage(gc(s, n)) /\ Sound(gc(s, n))
<1> DEFINE at == s.height_to_header
           lo == TrueHeight(s.initial_blockhash)
           hi == TrueHeight(s.tip_blockhash)
           m == gc_amount(s, n)
           K == lo .. (lo + m - 1)
           hs == HashesAt(s, K)
           r == remove_heights(s, K)
           t == [r EXCEPT !.initial_blockhash = at[lo + m]]
<1>1. SoundPath(s) /\ SoundWork(s) /\ IsTrue(s)
  BY SoundReadings
<1>2. /\ Initial(s).block_height = lo
      /\ Tip(s).block_height = hi
      /\ lo \in Int /\ hi \in Int
  <2>1. s.tip_blockhash \in Hash /\ s.initial_blockhash \in Hash
    BY <1>1 DEF SoundPath, IsStorage
  <2> QED
    BY <1>1, <2>1, TrueValues DEF SoundPath, IsTrue, Initial, Tip
<1>3. m \in Nat
  BY <1>2, ParametersAssumption DEF gc_amount, get_mainchain_size
<1>4. CASE ~(get_mainchain_size(s) > gc_threshold)
  BY <1>4 DEF gc
<1>5. CASE get_mainchain_size(s) > gc_threshold
  <2>1. gc(s, n) = t
    BY <1>2, <1>5 DEF gc, gc_heights, gc_end
  <2>2. K \subseteq DOMAIN at /\ lo + m \in DOMAIN at
    BY <1>2, <1>5 DEF gc_succeeds, gc_heights, gc_end
  <2>3. lo + m \in lo .. hi /\ lo + m <= hi
    BY <1>1, <1>2, <1>3, <2>2 DEF SoundPath
  <2> HIDE DEF K, hs, m
  <2>4. /\ IsStorage(r)
        /\ r.height_to_header = Restrict(at, DOMAIN at \ K)
        /\ r.header_to_height = Restrict(s.header_to_height, DOMAIN s.header_to_height \ hs)
        /\ r.tip_blockhash = s.tip_blockhash
        /\ r.headers_pool = Restrict(s.headers_pool, DOMAIN s.headers_pool \ hs)
    BY <2>2, RemoveHeightsFields DEF hs
  <2> HIDE DEF r
  <2>5. at[lo + m] \in Hash
    BY <2>2 DEF IsStorage
  <2>6. /\ IsStorage(t)
        /\ t.height_to_header = Restrict(at, DOMAIN at \ K)
        /\ t.header_to_height = Restrict(s.header_to_height, DOMAIN s.header_to_height \ hs)
        /\ t.tip_blockhash = s.tip_blockhash
        /\ t.initial_blockhash = at[lo + m]
        /\ t.headers_pool = Restrict(s.headers_pool, DOMAIN s.headers_pool \ hs)
    BY <2>4, <2>5 DEF IsStorage
  <2> HIDE DEF t
  <2>7. IsTrue(t)
    BY <1>1, <2>6 DEF IsTrue, Restrict
  <2>8. SoundWork(t)
    BY <1>1, <2>6 DEF SoundWork, Restrict
  <2>9. SoundPath(t)
    <3> DEFINE at2 == t.height_to_header
    <3>1. TrueHeight(t.initial_blockhash) = lo + m
      BY <1>1, <2>3, <2>6 DEF SoundPath
    <3>2. DOMAIN at2 = (lo + m) .. hi
      BY <1>1, <1>2, <1>3, <2>3, <2>6 DEF SoundPath, Restrict, K
    <3>3. \A k \in (lo + m) .. hi : at2[k] = at[k] /\ k \in lo .. hi /\ k \notin K
      BY <1>2, <1>3, <2>6, <3>2 DEF Restrict, K
    <3>4. \A k \in lo .. hi : at[k] \in hs <=> k \in K
      <4>1. \A k \in lo .. hi : TrueHeight(at[k]) = k
        BY <1>1 DEF SoundPath
      <4>2. K \subseteq lo .. hi
        BY <1>1, <2>2 DEF SoundPath
      <4> QED
        BY <1>1, <4>1, <4>2 DEF hs, HashesAt, SoundPath
    <3>5. \A k \in (lo + m) .. hi :
            /\ at2[k] \in DOMAIN t.headers_pool
            /\ TrueHeight(at2[k]) = k
            /\ k > lo + m => Prev[at2[k]] = at2[k - 1]
      <4> SUFFICES ASSUME NEW k \in (lo + m) .. hi
                   PROVE  /\ at2[k] \in DOMAIN t.headers_pool
                          /\ TrueHeight(at2[k]) = k
                          /\ k > lo + m => Prev[at2[k]] = at2[k - 1]
        OBVIOUS
      <4>1. at2[k] = at[k] /\ at[k] \notin hs /\ k \in lo .. hi
        BY <3>3, <3>4
      <4>2. at[k] \in DOMAIN s.headers_pool /\ TrueHeight(at[k]) = k
        BY <1>1, <4>1 DEF SoundPath
      <4>3. k > lo + m => k > lo /\ at2[k - 1] = at[k - 1]
        BY <1>2, <1>3, <3>3
      <4>4. k > lo => Prev[at[k]] = at[k - 1]
        BY <1>1, <4>1 DEF SoundPath
      <4> QED
        BY <2>6, <4>1, <4>2, <4>3, <4>4 DEF Restrict
    <3>6. DOMAIN t.header_to_height = {at2[k] : k \in (lo + m) .. hi}
      <4>1. DOMAIN t.header_to_height = {at[k] : k \in lo .. hi} \ hs
        BY <1>1, <2>6 DEF SoundPath, Restrict
      <4>2. ASSUME NEW g \in DOMAIN t.header_to_height
            PROVE  \E k \in (lo + m) .. hi : g = at2[k]
        <5>1. PICK k \in lo .. hi : g = at[k] /\ k \notin K
          BY <3>4, <4>1
        <5>2. k \in (lo + m) .. hi
          BY <1>2, <1>3, <5>1 DEF K
        <5> QED
          BY <3>3, <5>1, <5>2
      <4>3. ASSUME NEW k \in (lo + m) .. hi
            PROVE  at2[k] \in DOMAIN t.header_to_height
        BY <3>3, <3>4, <4>1
      <4> QED
        BY <4>2, <4>3
    <3>7. \A k \in (lo + m) .. hi : t.header_to_height[at2[k]] = k
      <4>1. \A k \in (lo + m) .. hi : s.header_to_height[at2[k]] = k
        BY <1>1, <3>3 DEF SoundPath
      <4>2. \A k \in (lo + m) .. hi : at2[k] \in DOMAIN t.header_to_height
        BY <3>6
      <4> QED
        BY <2>6, <4>1, <4>2 DEF Restrict
    <3> HIDE DEF at2
    <3>8. lo + m \in (lo + m) .. hi /\ hi \in (lo + m) .. hi
      BY <1>2, <1>3, <2>3
    <3>9. at2[lo + m] = t.initial_blockhash /\ at2[hi] = t.tip_blockhash
      BY <1>1, <2>6, <3>3, <3>8 DEF SoundPath
    <3>10. /\ t.initial_blockhash \in DOMAIN t.headers_pool
           /\ t.tip_blockhash \in DOMAIN t.headers_pool
      BY <3>5, <3>8, <3>9
    <3> QED
      BY <2>3, <2>6, <3>1, <3>2, <3>5, <3>6, <3>7, <3>9, <3>10 DEF SoundPath, at2
  <2> QED
    BY <2>1, <2>6, <2>7, <2>8, <2>9, SoundReadings
<1> QED
  BY <1>4, <1>5

-----------------------------------------------------------------------------
(***************************************************************************)
(* The steps of reorg_chain.                                               *)
(***************************************************************************)

\* A header that outweighs the tip is not on the main chain, and trimming the
\* main chain above it leaves the storage a walk starts from.
LEMMA StartReorgMid ==
  ASSUME NEW s, IsStorage(s), Sound(s), NEW h \in Hash,
         Prev[h] \in DOMAIN s.headers_pool, fork_wins(s, h),
         heights_above(s, h) \subseteq DOMAIN s.height_to_header
  PROVE  LET t == remove_heights(store_fork_header(s, h, extend_header(s, h)),
                                 heights_above(s, h))
         IN  IsStorage(t) /\ IsTrue(t) /\ MidReorg(t, h, h)
<1> DEFINE v == extend_header(s, h)
           r == store_fork_header(s, h, v)
           at == s.height_to_header
           lo == TrueHeight(s.initial_blockhash)
           hi == TrueHeight(s.tip_blockhash)
           fh == TrueHeight(h)
           K == heights_above(s, h)
           hs == HashesAt(r, K)
           t == remove_heights(r, K)
<1>1. SoundPath(s) /\ SoundWork(s) /\ IsTrue(s)
  BY SoundReadings
<1>2. s.tip_blockhash \in Hash /\ s.initial_blockhash \in Hash
  BY <1>1 DEF SoundPath, IsStorage
<1>3. /\ lo \in Int /\ hi \in Int /\ fh \in Int
      /\ TrueWork(h) \in Int /\ TrueWork(s.tip_blockhash) \in Int
  BY <1>2, TrueValues
<1>4. /\ v \in ExtendedHeader
      /\ v.block_height = TrueHeight(h)
      /\ v.chain_work = TrueWork(h)
  BY <1>1, ExtendIsTrue
<1>5. TrueWork(h) > TrueWork(s.tip_blockhash)
  BY <1>1, <1>4 DEF fork_wins, Tip, IsTrue, SoundPath
<1>6. K = (fh + 1) .. hi
  BY <1>1, <1>4 DEF heights_above, Tip, IsTrue, SoundPath
<1> HIDE DEF v
<1>7. /\ IsStorage(r)
      /\ r.height_to_header = at
      /\ r.header_to_height = s.header_to_height
      /\ r.tip_blockhash = s.tip_blockhash
      /\ r.initial_blockhash = s.initial_blockhash
      /\ r.headers_pool = Insert(s.headers_pool, h, v)
  BY <1>4, StoreForkFields
<1> HIDE DEF r, K, hs
<1>8. /\ IsStorage(t)
      /\ t.height_to_header = Restrict(at, DOMAIN at \ K)
      /\ t.header_to_height = Restrict(s.header_to_height, DOMAIN s.header_to_height \ hs)
      /\ t.tip_blockhash = s.tip_blockhash
      /\ t.initial_blockhash = s.initial_blockhash
      /\ t.headers_pool = Restrict(r.headers_pool, DOMAIN r.headers_pool \ hs)
  <2>1. K \in SUBSET DOMAIN r.height_to_header
    BY <1>7 DEF K
  <2>2. /\ IsStorage(t)
        /\ t.height_to_header
             = Restrict(r.height_to_header, DOMAIN r.height_to_header \ K)
        /\ t.header_to_height
             = Restrict(r.header_to_height, DOMAIN r.header_to_height \ hs)
        /\ t.tip_blockhash = r.tip_blockhash
        /\ t.initial_blockhash = r.initial_blockhash
        /\ t.headers_pool = Restrict(r.headers_pool, DOMAIN r.headers_pool \ hs)
    BY <1>7, <2>1, RemoveHeightsFields DEF hs
  <2> QED
    BY <1>7, <2>2
<1> HIDE DEF t
<1>9. /\ DOMAIN at = lo .. hi /\ lo <= hi
      /\ DOMAIN s.header_to_height = {at[k] : k \in lo .. hi}
      /\ at[lo] = s.initial_blockhash
  BY <1>1 DEF SoundPath
<1>10. h \notin DOMAIN s.header_to_height
  <2>1. h \notin DOMAIN s.headers_pool
    BY <1>1, <1>3, <1>5 DEF SoundWork
  <2>2. \A k \in lo .. hi : at[k] \in DOMAIN s.headers_pool
    BY <1>1 DEF SoundPath
  <2>3. DOMAIN s.header_to_height = {at[k] : k \in lo .. hi}
    BY <1>9
  <2> QED
    BY <2>1, <2>2, <2>3
<1>11. \A k \in lo .. hi : at[k] \in hs <=> k \in K
  <2>1. K \subseteq lo .. hi
    BY <1>9 DEF K
  <2>2. hs = {at[k] : k \in K}
    BY <1>7, <1>9, <2>1 DEF hs, HashesAt
  <2>3. \A k \in lo .. hi : TrueHeight(at[k]) = k
    BY <1>1 DEF SoundPath
  <2> QED
    BY <2>1, <2>2, <2>3
<1>12. h \notin hs
  <2>1. hs \subseteq DOMAIN s.header_to_height
    BY <1>7, <1>9 DEF hs, HashesAt
  <2> QED
    BY <1>10, <2>1
<1>13. IsTrue(t)
  BY <1>1, <1>4, <1>7, <1>8 DEF IsTrue, Insert, Restrict
<1>14. MidReorg(t, h, h)
  <2> DEFINE at2 == t.height_to_header
             D == {k \in lo .. hi : k <= fh}
  <2>1. DOMAIN at2 = D
    BY <1>3, <1>6, <1>8, <1>9 DEF Restrict
  <2>2. \A k \in D : at2[k] = at[k] /\ k \in lo .. hi /\ k \notin K
    BY <1>3, <1>6, <1>8, <1>9, <2>1 DEF Restrict
  <2>3. \A k \in lo .. hi : k \notin K => k \in D
    BY <1>3, <1>6
  <2> HIDE DEF D
  <2>4. h \in DOMAIN t.headers_pool
    BY <1>7, <1>8, <1>12 DEF Insert, Restrict
  <2>5. DOMAIN t.header_to_height = {at[k] : k \in lo .. hi} \ hs
    BY <1>8, <1>9 DEF Restrict
  <2>6. DOMAIN t.header_to_height = {at2[k] : k \in DOMAIN at2}
    <3>1. ASSUME NEW g \in DOMAIN t.header_to_height
          PROVE  \E k \in D : g = at2[k]
      <4>1. PICK k \in lo .. hi : g = at[k] /\ k \notin K
        BY <1>11, <2>5
      <4> QED
        BY <2>2, <2>3, <4>1
    <3>2. ASSUME NEW k \in D
          PROVE  at2[k] \in DOMAIN t.header_to_height
      BY <1>11, <2>2, <2>5
    <3> QED
      BY <2>1, <3>1, <3>2
  <2>7. ASSUME NEW k \in D
        PROVE  /\ TrueHeight(at2[k]) = k
               /\ t.header_to_height[at2[k]] = k
               /\ at2[k] \in DOMAIN t.headers_pool
               /\ k > lo => Prev[at2[k]] = at2[k - 1]
    <3>1. at2[k] = at[k] /\ at[k] \notin hs /\ k \in lo .. hi
      BY <1>11, <2>2
    <3>2. at[k] \in DOMAIN t.headers_pool
      <4>1. at[k] \in DOMAIN s.headers_pool
        BY <1>1, <3>1 DEF SoundPath
      <4>2. at[k] \in DOMAIN r.headers_pool
        BY <1>7, <4>1 DEF Insert
      <4> QED
        BY <1>8, <3>1, <4>2 DEF Restrict
    <3>3. t.header_to_height[at[k]] = s.header_to_height[at[k]]
      BY <1>8, <1>9, <3>1 DEF Restrict
    <3>4. k > lo => at2[k - 1] = at[k - 1]
      BY <1>3, <2>2 DEF D
    <3>5. /\ TrueHeight(at[k]) = k
          /\ s.header_to_height[at[k]] = k
          /\ k > lo => Prev[at[k]] = at[k - 1]
      BY <1>1, <3>1 DEF SoundPath
    <3> QED
      BY <3>1, <3>2, <3>3, <3>4, <3>5
  <2>8. h \notin DOMAIN t.header_to_height
    BY <1>8, <1>10 DEF Restrict
  <2>9. lo <= fh => at2[lo] = t.initial_blockhash
    <3>1. lo <= fh => lo \in D
      BY <1>3, <1>9 DEF D
    <3> QED
      BY <1>8, <1>9, <2>2, <3>1
  <2>10. \A g \in DOMAIN t.headers_pool : TrueWork(g) <= TrueWork(h)
    <3>1. \A g \in DOMAIN t.headers_pool : g \in DOMAIN s.headers_pool \/ g = h
      BY <1>7, <1>8 DEF Insert, Restrict
    <3>2. \A g \in DOMAIN s.headers_pool :
            TrueWork(g) \in Int /\ TrueWork(g) <= TrueWork(s.tip_blockhash)
      BY <1>1, TrueValues DEF SoundWork, IsStorage
    <3> QED
      BY <1>3, <1>5, <3>1, <3>2
  <2>11. DOMAIN at2 = {k \in lo .. hi : k <= fh} \cup ((fh + 1) .. fh)
    BY <1>3, <2>1 DEF D
  <2>12. \A k \in DOMAIN at2 :
           /\ TrueHeight(at2[k]) = k
           /\ t.header_to_height[at2[k]] = k
           /\ at2[k] \in DOMAIN t.headers_pool
           /\ k > lo /\ k # fh + 1 => Prev[at2[k]] = at2[k - 1]
    BY <2>1, <2>7
  <2>13. /\ TrueHeight(t.initial_blockhash) = lo
         /\ TrueHeight(t.tip_blockhash) = hi
         /\ {h, t.initial_blockhash, t.tip_blockhash} \subseteq Hash
    BY <1>2, <1>8
  <2>14. lo <= hi /\ fh <= fh
    BY <1>3, <1>9
  <2> HIDE DEF at2, lo, hi, fh
  <2> QED
    BY <2>4, <2>6, <2>8, <2>9, <2>10, <2>11, <2>12, <2>13, <2>14
       DEF MidReorg, at2, fh
<1> QED
  BY <1>8, <1>13, <1>14 DEF t, r, v, K

\* One iteration of the loop.
LEMMA WalkMid ==
  ASSUME NEW s, IsStorage(s), IsTrue(s), NEW c, NEW f, MidReorg(s, c, f),
         c \notin DOMAIN s.header_to_height,
         Prev[c] \in DOMAIN promote(s, c).headers_pool
  PROVE  LET t == promote(s, c)
         IN  IsStorage(t) /\ IsTrue(t) /\ MidReorg(t, Prev[c], f)
<1> DEFINE t == promote(s, c)
           at == s.height_to_header
           lo == TrueHeight(s.initial_blockhash)
           old == TrueHeight(s.tip_blockhash)
           hi == TrueHeight(f)
           ch == TrueHeight(c)
           D == {k \in lo .. old : k <= hi}
           hs == HashesAt(s, {ch})
           m == Insert(s.header_to_height, c, ch)
<1>1. /\ c \in DOMAIN s.headers_pool /\ c \in Hash
      /\ f \in Hash /\ s.initial_blockhash \in Hash /\ s.tip_blockhash \in Hash
      /\ s.headers_pool[c].block_height = ch
  BY DEF MidReorg, IsStorage, IsTrue
<1>2. lo \in Int /\ old \in Int /\ hi \in Int /\ ch \in Int
  BY <1>1, TrueValues
<1>3. /\ IsStorage(t)
      /\ t.height_to_header = Insert(at, ch, c)
      /\ t.header_to_height = Restrict(m, DOMAIN m \ hs)
      /\ t.tip_blockhash = s.tip_blockhash
      /\ t.initial_blockhash = s.initial_blockhash
      /\ t.headers_pool = Restrict(s.headers_pool, DOMAIN s.headers_pool \ hs)
  <2>1. LET n == s.headers_pool[c].block_height
            m2 == Insert(s.header_to_height, c, n)
        IN  /\ IsStorage(t)
            /\ t.height_to_header = Insert(at, n, c)
            /\ t.header_to_height = Restrict(m2, DOMAIN m2 \ HashesAt(s, {n}))
            /\ t.tip_blockhash = s.tip_blockhash
            /\ t.initial_blockhash = s.initial_blockhash
            /\ t.headers_pool
                 = Restrict(s.headers_pool, DOMAIN s.headers_pool \ HashesAt(s, {n}))
    BY <1>1, PromoteFields
  <2> QED
    BY <1>1, <2>1
<1>4. /\ lo <= old /\ ch <= hi
      /\ DOMAIN at = D \cup ((ch + 1) .. hi)
      /\ DOMAIN s.header_to_height = {at[k] : k \in DOMAIN at}
      /\ \A k \in DOMAIN at :
            /\ TrueHeight(at[k]) = k
            /\ s.header_to_height[at[k]] = k
            /\ at[k] \in DOMAIN s.headers_pool
            /\ k > lo /\ k # ch + 1 => Prev[at[k]] = at[k - 1]
      /\ IF ch = hi THEN c = f ELSE at[hi] = f /\ Prev[at[ch + 1]] = c
      /\ lo <= ch /\ lo <= hi => at[lo] = s.initial_blockhash
      /\ \A g \in DOMAIN s.headers_pool : TrueWork(g) <= TrueWork(f)
  BY DEF MidReorg
<1> HIDE DEF t, m, hs
<1>5. IsTrue(t)
  BY <1>3 DEF IsTrue, Restrict
<1>6. Prev[c] \in DOMAIN t.headers_pool /\ Prev[c] \in Hash
  BY <1>3 DEF t, IsStorage
<1>7. TrueHeight(Prev[c]) = ch - 1
  BY <1>1, <1>2, <1>6, TrueValues
<1>8. \A k \in DOMAIN at : at[k] \in hs <=> k = ch
  BY <1>4 DEF hs, HashesAt
<1>9. \A g \in hs : g \in DOMAIN s.header_to_height
  BY <1>4 DEF hs, HashesAt
<1>10. MidReorg(t, Prev[c], f)
  <2> DEFINE at2 == t.height_to_header
  <2>1. /\ DOMAIN at2 = DOMAIN at \cup {ch}
        /\ at2[ch] = c
        /\ \A k \in DOMAIN at : k # ch => at2[k] = at[k]
    BY <1>3 DEF Insert
  <2>2. DOMAIN at2 = D \cup (((ch - 1) + 1) .. hi)
    BY <1>2, <1>4, <2>1
  <2> HIDE DEF D
  <2>3. c \notin hs
    BY <1>9
  <2>4. DOMAIN t.header_to_height = (DOMAIN s.header_to_height \cup {c}) \ hs
    BY <1>3 DEF m, Insert, Restrict
  <2>5. DOMAIN t.header_to_height = {at2[k] : k \in DOMAIN at2}
    <3>1. ASSUME NEW g \in DOMAIN t.header_to_height
          PROVE  \E k \in DOMAIN at2 : g = at2[k]
      <4>1. CASE g = c
        BY <2>1, <4>1
      <4>2. CASE g # c
        <5>1. PICK k \in DOMAIN at : g = at[k] /\ k # ch
          BY <1>4, <1>8, <2>4, <4>2
        <5> QED
          BY <2>1, <5>1
      <4> QED
        BY <4>1, <4>2
    <3>2. ASSUME NEW k \in DOMAIN at2
          PROVE  at2[k] \in DOMAIN t.header_to_height
      <4>1. CASE k = ch
        BY <2>1, <2>3, <2>4, <4>1
      <4>2. CASE k # ch
        BY <1>4, <1>8, <2>1, <2>4, <4>2
      <4> QED
        BY <4>1, <4>2
    <3> QED
      BY <3>1, <3>2
  <2>6. ASSUME NEW k \in DOMAIN at2
        PROVE  /\ TrueHeight(at2[k]) = k
               /\ t.header_to_height[at2[k]] = k
               /\ at2[k] \in DOMAIN t.headers_pool
    <3>1. CASE k = ch
      <4>1. t.header_to_height[c] = ch
        BY <1>3, <2>3 DEF m, Insert, Restrict
      <4>2. c \in DOMAIN t.headers_pool
        BY <1>1, <1>3, <2>3 DEF Restrict
      <4> QED
        BY <2>1, <3>1, <4>1, <4>2
    <3>2. CASE k # ch
      <4>1. k \in DOMAIN at /\ at2[k] = at[k] /\ at[k] \notin hs
        BY <1>8, <2>1, <3>2
      <4>2. at[k] \in DOMAIN s.header_to_height /\ at[k] # c
        BY <1>4, <4>1
      <4>3. t.header_to_height[at[k]] = s.header_to_height[at[k]]
        BY <1>3, <4>1, <4>2 DEF m, Insert, Restrict
      <4>4. at[k] \in DOMAIN t.headers_pool
        BY <1>3, <1>4, <4>1 DEF Restrict
      <4> QED
        BY <1>4, <4>1, <4>3, <4>4
    <3> QED
      BY <3>1, <3>2
  <2>7. ASSUME NEW k \in DOMAIN at2, k > lo, k # ch
        PROVE  Prev[at2[k]] = at2[k - 1]
    <3>1. k \in DOMAIN at /\ at2[k] = at[k] /\ k \in Int
      BY <1>2, <1>4, <2>1, <2>7 DEF D
    <3>2. CASE k = ch + 1
      BY <1>2, <1>4, <2>1, <3>1, <3>2 DEF D
    <3>3. CASE k # ch + 1
      <4>1. Prev[at[k]] = at[k - 1]
        BY <1>4, <2>7, <3>1, <3>3
      <4>2. k - 1 \in DOMAIN at /\ k - 1 # ch
        BY <1>2, <1>4, <2>7, <3>1, <3>3 DEF D
      <4> QED
        BY <2>1, <3>1, <4>1, <4>2
    <3> QED
      BY <3>2, <3>3
  <2>8. at2[hi] = f /\ ch - 1 # hi /\ ch - 1 <= hi
    <3>1. CASE ch = hi
      BY <1>2, <1>4, <2>1, <3>1
    <3>2. CASE ch # hi
      BY <1>2, <1>4, <2>1, <3>2
    <3> QED
      BY <3>1, <3>2
  <2>9. lo <= ch - 1 /\ lo <= hi => at2[lo] = t.initial_blockhash
    <3>1. lo <= ch - 1 /\ lo <= hi => lo \in DOMAIN at /\ lo # ch
      BY <1>2, <1>4 DEF D
    <3> QED
      BY <1>2, <1>3, <1>4, <2>1, <3>1
  <2>10. \A g \in DOMAIN t.headers_pool : TrueWork(g) <= TrueWork(f)
    BY <1>3, <1>4 DEF Restrict
  <2> HIDE DEF at2
  <2>11. /\ (ch - 1) + 1 = ch
         /\ ch - 1 <= hi
    BY <1>2, <1>4
  <2>12. \A k \in DOMAIN at2 :
           /\ TrueHeight(at2[k]) = k
           /\ t.header_to_height[at2[k]] = k
           /\ at2[k] \in DOMAIN t.headers_pool
           /\ k > lo /\ k # (ch - 1) + 1 => Prev[at2[k]] = at2[k - 1]
    BY <2>6, <2>7, <2>11
  <2>13. /\ TrueHeight(t.initial_blockhash) = lo
         /\ TrueHeight(t.tip_blockhash) = old
         /\ {f, t.initial_blockhash, t.tip_blockhash} \subseteq Hash
         /\ lo <= old
    BY <1>1, <1>3, <1>4
  <2>14. Prev[at2[(ch - 1) + 1]] = Prev[c]
    BY <2>1, <2>11 DEF at2
  <2>15. DOMAIN at2 = {k \in lo .. old : k <= hi} \cup (((ch - 1) + 1) .. hi)
    BY <2>2 DEF D
  <2> HIDE DEF lo, hi, old, ch
  <2> QED
    BY <1>6, <1>7, <2>5, <2>8, <2>9, <2>10, <2>11, <2>12, <2>13, <2>14, <2>15
       DEF MidReorg, at2, hi
<1> QED
  BY <1>3, <1>5, <1>10 DEF t

\* The walk has reached the main chain: the fork is the new main chain.
LEMMA FinishReorgSound ==
  ASSUME NEW s, IsStorage(s), IsTrue(s), NEW c, NEW f, MidReorg(s, c, f),
         c \in DOMAIN s.header_to_height
  PROVE  LET t == [s EXCEPT !.tip_blockhash = f]
         IN  IsStorage(t) /\ Sound(t)
<1> DEFINE t == [s EXCEPT !.tip_blockhash = f]
           at == s.height_to_header
           lo == TrueHeight(s.initial_blockhash)
           old == TrueHeight(s.tip_blockhash)
           hi == TrueHeight(f)
           ch == TrueHeight(c)
           D == {k \in lo .. old : k <= hi}
<1>1. /\ c \in Hash /\ f \in Hash
      /\ s.initial_blockhash \in Hash /\ s.tip_blockhash \in Hash
  BY DEF MidReorg, IsStorage
<1>2. lo \in Int /\ old \in Int /\ hi \in Int /\ ch \in Int
  BY <1>1, TrueValues
<1>3. /\ IsStorage(t)
      /\ t.height_to_header = at
      /\ t.header_to_height = s.header_to_height
      /\ t.tip_blockhash = f
      /\ t.initial_blockhash = s.initial_blockhash
      /\ t.headers_pool = s.headers_pool
  BY <1>1 DEF IsStorage
<1> HIDE DEF t
<1>4. /\ lo <= old /\ ch <= hi
      /\ DOMAIN at = D \cup ((ch + 1) .. hi)
      /\ DOMAIN s.header_to_height = {at[k] : k \in DOMAIN at}
      /\ \A k \in DOMAIN at :
            /\ TrueHeight(at[k]) = k
            /\ s.header_to_height[at[k]] = k
            /\ at[k] \in DOMAIN s.headers_pool
            /\ k > lo /\ k # ch + 1 => Prev[at[k]] = at[k - 1]
      /\ IF ch = hi THEN c \notin DOMAIN s.header_to_height
                    ELSE at[hi] = f /\ Prev[at[ch + 1]] = c
      /\ lo <= ch /\ lo <= hi => at[lo] = s.initial_blockhash
      /\ \A g \in DOMAIN s.headers_pool : TrueWork(g) <= TrueWork(f)
  BY DEF MidReorg
<1>5. ch \in DOMAIN at /\ at[ch] = c
  BY <1>4
<1>6. lo <= ch /\ ch < hi
  BY <1>2, <1>4, <1>5
<1>7. DOMAIN at = lo .. hi
  BY <1>2, <1>4, <1>5, <1>6
<1> HIDE DEF D
<1>8. at[lo] = s.initial_blockhash /\ at[hi] = f
  BY <1>2, <1>4, <1>6
<1>9. \A k \in lo .. hi : k > lo => Prev[at[k]] = at[k - 1]
  <2>1. at[(ch + 1) - 1] = c
    BY <1>2, <1>5
  <2> QED
    BY <1>2, <1>4, <1>6, <1>7, <2>1
<1>10. lo \in lo .. hi /\ hi \in lo .. hi
  BY <1>2, <1>6
<1>11. SoundPath(t)
  BY <1>2, <1>3, <1>4, <1>6, <1>7, <1>8, <1>9, <1>10 DEF SoundPath
<1>12. SoundWork(t)
  BY <1>3, <1>4 DEF SoundWork
<1>13. IsTrue(t)
  BY <1>3 DEF IsTrue
<1> QED
  BY <1>3, <1>11, <1>12, <1>13, SoundReadings DEF t

-----------------------------------------------------------------------------
(***************************************************************************)
(* The first storage, the storage in use, and what GC looks up.            *)
(***************************************************************************)
\* The storage before init is a storage.
LEMMA EmptyIsStorage ==
  IsStorage(EmptyStorage) /\ IsTrue(EmptyStorage)
BY DEF IsStorage, EmptyStorage, ExtendedHeader, IsTrue

\* init_genesis stores a sound chain of one block.
LEMMA GenesisSound ==
  IsStorage(genesis_storage) /\ Sound(genesis_storage)
<1> DEFINE g == GenesisHash
           v == [block_height |-> GenesisHeight, chain_work |-> Work[g]]
           r == store_block_header(EmptyStorage, g, v)
           t == genesis_storage
<1>1. /\ g \in Hash /\ GenesisHeight \in Nat /\ Work[g] \in Nat
      /\ TrueHeight(g) = GenesisHeight /\ TrueWork(g) = Work[g]
  <2>1. g \in Hash /\ GenesisHeight \in Nat
    BY HeadersAssumption, ParametersAssumption
  <2>2. NetHeight[g] \in Nat /\ NetWork[g] \in Nat
    BY <2>1, NetworkAssumption
  <2> QED
    BY <2>1, <2>2, TrueValues DEF TrueHeight, TrueWork
<1>2. v \in ExtendedHeader /\ v.block_height = GenesisHeight /\ v.chain_work = Work[g]
  BY <1>1 DEF ExtendedHeader
<1> HIDE DEF v
<1>3. /\ IsStorage(r)
      /\ r.height_to_header = Insert(EmptyStorage.height_to_header, v.block_height, g)
      /\ r.header_to_height = Insert(EmptyStorage.header_to_height, g, v.block_height)
      /\ r.headers_pool = Insert(EmptyStorage.headers_pool, g, v)
  BY <1>1, <1>2, EmptyIsStorage, StoreBlockFields
<1> HIDE DEF r
<1>4. t = [r EXCEPT !.initial_blockhash = g, !.tip_blockhash = g]
  BY DEF genesis_storage, r, v
<1> HIDE DEF t
<1>5. /\ IsStorage(t)
      /\ t.height_to_header = r.height_to_header
      /\ t.header_to_height = r.header_to_height
      /\ t.tip_blockhash = g
      /\ t.initial_blockhash = g
      /\ t.headers_pool = r.headers_pool
  BY <1>1, <1>3, <1>4 DEF IsStorage
<1>6. /\ DOMAIN t.height_to_header = {GenesisHeight}
      /\ t.height_to_header[GenesisHeight] = g
      /\ DOMAIN t.header_to_height = {g}
      /\ t.header_to_height[g] = GenesisHeight
      /\ DOMAIN t.headers_pool = {g}
      /\ t.headers_pool[g] = v
  BY <1>2, <1>3, <1>5 DEF Insert, EmptyStorage
<1>7. GenesisHeight .. GenesisHeight = {GenesisHeight}
  BY <1>1
<1>8. IsTrue(t)
  BY <1>1, <1>2, <1>6 DEF IsTrue
<1>9. SoundWork(t)
  BY <1>1, <1>5, <1>6 DEF SoundWork
<1>10. SoundPath(t)
  BY <1>1, <1>5, <1>6, <1>7 DEF SoundPath
<1> QED
  BY <1>5, <1>8, <1>9, <1>10, SoundReadings DEF t

\* The three maps are finite.
LEMMA FiniteMaps ==
  ASSUME NEW s, IsStorage(s), Sound(s)
  PROVE  /\ IsFiniteSet(DOMAIN s.headers_pool)
         /\ IsFiniteSet(DOMAIN s.header_to_height)
         /\ IsFiniteSet(DOMAIN s.height_to_header)
<1>1. /\ IsFiniteSet(DOMAIN s.headers_pool)
      /\ IsFiniteSet(DOMAIN s.header_to_height)
  BY HeadersAssumption, FS_Subset DEF IsStorage
<1>2. SoundPath(s)
  BY SoundReadings
<1>3. s.tip_blockhash \in Hash /\ s.initial_blockhash \in Hash
  BY <1>2 DEF SoundPath, IsStorage
<1>4. IsFiniteSet(DOMAIN s.height_to_header)
  BY <1>2, <1>3, TrueValues, FS_Interval DEF SoundPath
<1> QED
  BY <1>1, <1>4

\* Storage in use is a number of bytes.
LEMMA UsageIsNat ==
  ASSUME NEW s, IsStorage(s), Sound(s)
  PROVE  storage_usage(s) \in Nat
<1>3. /\ Cardinality(DOMAIN s.headers_pool) \in Nat
      /\ Cardinality(DOMAIN s.header_to_height) \in Nat
      /\ Cardinality(DOMAIN s.height_to_header) \in Nat
  BY FiniteMaps, FS_CardinalityType
<1>4. EntryBytes \in Nat /\ HeaderBytes \in Nat
  BY ParametersAssumption
<1>5. \A x, y \in Nat : x * y \in Nat
  OBVIOUS
<1> QED
  BY <1>3, <1>4, <1>5 DEF storage_usage

\* GC only frees storage.
LEMMA GcFrees ==
  ASSUME NEW s, IsStorage(s), Sound(s), NEW n \in Nat, gc_succeeds(s, n)
  PROVE  storage_usage(gc(s, n)) <= storage_usage(s)
<1> DEFINE t == gc(s, n)
<1>1. /\ DOMAIN t.height_to_header \subseteq DOMAIN s.height_to_header
      /\ DOMAIN t.header_to_height \subseteq DOMAIN s.header_to_height
      /\ DOMAIN t.headers_pool \subseteq DOMAIN s.headers_pool
  BY DEF gc, remove_heights, remove_block_headers, Restrict, IsStorage
<1>2. IsStorage(t) /\ Sound(t)
  BY GcSound
<1> HIDE DEF t
<1>3. /\ IsFiniteSet(DOMAIN s.headers_pool)
      /\ IsFiniteSet(DOMAIN s.header_to_height)
      /\ IsFiniteSet(DOMAIN s.height_to_header)
  BY FiniteMaps
<1>4. /\ Cardinality(DOMAIN t.headers_pool) <= Cardinality(DOMAIN s.headers_pool)
      /\ Cardinality(DOMAIN t.header_to_height) <= Cardinality(DOMAIN s.header_to_height)
      /\ Cardinality(DOMAIN t.height_to_header) <= Cardinality(DOMAIN s.height_to_header)
  BY <1>1, <1>3, FS_Subset
<1>5. /\ Cardinality(DOMAIN t.headers_pool) \in Nat
      /\ Cardinality(DOMAIN t.header_to_height) \in Nat
      /\ Cardinality(DOMAIN t.height_to_header) \in Nat
      /\ Cardinality(DOMAIN s.headers_pool) \in Nat
      /\ Cardinality(DOMAIN s.header_to_height) \in Nat
      /\ Cardinality(DOMAIN s.height_to_header) \in Nat
  BY <1>2, <1>3, FiniteMaps, FS_CardinalityType
<1>6. EntryBytes \in Nat /\ HeaderBytes \in Nat
  BY ParametersAssumption
<1>7. \A x, y, z \in Nat : x <= y => z * x <= z * y
  OBVIOUS
<1>8. \A x, y \in Nat : x * y \in Nat /\ x + y \in Nat
  OBVIOUS
<1> DEFINE e1 == Cardinality(DOMAIN t.height_to_header) + Cardinality(DOMAIN t.header_to_height)
           e2 == Cardinality(DOMAIN s.height_to_header) + Cardinality(DOMAIN s.header_to_height)
           p1 == Cardinality(DOMAIN t.headers_pool)
           p2 == Cardinality(DOMAIN s.headers_pool)
<1>9. e1 \in Nat /\ e2 \in Nat /\ p1 \in Nat /\ p2 \in Nat /\ e1 <= e2 /\ p1 <= p2
  BY <1>4, <1>5
<1>10. storage_usage(t) = EntryBytes * e1 + HeaderBytes * p1
  BY DEF storage_usage
<1>11. storage_usage(s) = EntryBytes * e2 + HeaderBytes * p2
  BY DEF storage_usage
<1> HIDE DEF e1, e2, p1, p2
<1>12. /\ EntryBytes * e1 <= EntryBytes * e2 /\ HeaderBytes * p1 <= HeaderBytes * p2
       /\ EntryBytes * e1 \in Nat /\ EntryBytes * e2 \in Nat
       /\ HeaderBytes * p1 \in Nat /\ HeaderBytes * p2 \in Nat
  BY <1>6, <1>7, <1>8, <1>9
<1> QED
  BY <1>10, <1>11, <1>12 DEF t

\* The storage before init takes no bytes.
LEMMA EmptyUsage == storage_usage(EmptyStorage) = 0
<1>1. /\ DOMAIN EmptyStorage.height_to_header = {}
      /\ DOMAIN EmptyStorage.header_to_height = {}
      /\ DOMAIN EmptyStorage.headers_pool = {}
  BY DEF EmptyStorage
<1>2. Cardinality({}) = 0
  BY FS_EmptySet
<1>3. EntryBytes \in Nat /\ HeaderBytes \in Nat
  BY ParametersAssumption
<1>4. EntryBytes * (0 + 0) + HeaderBytes * 0 = 0
  BY <1>3
<1> QED
  BY <1>1, <1>2, <1>4 DEF storage_usage

\* On a sound storage GC finds every key, provided it must leave a block.
LEMMA GcSucceeds ==
  ASSUME NEW s, IsStorage(s), Sound(s), NEW n \in Nat, gc_threshold > 0
  PROVE  gc_succeeds(s, n)
<1> DEFINE lo == Initial(s).block_height
           hi == Tip(s).block_height
<1>1. /\ IsPath(s)
      /\ DOMAIN s.height_to_header = lo .. hi /\ lo <= hi
      /\ s.initial_blockhash \in DOMAIN s.headers_pool
      /\ s.tip_blockhash \in DOMAIN s.headers_pool
  BY DEF Sound, IsPath
<1>2. lo \in Nat /\ hi \in Nat
  BY <1>1 DEF IsStorage, ExtendedHeader, Initial, Tip
<1>3. gc_threshold \in Nat
  BY ParametersAssumption
<1> HIDE DEF lo, hi
<1>4. get_mainchain_size(s) = hi - lo + 1
  BY DEF get_mainchain_size, lo, hi
<1>5. gc_amount(s, n) \in Nat /\ lo + gc_amount(s, n) <= hi
  BY <1>1, <1>2, <1>3, <1>4 DEF gc_amount
<1>6. gc_heights(s, n) = lo .. (lo + gc_amount(s, n) - 1)
  BY DEF gc_heights, lo
<1>7. gc_end(s, n) = lo + gc_amount(s, n)
  BY DEF gc_end, lo
<1>8. gc_heights(s, n) \subseteq lo .. hi /\ gc_end(s, n) \in lo .. hi
  BY <1>2, <1>5, <1>6, <1>7
<1> QED
  BY <1>1, <1>2, <1>4, <1>8 DEF gc_succeeds

-----------------------------------------------------------------------------
(***************************************************************************)
(* The inductive invariant.  None of the properties is inductive alone: a  *)
(* walk starts from a storage whose pool is true and whose tip is the      *)
(* heaviest, tears it as MidReorg says, and the storage saved must be      *)
(* sound again wherever the call is undone.                                *)
(***************************************************************************)
SavedInv ==
  IF pc = "uninit" \/ (pc # "idle" /\ call.init)
    THEN saved = EmptyStorage
    ELSE Sound(saved)

WorkingInv ==
  /\ pc \in {"uninit", "idle"} => db = saved
  /\ pc = "headers" => Sound(db)
  /\ pc = "walk" => IsTrue(db) /\ MidReorg(db, cursor, fork_tip)

Inv == TypeOK /\ SavedInv /\ WorkingInv /\ StorageIsPaidFor

CallType ==
  [caller : Account \cup {NoAccount}, amount : Nat, headers : Seq(Hash),
   next : Nat \ {0}, skip : BOOLEAN, init : BOOLEAN]

\* The absence of a call is a value of call.
LEMMA NoCallType == NoCall \in CallType /\ ~NoCall.init
BY DEF NoCall, CallType

\* The header a call is at is a header.
LEMMA HeaderIsHash ==
  ASSUME TypeOK, HeaderPending
  PROVE  Header \in Hash
BY DEF TypeOK, HeaderPending, Header

\* Going on to the next header keeps the type of call.
LEMMA NextHeaderType ==
  ASSUME TypeOK, NextHeader
  PROVE  call' \in CallType /\ call'.init = call.init
BY DEF TypeOK, NextHeader, CallType

\* The invariant holds before init.
LEMMA InitInv == Init => Inv
<1> SUFFICES ASSUME Init PROVE Inv
  OBVIOUS
<1>1. TypeOK
  BY EmptyIsStorage, NoCallType DEF Init, TypeOK, CallType
<1>2. StorageIsPaidFor
  BY EmptyUsage DEF Init, StorageIsPaidFor
<1> QED
  BY <1>1, <1>2 DEF Init, Inv, SavedInv, WorkingInv

\* Undoing a call restores a sound storage, or none before init.
LEMMA RollbackInv ==
  ASSUME Inv, Rollback, pc \in {"headers", "walk"}
  PROVE  Inv'
<1>1. /\ db' = saved /\ saved' = saved /\ balance' = balance
      /\ pc' = IF call.init THEN "uninit" ELSE "idle"
      /\ call' = NoCall /\ cursor' = NoHash /\ fork_tip' = NoHash
      /\ paused' = paused /\ clock' = clock
  BY DEF Rollback, NotReorganising
<1>2. TypeOK'
  BY <1>1, NoCallType DEF Inv, TypeOK, CallType
<1>3. SavedInv'
  BY <1>1 DEF Inv, SavedInv
<1>4. WorkingInv'
  BY <1>1 DEF WorkingInv
<1>5. StorageIsPaidFor'
  BY <1>1 DEF Inv, StorageIsPaidFor
<1> QED
  BY <1>2, <1>3, <1>4, <1>5 DEF Inv

\* Committing a sound storage whose growth is paid for.
LEMMA CommitInv ==
  ASSUME Inv, NEW s, NEW kept \in Nat, Commit(s, kept),
         IsStorage(s), Sound(s), storage_usage(s) <= balance + kept
  PROVE  Inv'
<1>1. /\ db' = s /\ saved' = s /\ balance' = balance + kept
      /\ pc' = "idle"
      /\ call' = NoCall /\ cursor' = NoHash /\ fork_tip' = NoHash
      /\ paused' = paused /\ clock' = clock
  BY DEF Commit, NotReorganising
<1>2. TypeOK'
  BY <1>1, NoCallType DEF Inv, TypeOK, CallType
<1>3. SavedInv'
  BY <1>1 DEF SavedInv
<1>4. WorkingInv'
  BY <1>1 DEF WorkingInv
<1>5. StorageIsPaidFor'
  BY <1>1 DEF StorageIsPaidFor
<1> QED
  BY <1>2, <1>3, <1>4, <1>5 DEF Inv

\* submit_blocks starts from the committed storage, whatever its headers.
LEMMA SubmitInv ==
  ASSUME Inv, NEW a \in Account, NEW hs \in Seq(Hash), NEW amount \in Nat,
         submit_blocks(a, hs, amount)
  PROVE  Inv'
<1>1. call' \in CallType /\ ~call'.init
  BY NoCallType, ParametersAssumption DEF submit_blocks, CallType
<1>2. TypeOK'
  BY <1>1 DEF submit_blocks, Inv, TypeOK, CallType
<1>3. SavedInv' /\ StorageIsPaidFor'
  BY <1>1 DEF submit_blocks, Inv, SavedInv, StorageIsPaidFor
<1>4. WorkingInv'
  BY DEF submit_blocks, Inv, WorkingInv, SavedInv
<1> QED
  BY <1>2, <1>3, <1>4 DEF Inv

\* Starting init, submit_blocks, and the whole of a separate run_mainchain_gc
\* preserve the invariant.
LEMMA StartInv ==
  ASSUME Inv, Start
  PROVE  Inv'
<1>1. ASSUME NEW hs \in InitBlocks, init(hs)
      PROVE  Inv'
  <2>1. hs \in Seq(Hash)
    BY ParametersAssumption
  <2>2. TypeOK'
    <3>1. call' \in CallType
      <4>1. \A c \in CallType, n \in Nat \ {0} :
              [c EXCEPT !.headers = hs, !.next = n, !.skip = TRUE, !.init = TRUE] \in CallType
        BY <2>1 DEF CallType
      <4>2. 2 \in Nat \ {0}
        OBVIOUS
      <4>3. call' = [NoCall EXCEPT !.headers = hs, !.next = 2, !.skip = TRUE, !.init = TRUE]
        BY <1>1 DEF init
      <4> QED
        BY <4>1, <4>2, <4>3, NoCallType, Zenon
    <3> QED
      BY <1>1, <3>1, GenesisSound DEF init, Inv, TypeOK, CallType
  <2>3. call'.init
    BY <1>1, NoCallType DEF init, CallType
  <2>4. SavedInv' /\ StorageIsPaidFor'
    BY <1>1, <2>3 DEF init, Inv, SavedInv, StorageIsPaidFor
  <2>5. WorkingInv'
    BY <1>1, GenesisSound DEF init, WorkingInv
  <2> QED
    BY <2>2, <2>4, <2>5 DEF Inv
<1>2. ASSUME NEW a \in Account, NEW hs \in Batches, NEW amount \in Deposits,
             submit_blocks(a, hs, amount)
      PROVE  Inv'
  <2>1. hs \in Seq(Hash) /\ amount \in Nat
    BY ParametersAssumption
  <2> QED
    BY <1>2, <2>1, SubmitInv
<1>3. ASSUME NEW a \in Account, NEW n \in GCBatchSizes, run_mainchain_gc(a, n)
      PROVE  Inv'
  <2>1. n \in Nat
    BY ParametersAssumption
  <2>2. Sound(db) /\ IsStorage(db) /\ db = saved
    BY <1>3 DEF run_mainchain_gc, Inv, SavedInv, WorkingInv, TypeOK
  <2>3. IsStorage(gc(db, n)) /\ Sound(gc(db, n))
    BY <1>3, <2>1, <2>2, GcSound DEF run_mainchain_gc
  <2>4. TypeOK'
    BY <1>3, <2>3 DEF run_mainchain_gc, Inv, TypeOK
  <2>5. SavedInv' /\ WorkingInv'
    BY <1>3, <2>3 DEF run_mainchain_gc, SavedInv, WorkingInv
  <2>6. StorageIsPaidFor'
    <3>1. storage_usage(gc(db, n)) <= storage_usage(db)
      BY <1>3, <2>1, <2>2, GcFrees DEF run_mainchain_gc
    <3>2. /\ storage_usage(gc(db, n)) \in Nat
          /\ storage_usage(db) \in Nat
          /\ balance \in Nat
      BY <2>2, <2>3, UsageIsNat DEF Inv, TypeOK
    <3> QED
      BY <1>3, <2>2, <3>1, <3>2 DEF run_mainchain_gc, Inv, StorageIsPaidFor
  <2> QED
    BY <2>4, <2>5, <2>6 DEF Inv
<1> QED
  BY <1>1, <1>2, <1>3 DEF Start

\* Each way submit_block_header_inner can take a header preserves the invariant.
LEMMA HeaderStepInv ==
  ASSUME Inv, ExtendMainchain \/ StoreFork \/ StartReorg
  PROVE  Inv'
<1>1. HeaderPending /\ header_accepted(db, Header) /\ NextHeader
  BY DEF ExtendMainchain, StoreFork, StartReorg
<1>2. /\ Header \in Hash
      /\ IsStorage(db) /\ Sound(db)
      /\ Prev[Header] \in DOMAIN db.headers_pool
  BY <1>1, HeaderIsHash DEF Inv, TypeOK, WorkingInv, HeaderPending, header_accepted
<1>3. call' \in CallType /\ call'.init = call.init
  BY <1>1, NextHeaderType DEF Inv
<1>4. pc = "headers" /\ saved' = saved /\ UNCHANGED <<paused, balance, clock>>
  BY <1>1 DEF HeaderPending, ExtendMainchain, StoreFork, StartReorg
<1>5. StorageIsPaidFor'
  BY <1>4 DEF Inv, StorageIsPaidFor
<1>6. ASSUME pc' \in {"headers", "walk"} PROVE SavedInv'
  BY <1>3, <1>4, <1>6 DEF Inv, SavedInv
<1>7. ASSUME IsStorage(db'), pc' \in {"headers", "walk"},
             cursor' \in Hash \cup {NoHash}, fork_tip' \in Hash \cup {NoHash}
      PROVE  TypeOK'
  BY <1>3, <1>4, <1>7 DEF Inv, TypeOK, CallType
<1>8. CASE ExtendMainchain
  <2>1. /\ Prev[Header] = db.tip_blockhash
        /\ db' = [store_block_header(db, Header, extend_header(db, Header))
                     EXCEPT !.tip_blockhash = Header]
        /\ pc' = "headers" /\ cursor' = cursor /\ fork_tip' = fork_tip
    BY <1>4, <1>8 DEF ExtendMainchain
  <2>2. IsStorage(db') /\ Sound(db')
    BY <1>2, <2>1, ExtendSound
  <2>3. TypeOK'
    BY <1>7, <2>1, <2>2 DEF Inv, TypeOK
  <2>4. WorkingInv'
    BY <2>1, <2>2 DEF WorkingInv
  <2> QED
    BY <1>5, <1>6, <2>1, <2>3, <2>4 DEF Inv
<1>9. CASE StoreFork
  <2>1. /\ ~fork_wins(db, Header)
        /\ db' = store_fork_header(db, Header, extend_header(db, Header))
        /\ pc' = "headers" /\ cursor' = cursor /\ fork_tip' = fork_tip
    BY <1>4, <1>9 DEF StoreFork
  <2>2. IsStorage(db') /\ Sound(db')
    BY <1>2, <2>1, ForkSound
  <2>3. TypeOK'
    BY <1>7, <2>1, <2>2 DEF Inv, TypeOK
  <2>4. WorkingInv'
    BY <2>1, <2>2 DEF WorkingInv
  <2> QED
    BY <1>5, <1>6, <2>1, <2>3, <2>4 DEF Inv
<1>10. CASE StartReorg
  <2>1. /\ fork_wins(db, Header)
        /\ heights_above(db, Header) \subseteq DOMAIN db.height_to_header
        /\ db' = remove_heights(store_fork_header(db, Header, extend_header(db, Header)),
                                heights_above(db, Header))
        /\ pc' = "walk" /\ cursor' = Header /\ fork_tip' = Header
    BY <1>10 DEF StartReorg
  <2>2. IsStorage(db') /\ IsTrue(db') /\ MidReorg(db', Header, Header)
    BY <1>2, <2>1, StartReorgMid
  <2>3. TypeOK'
    BY <1>2, <1>7, <2>1, <2>2
  <2>4. WorkingInv'
    BY <2>1, <2>2 DEF WorkingInv
  <2> QED
    BY <1>5, <1>6, <2>1, <2>3, <2>4 DEF Inv
<1> QED
  BY <1>8, <1>9, <1>10

\* An iteration of the walk of reorg_chain preserves the invariant.
LEMMA WalkForkInv ==
  ASSUME Inv, WalkFork
  PROVE  Inv'
<1>1. /\ pc = "walk" /\ pc' = "walk"
      /\ cursor \notin DOMAIN db.header_to_height
      /\ Prev[cursor] \in DOMAIN promote(db, cursor).headers_pool
      /\ db' = promote(db, cursor)
      /\ cursor' = Prev[cursor] /\ fork_tip' = fork_tip
      /\ saved' = saved /\ call' = call
      /\ paused' = paused /\ balance' = balance /\ clock' = clock
  BY DEF WalkFork, Walking
<1>2. IsStorage(db) /\ IsTrue(db) /\ MidReorg(db, cursor, fork_tip)
  BY <1>1 DEF Inv, TypeOK, WorkingInv
<1>3. IsStorage(db') /\ IsTrue(db') /\ MidReorg(db', cursor', fork_tip')
  BY <1>1, <1>2, WalkMid
<1>4. cursor' \in Hash
  BY <1>3 DEF MidReorg, IsStorage
<1>5. TypeOK'
  BY <1>1, <1>3, <1>4 DEF Inv, TypeOK
<1>6. SavedInv' /\ StorageIsPaidFor'
  BY <1>1 DEF Inv, SavedInv, StorageIsPaidFor
<1>7. WorkingInv'
  BY <1>1, <1>3 DEF WorkingInv
<1> QED
  BY <1>5, <1>6, <1>7 DEF Inv

\* The end of reorg_chain preserves the invariant.
LEMMA FinishReorgInv ==
  ASSUME Inv, FinishReorg
  PROVE  Inv'
<1>1. /\ pc = "walk" /\ pc' = "headers"
      /\ cursor \in DOMAIN db.header_to_height
      /\ db' = [db EXCEPT !.tip_blockhash = fork_tip]
      /\ cursor' = NoHash /\ fork_tip' = NoHash
      /\ saved' = saved /\ call' = call
      /\ paused' = paused /\ balance' = balance /\ clock' = clock
  BY DEF FinishReorg, NotReorganising
<1>2. IsStorage(db) /\ IsTrue(db) /\ MidReorg(db, cursor, fork_tip)
  BY <1>1 DEF Inv, TypeOK, WorkingInv
<1>3. IsStorage(db') /\ Sound(db')
  BY <1>1, <1>2, FinishReorgSound
<1>4. TypeOK'
  BY <1>1, <1>3 DEF Inv, TypeOK
<1>5. SavedInv' /\ StorageIsPaidFor'
  BY <1>1 DEF Inv, SavedInv, StorageIsPaidFor
<1>6. WorkingInv'
  BY <1>1, <1>3 DEF WorkingInv
<1> QED
  BY <1>4, <1>5, <1>6 DEF Inv

\* A call that returns preserves the invariant.
LEMMA FinishInv ==
  ASSUME Inv, FinishInit \/ FinishSubmit
  PROVE  Inv'
<1>1. pc = "headers" /\ IsStorage(db) /\ Sound(db) /\ balance \in Nat
  BY DEF FinishInit, FinishSubmit, HeadersDone, Inv, TypeOK, WorkingInv
<1>2. CASE FinishInit
  <2>1. storage_usage(db) \in Nat
    BY <1>1, UsageIsNat
  <2>2. Commit(db, storage_usage(db))
    BY <1>2 DEF FinishInit
  <2>3. storage_usage(db) <= balance + storage_usage(db)
    BY <1>1, <2>1
  <2> QED
    BY <1>1, <2>1, <2>2, <2>3, CommitInv
<1>3. CASE FinishSubmit
  <2> DEFINE n == Len(call.headers)
             s == gc(db, n)
  <2>1. n \in Nat
    BY DEF Inv, TypeOK
  <2>2. gc_succeeds(db, n) /\ Commit(s, required_deposit(s)) /\ ~call.init
    BY <1>3 DEF FinishSubmit, submit_blocks_succeeds
  <2>3. IsStorage(s) /\ Sound(s)
    BY <1>1, <2>1, <2>2, GcSound
  <2>4. Sound(saved) /\ IsStorage(saved)
    BY <1>1, <2>2 DEF Inv, SavedInv, TypeOK
  <2> HIDE DEF s, n
  <2>5. storage_usage(s) \in Nat /\ storage_usage(saved) \in Nat
    BY <2>3, <2>4, UsageIsNat
  <2>6. storage_usage(saved) <= balance
    BY DEF Inv, StorageIsPaidFor
  <2>7. /\ required_deposit(s) \in Nat
        /\ storage_usage(s) <= balance + required_deposit(s)
    BY <1>1, <2>5, <2>6 DEF required_deposit
  <2> QED
    BY <2>2, <2>3, <2>7, CommitInv
<1> QED
  BY <1>2, <1>3

\* Pausing, unpausing and the passing of time preserve the invariant.
LEMMA OutsideInv ==
  ASSUME Inv, Pause \/ Unpause \/ Tick \/ UNCHANGED vars
  PROVE  Inv'
<1>1. UNCHANGED <<db, saved, pc, call, cursor, fork_tip, balance>>
  BY DEF Pause, Unpause, Tick, vars
<1>2. paused' \subseteq PausableFeatures
  BY DEF Pause, Unpause, Tick, vars, Inv, TypeOK
<1>3. clock' \in Nat
  BY DEF Pause, Unpause, Tick, vars, Inv, TypeOK
<1>4. TypeOK'
  BY <1>1, <1>2, <1>3 DEF Inv, TypeOK
<1>5. SavedInv' /\ WorkingInv' /\ StorageIsPaidFor'
  BY <1>1 DEF Inv, SavedInv, WorkingInv, StorageIsPaidFor
<1> QED
  BY <1>4, <1>5 DEF Inv

\* Every step of the contract and of its environment preserves the invariant.
LEMMA NextInv == Inv /\ [Next]_vars => Inv'
<1> SUFFICES ASSUME Inv, [Next]_vars PROVE Inv'
  OBVIOUS
<1>1. ASSUME Panic \/ GasExceeded PROVE Inv'
  <2>1. Rollback
    BY <1>1 DEF Panic, GasExceeded
  <2>2. pc \in {"headers", "walk"}
    BY <1>1 DEF Panic, Panics, GasExceeded, HeaderPending, HeadersDone, Walking
  <2> QED
    BY <2>1, <2>2, RollbackInv
<1> QED
  BY <1>1, StartInv, HeaderStepInv, WalkForkInv, FinishReorgInv, FinishInv, OutsideInv
     DEF Next, Step

\* The invariant holds in every state of every behaviour.
LEMMA SpecInv == Spec => []Inv
BY InitInv, NextInv, PTL DEF Spec

-----------------------------------------------------------------------------
(***************************************************************************)
(* The theorems.                                                           *)
(***************************************************************************)
\* What the invariant says of a committed storage.
LEMMA SavedIsSound ==
  ASSUME Inv, Initialised
  PROVE  Sound(saved) /\ IsStorage(saved)
BY DEF Inv, SavedInv, Initialised, TypeOK

\* Every variable keeps its type.
THEOREM TypeCorrect == Spec => []TypeOK
<1>1. Inv => TypeOK
  BY DEF Inv
<1> QED
  BY <1>1, SpecInv, PTL

\* The committed main chain is one path of parent links, and its two maps are
\* inverse, after any calls, reorganisations, collections and panics.
THEOREM MainchainTheorem == Spec => []MainchainIsPath
<1>1. Inv => MainchainIsPath
  BY SavedIsSound DEF MainchainIsPath, Sound
<1> QED
  BY <1>1, SpecInv, PTL

\* The committed tip is a header with the most work in the pool.
THEOREM HeaviestTheorem == Spec => []TipIsHeaviest
<1>1. Inv => TipIsHeaviest
  BY SavedIsSound DEF TipIsHeaviest, Sound
<1> QED
  BY <1>1, SpecInv, PTL

\* Heights and chain work in the pool are the network's.
THEOREM PoolTheorem == Spec => []PoolMatchesNetwork
<1>1. Inv => PoolMatchesNetwork
  BY SavedIsSound, EmptyIsStorage DEF PoolMatchesNetwork, Sound, Initialised
<1> QED
  BY <1>1, SpecInv, PTL

\* A reorganisation under way tears the maps only between its cursor and the
\* fork it has written.
THEOREM ReorgTheorem == Spec => []ReorgTearsOnlyAtCursor
<1>1. Inv => ReorgTearsOnlyAtCursor
  BY DEF ReorgTearsOnlyAtCursor, Inv, WorkingInv
<1> QED
  BY <1>1, SpecInv, PTL

\* The deposits kept cover the storage in use.
THEOREM PaidTheorem == Spec => []StorageIsPaidFor
<1>1. Inv => StorageIsPaidFor
  BY DEF Inv
<1> QED
  BY <1>1, SpecInv, PTL

\* With a threshold of at least one block, GC never panics on a committed
\* state, for any batch size.
THEOREM GCTheorem == Spec => []GCNeverPanics
<1>1. Inv => GCNeverPanics
  <2>1. Cardinality(Hash) \in Nat
    BY HeadersAssumption, FS_CardinalityType
  <2> QED
    BY <2>1, SavedIsSound, GcSucceeds DEF GCNeverPanics
<1> QED
  BY <1>1, SpecInv, PTL
=============================================================================
