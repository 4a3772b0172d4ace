------------------------ MODULE HeaviestChainProofs ------------------------
(***************************************************************************)
(* The contract implements HeaviestChain: every committed call is a step   *)
(* of that specification, or none.  And what those who use the contract    *)
(* rely on: a block it confirms has that many blocks of the network on it  *)
(* and leaves the main chain only old or outweighed, and a batch in order  *)
(* is never stranded.                                                      *)
(***************************************************************************)
EXTENDS LightClientProofs, WellFoundedInduction

-----------------------------------------------------------------------------
(***************************************************************************)
(* Ancestors.                                                              *)
(***************************************************************************)

\* Induction on the natural numbers, as membership in a set.
LEMMA SetInduction ==
  ASSUME NEW S, 0 \in S, \A n \in Nat : n \in S => n + 1 \in S
  PROVE  Nat \subseteq S
<1> SUFFICES ASSUME Nat \ S # {} PROVE FALSE
  OBVIOUS
<1> DEFINE R == OpToRel(<, Nat)
           T == Nat \ S
<1>1. IsWellFoundedOn(R, Nat)
  BY NatLessThanWellFounded, Zenon DEF R
<1>2. T \subseteq Nat /\ T # {}
  OBVIOUS
<1> HIDE DEF R, T
<1>3. PICK x \in T : \A y \in T : ~(<<y, x>> \in R)
  BY <1>1, <1>2, WFMin
<1>4. x \in Nat /\ x # 0 /\ x - 1 \in Nat /\ x - 1 < x /\ (x - 1) + 1 = x
  BY <1>3 DEF T
<1>5. x - 1 \in T
  BY <1>3, <1>4 DEF T
<1>6. <<x - 1, x>> \in R
  BY <1>4 DEF R, OpToRel
<1> QED
  BY <1>3, <1>5, <1>6

\* Ancestors of a block of a chain are read off the chain.
LEMMA ChainAncestor ==
  ASSUME NEW f, NEW lo \in Int, NEW hi \in Int, HC!IsChain(f, lo, hi),
         NEW k \in lo .. hi, NEW n \in 0 .. (k - lo)
  PROVE  Ancestor(f[k], n) = f[k - n]
<1> DEFINE h == f[k]
           P(g) == g = [i \in 0 .. n |->
                          IF i = 0 THEN h
                          ELSE IF g[i - 1] \in Hash THEN Prev[g[i - 1]] ELSE NoHash]
           down == [i \in 0 .. n |-> f[k - i]]
           anc == CHOOSE g : P(g)
<1>1. P(down)
  <2>1. ASSUME NEW i \in 0 .. n, i # 0
        PROVE  /\ i - 1 \in 0 .. n
               /\ f[k - (i - 1)] \in Hash
               /\ Prev[f[k - (i - 1)]] = f[k - i]
    <3>1. i - 1 \in 0 .. n /\ k - (i - 1) \in lo .. hi /\ k - (i - 1) \in lo + 1 .. hi
          /\ (k - (i - 1)) - 1 = k - i
      BY <2>1
    <3> QED
      BY <3>1 DEF HC!IsChain
  <2>2. f[k - 0] = h
    OBVIOUS
  <2> QED
    BY <2>1, <2>2
<1>2. P(anc)
  BY <1>1
<1>3. Ancestor(h, n) = anc[n]
  BY DEF Ancestor, HC!Ancestor
<1> DEFINE S == {i \in Nat : i <= n => anc[i] = down[i]}
<1> HIDE DEF anc, down
<1>4. 0 \in S
  BY <1>1, <1>2
<1>5. \A i \in Nat : i \in S => i + 1 \in S
  <2> SUFFICES ASSUME NEW i \in Nat, i \in S, i + 1 <= n
               PROVE  anc[i + 1] = down[i + 1]
    OBVIOUS
  <2>1. anc[i] = down[i] /\ i + 1 \in 0 .. n /\ i + 1 # 0 /\ (i + 1) - 1 = i
    OBVIOUS
  <2> QED
    BY <1>1, <1>2, <2>1
<1>6. n \in S
  <2> HIDE DEF S
  <2> QED
    BY <1>4, <1>5, SetInduction
<1> QED
  BY <1>3, <1>6 DEF down

-----------------------------------------------------------------------------
(***************************************************************************)
(* Sound storage as a chain.                                               *)
(***************************************************************************)

\* The main chain of a sound storage is a chain of the network, from the
\* initial block to the tip.
LEMMA SoundIsChain ==
  ASSUME NEW s, IsStorage(s), Sound(s)
  PROVE  LET at == s.height_to_header
             lo == TrueHeight(s.initial_blockhash)
             hi == TrueHeight(s.tip_blockhash)
         IN  /\ s.initial_blockhash \in Hash /\ s.tip_blockhash \in Hash
             /\ lo \in Int /\ hi \in Int /\ lo <= hi
             /\ lo \in DOMAIN at /\ hi \in DOMAIN at
             /\ HC!IsChain(at, lo, hi)
             /\ at[lo] = s.initial_blockhash /\ at[hi] = s.tip_blockhash
<1> DEFINE at == s.height_to_header
           lo == TrueHeight(s.initial_blockhash)
           hi == TrueHeight(s.tip_blockhash)
<1>1. SoundPath(s)
  BY SoundReadings
<1>2. s.initial_blockhash \in Hash /\ s.tip_blockhash \in Hash
  BY <1>1 DEF SoundPath, IsStorage
<1>3. lo \in Int /\ hi \in Int
  BY <1>2, TrueValues
<1>4. /\ lo <= hi /\ DOMAIN at = lo .. hi
      /\ at[lo] = s.initial_blockhash /\ at[hi] = s.tip_blockhash
      /\ \A k \in lo .. hi : at[k] \in Hash /\ (k > lo => Prev[at[k]] = at[k - 1])
  BY <1>1 DEF SoundPath, IsStorage
<1> HIDE DEF at, lo, hi
<1>5. HC!IsChain(at, lo, hi)
  BY <1>3, <1>4 DEF HC!IsChain
<1> QED
  BY <1>2, <1>3, <1>4, <1>5 DEF at, lo, hi

\* run_mainchain_gc keeps the tip and the blocks above its new initial block,
\* and removes blocks only while gc_threshold of them stay.
LEMMA GcChain ==
  ASSUME NEW s, IsStorage(s), Sound(s), NEW n \in Nat, gc_succeeds(s, n)
  PROVE  LET t == gc(s, n)
             lo == TrueHeight(s.initial_blockhash)
             hi == TrueHeight(s.tip_blockhash)
             lo2 == TrueHeight(t.initial_blockhash)
         IN  /\ t.tip_blockhash = s.tip_blockhash
             /\ lo2 \in lo .. hi
             /\ t.initial_blockhash = s.height_to_header[lo2]
             /\ lo < lo2 => hi - lo2 + 1 >= gc_threshold
<1> DEFINE at == s.height_to_header
           lo == TrueHeight(s.initial_blockhash)
           hi == TrueHeight(s.tip_blockhash)
           m == gc_amount(s, n)
           K == lo .. (lo + m - 1)
           r == remove_heights(s, K)
<1>1. SoundPath(s) /\ IsTrue(s)
  BY SoundReadings
<1>2. /\ lo \in Int /\ hi \in Int /\ lo <= hi
      /\ at[lo] = s.initial_blockhash
  BY SoundIsChain
<1>3. Initial(s).block_height = lo /\ Tip(s).block_height = hi
  BY <1>1 DEF SoundPath, IsTrue, Initial, Tip
<1>4. gc_threshold \in Nat
  BY ParametersAssumption
<1>5. m \in Nat /\ (m > 0 => m <= hi - lo + 1 - gc_threshold)
  BY <1>2, <1>3, <1>4 DEF gc_amount, get_mainchain_size
<1>6. CASE ~(get_mainchain_size(s) > gc_threshold)
  BY <1>2, <1>6 DEF gc
<1>7. CASE get_mainchain_size(s) > gc_threshold
  <2>1. gc(s, n) = [r EXCEPT !.initial_blockhash = at[lo + m]]
    BY <1>3, <1>7 DEF gc, gc_heights, gc_end
  <2>2. lo + m \in DOMAIN at /\ K \subseteq DOMAIN at
    BY <1>3, <1>7 DEF gc_succeeds, gc_heights, gc_end
  <2>3. lo + m \in lo .. hi /\ TrueHeight(at[lo + m]) = lo + m
    BY <1>1, <1>2, <2>2 DEF SoundPath
  <2> HIDE DEF K, m
  <2>4. IsStorage(r) /\ r.tip_blockhash = s.tip_blockhash
    BY <2>2, RemoveHeightsFields
  <2>5. /\ gc(s, n).tip_blockhash = s.tip_blockhash
        /\ gc(s, n).initial_blockhash = at[lo + m]
    BY <2>1, <2>4 DEF IsStorage
  <2> QED
    BY <1>2, <1>4, <1>5, <2>3, <2>5
<1> QED
  BY <1>6, <1>7

-----------------------------------------------------------------------------
(***************************************************************************)
(* What a call under way has to do with the chain it started from.         *)
(***************************************************************************)
LinkInv ==
  /\ pc \in {"headers", "walk"} =>
        db.initial_blockhash = IF call.init THEN GenesisHash ELSE saved.initial_blockhash
  /\ pc = "headers" /\ ~call.init =>
        \/ db.tip_blockhash = saved.tip_blockhash
        \/ TrueWork(db.tip_blockhash) > TrueWork(saved.tip_blockhash)
  /\ pc = "walk" /\ ~call.init => TrueWork(fork_tip) > TrueWork(saved.tip_blockhash)

\* The contract has no call under way before init.
LEMMA InitLink == Init => LinkInv
BY DEF Init, LinkInv

\* Storing a header keeps the initial block and lets the tip gain work.
LEMMA HeaderStepLink ==
  ASSUME Inv, LinkInv, ExtendMainchain \/ StoreFork \/ StartReorg
  PROVE  LinkInv'
<1> DEFINE v == extend_header(db, Header)
<1>1. HeaderPending /\ header_accepted(db, Header) /\ NextHeader
  BY DEF ExtendMainchain, StoreFork, StartReorg
<1>2. /\ Header \in Hash
      /\ IsStorage(db) /\ Sound(db) /\ IsTrue(db)
      /\ Prev[Header] \in DOMAIN db.headers_pool /\ Prev[Header] \in Hash
      /\ db.tip_blockhash \in Hash
      /\ db.tip_blockhash \in DOMAIN db.headers_pool
  BY <1>1, HeaderIsHash
     DEF Inv, TypeOK, WorkingInv, HeaderPending, header_accepted, Sound, IsStorage, IsPath
<1>3. call'.init = call.init
  BY <1>1, NextHeaderType DEF Inv
<1>4. pc = "headers" /\ saved' = saved
  BY <1>1 DEF HeaderPending, ExtendMainchain, StoreFork, StartReorg
<1>5. /\ v \in ExtendedHeader
      /\ v.block_height = TrueHeight(Header) /\ v.chain_work = TrueWork(Header)
  BY <1>2, ExtendIsTrue
<1>6. ~call.init => saved.tip_blockhash \in Hash
  BY <1>4, SoundIsChain DEF Inv, SavedInv, TypeOK
<1>7. /\ TrueWork(Header) \in Int /\ TrueWork(db.tip_blockhash) \in Int
      /\ ~call.init => TrueWork(saved.tip_blockhash) \in Int
      /\ TrueWork(Header) > TrueWork(Prev[Header])
      /\ TrueWork(Prev[Header]) \in Int
  BY <1>2, <1>6, TrueValues
<1> HIDE DEF v
<1>8. CASE ExtendMainchain
  <2>1. /\ db' = [store_block_header(db, Header, v) EXCEPT !.tip_blockhash = Header]
        /\ pc' = "headers" /\ Prev[Header] = db.tip_blockhash
    BY <1>4, <1>8 DEF ExtendMainchain, v
  <2>2. /\ IsStorage(store_block_header(db, Header, v))
        /\ store_block_header(db, Header, v).initial_blockhash = db.initial_blockhash
    BY <1>2, <1>5, StoreBlockFields
  <2>3. db'.tip_blockhash = Header /\ db'.initial_blockhash = db.initial_blockhash
    BY <2>1, <2>2 DEF IsStorage
  <2> QED
    BY <1>3, <1>4, <1>7, <2>1, <2>3 DEF LinkInv
<1>9. CASE StoreFork
  <2>1. db' = store_fork_header(db, Header, v) /\ pc' = "headers"
    BY <1>4, <1>9 DEF StoreFork, v
  <2>2. db'.tip_blockhash = db.tip_blockhash /\ db'.initial_blockhash = db.initial_blockhash
    BY <1>2, <1>5, <2>1, StoreForkFields
  <2> QED
    BY <1>3, <1>4, <2>1, <2>2 DEF LinkInv
<1>10. CASE StartReorg
  <2> DEFINE s == store_fork_header(db, Header, v)
             K == heights_above(db, Header)
  <2>1. /\ db' = remove_heights(s, K)
        /\ K \subseteq DOMAIN db.height_to_header
        /\ pc' = "walk" /\ fork_tip' = Header /\ fork_wins(db, Header)
    BY <1>10 DEF StartReorg, v
  <2>2. /\ IsStorage(s) /\ s.initial_blockhash = db.initial_blockhash
        /\ s.height_to_header = db.height_to_header
    BY <1>2, <1>5, StoreForkFields
  <2> HIDE DEF s, K
  <2>3. db'.initial_blockhash = db.initial_blockhash
    BY <2>1, <2>2, RemoveHeightsFields
  <2>4. TrueWork(Header) > TrueWork(db.tip_blockhash)
    BY <1>2, <1>5, <2>1 DEF fork_wins, v, IsTrue, Tip
  <2> QED
    BY <1>3, <1>4, <1>7, <2>1, <2>3, <2>4 DEF LinkInv
<1> QED
  BY <1>8, <1>9, <1>10

\* submit_blocks starts from the committed storage.
LEMMA SubmitLink ==
  ASSUME Inv, NEW a, NEW hs, NEW amount, submit_blocks(a, hs, amount)
  PROVE  LinkInv'
<1>1. ~call'.init
  BY NoCallType DEF submit_blocks, CallType
<1>2. db' = saved' /\ pc' = "headers"
  BY DEF submit_blocks, Inv, WorkingInv
<1> QED
  BY <1>1, <1>2 DEF LinkInv

\* Every other step of a call keeps them, and what starts a call starts from
\* the committed storage.
LEMMA NextLink == Inv /\ LinkInv /\ [Next]_vars => LinkInv'
<1> SUFFICES ASSUME Inv, LinkInv, [Next]_vars PROVE LinkInv'
  OBVIOUS
<1>1. ASSUME NEW hs \in InitBlocks, init(hs) PROVE LinkInv'
  <2>1. db' = genesis_storage /\ pc' = "headers" /\ call'.init
    BY <1>1, NoCallType DEF init, CallType
  <2>2. genesis_storage.initial_blockhash = GenesisHash
    BY DEF genesis_storage, store_block_header, EmptyStorage
  <2> QED
    BY <2>1, <2>2 DEF LinkInv
<1>2. ASSUME NEW a \in Account, NEW hs \in Batches, NEW amount \in Deposits,
             submit_blocks(a, hs, amount)
      PROVE  LinkInv'
  BY <1>2, SubmitLink
<1>3. ASSUME NEW a \in Account, NEW n \in GCBatchSizes, run_mainchain_gc(a, n)
      PROVE  LinkInv'
  BY <1>3 DEF run_mainchain_gc, LinkInv
<1>4. ASSUME WalkFork PROVE LinkInv'
  <2>1. IsStorage(db) /\ MidReorg(db, cursor, fork_tip)
    BY <1>4 DEF WalkFork, Walking, Inv, TypeOK, WorkingInv
  <2>2. cursor \in DOMAIN db.headers_pool
    BY <2>1 DEF MidReorg
  <2>3. promote(db, cursor).initial_blockhash = db.initial_blockhash
    BY <2>1, <2>2, PromoteFields
  <2> QED
    BY <1>4, <2>3 DEF WalkFork, Walking, LinkInv
<1>5. ASSUME FinishReorg PROVE LinkInv'
  <2>1. IsStorage(db)
    BY DEF Inv, TypeOK
  <2>2. db'.tip_blockhash = fork_tip /\ db'.initial_blockhash = db.initial_blockhash
    BY <1>5, <2>1 DEF FinishReorg, IsStorage
  <2> QED
    BY <1>5, <2>2 DEF FinishReorg, LinkInv
<1>6. ASSUME FinishInit \/ FinishSubmit \/ Panic \/ GasExceeded PROVE LinkInv'
  <2>1. pc' \in {"uninit", "idle"}
    BY <1>6 DEF FinishInit, FinishSubmit, Commit, Panic, GasExceeded, Rollback
  <2> QED
    BY <2>1 DEF LinkInv
<1>7. ASSUME Pause \/ Unpause \/ Tick \/ UNCHANGED vars PROVE LinkInv'
  BY <1>7 DEF Pause, Unpause, Tick, vars, LinkInv
<1> QED
  BY <1>1, <1>2, <1>3, <1>4, <1>5, <1>6, <1>7, HeaderStepLink DEF Next, Start, Step

-----------------------------------------------------------------------------
(***************************************************************************)
(* The refinement.                                                         *)
(***************************************************************************)

\* GC of a sound storage s, whose chain starts where that of saved does and
\* has the same tip or a heavier one, moves the abstract chain.
LEMMA GcAdvances ==
  ASSUME IsStorage(saved), Sound(saved),
         NEW s, IsStorage(s), Sound(s), NEW n \in Nat, gc_succeeds(s, n),
         s.initial_blockhash = saved.initial_blockhash,
         \/ s.tip_blockhash = saved.tip_blockhash
         \/ TrueWork(s.tip_blockhash) > TrueWork(saved.tip_blockhash),
         saved' = gc(s, n)
  PROVE  HC!Next
<1> DEFINE t == gc(s, n)
           lo == TrueHeight(saved.initial_blockhash)
           hi == TrueHeight(saved.tip_blockhash)
           lo2 == TrueHeight(t.initial_blockhash)
           hi2 == TrueHeight(t.tip_blockhash)
<1>1. IsStorage(t) /\ Sound(t)
  BY GcSound
<1>2. /\ saved.tip_blockhash \in Hash
      /\ lo \in Int /\ hi \in Int
      /\ lo \in DOMAIN saved.height_to_header /\ hi \in DOMAIN saved.height_to_header
      /\ HC!IsChain(saved.height_to_header, lo, hi)
      /\ saved.height_to_header[lo] = saved.initial_blockhash
      /\ saved.height_to_header[hi] = saved.tip_blockhash
  BY SoundIsChain
<1>3. /\ t.tip_blockhash \in Hash
      /\ lo2 \in Int /\ hi2 \in Int
      /\ lo2 \in DOMAIN t.height_to_header /\ hi2 \in DOMAIN t.height_to_header
      /\ HC!IsChain(t.height_to_header, lo2, hi2)
      /\ t.height_to_header[lo2] = t.initial_blockhash
      /\ t.height_to_header[hi2] = t.tip_blockhash
  BY <1>1, SoundIsChain
<1>4. /\ t.tip_blockhash = s.tip_blockhash
      /\ lo2 \in lo .. hi2
      /\ t.initial_blockhash = s.height_to_header[lo2]
      /\ lo < lo2 => hi2 - lo2 + 1 >= gc_threshold
  BY GcChain
<1>5. /\ HC!IsChain(s.height_to_header, lo, hi2)
      /\ s.height_to_header[lo] = saved.initial_blockhash
  BY <1>4, SoundIsChain
<1> HIDE DEF t, lo, hi, lo2, hi2
<1>6. Ancestor(t.initial_blockhash, lo2 - lo) = saved.initial_blockhash
  <2>1. lo2 - lo \in 0 .. (lo2 - lo) /\ lo2 - (lo2 - lo) = lo
    BY <1>2, <1>3, <1>4
  <2>2. Ancestor(s.height_to_header[lo2], lo2 - lo) = s.height_to_header[lo2 - (lo2 - lo)]
    BY <1>2, <1>3, <1>4, <1>5, <2>1, ChainAncestor
  <2> QED
    BY <1>4, <1>5, <2>1, <2>2
<1>7. \/ t.tip_blockhash = saved.tip_blockhash
      \/ NetWork[t.tip_blockhash] > NetWork[saved.tip_blockhash]
  <2>1. /\ NetWork \in [Hash -> Nat] /\ GenesisHash \in Hash
        /\ Work[GenesisHash] \in Nat
    BY NetworkAssumption, HeadersAssumption
  <2> QED
    BY <1>2, <1>3, <1>4, <2>1 DEF TrueWork
<1>8. saved'.height_to_header = t.height_to_header
  BY DEF t
<1>9. HC!Moves(lo, hi, lo2, hi2)
  BY <1>2, <1>3, <1>4, <1>6, <1>7, <1>8 DEF HC!Moves, Ancestor
<1> QED
  BY <1>2, <1>3, <1>8, <1>9 DEF HC!Next, HC!Advance, HC!Empty

\* Every step of the contract is a step of the abstract chain, or leaves it
\* alone.
LEMMA NextImplements ==
  ASSUME Inv, LinkInv, [Next]_vars
  PROVE  [HC!Next]_(saved.height_to_header)
<1>1. CASE saved' = saved
  BY <1>1
<1>2. CASE FinishInit
  <2>1. /\ pc = "headers" /\ call.init /\ saved' = db
        /\ IsStorage(db) /\ Sound(db) /\ saved = EmptyStorage
        /\ db.initial_blockhash = GenesisHash
    BY <1>2 DEF FinishInit, HeadersDone, Commit, Inv, TypeOK, WorkingInv, SavedInv, LinkInv
  <2>2. TrueHeight(GenesisHash) = GenesisHeight
    BY HeadersAssumption, NetworkAssumption, ParametersAssumption DEF TrueHeight
  <2> DEFINE hi == TrueHeight(db.tip_blockhash)
  <2>3. /\ hi \in DOMAIN db.height_to_header
        /\ HC!IsChain(db.height_to_header, GenesisHeight, hi)
        /\ db.height_to_header[GenesisHeight] = GenesisHash
    BY <2>1, <2>2, SoundIsChain
  <2>4. DOMAIN saved.height_to_header = {}
    BY <2>1 DEF EmptyStorage
  <2> HIDE DEF hi
  <2>5. HC!Start
    BY <2>1, <2>3, <2>4 DEF HC!Start, HC!Empty
  <2> QED
    BY <2>5 DEF HC!Next
<1>3. CASE FinishSubmit
  <2> DEFINE n == Len(call.headers)
  <2>1. n \in Nat
    BY DEF Inv, TypeOK
  <2>2. /\ pc = "headers" /\ ~call.init
        /\ gc_succeeds(db, n) /\ saved' = gc(db, n)
    BY <1>3 DEF FinishSubmit, HeadersDone, submit_blocks_succeeds, Commit
  <2>3. /\ IsStorage(db) /\ Sound(db) /\ IsStorage(saved) /\ Sound(saved)
        /\ db.initial_blockhash = saved.initial_blockhash
        /\ \/ db.tip_blockhash = saved.tip_blockhash
           \/ TrueWork(db.tip_blockhash) > TrueWork(saved.tip_blockhash)
    BY <2>2 DEF Inv, TypeOK, WorkingInv, SavedInv, LinkInv
  <2> HIDE DEF n
  <2> QED
    BY <2>1, <2>2, <2>3, GcAdvances
<1>4. ASSUME NEW a \in Account, NEW n \in GCBatchSizes, run_mainchain_gc(a, n)
      PROVE  HC!Next
  <2>1. n \in Nat
    BY ParametersAssumption
  <2>2. /\ IsStorage(saved) /\ Sound(saved)
        /\ gc_succeeds(saved, n) /\ saved' = gc(saved, n)
    BY <1>4 DEF run_mainchain_gc, Inv, TypeOK, WorkingInv, SavedInv
  <2> QED
    BY <2>1, <2>2, GcAdvances
<1>5. \/ saved' = saved
      \/ FinishInit
      \/ FinishSubmit
      \/ \E a \in Account, n \in GCBatchSizes : run_mainchain_gc(a, n)
  BY DEF Next, Start, Step, vars, init, submit_blocks, ExtendMainchain, StoreFork, StartReorg,
         WalkFork, FinishReorg, Panic, GasExceeded, Rollback, Pause, Unpause, Tick
<1> QED
  BY <1>1, <1>2, <1>3, <1>4, <1>5

\* The contract implements the chain it promises: for every network, every
\* deployment and every sequence of calls and failures, the committed main
\* chain behaves as HeaviestChain says.
THEOREM RefinementTheorem == Spec => ImplementsHeaviestChain
<1>1. Init => HC!Init
  BY DEF Init, HC!Init, HC!Empty, EmptyStorage
<1>2. Inv /\ LinkInv /\ [Next]_vars => LinkInv' /\ [HC!Next]_(saved.height_to_header)
  BY NextLink, NextImplements
<1> QED
  BY <1>1, <1>2, InitLink, SpecInv, PTL DEF Spec, ImplementsHeaviestChain, HC!Spec

-----------------------------------------------------------------------------
(***************************************************************************)
(* Ancestors of any header, on a chain or not.                             *)
(***************************************************************************)

\* The sequence of ancestors that Ancestor(h, n) is the last of.
IsLine(g, h, n) ==
  g = [i \in 0 .. n |->
         IF i = 0 THEN h ELSE IF g[i - 1] \in Hash THEN Prev[g[i - 1]] ELSE NoHash]

\* Every header has such a sequence of every length.
LEMMA LineExists ==
  ASSUME NEW h, NEW n \in Nat
  PROVE  \E g : IsLine(g, h, n)
<1> DEFINE S == {m \in Nat : \E g : IsLine(g, h, m)}
<1>1. 0 \in S
  <2>1. IsLine([i \in 0 .. 0 |-> h], h, 0)
    BY DEF IsLine
  <2> QED
    BY <2>1
<1>2. \A m \in Nat : m \in S => m + 1 \in S
  <2> SUFFICES ASSUME NEW m \in Nat, NEW g, IsLine(g, h, m)
               PROVE  \E e : IsLine(e, h, m + 1)
    OBVIOUS
  <2> DEFINE next == IF g[m] \in Hash THEN Prev[g[m]] ELSE NoHash
             e == [i \in 0 .. m + 1 |-> IF i = m + 1 THEN next ELSE g[i]]
  <2>1. ASSUME NEW i \in 0 .. m + 1
        PROVE  e[i] = IF i = 0 THEN h
                      ELSE IF e[i - 1] \in Hash THEN Prev[e[i - 1]] ELSE NoHash
    <3>1. CASE i = m + 1
      <4>1. i # 0 /\ i - 1 = m /\ m \in 0 .. m + 1 /\ m # m + 1
        BY <3>1
      <4>2. e[i] = next /\ e[m] = g[m]
        BY <3>1, <4>1
      <4> QED
        BY <4>1, <4>2
    <3>2. CASE i # m + 1
      <4>1. i \in 0 .. m /\ e[i] = g[i]
        BY <3>2
      <4>2. i # 0 => i - 1 \in 0 .. m + 1 /\ i - 1 # m + 1 /\ e[i - 1] = g[i - 1]
        BY <3>2
      <4>3. g[i] = IF i = 0 THEN h
                   ELSE IF g[i - 1] \in Hash THEN Prev[g[i - 1]] ELSE NoHash
        BY <4>1 DEF IsLine
      <4> QED
        BY <4>1, <4>2, <4>3
    <3> QED
      BY <3>1, <3>2
  <2>2. e = [i \in 0 .. m + 1 |-> e[i]]
    OBVIOUS
  <2> HIDE DEF e
  <2>3. IsLine(e, h, m + 1)
    BY <2>1, <2>2 DEF IsLine
  <2> QED
    BY <2>3
<1> HIDE DEF S
<1>3. n \in S
  BY <1>1, <1>2, SetInduction
<1> QED
  BY <1>3 DEF S

\* The n-th ancestor, where it is a header, is n below in height.
LEMMA AncestorHeight ==
  ASSUME NEW h \in Hash, NEW n \in Nat, Ancestor(h, n) \in Hash
  PROVE  TrueHeight(Ancestor(h, n)) = TrueHeight(h) - n
<1> DEFINE anc == CHOOSE g : IsLine(g, h, n)
<1>1. IsLine(anc, h, n)
  BY LineExists
<1>2. Ancestor(h, n) = anc[n]
  BY DEF Ancestor, HC!Ancestor, IsLine
<1> HIDE DEF anc
<1> DEFINE S == {i \in Nat : i <= n /\ anc[i] \in Hash => TrueHeight(anc[i]) = TrueHeight(h) - i}
<1>3. 0 \in S
  <2>1. anc[0] = h /\ TrueHeight(h) \in Int
    BY <1>1, TrueValues DEF IsLine
  <2> QED
    BY <2>1
<1>4. \A i \in Nat : i \in S => i + 1 \in S
  <2> SUFFICES ASSUME NEW i \in Nat, i \in S, i + 1 <= n, anc[i + 1] \in Hash
               PROVE  TrueHeight(anc[i + 1]) = TrueHeight(h) - (i + 1)
    OBVIOUS
  <2>1. i + 1 \in 0 .. n /\ i + 1 # 0 /\ (i + 1) - 1 = i /\ i <= n
    OBVIOUS
  <2>2. anc[i + 1] = IF anc[i] \in Hash THEN Prev[anc[i]] ELSE NoHash
    BY <1>1, <2>1 DEF IsLine
  <2>3. anc[i] \in Hash /\ anc[i + 1] = Prev[anc[i]]
    BY <2>2, HeadersAssumption
  <2>4. TrueHeight(anc[i]) = TrueHeight(h) - i
    BY <2>1, <2>3
  <2>5. TrueHeight(anc[i]) = TrueHeight(anc[i + 1]) + 1
    BY <2>3, TrueValues
  <2>6. TrueHeight(h) \in Int /\ TrueHeight(anc[i + 1]) \in Int
    BY TrueValues
  <2> HIDE DEF S
  <2> QED
    BY <2>4, <2>5, <2>6
<1> HIDE DEF S
<1>5. n \in S
  BY <1>3, <1>4, SetInduction
<1> QED
  BY <1>2, <1>5 DEF S

-----------------------------------------------------------------------------
(***************************************************************************)
(* Chains.                                                                 *)
(***************************************************************************)

\* Two chains to the same tip agree where both are known.
LEMMA SameTipSameChain ==
  ASSUME NEW f, NEW g, NEW lo \in Int, NEW lo2 \in Int, NEW hi \in Int,
         HC!IsChain(f, lo, hi), HC!IsChain(g, lo2, hi), f[hi] = g[hi],
         NEW k \in lo .. hi, k \in lo2 .. hi
  PROVE  f[k] = g[k]
<1>1. /\ hi - k \in 0 .. (hi - lo) /\ hi - k \in 0 .. (hi - lo2)
      /\ hi \in lo .. hi /\ hi \in lo2 .. hi /\ hi - (hi - k) = k
  OBVIOUS
<1>2. Ancestor(f[hi], hi - k) = f[hi - (hi - k)]
  BY <1>1, ChainAncestor
<1>3. Ancestor(g[hi], hi - k) = g[hi - (hi - k)]
  BY <1>1, ChainAncestor
<1> QED
  BY <1>1, <1>2, <1>3

\* The main chain of a sound storage has no more blocks than there are
\* headers.
LEMMA ChainLength ==
  ASSUME NEW s, IsStorage(s), Sound(s)
  PROVE  /\ Cardinality(Hash) \in Nat
         /\ TrueHeight(s.tip_blockhash) - TrueHeight(s.initial_blockhash) <= Cardinality(Hash)
<1> DEFINE at == s.height_to_header
           lo == TrueHeight(s.initial_blockhash)
           hi == TrueHeight(s.tip_blockhash)
<1>1. lo \in Int /\ hi \in Int /\ lo <= hi /\ HC!IsChain(at, lo, hi)
  BY SoundIsChain
<1>2. \A k \in lo .. hi : TrueHeight(at[k]) = k
  BY SoundReadings DEF SoundPath
<1>3. at \in [DOMAIN at -> {at[k] : k \in DOMAIN at}]
  BY DEF IsStorage
<1> HIDE DEF at, lo, hi
<1>4. at \in Injection(lo .. hi, Hash)
  <2>1. at \in [lo .. hi -> Hash]
    BY <1>1, <1>3 DEF HC!IsChain
  <2>2. \A i, j \in lo .. hi : at[i] = at[j] => i = j
    BY <1>2
  <2> QED
    BY <2>1, <2>2 DEF Injection, IsInjective
<1>5. IsFiniteSet(Hash)
  BY HeadersAssumption
<1>6. Cardinality(lo .. hi) <= Cardinality(Hash)
  BY <1>4, <1>5, FS_Injection
<1>7. Cardinality(lo .. hi) = hi - lo + 1
  BY <1>1, FS_Interval
<1>8. Cardinality(Hash) \in Nat
  BY <1>5, FS_CardinalityType
<1> QED
  BY <1>1, <1>6, <1>7, <1>8 DEF lo, hi

\* A block of the main chain is the ancestor of the tip at the difference of
\* their heights.
LEMMA BlockIsAncestor ==
  ASSUME NEW s, IsStorage(s), Sound(s), NEW b \in DOMAIN s.header_to_height
  PROVE  LET lo == TrueHeight(s.initial_blockhash)
             hi == TrueHeight(s.tip_blockhash)
             k == TrueHeight(b)
         IN  /\ lo \in Int /\ hi \in Int /\ k \in lo .. hi
             /\ b \in Hash
             /\ s.header_to_height[b] = k /\ s.height_to_header[k] = b
             /\ Ancestor(s.tip_blockhash, hi - k) = b
<1> DEFINE at == s.height_to_header
           lo == TrueHeight(s.initial_blockhash)
           hi == TrueHeight(s.tip_blockhash)
           k == TrueHeight(b)
<1>1. /\ lo \in Int /\ hi \in Int /\ lo <= hi /\ HC!IsChain(at, lo, hi)
      /\ at[hi] = s.tip_blockhash
  BY SoundIsChain
<1>2. PICK j \in lo .. hi : b = at[j] /\ s.header_to_height[at[j]] = j /\ TrueHeight(at[j]) = j
  BY SoundReadings DEF SoundPath
<1>3. k = j /\ k \in lo .. hi /\ at[k] = b /\ s.header_to_height[b] = k
  BY <1>2
<1> HIDE DEF at, lo, hi, k
<1>4. hi - k \in 0 .. (hi - lo) /\ hi \in lo .. hi /\ hi - (hi - k) = k
  BY <1>1, <1>3
<1>5. Ancestor(at[hi], hi - k) = at[hi - (hi - k)]
  BY <1>1, <1>4, ChainAncestor
<1>6. b \in Hash
  BY <1>1, <1>3 DEF HC!IsChain
<1> QED
  BY <1>1, <1>3, <1>4, <1>5, <1>6 DEF at, lo, hi, k

-----------------------------------------------------------------------------
(***************************************************************************)
(* The two properties.                                                     *)
(***************************************************************************)

\* A confirmed block of a sound main chain has its confirmations on it.
LEMMA SoundIsBuried ==
  ASSUME Inv
  PROVE  ConfirmedIsBuried
<1> SUFFICES ASSUME NEW b \in DOMAIN saved.header_to_height, NEW n \in 0 .. gc_threshold,
                    confirmed(saved, b, n)
             PROVE  \E d \in 0 .. Cardinality(Hash) :
                       d + 1 >= n /\ Ancestor(saved.tip_blockhash, d) = b
  BY DEF ConfirmedIsBuried
<1>1. IsStorage(saved) /\ Sound(saved)
  BY DEF Inv, TypeOK, SavedInv, EmptyStorage
<1> DEFINE lo == TrueHeight(saved.initial_blockhash)
           hi == TrueHeight(saved.tip_blockhash)
           k == TrueHeight(b)
<1>2. /\ lo \in Int /\ hi \in Int /\ k \in lo .. hi
      /\ saved.header_to_height[b] = k
      /\ Ancestor(saved.tip_blockhash, hi - k) = b
  BY <1>1, BlockIsAncestor
<1>3. Cardinality(Hash) \in Nat /\ hi - lo <= Cardinality(Hash)
  BY <1>1, ChainLength
<1>4. Tip(saved).block_height = hi
  BY <1>1 DEF Sound, IsPath, IsTrue, Tip
<1> HIDE DEF lo, hi, k
<1>5. hi - k + 1 >= n
  BY <1>2, <1>4 DEF confirmed
<1>6. hi - k \in 0 .. Cardinality(Hash)
  BY <1>2, <1>3
<1> QED
  BY <1>2, <1>5, <1>6

\* A block verify_transaction_inclusion accepts with n confirmations has at
\* least n - 1 blocks of the network on it, in every network and whatever was
\* reorganised or collected before.
THEOREM ConfirmedTheorem == Spec => []ConfirmedIsBuried
BY SoundIsBuried, SpecInv, PTL

\* The commit of a call that leaves s before its collection.
LEMMA CommitLoses ==
  ASSUME IsStorage(saved), Sound(saved),
         NEW s, IsStorage(s), Sound(s), NEW n \in Nat, gc_succeeds(s, n),
         s.initial_blockhash = saved.initial_blockhash,
         \/ s.tip_blockhash = saved.tip_blockhash
         \/ TrueWork(s.tip_blockhash) > TrueWork(saved.tip_blockhash),
         saved' = gc(s, n)
  PROVE  LosesOnlyOldOrOutweighed
<1> SUFFICES ASSUME NEW b \in DOMAIN saved.header_to_height,
                    b \notin DOMAIN saved'.header_to_height
             PROVE  \/ \E d \in gc_threshold .. Cardinality(Hash) :
                          Ancestor(saved'.tip_blockhash, d) = b
                    \/ /\ \A d \in 0 .. Cardinality(Hash) :
                             Ancestor(saved'.tip_blockhash, d) # b
                       /\ Tip(saved').chain_work > Tip(saved).chain_work
  BY DEF LosesOnlyOldOrOutweighed
<1> DEFINE t == gc(s, n)
           lo == TrueHeight(saved.initial_blockhash)
           hi == TrueHeight(saved.tip_blockhash)
           lo2 == TrueHeight(t.initial_blockhash)
           hi2 == TrueHeight(t.tip_blockhash)
           k == TrueHeight(b)
<1>1. IsStorage(t) /\ Sound(t) /\ saved' = t
  BY GcSound
<1>2. /\ t.tip_blockhash = s.tip_blockhash
      /\ lo2 \in lo .. hi2
      /\ lo < lo2 => hi2 - lo2 + 1 >= gc_threshold
  BY GcChain
<1>3. /\ lo \in Int /\ hi \in Int /\ k \in lo .. hi /\ b \in Hash
      /\ saved.height_to_header[k] = b
  BY BlockIsAncestor
<1>4. /\ hi2 \in Int /\ lo <= hi2 /\ s.tip_blockhash \in Hash
      /\ HC!IsChain(s.height_to_header, lo, hi2)
      /\ s.height_to_header[hi2] = s.tip_blockhash
  BY <1>2, SoundIsChain
<1>5. /\ lo2 \in Int
      /\ HC!IsChain(t.height_to_header, lo2, hi2)
      /\ t.height_to_header[hi2] = s.tip_blockhash
  BY <1>1, <1>2, SoundIsChain
<1>6. /\ HC!IsChain(saved.height_to_header, lo, hi)
      /\ saved.height_to_header[hi] = saved.tip_blockhash
      /\ saved.tip_blockhash \in Hash
  BY SoundIsChain
<1>7. \A j \in lo2 .. hi2 : t.height_to_header[j] \in DOMAIN t.header_to_height
  BY <1>1, SoundReadings DEF SoundPath
<1>8. Cardinality(Hash) \in Nat /\ hi2 - lo <= Cardinality(Hash)
  BY <1>2, ChainLength
<1>9. /\ Tip(t).chain_work = TrueWork(s.tip_blockhash)
      /\ Tip(saved).chain_work = TrueWork(saved.tip_blockhash)
  BY <1>1, <1>2 DEF Sound, IsPath, IsTrue, Tip
<1> HIDE DEF t, lo, hi, lo2, hi2, k
<1>10. CASE k \in lo .. hi2 /\ s.height_to_header[k] = b
  <2>1. k < lo2
    <3> SUFFICES ASSUME k \in lo2 .. hi2 PROVE FALSE
      BY <1>2, <1>3, <1>4, <1>5, <1>10
    <3>1. s.height_to_header[k] = t.height_to_header[k]
      BY <1>3, <1>4, <1>5, <1>10, SameTipSameChain
    <3> QED
      BY <1>1, <1>7, <1>10, <3>1
  <2>2. /\ hi2 - k \in gc_threshold .. Cardinality(Hash)
        /\ hi2 - k \in 0 .. (hi2 - lo) /\ hi2 \in lo .. hi2 /\ hi2 - (hi2 - k) = k
    BY <1>2, <1>3, <1>4, <1>5, <1>8, <1>10, <2>1, ParametersAssumption
  <2>3. Ancestor(s.height_to_header[hi2], hi2 - k) = s.height_to_header[hi2 - (hi2 - k)]
    BY <1>3, <1>4, <2>2, ChainAncestor
  <2>4. Ancestor(t.tip_blockhash, hi2 - k) = b
    BY <1>2, <1>4, <1>10, <2>2, <2>3
  <2> QED
    BY <1>1, <2>2, <2>4
<1>11. CASE ~(k \in lo .. hi2 /\ s.height_to_header[k] = b)
  <2>1. ASSUME NEW d \in 0 .. Cardinality(Hash), Ancestor(s.tip_blockhash, d) = b
        PROVE  FALSE
    <3>1. d \in Nat
      BY <1>8
    <3>2. k = hi2 - d
      BY <1>2, <1>3, <1>4, <2>1, <3>1, AncestorHeight DEF k, hi2
    <3>3. d \in 0 .. (hi2 - lo) /\ hi2 \in lo .. hi2 /\ k \in lo .. hi2
      BY <1>3, <1>4, <3>1, <3>2
    <3>4. Ancestor(s.height_to_header[hi2], d) = s.height_to_header[hi2 - d]
      BY <1>3, <1>4, <3>3, ChainAncestor
    <3> QED
      BY <1>4, <1>11, <2>1, <3>2, <3>3, <3>4
  <2>2. TrueWork(s.tip_blockhash) > TrueWork(saved.tip_blockhash)
    <3> SUFFICES ASSUME s.tip_blockhash = saved.tip_blockhash PROVE FALSE
      OBVIOUS
    <3>1. hi2 = hi
      BY <1>2 DEF hi, hi2
    <3>2. saved.height_to_header[k] = s.height_to_header[k]
      BY <1>3, <1>4, <1>6, <3>1, SameTipSameChain
    <3> QED
      BY <1>3, <1>11, <3>1, <3>2
  <2> QED
    BY <1>1, <1>2, <1>9, <2>1, <2>2
<1> QED
  BY <1>10, <1>11

\* No step takes a block off the main chain but for one of the two reasons.
LEMMA NextLoses ==
  ASSUME Inv, LinkInv, [Next]_vars
  PROVE  [LosesOnlyOldOrOutweighed]_saved
<1>1. CASE saved' = saved
  BY <1>1
<1>2. CASE FinishInit
  <2>1. saved = EmptyStorage
    BY <1>2 DEF FinishInit, HeadersDone, Inv, SavedInv
  <2>2. DOMAIN saved.header_to_height = {}
    BY <2>1 DEF EmptyStorage
  <2> QED
    BY <2>2 DEF LosesOnlyOldOrOutweighed
<1>3. CASE FinishSubmit
  <2> DEFINE n == Len(call.headers)
  <2>1. n \in Nat
    BY DEF Inv, TypeOK
  <2>2. /\ pc = "headers" /\ ~call.init
        /\ gc_succeeds(db, n) /\ saved' = gc(db, n)
    BY <1>3 DEF FinishSubmit, HeadersDone, submit_blocks_succeeds, Commit
  <2>3. /\ IsStorage(db) /\ Sound(db) /\ IsStorage(saved) /\ Sound(saved)
        /\ db.initial_blockhash = saved.initial_blockhash
        /\ \/ db.tip_blockhash = saved.tip_blockhash
           \/ TrueWork(db.tip_blockhash) > TrueWork(saved.tip_blockhash)
    BY <2>2 DEF Inv, TypeOK, WorkingInv, SavedInv, LinkInv
  <2> HIDE DEF n
  <2> QED
    BY <2>1, <2>2, <2>3, CommitLoses
<1>4. ASSUME NEW a \in Account, NEW n \in GCBatchSizes, run_mainchain_gc(a, n)
      PROVE  LosesOnlyOldOrOutweighed
  <2>1. n \in Nat
    BY ParametersAssumption
  <2>2. /\ IsStorage(saved) /\ Sound(saved)
        /\ gc_succeeds(saved, n) /\ saved' = gc(saved, n)
    BY <1>4 DEF run_mainchain_gc, Inv, TypeOK, WorkingInv, SavedInv
  <2> QED
    BY <2>1, <2>2, CommitLoses
<1>5. \/ saved' = saved
      \/ FinishInit
      \/ FinishSubmit
      \/ \E a \in Account, n \in GCBatchSizes : run_mainchain_gc(a, n)
  BY DEF Next, Start, Step, vars, init, submit_blocks, ExtendMainchain, StoreFork, StartReorg,
         WalkFork, FinishReorg, Panic, GasExceeded, Rollback, Pause, Unpause, Tick
<1> QED
  BY <1>1, <1>2, <1>3, <1>4, <1>5

\* A block leaves the main chain only gc_threshold blocks deep, or because a
\* tip of more work does not descend from it: no failure, reorganisation or
\* collection, in any order, drops another one.
THEOREM LosesTheorem == Spec => MainchainLosesOnlyOldOrOutweighed
<1>1. Inv /\ LinkInv /\ [Next]_vars => LinkInv' /\ [LosesOnlyOldOrOutweighed]_saved
  BY NextLink, NextLoses
<1> QED
  BY <1>1, InitLink, SpecInv, PTL DEF Spec, MainchainLosesOnlyOldOrOutweighed

-----------------------------------------------------------------------------
(***************************************************************************)
(* A batch that goes up from a main chain block finds every block the walk *)
(* of reorg_chain looks for, whatever earlier calls removed.               *)
(***************************************************************************)

\* While such a batch is processed: the main chain block it starts on stays on
\* the main chain, the headers stored so far stay in the pool, and the walk is
\* at one of them or at that block.
BatchInv ==
  pc \in {"headers", "walk"} /\ SubmittedFromMainchain(call.headers) =>
    LET hs == call.headers
        p  == Prev[hs[1]]
    IN  /\ p \in DOMAIN db.header_to_height
        /\ \A i \in 1 .. Len(hs) : i < call.next => hs[i] \in DOMAIN db.headers_pool
        /\ pc = "walk" => \/ cursor = p
                          \/ \E i \in 1 .. Len(hs) : i < call.next /\ cursor = hs[i]

\* Heights go up one by one along the batch.
LEMMA BatchHeights ==
  ASSUME NEW hs \in Seq(Hash), hs # <<>>, Prev[hs[1]] \in Hash,
         \A i \in 2 .. Len(hs) : Prev[hs[i]] = hs[i - 1],
         NEW i \in 1 .. Len(hs)
  PROVE  TrueHeight(hs[i]) = TrueHeight(Prev[hs[1]]) + i
<1> DEFINE p == Prev[hs[1]]
           S == {j \in Nat : j + 1 <= Len(hs) => TrueHeight(hs[j + 1]) = TrueHeight(p) + j + 1}
<1>1. TrueHeight(p) \in Int /\ Len(hs) \in Nat /\ Len(hs) > 0
  BY TrueValues
<1>2. 0 \in S
  <2>1. hs[1] \in Hash
    BY <1>1
  <2>2. TrueHeight(hs[1]) = TrueHeight(p) + 1
    BY <2>1, TrueValues
  <2> QED
    BY <1>1, <2>2
<1>3. ASSUME NEW j \in Nat, j \in S PROVE j + 1 \in S
  <2> SUFFICES ASSUME (j + 1) + 1 <= Len(hs)
               PROVE  TrueHeight(hs[(j + 1) + 1]) = TrueHeight(p) + (j + 1) + 1
    OBVIOUS
  <2>1. TrueHeight(hs[j + 1]) = TrueHeight(p) + j + 1
    BY <1>1, <1>3
  <2>2. hs[j + 1] \in Hash /\ hs[(j + 1) + 1] \in Hash
    BY <1>1
  <2>3. Prev[hs[(j + 1) + 1]] = hs[j + 1]
    <3>1. (j + 1) + 1 \in 2 .. Len(hs) /\ ((j + 1) + 1) - 1 = j + 1
      BY <1>1
    <3> QED
      BY <3>1
  <2>4. TrueHeight(hs[(j + 1) + 1]) = TrueHeight(hs[j + 1]) + 1
    BY <2>2, <2>3, TrueValues
  <2> HIDE DEF p
  <2> QED
    BY <1>1, <2>1, <2>4
<1>4. i - 1 \in Nat /\ (i - 1) + 1 = i
  BY <1>1
<1>5. i - 1 \in S
  <2> HIDE DEF S
  <2> QED
    BY <1>2, <1>3, <1>4, SetInduction
<1> HIDE DEF p
<1>6. TrueHeight(hs[i]) = TrueHeight(p) + (i - 1) + 1
  BY <1>1, <1>4, <1>5
<1> QED
  BY <1>1, <1>4, <1>6 DEF p

\* A batch from a main chain block is one of a call of submit_blocks, and its
\* heights are known.
LEMMA BatchTypes ==
  ASSUME Inv, pc \in {"headers", "walk"}, SubmittedFromMainchain(call.headers)
  PROVE  LET hs == call.headers
             p  == Prev[hs[1]]
         IN  /\ hs \in Seq(Hash) /\ Len(hs) \in Nat /\ Len(hs) > 0
             /\ p \in Hash /\ TrueHeight(p) \in Int
             /\ \A i \in 1 .. Len(hs) :
                   /\ hs[i] \in Hash
                   /\ TrueHeight(hs[i]) = TrueHeight(p) + i
                   /\ Prev[hs[i]] = IF i = 1 THEN p ELSE hs[i - 1]
<1> DEFINE hs == call.headers
           p  == Prev[hs[1]]
<1>1. hs \in Seq(Hash) /\ hs # <<>>
  BY DEF Inv, TypeOK, SubmittedFromMainchain
<1>2. p \in Hash
  BY DEF Inv, TypeOK, IsStorage, SubmittedFromMainchain
<1>3. \A i \in 2 .. Len(hs) : Prev[hs[i]] = hs[i - 1]
  BY DEF SubmittedFromMainchain
<1>4. \A i \in 1 .. Len(hs) : TrueHeight(hs[i]) = TrueHeight(p) + i
  BY <1>1, <1>2, <1>3, BatchHeights
<1>5. TrueHeight(p) \in Int
  BY <1>2, TrueValues
<1>6. Len(hs) \in Nat /\ Len(hs) > 0 /\ \A i \in 1 .. Len(hs) : hs[i] \in Hash
  BY <1>1
<1>7. \A i \in 1 .. Len(hs) : Prev[hs[i]] = IF i = 1 THEN p ELSE hs[i - 1]
  BY <1>3, <1>6
<1> QED
  BY <1>1, <1>2, <1>4, <1>5, <1>6, <1>7

\* Storing a header of the batch keeps the ones before it: what a
\* reorganisation trims is higher than all of them.
LEMMA HeaderStepBatch ==
  ASSUME Inv, BatchInv, ExtendMainchain \/ StoreFork \/ StartReorg
  PROVE  BatchInv'
<1> DEFINE hs == call.headers
           p  == Prev[hs[1]]
           n  == call.next
           v  == extend_header(db, Header)
<1>1. HeaderPending /\ header_accepted(db, Header) /\ NextHeader
  BY DEF ExtendMainchain, StoreFork, StartReorg
<1>2. /\ pc = "headers" /\ saved' = saved /\ call'.headers = hs /\ call'.next = n + 1
      /\ n \in 1 .. Len(hs) /\ Header = hs[n] /\ n \in Nat
  BY <1>1 DEF HeaderPending, ExtendMainchain, StoreFork, StartReorg, NextHeader, Header,
              Inv, TypeOK
<1> SUFFICES ASSUME SubmittedFromMainchain(hs)
             PROVE  /\ p \in DOMAIN db'.header_to_height
                    /\ \A i \in 1 .. Len(hs) : i <= n => hs[i] \in DOMAIN db'.headers_pool
                    /\ pc' = "walk" => cursor' = hs[n]
  <2>1. SubmittedFromMainchain(call.headers)' = SubmittedFromMainchain(hs)
    BY <1>2 DEF SubmittedFromMainchain
  <2>2. \A i \in 1 .. Len(hs) : i < n + 1 <=> i <= n
    BY <1>2
  <2>3. n < n + 1
    BY <1>2
  <2> QED
    BY <1>2, <2>1, <2>2, <2>3 DEF BatchInv
<1>3. /\ p \in Hash /\ TrueHeight(p) \in Int
      /\ \A i \in 1 .. Len(hs) : hs[i] \in Hash /\ TrueHeight(hs[i]) = TrueHeight(p) + i
  BY <1>2, BatchTypes
<1>4. /\ IsStorage(db) /\ Sound(db) /\ IsTrue(db) /\ Header \in Hash
      /\ Prev[Header] \in DOMAIN db.headers_pool
  BY <1>1, <1>2, <1>3 DEF Inv, TypeOK, WorkingInv, header_accepted, Sound
<1>5. v \in ExtendedHeader /\ v.block_height = TrueHeight(Header)
  BY <1>4, ExtendIsTrue
<1>6. /\ p \in DOMAIN db.header_to_height
      /\ \A i \in 1 .. Len(hs) : i < n => hs[i] \in DOMAIN db.headers_pool
  BY <1>2 DEF BatchInv
<1>7. \A i \in 1 .. Len(hs) : i <= n => hs[i] \in DOMAIN db.headers_pool \cup {Header}
  BY <1>2, <1>6
<1> HIDE DEF v
<1>8. CASE ExtendMainchain
  <2>1. /\ db' = [store_block_header(db, Header, v) EXCEPT !.tip_blockhash = Header]
        /\ pc' = "headers"
    BY <1>2, <1>8 DEF ExtendMainchain, v
  <2> DEFINE t == store_block_header(db, Header, v)
  <2>2. /\ IsStorage(t)
        /\ t.header_to_height = Insert(db.header_to_height, Header, v.block_height)
        /\ t.headers_pool = Insert(db.headers_pool, Header, v)
    BY <1>4, <1>5, StoreBlockFields
  <2>3. /\ db'.header_to_height = t.header_to_height
        /\ db'.headers_pool = t.headers_pool
    BY <2>1, <2>2 DEF IsStorage
  <2> HIDE DEF t
  <2>4. /\ DOMAIN db'.header_to_height = DOMAIN db.header_to_height \cup {Header}
        /\ DOMAIN db'.headers_pool = DOMAIN db.headers_pool \cup {Header}
    BY <2>2, <2>3 DEF Insert
  <2> QED
    BY <1>6, <1>7, <2>1, <2>4
<1>9. CASE StoreFork
  <2>1. db' = store_fork_header(db, Header, v) /\ pc' = "headers"
    BY <1>2, <1>9 DEF StoreFork, v
  <2>2. /\ db'.header_to_height = db.header_to_height
        /\ db'.headers_pool = Insert(db.headers_pool, Header, v)
    BY <1>4, <1>5, <2>1, StoreForkFields
  <2>3. DOMAIN db'.headers_pool = DOMAIN db.headers_pool \cup {Header}
    BY <2>2 DEF Insert
  <2> QED
    BY <1>6, <1>7, <2>1, <2>2, <2>3
<1>10. CASE StartReorg
  <2> DEFINE s == store_fork_header(db, Header, v)
             K == heights_above(db, Header)
             gone == HashesAt(s, K)
  <2>1. /\ db' = remove_heights(s, K)
        /\ K \subseteq DOMAIN db.height_to_header
        /\ pc' = "walk" /\ cursor' = Header
    BY <1>10 DEF StartReorg, v
  <2>2. /\ IsStorage(s)
        /\ s.height_to_header = db.height_to_header
        /\ s.header_to_height = db.header_to_height
        /\ s.headers_pool = Insert(db.headers_pool, Header, v)
    BY <1>4, <1>5, StoreForkFields
  <2>3. \A k \in K : k > TrueHeight(Header)
    BY <1>3, <1>5, <2>1, TrueValues, <1>4 DEF heights_above, v, IsStorage, SoundPath
  <2> HIDE DEF s, K
  <2>4. \A b \in gone : TrueHeight(b) > TrueHeight(Header)
    <3>1. SoundPath(db)
      BY <1>4, SoundReadings
    <3> QED
      BY <2>1, <2>2, <2>3, <3>1 DEF HashesAt, SoundPath
  <2>5. /\ db'.header_to_height = Restrict(s.header_to_height, DOMAIN s.header_to_height \ gone)
        /\ db'.headers_pool = Restrict(s.headers_pool, DOMAIN s.headers_pool \ gone)
    BY <2>1, <2>2, RemoveHeightsFields
  <2> HIDE DEF gone
  <2>6. /\ DOMAIN db'.header_to_height = DOMAIN db.header_to_height \ gone
        /\ DOMAIN db'.headers_pool = (DOMAIN db.headers_pool \cup {Header}) \ gone
    BY <2>2, <2>5 DEF Restrict, Insert
  <2>7. p \notin gone /\ \A i \in 1 .. Len(hs) : i <= n => hs[i] \notin gone
    <3>1. TrueHeight(Header) = TrueHeight(p) + n
      BY <1>2, <1>3
    <3> QED
      BY <1>2, <1>3, <2>4, <3>1
  <2> QED
    BY <1>2, <1>6, <1>7, <2>1, <2>6, <2>7
<1> QED
  BY <1>8, <1>9, <1>10

\* Where the walk is at a block off the main chain, the block before it is
\* another header of the batch or the block it starts on, and what the
\* iteration removes is neither.
LEMMA WalkBatch ==
  ASSUME Inv, BatchInv, Walking, SubmittedFromMainchain(call.headers)
  PROVE  LET hs == call.headers
             p  == Prev[hs[1]]
             t  == promote(db, cursor)
         IN  /\ p \in DOMAIN t.header_to_height
             /\ \A i \in 1 .. Len(hs) : i < call.next => hs[i] \in DOMAIN t.headers_pool
             /\ \/ Prev[cursor] = p
                \/ \E i \in 1 .. Len(hs) : i < call.next /\ Prev[cursor] = hs[i]
             /\ Prev[cursor] \in DOMAIN t.headers_pool
<1> DEFINE hs == call.headers
           p  == Prev[hs[1]]
           n  == call.next
           t  == promote(db, cursor)
           k  == db.headers_pool[cursor].block_height
           gone == HashesAt(db, {k})
           m  == Insert(db.header_to_height, cursor, k)
<1>1. pc = "walk" /\ cursor \notin DOMAIN db.header_to_height
  BY DEF Walking
<1>2. IsStorage(db) /\ IsTrue(db) /\ MidReorg(db, cursor, fork_tip) /\ n \in Nat
  BY <1>1 DEF Inv, TypeOK, WorkingInv
<1>3. /\ p \in Hash /\ TrueHeight(p) \in Int /\ Len(hs) \in Nat /\ Len(hs) > 0
      /\ \A i \in 1 .. Len(hs) :
            /\ hs[i] \in Hash
            /\ TrueHeight(hs[i]) = TrueHeight(p) + i
            /\ Prev[hs[i]] = IF i = 1 THEN p ELSE hs[i - 1]
  BY <1>1, BatchTypes
<1>4. /\ p \in DOMAIN db.header_to_height
      /\ \A i \in 1 .. Len(hs) : i < n => hs[i] \in DOMAIN db.headers_pool
  BY <1>1 DEF BatchInv
<1>5. PICK j \in 1 .. Len(hs) : j < n /\ cursor = hs[j]
  BY <1>1, <1>4 DEF BatchInv
<1>6. cursor \in DOMAIN db.headers_pool /\ k = TrueHeight(cursor)
  BY <1>2 DEF MidReorg, IsTrue
<1>7. /\ t.header_to_height = Restrict(m, DOMAIN m \ gone)
      /\ t.headers_pool = Restrict(db.headers_pool, DOMAIN db.headers_pool \ gone)
  BY <1>2, <1>6, PromoteFields
<1>8. \A b \in gone : TrueHeight(b) = TrueHeight(cursor) /\ b # cursor
  <2>1. \A x \in DOMAIN db.height_to_header :
           /\ TrueHeight(db.height_to_header[x]) = x
           /\ db.height_to_header[x] \in DOMAIN db.header_to_height
    BY <1>2 DEF MidReorg
  <2> QED
    BY <1>1, <1>6, <2>1 DEF HashesAt
<1>9. p \in DOMAIN db.headers_pool
  BY <1>2, <1>4 DEF MidReorg
<1> HIDE DEF gone, m, t, k
<1>10. DOMAIN t.headers_pool = DOMAIN db.headers_pool \ gone
  BY <1>7 DEF Restrict
<1>11. DOMAIN db.header_to_height \ gone \subseteq DOMAIN t.header_to_height
  BY <1>7 DEF Restrict, Insert, m
<1>12. p \notin gone /\ \A i \in 1 .. Len(hs) : hs[i] \notin gone
  <2>1. TrueHeight(cursor) = TrueHeight(p) + j
    BY <1>3, <1>5
  <2>2. ASSUME NEW i \in 1 .. Len(hs), hs[i] \in gone PROVE FALSE
    <3>1. TrueHeight(p) + i = TrueHeight(p) + j
      BY <1>3, <1>8, <2>1, <2>2
    <3>2. i = j
      BY <1>3, <3>1
    <3> QED
      BY <1>5, <1>8, <2>2, <3>2
  <2> QED
    BY <1>3, <1>8, <2>1, <2>2
<1>13. \/ Prev[cursor] = p
       \/ j - 1 \in 1 .. Len(hs) /\ j - 1 < n /\ Prev[cursor] = hs[j - 1]
  BY <1>2, <1>3, <1>5
<1> QED
  BY <1>2, <1>4, <1>9, <1>10, <1>11, <1>12, <1>13 DEF t

\* Every step keeps BatchInv.
LEMMA NextBatch == Inv /\ BatchInv /\ [Next]_vars => BatchInv'
<1> SUFFICES ASSUME Inv, BatchInv, [Next]_vars PROVE BatchInv'
  OBVIOUS
<1>1. ASSUME NEW hs \in InitBlocks, init(hs) PROVE BatchInv'
  <2>1. saved' = EmptyStorage
    BY <1>1 DEF init, Inv, SavedInv
  <2>2. DOMAIN saved'.header_to_height = {}
    BY <2>1 DEF EmptyStorage
  <2> QED
    BY <2>2 DEF BatchInv, SubmittedFromMainchain
<1>2. ASSUME NEW a \in Account, NEW hs \in Batches, NEW amount \in Deposits,
             submit_blocks(a, hs, amount)
      PROVE  BatchInv'
  <2>1. db' = saved' /\ pc' = "headers"
    BY <1>2 DEF submit_blocks, Inv, WorkingInv
  <2>2. call'.next = 1
    BY <1>2 DEF submit_blocks, NoCall
  <2> QED
    BY <2>1, <2>2 DEF BatchInv, SubmittedFromMainchain
<1>3. ASSUME NEW a \in Account, NEW n \in GCBatchSizes, run_mainchain_gc(a, n)
      PROVE  BatchInv'
  BY <1>3 DEF run_mainchain_gc, BatchInv
<1>4. ASSUME WalkFork PROVE BatchInv'
  <2>1. /\ Walking /\ pc' = "walk" /\ saved' = saved /\ call' = call
        /\ db' = promote(db, cursor) /\ cursor' = Prev[cursor]
    BY <1>4 DEF WalkFork, Walking
  <2> SUFFICES ASSUME SubmittedFromMainchain(call.headers)
               PROVE  BatchInv'
    BY <2>1 DEF BatchInv, SubmittedFromMainchain
  <2> QED
    BY <2>1, WalkBatch DEF BatchInv
<1>5. ASSUME FinishReorg PROVE BatchInv'
  <2>1. IsStorage(db)
    BY DEF Inv, TypeOK
  <2>2. /\ db'.header_to_height = db.header_to_height
        /\ db'.headers_pool = db.headers_pool
        /\ pc = "walk" /\ pc' = "headers" /\ saved' = saved /\ call' = call
    BY <1>5, <2>1 DEF FinishReorg, IsStorage
  <2> QED
    BY <2>2 DEF BatchInv, SubmittedFromMainchain
<1>6. ASSUME FinishInit \/ FinishSubmit \/ Panic \/ GasExceeded PROVE BatchInv'
  <2>1. pc' \in {"uninit", "idle"}
    BY <1>6 DEF FinishInit, FinishSubmit, Commit, Panic, GasExceeded, Rollback
  <2> QED
    BY <2>1 DEF BatchInv
<1>7. ASSUME Pause \/ Unpause \/ Tick \/ UNCHANGED vars PROVE BatchInv'
  BY <1>7 DEF Pause, Unpause, Tick, vars, BatchInv, SubmittedFromMainchain
<1> QED
  BY <1>1, <1>2, <1>3, <1>4, <1>5, <1>6, <1>7, HeaderStepBatch DEF Next, Start, Step

\* A batch that starts on a main chain block and goes up parent by parent
\* never strands the walk of reorg_chain, in any network and after any history
\* of reorganisations and collections.
THEOREM BatchTheorem == Spec => []OrderedBatchNeverStrands
<1>1. Init => BatchInv
  BY DEF Init, BatchInv
<1>2. Inv /\ BatchInv => OrderedBatchNeverStrands
  BY WalkBatch DEF OrderedBatchNeverStrands
<1> QED
  BY <1>1, <1>2, NextBatch, SpecInv, PTL DEF Spec
=============================================================================
