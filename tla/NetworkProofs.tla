--------------------------- MODULE NetworkProofs ---------------------------
(***************************************************************************)
(* The check of a block on the tip decides what the network's rule does.   *)
(* The argument has three parts.  The main chain is long enough: the       *)
(* blocks a check reads are there, whatever was reorganised or collected.  *)
(* The blocks read are the block's own ancestors.  And what is computed    *)
(* from them is what the rule says, since the targets of stored headers    *)
(* stay within the limit, and their products within a U256.                *)
(***************************************************************************)
EXTENDS DeploymentProofs, U256Lemmas

-----------------------------------------------------------------------------
(***************************************************************************)
(* Mined headers.                                                          *)
(***************************************************************************)
Mined == {h \in Hash : IsMined(h)}

\* Heights are counted from genesis.
LEMMA GenesisTrue == TrueHeight(GenesisHash) = GenesisHeight
BY HeadersAssumption, NetworkAssumption, ParametersAssumption DEF TrueHeight

\* Every initial chain consists of headers.
LEMMA TrustedType == Trusted \subseteq Hash
<1> SUFFICES ASSUME NEW hs \in InitBlocks PROVE Range(hs) \subseteq Hash
  BY DEF Trusted
<1>1. hs \in Seq(Hash)
  BY ParametersAssumption
<1> QED
  BY <1>1 DEF Range

\* A header's ancestors of order 0 and 1.
LEMMA FirstAncestors ==
  ASSUME NEW h \in Hash
  PROVE  Ancestor(h, 0) = h /\ Ancestor(h, 1) = Prev[h]
<1>1. 0 \in Nat /\ 0 + 1 = 1
  OBVIOUS
<1>2. /\ Ancestor(h, 0) = h
      /\ Ancestor(h, 0 + 1) = IF Ancestor(h, 0) \in Hash THEN Prev[Ancestor(h, 0)] ELSE NoHash
  BY <1>1, AncestorSteps, Zenon
<1> QED
  BY <1>1, <1>2

\* Genesis is mined, if it came with init.
LEMMA GenesisMined ==
  ASSUME GenesisHash \in Trusted
  PROVE  GenesisHash \in Mined
<1>1. GenesisHash \in Hash /\ TrueHeight(GenesisHash) - GenesisHeight = 0
  BY GenesisTrue, HeadersAssumption, ParametersAssumption
<1>2. Ancestor(GenesisHash, 0) = GenesisHash
  BY <1>1, FirstAncestors
<1> QED
  BY <1>1, <1>2 DEF Mined, IsMined

\* A header on a mined one is mined, if it has a proof of work or came with
\* init.
LEMMA ChildMined ==
  ASSUME NEW h \in Hash, Prev[h] \in Mined, h \in PowHashMeetsTarget \cup Trusted
  PROVE  h \in Mined
<1> DEFINE n == TrueHeight(h) - GenesisHeight
           m == TrueHeight(Prev[h]) - GenesisHeight
<1>1. /\ Prev[h] \in Hash /\ m >= 0 /\ m \in Int /\ Ancestor(Prev[h], m) = GenesisHash
      /\ \A i \in 0 .. m : Ancestor(Prev[h], i) \in PowHashMeetsTarget \cup Trusted
  BY TrueValues, ParametersAssumption DEF Mined, IsMined
<1>2. n = m + 1 /\ n >= 0
  BY <1>1, TrueValues, ParametersAssumption
<1> HIDE DEF n, m
<1>3. Ancestor(h, 0) = h
  BY FirstAncestors
<1>4. \A i \in Nat : Ancestor(Prev[h], i) = Ancestor(h, i + 1)
  BY AncestorOfParent
<1>5. Ancestor(h, n) = GenesisHash
  <2>1. m \in Nat
    BY <1>1
  <2> QED
    BY <1>1, <1>2, <1>4, <2>1
<1>6. ASSUME NEW i \in 0 .. n
      PROVE  Ancestor(h, i) \in PowHashMeetsTarget \cup Trusted
  <2>1. CASE i = 0
    BY <1>3, <2>1
  <2>2. CASE i # 0
    <3>1. i - 1 \in Nat /\ i - 1 \in 0 .. m /\ (i - 1) + 1 = i
      BY <1>1, <1>2, <2>2
    <3>2. Ancestor(Prev[h], i - 1) = Ancestor(h, (i - 1) + 1)
      BY <1>4, <3>1
    <3> QED
      BY <1>1, <3>1, <3>2
  <2> QED
    BY <2>1, <2>2
<1> QED
  BY <1>2, <1>5, <1>6 DEF Mined, IsMined, n

\* Mined headers are no lower than genesis.
LEMMA MinedHeight ==
  ASSUME NEW h \in Mined
  PROVE  h \in Hash /\ TrueHeight(h) \in Int /\ TrueHeight(h) >= GenesisHeight
BY TrueValues, ParametersAssumption DEF Mined, IsMined

-----------------------------------------------------------------------------
(***************************************************************************)
(* Heights: a tip has R blocks before it, up from genesis.  A header is    *)
(* accepted only where its check can walk R blocks back from its parent,   *)
(* and init stores more than R blocks.                                     *)
(***************************************************************************)
ReadsBack(R) ==
  /\ \A s, h, now : CheckTarget(s, h, now) => get_prev_headers(s, Prev[h], R) # NoHash
  /\ \A hs \in InitBlocks : init_requires(hs) => Len(hs) > R

\* During init the tip is the header before the next.  In a call of
\* submit_blocks the headers that are not committed are high.
TallInv(R) ==
  /\ pc \in {"headers", "walk"} /\ call.init =>
       /\ pc = "headers"
       /\ call.headers \in InitBlocks /\ init_requires(call.headers)
       /\ call.next \in 2 .. Len(call.headers) + 1
       /\ db.tip_blockhash = call.headers[call.next - 1]
  /\ pc \in {"headers", "walk"} /\ ~call.init =>
       \A h \in DOMAIN db.headers_pool :
          h \in DOMAIN saved.headers_pool \/ TrueHeight(h) > GenesisHeight + R
  /\ Initialised =>
       /\ TrueHeight(saved.tip_blockhash) >= GenesisHeight + R
       /\ \E hs \in InitBlocks : init_requires(hs)

\* The blocks of a walk from a stored header are stored.
LEMMA WalkInPool ==
  ASSUME NEW s, NEW h \in DOMAIN s.headers_pool, NEW n \in Nat,
         get_prev_headers(s, h, n) # NoHash
  PROVE  get_prev_headers(s, h, n) \in DOMAIN s.headers_pool
<1> DEFINE g == CHOOSE f : IsWalk(f, s, h, n)
<1>1. IsWalk(g, s, h, n)
  BY WalkExists
<1>2. get_prev_headers(s, h, n) = g[n]
  BY DEF get_prev_headers, IsWalk
<1> HIDE DEF g
<1>3. n \in 0 .. n
  OBVIOUS
<1>4. g[n] = IF n = 0 THEN h
             ELSE IF g[n - 1] # NoHash /\ Prev[g[n - 1]] \in DOMAIN s.headers_pool
               THEN Prev[g[n - 1]] ELSE NoHash
  BY <1>1, <1>3 DEF IsWalk
<1> QED
  BY <1>2, <1>4

\* An accepted header is high.
LEMMA AcceptedIsTall ==
  ASSUME NEW R \in Nat, ReadsBack(R), NEW s, IsStorage(s),
         \A g \in DOMAIN s.headers_pool : TrueHeight(g) >= GenesisHeight,
         NEW h \in Hash, Prev[h] \in DOMAIN s.headers_pool, NEW now, CheckTarget(s, h, now)
  PROVE  TrueHeight(h) > GenesisHeight + R
<1> DEFINE p == Prev[h]
           g == get_prev_headers(s, p, R)
<1>1. p \in Hash /\ g # NoHash
  BY DEF IsStorage, ReadsBack
<1>2. g \in DOMAIN s.headers_pool
  BY <1>1, WalkInPool
<1>3. g \in Hash /\ g = Ancestor(p, R)
  BY <1>1, WalkIsAncestors
<1> HIDE DEF g
<1>4. TrueHeight(g) = TrueHeight(p) - R
  BY <1>1, <1>3, AncestorHeight
<1>5. TrueHeight(h) = TrueHeight(p) + 1 /\ TrueHeight(p) \in Int
  BY <1>1, TrueValues
<1>6. TrueHeight(g) >= GenesisHeight /\ GenesisHeight \in Nat
  BY <1>2, ParametersAssumption
<1> QED
  BY <1>4, <1>5, <1>6

\* Heights go up one by one along an initial chain.
LEMMA InitHeights ==
  ASSUME InitIsChain, NEW hs \in InitBlocks, init_requires(hs), NEW i \in 1 .. Len(hs)
  PROVE  TrueHeight(hs[i]) = GenesisHeight + i - 1
<1>1. hs \in Seq(Hash) /\ Len(hs) \in Nat /\ hs[1] = GenesisHash /\ GenesisHeight \in Nat
  BY ParametersAssumption DEF init_requires
<1> DEFINE S == {k \in Nat : k + 1 <= Len(hs) => TrueHeight(hs[k + 1]) = GenesisHeight + k}
<1>2. 0 \in S
  <2>1. 0 + 1 = 1 /\ GenesisHeight + 0 = GenesisHeight
    BY <1>1
  <2> QED
    BY <1>1, <2>1, GenesisTrue
<1>3. ASSUME NEW k \in Nat, k \in S PROVE k + 1 \in S
  <2> SUFFICES ASSUME (k + 1) + 1 <= Len(hs)
               PROVE  TrueHeight(hs[(k + 1) + 1]) = GenesisHeight + (k + 1)
    OBVIOUS
  <2>1. /\ (k + 1) + 1 \in 2 .. Len(hs) /\ ((k + 1) + 1) - 1 = k + 1
        /\ (k + 1) + 1 \in 1 .. Len(hs) /\ k + 1 \in 1 .. Len(hs) /\ k + 1 <= Len(hs)
    BY <1>1
  <2>2. Prev[hs[(k + 1) + 1]] = hs[k + 1]
    BY <2>1 DEF InitIsChain
  <2>3. hs[(k + 1) + 1] \in Hash /\ hs[k + 1] \in Hash
    BY <1>1, <2>1
  <2>4. TrueHeight(hs[k + 1]) = GenesisHeight + k
    BY <1>3, <2>1
  <2>5. TrueHeight(hs[(k + 1) + 1]) = TrueHeight(hs[k + 1]) + 1
    BY <2>2, <2>3, TrueValues
  <2> QED
    BY <1>1, <2>4, <2>5
<1> HIDE DEF S
<1>4. i - 1 \in S
  <2>1. i - 1 \in Nat
    OBVIOUS
  <2> QED
    BY <1>2, <1>3, <2>1, SetInduction
<1>5. (i - 1) + 1 = i /\ GenesisHeight + (i - 1) = GenesisHeight + i - 1
  BY <1>1
<1> QED
  BY <1>4, <1>5 DEF S

\* A header step of init extends the main chain; one of submit_blocks adds a
\* high header.
LEMMA HeaderStepTall ==
  ASSUME InitIsChain, NEW R \in Nat, ReadsBack(R), Inv, PoolInv(Mined), TallInv(R),
         ExtendMainchain \/ StoreFork \/ StartReorg
  PROVE  TallInv(R)'
<1>1. /\ HeaderPending /\ header_accepted(db, Header) /\ NextHeader /\ saved' = saved
      /\ pc = "headers" /\ call.next <= Len(call.headers)
  BY DEF ExtendMainchain, StoreFork, StartReorg, HeaderPending
<1>2. /\ Header \in Hash /\ IsStorage(db)
      /\ Prev[Header] \in DOMAIN db.headers_pool
      /\ call.next \in Nat \ {0} /\ call.headers \in Seq(Hash)
  BY <1>1, HeaderIsHash DEF Inv, TypeOK, header_accepted
<1>3. /\ call'.init = call.init /\ call'.headers = call.headers
      /\ call'.next = call.next + 1
  BY <1>1 DEF NextHeader, Inv, TypeOK
<1>4. Initialised' <=> Initialised
  BY <1>1 DEF Initialised
<1>5. CASE call.init
  <2> DEFINE hs == call.headers
             n == call.next
  <2>1. hs \in InitBlocks /\ init_requires(hs) /\ n \in 2 .. Len(hs) + 1
        /\ db.tip_blockhash = hs[n - 1]
    BY <1>1, <1>5 DEF TallInv
  <2>2. n \in 2 .. Len(hs) /\ Len(hs) \in Nat
    BY <1>1, <1>2, <2>1
  <2>3. Prev[Header] = db.tip_blockhash
    BY <2>1, <2>2 DEF InitIsChain, Header
  <2>4. ExtendMainchain
    BY <2>3 DEF StoreFork, StartReorg
  <2>5. pc' = "headers" /\ db'.tip_blockhash = Header
    <3> DEFINE r == store_block_header(db, Header, extend_header(db, Header))
    <3>1. pc' = pc /\ db' = [r EXCEPT !.tip_blockhash = Header]
      BY <2>4 DEF ExtendMainchain
    <3>2. IsTrue(db)
      BY <1>1 DEF Inv, WorkingInv, Sound
    <3>3. extend_header(db, Header) \in ExtendedHeader
      BY <1>2, <3>2, ExtendIsTrue
    <3>4. IsStorage(r)
      BY <1>2, <3>3, StoreBlockFields
    <3> HIDE DEF r
    <3> QED
      BY <1>1, <3>1, <3>4 DEF IsStorage
  <2>6. n + 1 \in 2 .. Len(hs) + 1 /\ (n + 1) - 1 = n
    BY <2>2
  <2> QED
    BY <1>1, <1>3, <1>4, <1>5, <2>1, <2>5, <2>6 DEF TallInv, Header
<1>6. CASE ~call.init
  <2>1. CheckTarget(db, Header, clock)
    BY <1>1, <1>6 DEF header_accepted, PoolInv
  <2>2. \A g \in DOMAIN db.headers_pool : TrueHeight(g) >= GenesisHeight
    BY MinedHeight DEF PoolInv
  <2>3. TrueHeight(Header) > GenesisHeight + R
    BY <1>2, <2>1, <2>2, AcceptedIsTall
  <2>4. \A h \in DOMAIN db'.headers_pool :
          h \in DOMAIN saved.headers_pool \/ TrueHeight(h) > GenesisHeight + R
    BY <1>1, <1>6, <2>3, HeaderStepPool DEF TallInv
  <2> QED
    BY <1>1, <1>3, <1>4, <1>6, <2>4 DEF TallInv
<1> QED
  BY <1>5, <1>6

\* What submit_blocks commits has a high tip.
LEMMA SubmitTall ==
  ASSUME NEW R \in Nat, Inv, LinkInv, TallInv(R), pc = "headers", ~call.init
  PROVE  Initialised /\ TrueHeight(db.tip_blockhash) >= GenesisHeight + R
<1>1. IsStorage(db) /\ IsStorage(saved) /\ Sound(db) /\ Sound(saved)
  BY DEF Inv, TypeOK, SavedInv, WorkingInv
<1>2. /\ db.tip_blockhash \in DOMAIN db.headers_pool
      /\ saved.tip_blockhash \in DOMAIN saved.headers_pool
      /\ SoundWork(saved)
  BY <1>1, SoundReadings DEF SoundPath
<1>3. Initialised
  BY <1>2 DEF Initialised, EmptyStorage
<1>4. CASE db.tip_blockhash = saved.tip_blockhash
  BY <1>3, <1>4 DEF TallInv
<1>5. CASE TrueWork(db.tip_blockhash) > TrueWork(saved.tip_blockhash)
  <2>1. db.tip_blockhash \in Hash /\ saved.tip_blockhash \in Hash
    BY <1>1, <1>2 DEF IsStorage
  <2>2. /\ TrueWork(db.tip_blockhash) \in Int /\ TrueWork(saved.tip_blockhash) \in Int
        /\ TrueHeight(db.tip_blockhash) \in Int /\ GenesisHeight \in Nat
    BY <2>1, TrueValues, ParametersAssumption
  <2>3. db.tip_blockhash \notin DOMAIN saved.headers_pool
    BY <1>2, <1>5, <2>2 DEF SoundWork
  <2>4. TrueHeight(db.tip_blockhash) > GenesisHeight + R
    BY <1>2, <2>3 DEF TallInv
  <2> QED
    BY <1>3, <2>2, <2>4
<1> QED
  BY <1>3, <1>4, <1>5 DEF LinkInv

\* Every step keeps heights as they should be.
LEMMA NextTall ==
  ASSUME InitIsChain, NEW R \in Nat, ReadsBack(R),
         Inv, LinkInv, PoolInv(Mined), TallInv(R), [Next]_vars
  PROVE  TallInv(R)'
<1>0. IsStorage(db) /\ IsStorage(saved)
  BY DEF Inv, TypeOK
<1>1. ASSUME NEW hs \in InitBlocks, init(hs) PROVE TallInv(R)'
  <2>1. /\ db' = genesis_storage /\ saved' = saved /\ pc' = "headers"
        /\ call'.headers = hs /\ call'.init /\ call'.next = 2
        /\ init_requires(hs)
    BY <1>1 DEF init, NoCall
  <2>2. genesis_storage.tip_blockhash = GenesisHash
    BY DEF genesis_storage, store_block_header, EmptyStorage
  <2>3. hs \in Seq(Hash) /\ hs # <<>> /\ hs[1] = GenesisHash
    BY <2>1, ParametersAssumption DEF init_requires
  <2>4. 2 \in 2 .. Len(hs) + 1 /\ 2 - 1 = 1
    BY <2>3
  <2>5. Initialised' <=> Initialised
    BY <2>1 DEF Initialised
  <2> QED
    BY <2>1, <2>2, <2>3, <2>4, <2>5 DEF TallInv
<1>2. ASSUME NEW a, NEW hs, NEW amount, submit_blocks(a, hs, amount) PROVE TallInv(R)'
  <2>1. db' = db /\ saved' = saved /\ ~call'.init /\ db = saved
    BY <1>2 DEF submit_blocks, NoCall, Inv, WorkingInv
  <2>2. Initialised' <=> Initialised
    BY <2>1 DEF Initialised
  <2> QED
    BY <2>1, <2>2 DEF TallInv
<1>3. ASSUME NEW a \in Account, NEW n \in GCBatchSizes, run_mainchain_gc(a, n)
      PROVE  TallInv(R)'
  <2>1. /\ saved' = gc(saved, n) /\ pc' = "idle" /\ pc = "idle" /\ gc_succeeds(saved, n)
        /\ n \in Nat /\ Sound(saved)
    BY <1>3, ParametersAssumption DEF run_mainchain_gc, Inv, WorkingInv, SavedInv
  <2>2. saved'.tip_blockhash = saved.tip_blockhash
    BY <1>0, <2>1, GcChain
  <2>3. Initialised
    BY <2>1 DEF Sound, IsPath, Initialised, EmptyStorage
  <2> QED
    BY <2>1, <2>2, <2>3 DEF TallInv
<1>4. ASSUME WalkFork PROVE TallInv(R)'
  <2>1. /\ db' = promote(db, cursor) /\ cursor \in DOMAIN db.headers_pool
        /\ pc = "walk" /\ pc' = pc /\ call' = call /\ saved' = saved
    BY <1>4 DEF WalkFork, Walking, Inv, WorkingInv, MidReorg
  <2>2. DOMAIN db'.headers_pool \subseteq DOMAIN db.headers_pool
    <3> DEFINE gone == HashesAt(db, {db.headers_pool[cursor].block_height})
    <3>1. promote(db, cursor).headers_pool
             = Restrict(db.headers_pool, DOMAIN db.headers_pool \ gone)
      BY <1>0, <2>1, PromoteFields
    <3> HIDE DEF gone
    <3> QED
      BY <2>1, <3>1 DEF Restrict
  <2>3. Initialised' <=> Initialised
    BY <2>1 DEF Initialised
  <2> QED
    BY <2>1, <2>2, <2>3 DEF TallInv
<1>5. ASSUME FinishReorg PROVE TallInv(R)'
  <2>1. /\ db'.headers_pool = db.headers_pool
        /\ pc = "walk" /\ call' = call /\ saved' = saved
    BY <1>0, <1>5 DEF FinishReorg, IsStorage
  <2>2. Initialised' <=> Initialised
    BY <2>1 DEF Initialised
  <2> QED
    BY <2>1, <2>2 DEF TallInv
<1>6. ASSUME FinishInit PROVE TallInv(R)'
  <2> DEFINE hs == call.headers
  <2>1. /\ saved' = db /\ pc' = "idle" /\ pc = "headers" /\ call.init
        /\ call.next > Len(hs)
    BY <1>6 DEF FinishInit, Commit, HeadersDone
  <2>2. /\ hs \in InitBlocks /\ init_requires(hs) /\ call.next \in 2 .. Len(hs) + 1
        /\ db.tip_blockhash = hs[call.next - 1]
    BY <2>1 DEF TallInv
  <2>3. Len(hs) \in Nat
    BY DEF Inv, TypeOK
  <2>4. call.next - 1 = Len(hs) /\ Len(hs) \in 1 .. Len(hs)
    BY <2>1, <2>2, <2>3
  <2>5. TrueHeight(db.tip_blockhash) = GenesisHeight + Len(hs) - 1
    BY <2>2, <2>4, InitHeights
  <2>6. Len(hs) > R
    BY <2>2 DEF ReadsBack
  <2>7. TrueHeight(db.tip_blockhash) >= GenesisHeight + R
    BY <2>3, <2>5, <2>6, ParametersAssumption
  <2> QED
    BY <2>1, <2>2, <2>7 DEF TallInv
<1>7. ASSUME FinishSubmit PROVE TallInv(R)'
  <2> DEFINE n == Len(call.headers)
  <2>1. n \in Nat
    BY DEF Inv, TypeOK
  <2>2. /\ saved' = gc(db, n) /\ pc' = "idle" /\ gc_succeeds(db, n)
        /\ pc = "headers" /\ ~call.init /\ Sound(db)
    BY <1>7 DEF FinishSubmit, Commit, submit_blocks_succeeds, HeadersDone, Inv, WorkingInv
  <2> HIDE DEF n
  <2>3. saved'.tip_blockhash = db.tip_blockhash
    BY <1>0, <2>1, <2>2, GcChain
  <2> QED
    BY <2>2, <2>3, SubmitTall DEF TallInv
<1>8. ASSUME Panic \/ GasExceeded PROVE TallInv(R)'
  <2>1. saved' = saved /\ pc' \in {"uninit", "idle"}
    BY <1>8 DEF Panic, GasExceeded, Rollback
  <2>2. Initialised' <=> Initialised
    BY <2>1 DEF Initialised
  <2> QED
    BY <2>1, <2>2 DEF TallInv
<1>9. ASSUME Pause \/ Unpause \/ Tick \/ UNCHANGED vars PROVE TallInv(R)'
  <2>1. db' = db /\ saved' = saved /\ pc' = pc /\ call' = call
    BY <1>9 DEF Pause, Unpause, Tick, vars
  <2>2. Initialised' <=> Initialised
    BY <2>1 DEF Initialised
  <2> QED
    BY <2>1, <2>2 DEF TallInv
<1> QED
  BY <1>1, <1>2, <1>3, <1>4, <1>5, <1>6, <1>7, <1>8, <1>9, HeaderStepTall
     DEF Next, Start, Step

-----------------------------------------------------------------------------
(***************************************************************************)
(* Length: what GC has left.  The main chain starts at genesis, or it, or  *)
(* one that had no more work, once went gc_threshold blocks up from its    *)
(* start.                                                                  *)
(***************************************************************************)
KeptInv ==
  Initialised =>
    \/ saved.initial_blockhash = GenesisHash
    \/ \E g \in Mined :
          /\ TrueWork(g) <= TrueWork(saved.tip_blockhash)
          /\ TrueHeight(g) + 1 >= TrueHeight(saved.initial_blockhash) + gc_threshold

\* The bounds of a chain are those of its domain.
LEMMA ChainBounds ==
  ASSUME NEW f, NEW lo \in Int, NEW hi \in Int, HC!IsChain(f, lo, hi),
         NEW lo2 \in Int, NEW hi2 \in Int, HC!IsChain(f, lo2, hi2)
  PROVE  lo = lo2 /\ hi = hi2
<1>1. lo .. hi = lo2 .. hi2 /\ lo <= hi /\ lo2 <= hi2
  BY DEF HC!IsChain
<1>2. lo \in lo2 .. hi2 /\ hi \in lo2 .. hi2 /\ lo2 \in lo .. hi /\ hi2 \in lo .. hi
  BY <1>1
<1> QED
  BY <1>2

\* What the state of the contract has to do with its chain.
LEMMA InitialisedChain ==
  ASSUME Inv
  PROVE  /\ Initialised <=> DOMAIN saved.height_to_header # {}
         /\ Initialised =>
              LET lo == TrueHeight(saved.initial_blockhash)
                  hi == TrueHeight(saved.tip_blockhash)
              IN  /\ saved.initial_blockhash \in Hash /\ saved.tip_blockhash \in Hash
                  /\ lo \in Int /\ hi \in Int
                  /\ HC!IsChain(saved.height_to_header, lo, hi)
                  /\ saved.height_to_header[lo] = saved.initial_blockhash
                  /\ saved.height_to_header[hi] = saved.tip_blockhash
                  /\ saved.tip_blockhash \in DOMAIN saved.headers_pool
<1>1. ASSUME Initialised
      PROVE  LET lo == TrueHeight(saved.initial_blockhash)
                 hi == TrueHeight(saved.tip_blockhash)
             IN  /\ saved.initial_blockhash \in Hash /\ saved.tip_blockhash \in Hash
                 /\ lo \in Int /\ hi \in Int /\ lo \in DOMAIN saved.height_to_header
                 /\ HC!IsChain(saved.height_to_header, lo, hi)
                 /\ saved.height_to_header[lo] = saved.initial_blockhash
                 /\ saved.height_to_header[hi] = saved.tip_blockhash
                 /\ saved.tip_blockhash \in DOMAIN saved.headers_pool
  <2>1. Sound(saved) /\ IsStorage(saved)
    BY <1>1, SavedIsSound
  <2> QED
    BY <2>1, SoundIsChain DEF Sound, IsPath
<1>2. ~Initialised => DOMAIN saved.height_to_header = {}
  BY DEF Initialised, EmptyStorage
<1> QED
  BY <1>1, <1>2

\* TrueWork orders headers as NetWork does.
LEMMA WorkOrder ==
  ASSUME NEW g \in Hash, NEW h \in Hash
  PROVE  NetWork[g] > NetWork[h] => TrueWork(g) >= TrueWork(h)
BY HeadersAssumption, NetworkAssumption DEF TrueWork

\* Every step of the abstract chain keeps it: one that forgets blocks leaves
\* gc_threshold of them.
LEMMA NextKept ==
  ASSUME Inv, Inv', PoolInv(Mined)', KeptInv, [HC!Next]_(saved.height_to_header)
  PROVE  KeptInv'
<1> SUFFICES ASSUME Initialised'
             PROVE  \/ saved'.initial_blockhash = GenesisHash
                    \/ \E g \in Mined :
                          /\ TrueWork(g) <= TrueWork(saved'.tip_blockhash)
                          /\ TrueHeight(g) + 1
                               >= TrueHeight(saved'.initial_blockhash) + gc_threshold
  BY DEF KeptInv
<1> DEFINE at == saved.height_to_header
           lo == TrueHeight(saved.initial_blockhash)
           hi == TrueHeight(saved.tip_blockhash)
           at2 == saved'.height_to_header
           lo2 == TrueHeight(saved'.initial_blockhash)
           hi2 == TrueHeight(saved'.tip_blockhash)
<1>1. /\ saved'.initial_blockhash \in Hash /\ saved'.tip_blockhash \in Hash
      /\ lo2 \in Int /\ hi2 \in Int /\ HC!IsChain(at2, lo2, hi2)
      /\ at2[lo2] = saved'.initial_blockhash /\ at2[hi2] = saved'.tip_blockhash
      /\ saved'.tip_blockhash \in Mined
      /\ DOMAIN at2 # {}
  <2>1. (/\ Initialised <=> DOMAIN saved.height_to_header # {}
         /\ Initialised =>
              LET a == TrueHeight(saved.initial_blockhash)
                  b == TrueHeight(saved.tip_blockhash)
              IN  /\ saved.initial_blockhash \in Hash /\ saved.tip_blockhash \in Hash
                  /\ a \in Int /\ b \in Int
                  /\ HC!IsChain(saved.height_to_header, a, b)
                  /\ saved.height_to_header[a] = saved.initial_blockhash
                  /\ saved.height_to_header[b] = saved.tip_blockhash
                  /\ saved.tip_blockhash \in DOMAIN saved.headers_pool)'
    BY InitialisedChain, PTL
  <2> QED
    BY <2>1 DEF PoolInv
<1>2. Initialised =>
        /\ saved.initial_blockhash \in Hash /\ saved.tip_blockhash \in Hash
        /\ lo \in Int /\ hi \in Int /\ HC!IsChain(at, lo, hi)
        /\ at[lo] = saved.initial_blockhash /\ at[hi] = saved.tip_blockhash
  BY InitialisedChain
<1>3. Initialised <=> DOMAIN at # {}
  BY InitialisedChain
<1>4. ASSUME Initialised, saved'.initial_blockhash = saved.initial_blockhash,
             TrueWork(saved'.tip_blockhash) >= TrueWork(saved.tip_blockhash)
      PROVE  \/ saved'.initial_blockhash = GenesisHash
             \/ \E g \in Mined :
                   /\ TrueWork(g) <= TrueWork(saved'.tip_blockhash)
                   /\ TrueHeight(g) + 1
                        >= TrueHeight(saved'.initial_blockhash) + gc_threshold
  <2>1. CASE saved.initial_blockhash = GenesisHash
    BY <1>4, <2>1
  <2>2. CASE saved.initial_blockhash # GenesisHash
    <3>1. PICK g \in Mined :
                 /\ TrueWork(g) <= TrueWork(saved.tip_blockhash)
                 /\ TrueHeight(g) + 1 >= TrueHeight(saved.initial_blockhash) + gc_threshold
      BY <1>4, <2>2 DEF KeptInv
    <3>2. /\ TrueWork(g) \in Int /\ TrueWork(saved.tip_blockhash) \in Int
          /\ TrueWork(saved'.tip_blockhash) \in Int
      BY <1>1, <1>2, <1>4, TrueValues DEF Mined
    <3>3. TrueWork(g) <= TrueWork(saved'.tip_blockhash)
      BY <1>4, <3>1, <3>2
    <3> QED
      BY <1>4, <3>1, <3>3
  <2> QED
    BY <2>1, <2>2
<1> HIDE DEF at, lo, hi, at2, lo2, hi2
<1>5. CASE at2 = at
  <2>1. Initialised
    BY <1>1, <1>3, <1>5
  <2>2. lo = lo2 /\ hi = hi2
    BY <1>1, <1>2, <1>5, <2>1, ChainBounds
  <2>3. saved'.initial_blockhash = saved.initial_blockhash
        /\ saved'.tip_blockhash = saved.tip_blockhash
    BY <1>1, <1>2, <1>5, <2>1, <2>2
  <2>4. TrueWork(saved.tip_blockhash) \in Int
    BY <1>2, <2>1, TrueValues
  <2> QED
    BY <1>4, <2>1, <2>3, <2>4
<1>6. CASE HC!Start
  <2>1. PICK b \in DOMAIN at2 : HC!IsChain(at2, GenesisHeight, b)
    BY <1>6 DEF HC!Start, at2
  <2>2. GenesisHeight \in Int /\ b \in Int /\ at2[GenesisHeight] = GenesisHash
    BY <1>1, <1>6, <2>1, ParametersAssumption DEF HC!Start, at2, HC!IsChain
  <2>3. lo2 = GenesisHeight
    BY <1>1, <2>1, <2>2, ChainBounds
  <2> QED
    BY <1>1, <2>2, <2>3
<1>7. CASE HC!Advance
  <2>1. PICK a \in DOMAIN at, b \in DOMAIN at, a2 \in DOMAIN at2, b2 \in DOMAIN at2 :
               HC!Moves(a, b, a2, b2)
    BY <1>7 DEF HC!Advance, at, at2
  <2>2. /\ HC!IsChain(at, a, b) /\ HC!IsChain(at2, a2, b2)
        /\ at2[b2] = at[b] \/ NetWork[at2[b2]] > NetWork[at[b]]
        /\ a <= a2 /\ Ancestor(at2[a2], a2 - a) = at[a]
        /\ a < a2 => b2 - a2 + 1 >= gc_threshold
    BY <2>1 DEF HC!Moves, at, at2, Ancestor
  <2>3. Initialised
    BY <1>3, <2>1
  <2>4. a \in Int /\ b \in Int /\ a2 \in Int /\ b2 \in Int
    BY <1>1, <1>2, <2>1, <2>3 DEF HC!IsChain
  <2>5. a = lo /\ b = hi /\ a2 = lo2 /\ b2 = hi2
    BY <1>1, <1>2, <2>2, <2>3, <2>4, ChainBounds
  <2>6. /\ TrueWork(saved'.tip_blockhash) >= TrueWork(saved.tip_blockhash)
        /\ TrueWork(saved'.tip_blockhash) \in Int
    BY <1>1, <1>2, <2>2, <2>3, <2>5, TrueValues, WorkOrder
  <2>7. CASE lo = lo2
    <3>1. Ancestor(at2[lo2], 0) = at[lo]
      <4>1. a2 - a = 0
        BY <2>4, <2>5, <2>7
      <4> QED
        BY <2>2, <2>5, <4>1
    <3>2. saved'.initial_blockhash = saved.initial_blockhash
      BY <1>1, <1>2, <2>3, <3>1, FirstAncestors
    <3> QED
      BY <1>4, <2>3, <2>6, <3>2
  <2>8. CASE lo # lo2
    <3>1. hi2 - lo2 + 1 >= gc_threshold
      BY <2>2, <2>4, <2>5, <2>8
    <3>2. hi2 + 1 >= lo2 + gc_threshold
      BY <1>1, <3>1, ParametersAssumption
    <3>3. TrueWork(saved'.tip_blockhash) <= TrueWork(saved'.tip_blockhash)
      BY <2>6
    <3> QED
      BY <1>1, <3>2, <3>3 DEF hi2, lo2
  <2> QED
    BY <2>7, <2>8
<1> QED
  BY <1>5, <1>6, <1>7 DEF HC!Next, at, at2

\* Where the network keeps n blocks, so has the storage, up from genesis.
LEMMA KeptDepth ==
  ASSUME Inv, PoolInv(Mined), KeptInv, Initialised, NEW n \in Nat, KeepsBlocks(n)
  PROVE  LET lo == TrueHeight(saved.initial_blockhash)
             hi == TrueHeight(saved.tip_blockhash)
         IN  lo = GenesisHeight \/ lo <= hi - n
<1> DEFINE lo == TrueHeight(saved.initial_blockhash)
           hi == TrueHeight(saved.tip_blockhash)
<1>1. /\ lo \in Int /\ hi \in Int
      /\ saved.tip_blockhash \in Mined /\ saved.tip_blockhash \in Hash
  BY InitialisedChain DEF PoolInv
<1>2. CASE saved.initial_blockhash = GenesisHash
  BY <1>2, GenesisTrue
<1>3. CASE saved.initial_blockhash # GenesisHash
  <2>1. PICK g \in Mined : /\ TrueWork(g) <= TrueWork(saved.tip_blockhash)
                           /\ TrueHeight(g) + 1 >= lo + gc_threshold
    BY <1>3 DEF KeptInv
  <2>2. g \in Hash /\ IsMined(g) /\ IsMined(saved.tip_blockhash)
    BY <1>1 DEF Mined
  <2>3. TrueHeight(g) + n < hi + gc_threshold
    BY <1>1, <2>1, <2>2 DEF KeepsBlocks
  <2>4. TrueHeight(g) \in Int /\ gc_threshold \in Nat
    BY <2>2, TrueValues, ParametersAssumption
  <2> HIDE DEF lo, hi
  <2>5. lo <= hi - n
    BY <1>1, <2>1, <2>3, <2>4
  <2> QED
    BY <2>5 DEF lo, hi
<1> QED
  BY <1>2, <1>3

\* The invariant of the contract, with the three parts together: V is the
\* closed set the stored headers are in.
LongInv(R, V) ==
  /\ Inv /\ LinkInv
  /\ PoolInv(V) /\ PoolInv(Mined)
  /\ TallInv(R)
  /\ KeptInv

LEMMA InitLong ==
  ASSUME NEW R, NEW V, Init
  PROVE  LongInv(R, V)
<1>1. PoolInv(V) /\ PoolInv(Mined)
  BY InitPool
<1>2. pc = "uninit" /\ ~Initialised
  BY DEF Init, Initialised
<1> QED
  BY <1>1, <1>2, InitInv, InitLink DEF LongInv, TallInv, KeptInv

LEMMA NextLong ==
  ASSUME ~skip_pow_verification, InitIsChain, NEW R \in Nat, ReadsBack(R),
         NEW V \in SUBSET Mined, Closed(V), LongInv(R, V), [Next]_vars
  PROVE  LongInv(R, V)'
<1> USE DEF LongInv
<1>1. Inv' /\ LinkInv'
  BY NextInv, NextLink
<1>2. PoolInv(V)'
  BY NextPool
<1>3. PoolInv(Mined)'
  BY <1>2 DEF PoolInv
<1>4. TallInv(R)'
  BY NextTall
<1>5. KeptInv'
  BY <1>1, <1>3, NextImplements, NextKept
<1> QED
  BY <1>1, <1>2, <1>3, <1>4, <1>5

-----------------------------------------------------------------------------
(***************************************************************************)
(* What the checks of a block on the tip read.                             *)
(***************************************************************************)
TipHeight == TrueHeight(saved.tip_blockhash)

\* The tip has n blocks before it in the storage.
HasBefore(n) == TrueHeight(saved.initial_blockhash) <= TipHeight - n

\* As far as the main chain goes, both ways to look up a block find the
\* ancestor of the tip, with its height.
LEMMA TipReads ==
  ASSUME Inv, Initialised, NEW n \in Nat, HasBefore(n)
  PROVE  LET b == Ancestor(saved.tip_blockhash, n)
         IN  /\ b \in Hash /\ b # NoHash /\ b \in DOMAIN saved.headers_pool
             /\ saved.headers_pool[b].block_height = TipHeight - n
             /\ TrueHeight(b) = TipHeight - n
             /\ get_prev_headers(saved, saved.tip_blockhash, n) = b
             /\ get_header_by_height(saved, TipHeight - n) = b
<1> DEFINE s == saved
           t == saved.tip_blockhash
           at == saved.height_to_header
           lo == TrueHeight(saved.initial_blockhash)
           hi == TipHeight
<1>1. Sound(s) /\ IsStorage(s)
  BY SavedIsSound
<1>2. SoundPath(s) /\ IsTrue(s)
  BY <1>1, SoundReadings
<1>3. /\ lo \in Int /\ hi \in Int /\ HC!IsChain(at, lo, hi) /\ at[hi] = t
      /\ t \in Hash /\ lo <= hi
  BY <1>1, SoundIsChain DEF TipHeight
<1>4. \A k \in lo .. hi : at[k] \in DOMAIN s.headers_pool /\ TrueHeight(at[k]) = k
  BY <1>2 DEF SoundPath, TipHeight
<1>5. \A k \in lo .. hi : k > lo => Prev[at[k]] = at[k - 1]
  BY <1>2 DEF SoundPath, TipHeight
<1>6. DOMAIN at = lo .. hi
  BY <1>3 DEF HC!IsChain
<1>7. n <= hi - lo
  BY <1>3 DEF HasBefore
<1> HIDE DEF at, lo, hi, t
<1>8. hi - n \in lo .. hi /\ n \in 0 .. (hi - lo) /\ hi \in lo .. hi
  BY <1>3, <1>7
<1>9. Ancestor(t, n) = at[hi - n]
  BY <1>3, <1>8, ChainAncestor
<1>10. /\ at[hi - n] \in DOMAIN s.headers_pool /\ TrueHeight(at[hi - n]) = hi - n
       /\ at[hi - n] \in Hash /\ at[hi - n] # NoHash
       /\ s.headers_pool[at[hi - n]].block_height = hi - n
  BY <1>1, <1>2, <1>4, <1>8, HeadersAssumption DEF IsStorage, IsTrue
<1>11. get_header_by_height(s, hi - n) = at[hi - n]
  BY <1>6, <1>8, <1>10 DEF get_header_by_height, at
<1>12. get_prev_headers(s, t, n) = at[hi - n]
  <2> DEFINE g == CHOOSE f : IsWalk(f, s, t, n)
  <2>1. IsWalk(g, s, t, n)
    BY WalkExists
  <2>2. get_prev_headers(s, t, n) = g[n]
    BY DEF get_prev_headers, IsWalk
  <2> HIDE DEF g
  <2> DEFINE S == {i \in Nat : i <= n => g[i] = at[hi - i]}
  <2>3. 0 \in S
    <3>1. 0 \in 0 .. n /\ hi - 0 = hi
      BY <1>3
    <3>2. g[0] = t
      BY <2>1, <3>1 DEF IsWalk
    <3> QED
      BY <1>3, <3>1, <3>2
  <2>4. ASSUME NEW i \in Nat, i \in S PROVE i + 1 \in S
    <3> SUFFICES ASSUME i + 1 <= n PROVE g[i + 1] = at[hi - (i + 1)]
      OBVIOUS
    <3>1. /\ i + 1 \in 0 .. n /\ i + 1 # 0 /\ (i + 1) - 1 = i /\ i <= n
          /\ hi - i \in lo .. hi /\ hi - i > lo /\ (hi - i) - 1 = hi - (i + 1)
          /\ hi - (i + 1) \in lo .. hi
      BY <1>3, <1>7
    <3>2. g[i] = at[hi - i]
      BY <2>4, <3>1
    <3>3. g[i + 1] = IF g[i] # NoHash /\ Prev[g[i]] \in DOMAIN s.headers_pool
                       THEN Prev[g[i]] ELSE NoHash
      BY <2>1, <3>1 DEF IsWalk
    <3>4. Prev[at[hi - i]] = at[hi - (i + 1)]
      BY <1>5, <3>1
    <3>5. at[hi - i] # NoHash /\ at[hi - (i + 1)] \in DOMAIN s.headers_pool
      BY <1>1, <1>4, <3>1, HeadersAssumption DEF IsStorage
    <3> HIDE DEF S
    <3> QED
      BY <3>2, <3>3, <3>4, <3>5
  <2> HIDE DEF S
  <2>5. n \in S
    BY <2>3, <2>4, SetInduction
  <2> QED
    BY <2>2, <2>5 DEF S
<1> QED
  BY <1>9, <1>10, <1>11, <1>12 DEF t, hi

\* The tip itself.
LEMMA TipIs ==
  ASSUME Inv, Initialised, NEW h \in Hash, Prev[h] = saved.tip_blockhash
  PROVE  /\ saved.tip_blockhash \in Hash
         /\ TipHeight \in Int /\ TrueHeight(saved.initial_blockhash) \in Int
         /\ TrueHeight(saved.initial_blockhash) <= TipHeight
         /\ saved.headers_pool[saved.tip_blockhash].block_height = TipHeight
         /\ TrueHeight(h) = TipHeight + 1
<1>1. /\ saved.tip_blockhash \in Hash /\ TipHeight \in Int
      /\ TrueHeight(saved.initial_blockhash) \in Int
      /\ TrueHeight(saved.initial_blockhash) <= TipHeight
  BY SavedIsSound, SoundIsChain DEF TipHeight
<1>2. saved.headers_pool[saved.tip_blockhash].block_height = TipHeight
  BY SavedIsSound DEF Sound, IsTrue, IsPath, TipHeight
<1>3. TrueHeight(h) = TipHeight + 1
  BY <1>1, TrueValues DEF TipHeight
<1> QED
  BY <1>1, <1>2, <1>3

\* The median is taken over the network's blocks.
LEMMA TipTime ==
  ASSUME Inv, Initialised, HasBefore(MEDIAN_TIME_SPAN),
         NEW h \in Hash, Prev[h] = saved.tip_blockhash
  PROVE  time_accepted(saved, h, clock) <=> TimeIsValid(h, clock)
<1> DEFINE n == MEDIAN_TIME_SPAN
           t == saved.tip_blockhash
           at == [i \in 0 .. n |-> get_prev_headers(saved, t, i)]
<1>1. n \in Nat /\ n \in 0 .. n /\ t \in Hash /\ IsStorage(saved)
  BY SpanAssumption, TipIs, SavedIsSound
<1>2. get_prev_headers(saved, t, n) # NoHash
  BY <1>1, TipReads
<1>3. at[n] = get_prev_headers(saved, t, n)
      /\ \A i \in Span : at[i] = get_prev_headers(saved, t, i)
  BY <1>1 DEF Span
<1>4. get_median_time_past(saved, t) = {Median(at, n)}
  <2>1. get_median_time_past(saved, t) = IF at[n] = NoHash THEN {} ELSE {Median(at, n)}
    BY Zenon DEF get_median_time_past
  <2> HIDE DEF at
  <2> QED
    BY <1>2, <1>3, <2>1
<1> HIDE DEF at
<1>5. ReadsPast(saved, t, at)
  BY <1>1, <1>2, <1>3 DEF ReadsPast
<1>6. Median(at, n) = MedianTimePast(t)
  BY <1>1, <1>5, MedianAgrees
<1> HIDE DEF n
<1> QED
  BY <1>4, <1>6 DEF time_accepted, TimeIsValid, t

-----------------------------------------------------------------------------
(***************************************************************************)
(* What the checks compute.                                                *)
(***************************************************************************)

\* A target is a U256.
LEMMA TargetIs ==
  ASSUME NEW b \in Nat
  PROVE  /\ Val(target_from_bits(b)) \in 0 .. Size - 1
         /\ target_from_bits(b) = Of(Val(target_from_bits(b)))
         /\ \E t \in 0 .. SignBit - 1, k \in 0 .. 2 * LimbBits - 1 :
               /\ t * Pow2(k) \in Nat
               /\ Val(target_from_bits(b)) = (t * Pow2(k)) % Size
<1>1. PICK t \in 0 .. SignBit - 1, k \in 0 .. 2 * LimbBits - 1 :
             t * Pow2(k) \in Nat /\ target_from_bits(b) = Of((t * Pow2(k)) % Size)
  BY TargetShape
<1> DEFINE a == t * Pow2(k)
           n == a % Size
<1>2. n \in 0 .. Size - 1
  <2>1. a \in Nat /\ Size \in Nat \ {0}
    BY <1>1, BaseType
  <2> HIDE DEF a
  <2>2. a % Size \in Nat /\ a % Size < Size
    BY <2>1, DivModNat
  <2> QED
    BY <2>1, <2>2
<1>3. Val(Of(n)) = n
  BY <1>2, ValOf
<1> QED
  BY <1>1, <1>2, <1>3

\* The carry of overflowing_mul is right for the targets of headers.
LEMMA ProductIs ==
  ASSUME NEW v \in Nat, NEW most, Scales(v, most), NEW n \in 0 .. v, n < Size, NEW m \in 0 .. most,
         \/ n % Half = 0
         \/ /\ (SignBit - 1) * most < 2 * Half
            /\ \E t \in 0 .. SignBit - 1, k \in 0 .. 2 * LimbBits - 1 : n = (t * Pow2(k)) % Size
  PROVE  /\ overflowing_mul(Of(n), m) = [val |-> Of(n * m), overflow |-> FALSE]
         /\ n * m \in 0 .. Size - 1
<1>1. most \in Nat /\ most < Half /\ v * most < Size
      /\ Base \in Nat \ {0} /\ Half \in Nat \ {0} /\ Base = Half * Half /\ Size \in Nat \ {0}
      /\ n \in Nat /\ m \in Nat
  BY BaseType DEF Scales
<1>2. n * m \in Nat /\ n * m < Size
  <2>1. n * m <= v * m
    BY <1>1
  <2>2. v * m <= v * most
    BY <1>1
  <2>3. n * m \in Nat /\ v * m \in Nat /\ v * most \in Nat
    BY <1>1
  <2> QED
    BY <1>1, <2>1, <2>2, <2>3
<1>3. (n * m) % Size = n * m /\ ~(n * m >= Size) /\ n * m \in 0 .. Size - 1
  <2>1. n * m \in 0 .. Size - 1
    BY <1>1, <1>2
  <2> QED
    BY <1>1, <1>2, <2>1, ModSmall
<1>4. n \in 0 .. Size - 1 /\ m \in 0 .. Half - 1
  BY <1>1
<1>5. overflowing_mul(Of(n), m) = [val |-> Of((n * m) % Size), overflow |-> n * m >= Size]
  <2>1. CASE n % Half = 0
    <3> DEFINE l == n % Base
    <3>1. PICK u \in Nat : n = u * Half
      <4>1. /\ n \div Half \in Nat
            /\ n = (n \div Half) * Half + (n % Half)
        BY <1>1, DivModNat
      <4> DEFINE u == n \div Half
      <4> HIDE DEF u
      <4>2. u \in Nat /\ n = u * Half
        BY <1>1, <2>1, <4>1 DEF u
      <4> QED
        BY <4>2
    <3>2. PICK z \in Nat : (u * Half) % (Half * Half) = z * Half
      BY <1>1, RemainderOfMultiple
    <3>3. l = z * Half
      BY <1>1, <3>1, <3>2
    <3>4. (l * m) \div Base = ((l \div Half) * m) \div Half
      BY <1>1, <3>3, CarryOfMultiple
    <3>5. (l * m) \div Base \in Int
      <4>1. l * m \in Nat
        BY <1>1, <3>3
      <4> QED
        BY <1>1, <4>1, DivModNat
    <3>6. ~((l * m) \div Base > ((l \div Half) * m) \div Half)
      BY <3>4, <3>5
    <3> QED
      BY <1>4, <3>6, MulExact
  <2>2. CASE /\ (SignBit - 1) * most < 2 * Half
             /\ \E t \in 0 .. SignBit - 1, k \in 0 .. 2 * LimbBits - 1 : n = (t * Pow2(k)) % Size
    <3>1. PICK t \in 0 .. SignBit - 1, k \in 0 .. 2 * LimbBits - 1 : n = (t * Pow2(k)) % Size
      BY <2>2
    <3>2. SignBit - 1 \in Nat
      BY MantissaType
    <3>3. (SignBit - 1) * m < 2 * Half
      <4>1. (SignBit - 1) * m <= (SignBit - 1) * most
        BY <1>1, <3>2
      <4>2. (SignBit - 1) * m \in Nat /\ (SignBit - 1) * most \in Nat
        BY <1>1, <3>2
      <4> QED
        BY <1>1, <2>2, <4>1, <4>2
    <3> QED
      BY <1>4, <3>1, <3>3, ScaledExact
  <2> QED
    BY <2>1, <2>2
<1>6. (n * m >= Size) = FALSE
  BY <1>3
<1> QED
  BY <1>3, <1>5, <1>6

\* Dividing by a number of one limb, such as the time span.
LEMMA SpanQuotient ==
  ASSUME NEW n \in 0 .. Size - 1, NEW T \in 1 .. Base - 1
  PROVE  /\ quotient(Of(n), from(T)) = Of(n \div T)
         /\ n \div T \in 0 .. Size - 1
<1>1. T \in Nat \ {0} /\ T < Base
  BY BaseType
<1>2. T \in 0 .. Size - 1 /\ from(T) = Of(T)
  BY <1>1, LowLimb
<1>3. quotient(Of(n), from(T)) = Of(n \div T)
  BY <1>1, <1>2, DivRemExact DEF quotient
<1>4. n \in Nat /\ Size \in Nat /\ n < Size * T
  BY <1>1, BaseType
<1>5. n \div T \in Nat /\ n \div T < Size
  BY <1>1, <1>4, DivBounds
<1> QED
  BY <1>3, <1>4, <1>5

\* The end of a retarget is the network's.
LEMMA LimitedIs ==
  ASSUME NEW n \in 0 .. Size - 1, NEW p, ~p.overflow
  PROVE  limited_bits(p, Of(n)) = {LimitedCompact(n)}
<1> DEFINE v == Val(pow_limit)
           m == IF n <= v THEN n ELSE v
<1>1. v \in 0 .. Size - 1 /\ pow_limit = Of(v)
  BY ConfigAssumption
<1>2. Le(Of(n), pow_limit) <=> n <= v
  BY <1>1, LeIsLe
<1>3. (IF Le(Of(n), pow_limit) THEN Of(n) ELSE pow_limit) = Of(m) /\ m \in 0 .. Size - 1
  BY <1>1, <1>2
<1>4. target_to_bits(Of(m)) = CompactForm(m)
  BY <1>3, ToBitsExact
<1>5. LimitedCompact(n) = CompactForm(m)
  BY DEF LimitedCompact
<1> HIDE DEF m
<1> QED
  BY <1>3, <1>4, <1>5 DEF limited_bits

\* And its target is within the limit.
LEMMA LimitedTarget ==
  ASSUME NEW n \in 0 .. Size - 1
  PROVE  Val(target_from_bits(LimitedCompact(n))) <= Val(pow_limit)
<1> DEFINE v == Val(pow_limit)
           m == IF n <= v THEN n ELSE v
<1>1. v \in 0 .. Size - 1 /\ m \in 0 .. Size - 1 /\ m <= v
  BY ConfigAssumption, BaseType
<1>2. LimitedCompact(n) = CompactForm(m)
  BY DEF LimitedCompact
<1> HIDE DEF m, v
<1>3. PICK w \in 0 .. m : target_from_bits(CompactForm(m)) = Of(w)
  BY <1>1, CompactStable
<1>4. w \in 0 .. Size - 1 /\ w <= v
  BY <1>1, <1>3, BaseType
<1>5. Val(Of(w)) = w
  BY <1>4, ValOf
<1> QED
  BY <1>2, <1>3, <1>4, <1>5 DEF v

\* A retarget from a header within the limit, over a time span of up to most.
LEMMA RetargetIs ==
  ASSUME NEW most, Scales(Val(pow_limit), most),
         NEW p \in Hash, TargetOf(p) <= Val(pow_limit), NEW m \in 0 .. most
  PROVE  LET product == overflowing_mul(target_from_bits(Bits[p]), m)
             v       == (TargetOf(p) * m) \div pow_target_timespan
         IN  /\ v \in 0 .. Size - 1
             /\ limited_bits(product, quotient(product.val, from(pow_target_timespan)))
                  = {LimitedCompact(v)}
<1> DEFINE n == TargetOf(p)
           product == overflowing_mul(target_from_bits(Bits[p]), m)
<1>1. Bits[p] \in Nat /\ Val(pow_limit) \in Nat
  BY FieldsAssumption, ConfigAssumption
<1>2. /\ n \in 0 .. Size - 1 /\ target_from_bits(Bits[p]) = Of(n)
      /\ \E t \in 0 .. SignBit - 1, k \in 0 .. 2 * LimbBits - 1 : n = (t * Pow2(k)) % Size
  BY <1>1, TargetIs DEF TargetOf
<1>3. n \in 0 .. Val(pow_limit) /\ n < Size /\ n \in Nat
  BY <1>1, <1>2, BaseType
<1>4. \/ n % Half = 0
      \/ (SignBit - 1) * most < 2 * Half
  <2>1. n % (2 * Half) = 0 => n % Half = 0
    <3>1. Half \in Nat \ {0} /\ 2 * Half \in Nat \ {0}
      BY BaseType
    <3> DEFINE q == n \div (2 * Half)
    <3>2. q \in Nat /\ n = q * (2 * Half) + (n % (2 * Half))
      BY <1>3, <3>1, DivModNat
    <3> HIDE DEF q
    <3>3. n % (2 * Half) = 0 => n = (2 * q) * Half + 0
      BY <1>3, <3>1, <3>2
    <3>4. ((2 * q) * Half + 0) % Half = 0
      <4>1. 0 \in 0 .. Half - 1 /\ 2 * q \in Int
        BY <3>1, <3>2
      <4> QED
        BY <3>1, <4>1, DivModUnique
    <3> QED
      BY <3>3, <3>4
  <2> QED
    BY <2>1 DEF Scales
<1> HIDE DEF n
<1>5. /\ overflowing_mul(Of(n), m) = [val |-> Of(n * m), overflow |-> FALSE]
      /\ n * m \in 0 .. Size - 1
  BY <1>1, <1>2, <1>3, <1>4, ProductIs
<1>6. product.val = Of(n * m) /\ ~product.overflow
  BY <1>2, <1>5
<1> HIDE DEF product
<1>7. /\ quotient(Of(n * m), from(pow_target_timespan)) = Of((n * m) \div pow_target_timespan)
      /\ (n * m) \div pow_target_timespan \in 0 .. Size - 1
  BY <1>5, ConfigAssumption, SpanQuotient
<1>8. limited_bits(product, Of((n * m) \div pow_target_timespan))
        = {LimitedCompact((n * m) \div pow_target_timespan)}
  BY <1>6, <1>7, LimitedIs
<1> QED
  BY <1>6, <1>7, <1>8 DEF n, product

\* A clamped number is within its bounds.
LEMMA ClampIn ==
  ASSUME NEW n \in Int, NEW lo \in Int, NEW hi \in Int, lo <= hi
  PROVE  Clamp(n, lo, hi) \in lo .. hi
BY DEF Clamp

\* The limited time span of a Bitcoin or a Litecoin retarget.
LEMMA SpanIn ==
  ASSUME NEW p \in Hash, NEW f \in Nat
  PROVE  Clamp(Time[p] - f, pow_target_timespan \div 4, pow_target_timespan * 4)
           \in 0 .. pow_target_timespan * 4
<1> DEFINE T == pow_target_timespan
           n == Time[p] - f
           lo == T \div 4
           hi == T * 4
<1>1. n \in Int
  BY FieldsAssumption
<1>2. lo \in Nat /\ hi \in Nat /\ lo <= hi
  <2>1. T \in Nat
    BY ConfigAssumption
  <2> HIDE DEF T
  <2> QED
    BY <2>1
<1>3. Clamp(n, lo, hi) \in 0 .. hi
  <2> HIDE DEF n, lo, hi
  <2>1. lo \in Int /\ hi \in Int
    BY <1>2
  <2>2. Clamp(n, lo, hi) \in lo .. hi
    BY <1>1, <1>2, <2>1, ClampIn
  <2> QED
    BY <1>2, <2>2
<1> QED
  BY <1>3

\* Multiples of d are d apart.
LEMMA MultiplesApart ==
  ASSUME NEW d \in Nat \ {0}, NEW m \in Nat, NEW n \in Nat, m % d = 0, n % d = 0, m < n
  PROVE  m + d <= n
<1> DEFINE q == m \div d
           r == n \div d
<1>1. q \in Nat /\ r \in Nat /\ m = q * d + (m % d) /\ n = r * d + (n % d)
  BY DivModNat
<1> HIDE DEF q, r
<1>2. m = q * d /\ n = r * d
  BY <1>1
<1>3. q < r
  <2> SUFFICES ASSUME r <= q PROVE FALSE
    BY <1>1
  <2>1. r * d <= q * d
    BY <1>1
  <2> QED
    BY <1>2, <2>1
<1>4. (q + 1) * d <= r * d
  BY <1>1, <1>3
<1>5. (q + 1) * d = q * d + d
  BY <1>1
<1> QED
  BY <1>2, <1>4, <1>5

-----------------------------------------------------------------------------
(***************************************************************************)
(* The closed set of the mined headers with targets within the limit.      *)
(***************************************************************************)
Limited == {h \in Mined : TargetOf(h) <= Val(pow_limit)}

\* A check that lets no other header on stored ones closes it.
LEMMA LimitedClosed ==
  ASSUME LimitHolds,
         \A s, h, now :
           /\ IsStorage(s) /\ IsTrue(s) /\ DOMAIN s.headers_pool \subseteq Limited
           /\ h \in Hash /\ Prev[h] \in DOMAIN s.headers_pool
           /\ CheckTarget(s, h, now)
           => TargetOf(h) <= Val(pow_limit)
  PROVE  Closed(Limited) /\ Limited \in SUBSET Mined
<1>1. ASSUME NEW h \in Trusted, h = GenesisHash \/ Prev[h] \in Limited
      PROVE  h \in Limited
  <2>1. h \in Mined
    BY <1>1, TrustedType, GenesisMined, ChildMined DEF Limited
  <2> QED
    BY <1>1, <2>1 DEF Limited, LimitHolds
<1>2. ASSUME NEW s, NEW h, NEW now,
             IsStorage(s), IsTrue(s), DOMAIN s.headers_pool \subseteq Limited,
             h \in Hash, Prev[h] \in DOMAIN s.headers_pool,
             CheckTarget(s, h, now), h \in PowHashMeetsTarget
      PROVE  h \in Limited
  <2>1. Prev[h] \in Mined
    BY <1>2 DEF Limited
  <2>2. h \in Mined
    BY <1>2, <2>1, ChildMined
  <2> QED
    BY <1>2, <2>2 DEF Limited
<1> QED
  BY <1>1, <1>2 DEF Closed, Limited

\* The bits last_regular_bits returns are those of a stored header.
LEMMA RegularLimited ==
  ASSUME NEW s, DOMAIN s.headers_pool \subseteq Limited,
         NEW p \in DOMAIN s.headers_pool, NEW b \in last_regular_bits(s, p)
  PROVE  Val(target_from_bits(b)) <= Val(pow_limit)
<1>1. PICK i \in 0 .. difficulty_adjustment_interval - 1 :
             /\ b = Bits[get_prev_headers(s, p, i)]
             /\ \A k \in 0 .. i : get_prev_headers(s, p, k) # NoHash
  BY Zenon DEF last_regular_bits
<1>2. i \in Nat /\ i \in 0 .. i
  BY ConfigAssumption
<1>3. get_prev_headers(s, p, i) \in DOMAIN s.headers_pool
  BY <1>1, <1>2, WalkInPool
<1> QED
  BY <1>1, <1>3 DEF Limited, TargetOf

\* A check of the median reads MEDIAN_TIME_SPAN blocks back.
LEMMA MedianReadsBack ==
  ASSUME \A s, h, now : CheckTarget(s, h, now) => ChecksMedian(s, h), Chain # "zcash"
  PROVE  ReadsBack(MEDIAN_TIME_SPAN)
<1>1. ASSUME NEW s, NEW h, ChecksMedian(s, h)
      PROVE  get_prev_headers(s, Prev[h], MEDIAN_TIME_SPAN) # NoHash
  <2>1. MEDIAN_TIME_SPAN \in Nat
    BY SpanAssumption
  <2>2. PICK n \in Nat : n >= MEDIAN_TIME_SPAN /\ get_prev_headers(s, Prev[h], n) # NoHash
    BY <1>1 DEF ChecksMedian, ReadsPast
  <2> QED
    BY <2>1, <2>2, WalkSucceeds
<1> QED
  BY <1>1 DEF ReadsBack, init_requires

\* As many blocks are there as a check reads.
LEMMA LongDepth ==
  ASSUME NEW R \in Nat, Inv, PoolInv(Mined), TallInv(R), KeptInv, Initialised, KeepsBlocks(R)
  PROVE  HasBefore(R)
<1> DEFINE lo == TrueHeight(saved.initial_blockhash)
<1>1. GenesisHeight \in Nat
  BY ParametersAssumption
<1>2. lo \in Int /\ TipHeight \in Int
  BY InitialisedChain DEF TipHeight
<1>3. lo = GenesisHeight \/ lo <= TipHeight - R
  BY KeptDepth DEF TipHeight
<1>4. TipHeight >= GenesisHeight + R
  BY DEF TallInv, TipHeight
<1> HIDE DEF lo
<1>5. lo <= TipHeight - R
  BY <1>1, <1>2, <1>3, <1>4
<1> QED
  BY <1>5 DEF HasBefore, lo

\* A set of natural numbers has a least one.
LEMMA LeastOf ==
  ASSUME NEW S \in SUBSET Nat, S # {}
  PROVE  \E i \in S : \A j \in S : i <= j
<1> DEFINE R == OpToRel(<, Nat)
<1>1. IsWellFoundedOn(R, Nat)
  BY NatLessThanWellFounded, Zenon DEF R
<1> HIDE DEF R
<1>2. PICK i \in S : \A j \in S : ~(<<j, i>> \in R)
  BY <1>1, WFMin
<1>3. \A j \in S : ~(j < i)
  BY <1>2 DEF R, OpToRel
<1>4. \A j \in S : i <= j
  BY <1>3
<1> QED
  BY <1>2, <1>4

\* Between a multiple of d and n there is the last multiple up to n.
LEMMA LastMultiple ==
  ASSUME NEW d \in Nat \ {0}, NEW m \in Nat, NEW n \in Nat, m % d = 0, m <= n
  PROVE  /\ n % d \in 0 .. d - 1 /\ m <= n - (n % d)
         /\ (n - (n % d)) % d = 0
<1> DEFINE q == n \div d
           r == n % d
<1>1. q \in Nat /\ r \in Nat /\ r < d /\ n = q * d + r
  BY DivModNat
<1>2. n - r = q * d + 0 /\ n - r \in Nat
  <2> HIDE DEF q, r
  <2> QED
    BY <1>1
<1>3. (n - r) % d = 0
  <2>1. 0 \in 0 .. d - 1 /\ q \in Int
    BY <1>1
  <2>2. (q * d + 0) % d = 0
    BY <2>1, DivModUnique
  <2> QED
    BY <1>2, <2>2
<1> HIDE DEF q, r
<1>4. m <= n - r
  <2> SUFFICES ASSUME n - r < m PROVE FALSE
    BY <1>1
  <2>1. (n - r) + d <= m
    BY <1>2, <1>3, MultiplesApart
  <2> QED
    BY <1>1, <2>1
<1>5. r \in 0 .. d - 1
  BY <1>1
<1>6. r \in 0 .. d - 1 /\ m <= n - r /\ (n - r) % d = 0
  BY <1>3, <1>4, <1>5
<1> QED
  BY <1>6, Zenon DEF r

\* A block before a multiple of d is the last of its interval.
LEMMA LastOfInterval ==
  ASSUME NEW d \in Nat \ {0}, NEW n \in Nat, (n + 1) % d = 0
  PROVE  n % d = d - 1
<1> DEFINE q == (n + 1) \div d
<1>1. q \in Nat /\ n + 1 = q * d + 0
  BY DivModNat
<1> HIDE DEF q
<1>2. n = (q - 1) * d + (d - 1) /\ d - 1 \in 0 .. d - 1 /\ q - 1 \in Int
  BY <1>1
<1> QED
  BY <1>2, DivModUnique

\* An ancestor of the tip by its height.
LEMMA TipAncestorAt ==
  ASSUME Inv, Initialised, NEW h \in Hash, Prev[h] = saved.tip_blockhash, NEW k \in Int
  PROVE  AncestorAt(saved.tip_blockhash, TrueHeight(h) - k) = Ancestor(saved.tip_blockhash, k - 1)
<1>1. TipHeight \in Int /\ TrueHeight(h) = TipHeight + 1
  BY TipIs
<1>2. TipHeight - (TrueHeight(h) - k) = k - 1
  BY <1>1
<1> QED
  BY <1>2 DEF AncestorAt, TipHeight

\* The block i before the tip ends the walk back to regular bits.
Regular(i) ==
  \/ Bits[Ancestor(saved.tip_blockhash, i)] # proof_of_work_limit_bits
  \/ (TipHeight - i) % difficulty_adjustment_interval = 0

IsNearest(i) == i \in Nat /\ Regular(i) /\ \A j \in 0 .. i - 1 : ~Regular(j)

\* The walk ends in the storage, at the nearest such block.
LEMMA RegularIs ==
  ASSUME Inv, Initialised, HasBefore(TipHeight % difficulty_adjustment_interval), TipHeight \in Nat
  PROVE  \E i \in 0 .. difficulty_adjustment_interval - 1 :
            /\ IsNearest(i)
            /\ last_regular_bits(saved, saved.tip_blockhash)
                 = {Bits[Ancestor(saved.tip_blockhash, i)]}
<1> DEFINE d == difficulty_adjustment_interval
           m == TipHeight % d
           t == saved.tip_blockhash
           S == {i \in 0 .. m : Regular(i)}
           at(i) == get_prev_headers(saved, t, i)
           stops(i) == \/ Bits[at(i)] # proof_of_work_limit_bits
                       \/ saved.headers_pool[at(i)].block_height % d = 0
           Found(n) == /\ \A k \in 0 .. n : at(k) # NoHash
                       /\ stops(n)
                       /\ \A k \in 0 .. n - 1 : ~stops(k)
<1>1. d \in Nat \ {0} /\ 0 % d = 0 /\ 0 <= TipHeight
  BY ConfigAssumption
<1>2. m \in 0 .. d - 1 /\ (TipHeight - m) % d = 0
  BY <1>1, LastMultiple
<1>3. m \in S /\ S \in SUBSET Nat
  BY <1>2 DEF Regular
<1>4. TrueHeight(saved.initial_blockhash) \in Int
  BY InitialisedChain
<1>5. ASSUME NEW i \in 0 .. m
      PROVE  at(i) = Ancestor(t, i) /\ at(i) # NoHash /\ (stops(i) <=> Regular(i))
  <2>1. i \in Nat /\ HasBefore(i)
    BY <1>2, <1>4 DEF HasBefore
  <2>2. /\ at(i) = Ancestor(t, i) /\ at(i) # NoHash
        /\ saved.headers_pool[at(i)].block_height = TipHeight - i
    BY <2>1, TipReads
  <2> QED
    BY <2>2 DEF Regular
<1> HIDE DEF m, S, at, stops
<1>6. PICK i \in S : \A j \in S : i <= j
  BY <1>3, LeastOf
<1>7. i \in 0 .. m /\ i \in 0 .. d - 1 /\ i \in Nat /\ Regular(i)
      /\ \A j \in 0 .. i - 1 : j \in 0 .. m /\ ~Regular(j)
  BY <1>1, <1>2, <1>6 DEF S
<1>8. IsNearest(i)
  BY <1>7 DEF IsNearest
<1>9. Found(i)
  <2>1. \A k \in 0 .. i : k \in 0 .. m
    BY <1>2, <1>7
  <2> QED
    BY <1>5, <1>7, <2>1
<1>10. ASSUME NEW n \in 0 .. d - 1, Found(n) PROVE n = i
  <2>1. n \in Nat
    BY <1>1
  <2>2. CASE n < i
    <3>1. n \in 0 .. i - 1
      BY <1>7, <2>1, <2>2
    <3> QED
      BY <1>5, <1>7, <1>10, <3>1
  <2>3. CASE i < n
    <3>1. i \in 0 .. n - 1
      BY <1>7, <2>1, <2>3
    <3> QED
      BY <1>5, <1>7, <1>10, <3>1
  <2> QED
    BY <1>7, <2>1, <2>2, <2>3
<1>11. last_regular_bits(saved, t) = {Bits[at(n)] : n \in {k \in 0 .. d - 1 : Found(k)}}
  BY DEF last_regular_bits, at, stops
<1> HIDE DEF Found
<1>12. {k \in 0 .. d - 1 : Found(k)} = {i}
  BY <1>7, <1>9, <1>10
<1>13. last_regular_bits(saved, t) = {Bits[at(i)]}
  BY <1>11, <1>12
<1> QED
  BY <1>5, <1>7, <1>8, <1>13

\* The rule's way to say which block that is.
LEMMA NearestIs ==
  ASSUME NEW i \in 0 .. difficulty_adjustment_interval - 1, IsNearest(i)
  PROVE  (CHOOSE k \in 1 .. difficulty_adjustment_interval :
            Regular(k - 1) /\ \A j \in 1 .. k - 1 : ~Regular(j - 1)) = i + 1
<1> DEFINE d == difficulty_adjustment_interval
           Is(k) == k \in 1 .. d /\ Regular(k - 1) /\ \A j \in 1 .. k - 1 : ~Regular(j - 1)
<1>0. d \in Nat
  BY ConfigAssumption
<1>1. Is(i + 1)
  <2>1. i \in Nat /\ i + 1 \in 1 .. d /\ (i + 1) - 1 = i
        /\ \A j \in 1 .. i : j - 1 \in 0 .. i - 1
    BY <1>0
  <2> QED
    BY <2>1 DEF IsNearest
<1>2. ASSUME NEW k, Is(k) PROVE k = i + 1
  <2>1. k \in Nat /\ k >= 1 /\ i \in Nat
    BY <1>0, <1>2
  <2>2. CASE k < i + 1
    <3>1. k - 1 \in 0 .. i - 1
      BY <2>1, <2>2
    <3> QED
      BY <1>2, <3>1 DEF IsNearest
  <2>3. CASE k > i + 1
    <3>1. i + 1 \in 1 .. k - 1 /\ (i + 1) - 1 = i
      BY <2>1, <2>3
    <3>2. ~Regular((i + 1) - 1)
      BY <1>2, <3>1
    <3> QED
      BY <3>1, <3>2 DEF IsNearest
  <2> QED
    BY <2>1, <2>2, <2>3
<1>3. (CHOOSE k \in 1 .. d : Regular(k - 1) /\ \A j \in 1 .. k - 1 : ~Regular(j - 1))
        = (CHOOSE k : Is(k))
  OBVIOUS
<1> HIDE DEF Is
<1> QED
  BY <1>1, <1>2, <1>3

-----------------------------------------------------------------------------
(***************************************************************************)
(* Bitcoin.                                                                *)
(***************************************************************************)

\* The operators of Bitcoin are those of U256 and PowRules.
LEMMA BtcNumbers ==
  /\ \A n : Btc!Pow2(n) = Pow2(n)
  /\ Btc!Base = Base /\ Btc!Half = Half
  /\ \A n : Btc!Bytes(n) = Bytes(n)
  /\ Btc!Mantissa = Mantissa /\ Btc!SignBit = SignBit /\ Btc!Byte = Byte
  /\ \A a : Btc!Val(a) = Val(a)
  /\ \A n : Btc!from(n) = from(n)
  /\ \A a, b : Btc!Le(a, b) <=> Le(a, b)
  /\ \A n, lo, hi : Btc!Clamp(n, lo, hi) = Clamp(n, lo, hi)
<1>1. \A n : Btc!Pow2(n) = Pow2(n)
  BY Zenon DEF Btc!Pow2, Pow2
<1>2. Btc!Base = Base /\ Btc!Half = Half /\ Btc!Byte = Byte
  BY <1>1 DEF Btc!Base, Base, Btc!Half, Half, Btc!Byte, Byte
<1>3. \A n : Btc!Bytes(n) = Bytes(n)
  BY <1>1 DEF Btc!Bytes, Bytes
<1>4. Btc!Mantissa = Mantissa
  BY <1>3 DEF Btc!Mantissa, Mantissa
<1>5. Btc!SignBit = SignBit
  BY <1>4 DEF Btc!SignBit, SignBit
<1>6. \A a : Btc!Val(a) = Val(a)
  BY <1>2 DEF Btc!Val, Val
<1>7. \A n : Btc!from(n) = from(n)
  BY DEF Btc!from, from
<1>8. \A a, b : Btc!Le(a, b) <=> Le(a, b)
  BY DEF Btc!Le, Le
<1>9. \A n, lo, hi : Btc!Clamp(n, lo, hi) = Clamp(n, lo, hi)
  BY DEF Btc!Clamp, Clamp
<1> QED
  BY <1>1, <1>2, <1>3, <1>4, <1>5, <1>6, <1>7, <1>8, <1>9

LEMMA BtcArithmetic ==
  /\ \A a, r : Btc!overflowing_mul(a, r) = overflowing_mul(a, r)
  /\ \A a, r : Btc!wrapping_shl(a, r) = wrapping_shl(a, r) /\ Btc!wrapping_shr(a, r) = wrapping_shr(a, r)
  /\ \A a : Btc!bits(a) = bits(a)
  /\ \A a, b : Btc!quotient(a, b) = quotient(a, b)
  /\ \A b : Btc!target_from_bits(b) = target_from_bits(b)
  /\ \A p, t : Btc!limited_bits(p, t) = limited_bits(p, t)
  /\ \A h : Btc!TargetOf(h) = TargetOf(h)
  /\ \A v : Btc!LimitedCompact(v) = LimitedCompact(v)
<1>1. \A a, r : Btc!overflowing_mul(a, r) = overflowing_mul(a, r)
  BY BtcNumbers DEF Btc!overflowing_mul, overflowing_mul
<1>2. \A a, b : Btc!wrapping_add(a, b) = wrapping_add(a, b)
  BY BtcNumbers DEF Btc!wrapping_add, wrapping_add, Btc!overflowing_add, overflowing_add
<1>3. \A a, r : Btc!wrapping_shl(a, r) = wrapping_shl(a, r) /\ Btc!wrapping_shr(a, r) = wrapping_shr(a, r)
  BY BtcNumbers DEF Btc!wrapping_shl, wrapping_shl, Btc!wrapping_shr, wrapping_shr
<1>4. \A a : Btc!bits(a) = bits(a)
  BY Zenon DEF Btc!bits, bits, Btc!limb_bits, limb_bits, Btc!Pow2, Pow2
<1>5. \A b : Btc!target_from_bits(b) = target_from_bits(b)
  BY BtcNumbers, <1>3 DEF Btc!target_from_bits, target_from_bits, Btc!ZERO, ZERO
<1>6. \A a : Btc!target_to_bits(a) = target_to_bits(a)
  BY BtcNumbers, <1>3, <1>4 DEF Btc!target_to_bits, target_to_bits
<1>7. \A v : Btc!CompactForm(v) = CompactForm(v)
  BY Zenon DEF Btc!CompactForm, CompactForm, Btc!Bytes, Bytes, Btc!Pow2, Pow2, Btc!Mantissa, Mantissa
<1>8. \A a, b : Btc!wrapping_sub(a, b) = wrapping_sub(a, b)
  BY BtcNumbers, <1>2 DEF Btc!wrapping_sub, wrapping_sub, Btc!overflowing_sub, overflowing_sub,
     Btc!Not, Not, Btc!ONE, ONE
<1>9. \A r, k : Btc!div_round(r, k) = div_round(r, k)
  BY BtcNumbers, <1>2, <1>3, <1>8 DEF Btc!div_round, div_round, Btc!SetBit, SetBit, Btc!ONE, ONE
<1>10. ASSUME NEW a, NEW b PROVE Btc!quotient(a, b) = quotient(a, b)
  <2> DEFINE shift == bits(a) - bits(b)
             same  == Btc!bits(a) - Btc!bits(b)
             Runs(g) == g = [i \in 0 .. shift + 1 |->
               IF i = 0
                 THEN [sub_copy |-> a, shift_copy |-> wrapping_shl(b, shift), ret |-> ZERO]
                 ELSE div_round(g[i - 1], shift - i + 1)]
             Same(g) == g = [i \in 0 .. same + 1 |->
               IF i = 0
                 THEN [sub_copy |-> a, shift_copy |-> Btc!wrapping_shl(b, same), ret |-> Btc!ZERO]
                 ELSE Btc!div_round(g[i - 1], same - i + 1)]
             run  == CHOOSE g : Runs(g)
             run2 == CHOOSE g : Same(g)
  <2>1. quotient(a, b) = IF shift < 0 THEN ZERO ELSE run[shift + 1].ret
    BY DEF quotient, div_rem
  <2>2. Btc!quotient(a, b) = IF same < 0 THEN Btc!ZERO ELSE run2[same + 1].ret
    BY DEF Btc!quotient, Btc!div_rem
  <2>3. same = shift /\ Btc!ZERO = ZERO
    BY <1>4 DEF Btc!ZERO, ZERO
  <2> HIDE DEF shift, same
  <2>4. \A g : Same(g) <=> Runs(g)
    BY <1>3, <1>9, <2>3
  <2> HIDE DEF Runs, Same
  <2>5. run2 = run
    BY <2>4, Zenon
  <2> HIDE DEF run, run2
  <2> QED
    BY <2>1, <2>2, <2>3, <2>5
<1>11. \A p, t : Btc!limited_bits(p, t) = limited_bits(p, t)
  BY BtcNumbers, <1>6 DEF Btc!limited_bits, limited_bits
<1>12. \A h : Btc!TargetOf(h) = TargetOf(h)
  BY BtcNumbers, <1>5 DEF Btc!TargetOf, TargetOf
<1>13. \A v : Btc!LimitedCompact(v) = LimitedCompact(v)
  BY BtcNumbers, <1>7 DEF Btc!LimitedCompact, LimitedCompact
<1> QED
  BY <1>1, <1>3, <1>4, <1>5, <1>10, <1>11, <1>12, <1>13

LEMMA BtcLookups ==
  /\ \A s, h, n : Btc!get_prev_headers(s, h, n) = get_prev_headers(s, h, n)
  /\ \A s, n : Btc!get_header_by_height(s, n) = get_header_by_height(s, n)
  /\ \A s, h : Btc!last_regular_bits(s, h) = last_regular_bits(s, h)
  /\ \A s, h, now : Btc!time_accepted(s, h, now) <=> time_accepted(s, h, now)
  /\ \A h, n : Btc!Ancestor(h, n) = Ancestor(h, n)
  /\ \A h : Btc!TrueHeight(h) = TrueHeight(h)
  /\ \A h, n : Btc!AncestorAt(h, n) = AncestorAt(h, n)
  /\ \A h, now : Btc!TimeIsValid(h, now) <=> TimeIsValid(h, now)
  /\ Btc!Initialised <=> Initialised
<1>1. \A s, h, n : Btc!get_prev_headers(s, h, n) = get_prev_headers(s, h, n)
  BY Zenon DEF Btc!get_prev_headers, get_prev_headers
<1>2. \A s, n : Btc!get_header_by_height(s, n) = get_header_by_height(s, n)
  BY Zenon DEF Btc!get_header_by_height, get_header_by_height
<1>3. \A s, h : Btc!last_regular_bits(s, h) = last_regular_bits(s, h)
  BY Zenon DEF Btc!last_regular_bits, last_regular_bits, Btc!get_prev_headers, get_prev_headers
<1>4. \A s, h, now : Btc!time_accepted(s, h, now) <=> time_accepted(s, h, now)
  BY Zenon DEF time_accepted, Btc!time_accepted,
     get_median_time_past, Btc!get_median_time_past, Median, Btc!Median,
     get_prev_headers, Btc!get_prev_headers, Cardinality, Btc!Cardinality,
     IsFiniteSet, Btc!IsFiniteSet
<1>5. \A h, n : Btc!Ancestor(h, n) = Ancestor(h, n)
  BY Zenon DEF Btc!Ancestor, Ancestor, Btc!HC!Ancestor, HC!Ancestor
<1>6. \A h : Btc!TrueHeight(h) = TrueHeight(h)
  BY Zenon DEF Btc!TrueHeight, TrueHeight
<1>7. \A h, n : Btc!AncestorAt(h, n) = AncestorAt(h, n)
  BY <1>5, <1>6 DEF Btc!AncestorAt, AncestorAt
<1>8. \A h, now : Btc!TimeIsValid(h, now) <=> TimeIsValid(h, now)
  BY Zenon DEF Btc!TimeIsValid, TimeIsValid, Btc!MedianTimePast, MedianTimePast,
     Btc!Ancestor, Ancestor, Btc!HC!Ancestor, HC!Ancestor, Btc!Range, Range,
     Cardinality, Btc!Cardinality, IsFiniteSet, Btc!IsFiniteSet
<1>9. Btc!Initialised <=> Initialised
  BY DEF Btc!Initialised, Initialised, Btc!EmptyStorage, EmptyStorage
<1> QED
  BY <1>1, <1>2, <1>3, <1>4, <1>5, <1>6, <1>7, <1>8, <1>9

\* A retarget computes what the rule says.
LEMMA BitcoinRetarget ==
  ASSUME Scales(Val(pow_limit), pow_target_timespan * 4),
         NEW p \in Hash, TargetOf(p) <= Val(pow_limit), NEW f \in Nat
  PROVE  LET m == Clamp(Time[p] - f, pow_target_timespan \div 4, pow_target_timespan * 4)
             v == (TargetOf(p) * m) \div pow_target_timespan
         IN  v \in 0 .. Size - 1 /\ Btc!calculate_next_work_required(p, f) = {LimitedCompact(v)}
<1> DEFINE T == pow_target_timespan
           m == Clamp(Time[p] - f, T \div 4, T * 4)
<1>1. m \in 0 .. T * 4
  BY SpanIn
<1> DEFINE product == overflowing_mul(target_from_bits(Bits[p]), m)
<1>2. Btc!calculate_next_work_required(p, f)
        = limited_bits(product, quotient(product.val, from(T)))
  BY BtcNumbers, BtcArithmetic DEF Btc!calculate_next_work_required
<1> HIDE DEF m
<1> QED
  BY <1>1, <1>2, RetargetIs DEF m

\* A checked header is within the limit, if the stored ones are.
LEMMA BitcoinLimited ==
  ASSUME Scales(Val(pow_limit), pow_target_timespan * 4), LimitHolds,
         NEW s, DOMAIN s.headers_pool \subseteq Limited,
         NEW h \in Hash, Prev[h] \in DOMAIN s.headers_pool,
         Bits[h] \in Btc!get_next_work_required(s, h)
  PROVE  TargetOf(h) <= Val(pow_limit)
<1> DEFINE p == Prev[h]
           height == s.headers_pool[p].block_height
           first == get_header_by_height(s, height - (difficulty_adjustment_interval - 1))
<1>1. p \in Hash /\ TargetOf(p) <= Val(pow_limit)
  BY DEF Limited, Mined
<1>2. \/ Bits[h] = Bits[p]
      \/ Bits[h] = proof_of_work_limit_bits
      \/ Bits[h] \in last_regular_bits(s, p)
      \/ first # NoHash /\ Bits[h] \in Btc!calculate_next_work_required(p, Time[first])
  BY BtcLookups, Zenon DEF Btc!get_next_work_required
<1>3. CASE Bits[h] = Bits[p]
  BY <1>1, <1>3 DEF TargetOf
<1>4. CASE Bits[h] = proof_of_work_limit_bits
  BY <1>4 DEF TargetOf, LimitHolds
<1>5. CASE Bits[h] \in last_regular_bits(s, p)
  BY <1>5, RegularLimited DEF TargetOf
<1>6. CASE first # NoHash /\ Bits[h] \in Btc!calculate_next_work_required(p, Time[first])
  <2>1. first \in DOMAIN s.headers_pool
    BY <1>6 DEF get_header_by_height
  <2>2. Time[first] \in Nat
    BY <2>1, FieldsAssumption DEF Limited, Mined
  <2> HIDE DEF first, p
  <2>3. PICK v \in 0 .. Size - 1 :
               Btc!calculate_next_work_required(p, Time[first]) = {LimitedCompact(v)}
    BY <1>1, <2>2, BitcoinRetarget
  <2>4. Bits[h] = LimitedCompact(v)
    BY <1>6, <2>3
  <2> QED
    BY <2>4, LimitedTarget DEF TargetOf
<1> QED
  BY <1>2, <1>3, <1>4, <1>5, <1>6

\* The bits a block on the tip must have are those of the rule.
LEMMA BitcoinBits ==
  ASSUME Inv, Initialised, Scales(Val(pow_limit), pow_target_timespan * 4),
         TipHeight \in Nat, TargetOf(saved.tip_blockhash) <= Val(pow_limit),
         HasBefore(TipHeight % difficulty_adjustment_interval),
         NEW h \in Hash, Prev[h] = saved.tip_blockhash
  PROVE  Btc!get_next_work_required(saved, h) = {Btc!NetworkBits(h)}
<1> DEFINE d == difficulty_adjustment_interval
           t == saved.tip_blockhash
           start(k) == AncestorAt(t, TrueHeight(h) - k)
           T == pow_target_timespan
<1>1. /\ t \in Hash /\ saved.headers_pool[t].block_height = TipHeight
      /\ TrueHeight(h) = TipHeight + 1
      /\ d \in Nat \ {0}
  BY TipIs, ConfigAssumption
<1>2. \A k \in Int : start(k) = Ancestor(t, k - 1)
  BY TipAncestorAt
<1>3. CASE TrueHeight(h) % d = 0
  <2> DEFINE f == Ancestor(t, d - 1)
             m == Clamp(Time[t] - Time[f], T \div 4, T * 4)
  <2>1. TipHeight % d = d - 1
    BY <1>1, <1>3, LastOfInterval
  <2>2. d - 1 \in Nat /\ HasBefore(d - 1)
    BY <1>1, <2>1
  <2>3. /\ f \in Hash /\ f # NoHash
        /\ get_header_by_height(saved, TipHeight - (d - 1)) = f
    BY <2>2, TipReads
  <2>4. Btc!get_next_work_required(saved, h) = Btc!calculate_next_work_required(t, Time[f])
    BY <1>1, <1>3, <2>3, BtcLookups DEF Btc!get_next_work_required
  <2>5. Time[f] \in Nat
    BY <2>3, FieldsAssumption
  <2>6. Btc!calculate_next_work_required(t, Time[f]) = {LimitedCompact((TargetOf(t) * m) \div T)}
    BY <1>1, <2>5, BitcoinRetarget
  <2>7. start(d) = f
    BY <1>1, <1>2
  <2>8. Btc!NetworkBits(h) = LimitedCompact((TargetOf(t) * m) \div T)
    BY <1>3, <2>7, BtcLookups, BtcArithmetic, BtcNumbers DEF Btc!NetworkBits
  <2> QED
    BY <2>4, <2>6, <2>8
<1>4. CASE TrueHeight(h) % d # 0
  <2> DEFINE special(k) == Bits[start(k)] = proof_of_work_limit_bits /\ (TrueHeight(h) - k) % d # 0
             nearest == CHOOSE k \in 1 .. d : ~special(k) /\ \A j \in 1 .. k - 1 : special(j)
  <2>1. PICK i \in 0 .. d - 1 :
               IsNearest(i) /\ last_regular_bits(saved, t) = {Bits[Ancestor(t, i)]}
    BY RegularIs
  <2>2. \A k \in Int : special(k) <=> ~Regular(k - 1)
    <3> SUFFICES ASSUME NEW k \in Int PROVE special(k) <=> ~Regular(k - 1)
      OBVIOUS
    <3>1. TrueHeight(h) - k = TipHeight - (k - 1)
      BY <1>1
    <3> QED
      BY <1>2, <3>1 DEF Regular
  <2>3. nearest = CHOOSE k \in 1 .. d : Regular(k - 1) /\ \A j \in 1 .. k - 1 : ~Regular(j - 1)
    <3>1. \A k : k \in 1 .. d =>
             ((~special(k) /\ \A j \in 1 .. k - 1 : special(j))
               <=> (Regular(k - 1) /\ \A j \in 1 .. k - 1 : ~Regular(j - 1)))
      BY <1>1, <2>2
    <3> HIDE DEF special
    <3> QED
      BY <3>1
  <2>4. nearest = i + 1
    BY <2>1, <2>3, NearestIs
  <2>5. Btc!NetworkBits(h) =
          IF ~pow_allow_min_difficulty_blocks THEN Bits[t]
          ELSE IF Time[h] > Time[t] + 2 * pow_target_spacing THEN proof_of_work_limit_bits
          ELSE Bits[start(nearest)]
    <3>1. \A k : Btc!AncestorAt(t, TrueHeight(h) - k) = start(k)
      BY BtcLookups
    <3>2. Btc!TrueHeight(h) = TrueHeight(h)
      BY BtcLookups
    <3> DEFINE Special(k) == Bits[Btc!AncestorAt(t, TrueHeight(h) - k)] = proof_of_work_limit_bits
                               /\ (TrueHeight(h) - k) % d # 0
    <3>3. Btc!NetworkBits(h) =
            IF ~pow_allow_min_difficulty_blocks THEN Bits[t]
            ELSE IF Time[h] > Time[t] + 2 * pow_target_spacing THEN proof_of_work_limit_bits
            ELSE Bits[Btc!AncestorAt(t, TrueHeight(h) -
                        (CHOOSE k \in 1 .. d : ~Special(k) /\ \A j \in 1 .. k - 1 : Special(j)))]
      BY <1>4, <3>2 DEF Btc!NetworkBits
    <3> QED
      BY <3>1, <3>3, Zenon
  <2>6. Btc!get_next_work_required(saved, h) =
          IF ~pow_allow_min_difficulty_blocks THEN {Bits[t]}
          ELSE IF Time[h] > Time[t] + 2 * pow_target_spacing THEN {proof_of_work_limit_bits}
          ELSE last_regular_bits(saved, t)
    BY <1>1, <1>4, BtcLookups DEF Btc!get_next_work_required
  <2> HIDE DEF nearest, special, start
  <2>7. start(nearest) = Ancestor(t, i)
    BY <1>1, <1>2, <2>1, <2>4
  <2> QED
    BY <2>1, <2>5, <2>6, <2>7
<1> QED
  BY <1>3, <1>4

\* The start of the tip's interval is stored.
LEMMA BitcoinDepth ==
  ASSUME Inv, PoolInv(Mined), TallInv(MEDIAN_TIME_SPAN), KeptInv, Initialised,
         Chain = "bitcoin", KeepsBlocks(difficulty_adjustment_interval - 1)
  PROVE  TipHeight \in Nat /\ HasBefore(TipHeight % difficulty_adjustment_interval)
<1> DEFINE d == difficulty_adjustment_interval
           lo == TrueHeight(saved.initial_blockhash)
<1>1. d \in Nat \ {0} /\ d - 1 \in Nat /\ GenesisHeight \in Nat /\ MEDIAN_TIME_SPAN \in Nat
  BY ConfigAssumption, ParametersAssumption, SpanAssumption
<1>2. lo \in Int /\ TipHeight \in Int
  BY InitialisedChain DEF TipHeight
<1>3. lo = GenesisHeight \/ lo <= TipHeight - (d - 1)
  BY <1>1, KeptDepth DEF TipHeight
<1>4. TipHeight >= GenesisHeight + MEDIAN_TIME_SPAN /\ GenesisHeight % d = 0
  BY DEF TallInv, TipHeight, init_requires
<1>5. TipHeight \in Nat /\ GenesisHeight <= TipHeight
  BY <1>1, <1>2, <1>4
<1>6. TipHeight % d \in 0 .. d - 1 /\ GenesisHeight <= TipHeight - (TipHeight % d)
  BY <1>1, <1>4, <1>5, LastMultiple
<1> DEFINE m == TipHeight % d
<1>7. lo <= TipHeight - m
  <2>1. m \in 0 .. d - 1 /\ GenesisHeight <= TipHeight - m
    BY <1>6
  <2> HIDE DEF m, lo, d
  <2> QED
    BY <1>1, <1>2, <1>3, <2>1
<1> QED
  BY <1>5, <1>7 DEF HasBefore

\* Bitcoin: the check of a block on the tip decides what the network's rule
\* does, in a deployment that has what the rule goes back to.
THEOREM BitcoinTheorem ==
  ASSUME \A s, h, now : CheckTarget(s, h, now) <=> Btc!check_pow(s, h, now),
         \A h, now : NetworkAccepts(h, now) <=> Btc!IsValid(h, now),
         Chain = "bitcoin", ~skip_pow_verification, InitIsChain,
         KeepsBlocks(MEDIAN_TIME_SPAN), KeepsBlocks(difficulty_adjustment_interval - 1),
         Scales(Val(pow_limit), pow_target_timespan * 4), LimitHolds
  PROVE  Spec => []TipChildJudgedByNetwork
<1>1. ReadsBack(MEDIAN_TIME_SPAN) /\ MEDIAN_TIME_SPAN \in Nat
  <2>1. \A s, h, now : CheckTarget(s, h, now) => ChecksMedian(s, h)
    BY BitcoinChecks
  <2> QED
    BY <2>1, MedianReadsBack, SpanAssumption
<1>2. Closed(Limited) /\ Limited \in SUBSET Mined
  <2>1. ASSUME NEW s, NEW h, NEW now,
               IsStorage(s) /\ DOMAIN s.headers_pool \subseteq Limited,
               h \in Hash /\ Prev[h] \in DOMAIN s.headers_pool,
               CheckTarget(s, h, now)
        PROVE  TargetOf(h) <= Val(pow_limit)
    <3>1. Bits[h] \in Btc!get_next_work_required(s, h)
      BY <2>1 DEF Btc!check_pow
    <3> QED
      BY <2>1, <3>1, BitcoinLimited
  <2> QED
    BY <2>1, LimitedClosed
<1>3. ASSUME LongInv(MEDIAN_TIME_SPAN, Limited)
      PROVE  TipChildJudgedByNetwork
  <2>0. Inv /\ PoolInv(Limited) /\ PoolInv(Mined) /\ TallInv(MEDIAN_TIME_SPAN) /\ KeptInv
    BY <1>3 DEF LongInv
  <2> SUFFICES ASSUME Initialised, NEW h \in Hash, Prev[h] = saved.tip_blockhash
               PROVE  Btc!check_pow(saved, h, clock) <=> Btc!IsValid(h, clock)
    BY DEF TipChildJudgedByNetwork, JudgedByNetwork
  <2>1. TargetOf(saved.tip_blockhash) <= Val(pow_limit)
    BY <2>0, InitialisedChain DEF PoolInv, Limited
  <2>2. TipHeight \in Nat /\ HasBefore(TipHeight % difficulty_adjustment_interval)
    BY <2>0, BitcoinDepth
  <2>3. Btc!get_next_work_required(saved, h) = {Btc!NetworkBits(h)}
    BY <2>0, <2>1, <2>2, BitcoinBits
  <2>4. time_accepted(saved, h, clock) <=> TimeIsValid(h, clock)
    BY <1>1, <2>0, LongDepth, TipTime
  <2> QED
    BY <2>3, <2>4, BtcLookups DEF Btc!check_pow, Btc!IsValid
<1>4. Init => LongInv(MEDIAN_TIME_SPAN, Limited)
  BY InitLong
<1>5. LongInv(MEDIAN_TIME_SPAN, Limited) /\ [Next]_vars => LongInv(MEDIAN_TIME_SPAN, Limited)'
  BY <1>1, <1>2, NextLong
<1> QED
  BY <1>3, <1>4, <1>5, PTL DEF Spec

-----------------------------------------------------------------------------
(***************************************************************************)
(* Dogecoin.                                                               *)
(***************************************************************************)

\* The operators of Dogecoin are those of U256 and PowRules.
LEMMA DogeNumbers ==
  /\ \A n : Doge!Pow2(n) = Pow2(n)
  /\ Doge!Base = Base /\ Doge!Half = Half
  /\ \A n : Doge!Bytes(n) = Bytes(n)
  /\ Doge!Mantissa = Mantissa /\ Doge!SignBit = SignBit /\ Doge!Byte = Byte
  /\ \A a : Doge!Val(a) = Val(a)
  /\ \A n : Doge!from(n) = from(n)
  /\ \A a, b : Doge!Le(a, b) <=> Le(a, b)
  /\ \A n, lo, hi : Doge!Clamp(n, lo, hi) = Clamp(n, lo, hi)
<1>1. \A n : Doge!Pow2(n) = Pow2(n)
  BY Zenon DEF Doge!Pow2, Pow2
<1>2. Doge!Base = Base /\ Doge!Half = Half /\ Doge!Byte = Byte
  BY <1>1 DEF Doge!Base, Base, Doge!Half, Half, Doge!Byte, Byte
<1>3. \A n : Doge!Bytes(n) = Bytes(n)
  BY <1>1 DEF Doge!Bytes, Bytes
<1>4. Doge!Mantissa = Mantissa
  BY <1>3 DEF Doge!Mantissa, Mantissa
<1>5. Doge!SignBit = SignBit
  BY <1>4 DEF Doge!SignBit, SignBit
<1>6. \A a : Doge!Val(a) = Val(a)
  BY <1>2 DEF Doge!Val, Val
<1>7. \A n : Doge!from(n) = from(n)
  BY DEF Doge!from, from
<1>8. \A a, b : Doge!Le(a, b) <=> Le(a, b)
  BY DEF Doge!Le, Le
<1>9. \A n, lo, hi : Doge!Clamp(n, lo, hi) = Clamp(n, lo, hi)
  BY DEF Doge!Clamp, Clamp
<1> QED
  BY <1>1, <1>2, <1>3, <1>4, <1>5, <1>6, <1>7, <1>8, <1>9

LEMMA DogeArithmetic ==
  /\ \A a, r : Doge!overflowing_mul(a, r) = overflowing_mul(a, r)
  /\ \A a, r : Doge!wrapping_shl(a, r) = wrapping_shl(a, r) /\ Doge!wrapping_shr(a, r) = wrapping_shr(a, r)
  /\ \A a : Doge!bits(a) = bits(a)
  /\ \A a, b : Doge!quotient(a, b) = quotient(a, b)
  /\ \A b : Doge!target_from_bits(b) = target_from_bits(b)
  /\ \A p, t : Doge!limited_bits(p, t) = limited_bits(p, t)
  /\ \A h : Doge!TargetOf(h) = TargetOf(h)
  /\ \A v : Doge!LimitedCompact(v) = LimitedCompact(v)
<1>1. \A a, r : Doge!overflowing_mul(a, r) = overflowing_mul(a, r)
  BY DogeNumbers DEF Doge!overflowing_mul, overflowing_mul
<1>2. \A a, b : Doge!wrapping_add(a, b) = wrapping_add(a, b)
  BY DogeNumbers DEF Doge!wrapping_add, wrapping_add, Doge!overflowing_add, overflowing_add
<1>3. \A a, r : Doge!wrapping_shl(a, r) = wrapping_shl(a, r) /\ Doge!wrapping_shr(a, r) = wrapping_shr(a, r)
  BY DogeNumbers DEF Doge!wrapping_shl, wrapping_shl, Doge!wrapping_shr, wrapping_shr
<1>4. \A a : Doge!bits(a) = bits(a)
  BY Zenon DEF Doge!bits, bits, Doge!limb_bits, limb_bits, Doge!Pow2, Pow2
<1>5. \A b : Doge!target_from_bits(b) = target_from_bits(b)
  BY DogeNumbers, <1>3 DEF Doge!target_from_bits, target_from_bits, Doge!ZERO, ZERO
<1>6. \A a : Doge!target_to_bits(a) = target_to_bits(a)
  BY DogeNumbers, <1>3, <1>4 DEF Doge!target_to_bits, target_to_bits
<1>7. \A v : Doge!CompactForm(v) = CompactForm(v)
  BY Zenon DEF Doge!CompactForm, CompactForm, Doge!Bytes, Bytes, Doge!Pow2, Pow2, Doge!Mantissa, Mantissa
<1>8. \A a, b : Doge!wrapping_sub(a, b) = wrapping_sub(a, b)
  BY DogeNumbers, <1>2 DEF Doge!wrapping_sub, wrapping_sub, Doge!overflowing_sub, overflowing_sub,
     Doge!Not, Not, Doge!ONE, ONE
<1>9. \A r, k : Doge!div_round(r, k) = div_round(r, k)
  BY DogeNumbers, <1>2, <1>3, <1>8 DEF Doge!div_round, div_round, Doge!SetBit, SetBit, Doge!ONE, ONE
<1>10. ASSUME NEW a, NEW b PROVE Doge!quotient(a, b) = quotient(a, b)
  <2> DEFINE shift == bits(a) - bits(b)
             same  == Doge!bits(a) - Doge!bits(b)
             Runs(g) == g = [i \in 0 .. shift + 1 |->
               IF i = 0
                 THEN [sub_copy |-> a, shift_copy |-> wrapping_shl(b, shift), ret |-> ZERO]
                 ELSE div_round(g[i - 1], shift - i + 1)]
             Same(g) == g = [i \in 0 .. same + 1 |->
               IF i = 0
                 THEN [sub_copy |-> a, shift_copy |-> Doge!wrapping_shl(b, same), ret |-> Doge!ZERO]
                 ELSE Doge!div_round(g[i - 1], same - i + 1)]
             run  == CHOOSE g : Runs(g)
             run2 == CHOOSE g : Same(g)
  <2>1. quotient(a, b) = IF shift < 0 THEN ZERO ELSE run[shift + 1].ret
    BY DEF quotient, div_rem
  <2>2. Doge!quotient(a, b) = IF same < 0 THEN Doge!ZERO ELSE run2[same + 1].ret
    BY DEF Doge!quotient, Doge!div_rem
  <2>3. same = shift /\ Doge!ZERO = ZERO
    BY <1>4 DEF Doge!ZERO, ZERO
  <2> HIDE DEF shift, same
  <2>4. \A g : Same(g) <=> Runs(g)
    BY <1>3, <1>9, <2>3
  <2> HIDE DEF Runs, Same
  <2>5. run2 = run
    BY <2>4, Zenon
  <2> HIDE DEF run, run2
  <2> QED
    BY <2>1, <2>2, <2>3, <2>5
<1>11. \A p, t : Doge!limited_bits(p, t) = limited_bits(p, t)
  BY DogeNumbers, <1>6 DEF Doge!limited_bits, limited_bits
<1>12. \A h : Doge!TargetOf(h) = TargetOf(h)
  BY DogeNumbers, <1>5 DEF Doge!TargetOf, TargetOf
<1>13. \A v : Doge!LimitedCompact(v) = LimitedCompact(v)
  BY DogeNumbers, <1>7 DEF Doge!LimitedCompact, LimitedCompact
<1> QED
  BY <1>1, <1>3, <1>4, <1>5, <1>10, <1>11, <1>12, <1>13

LEMMA DogeLookups ==
  /\ \A s, h, n : Doge!get_prev_headers(s, h, n) = get_prev_headers(s, h, n)
  /\ \A s, n : Doge!get_header_by_height(s, n) = get_header_by_height(s, n)
  /\ \A s, h : Doge!last_regular_bits(s, h) = last_regular_bits(s, h)
  /\ \A s, h, now : Doge!time_accepted(s, h, now) <=> time_accepted(s, h, now)
  /\ \A h, n : Doge!Ancestor(h, n) = Ancestor(h, n)
  /\ \A h : Doge!TrueHeight(h) = TrueHeight(h)
  /\ \A h, n : Doge!AncestorAt(h, n) = AncestorAt(h, n)
  /\ \A h, now : Doge!TimeIsValid(h, now) <=> TimeIsValid(h, now)
  /\ Doge!Initialised <=> Initialised
<1>1. \A s, h, n : Doge!get_prev_headers(s, h, n) = get_prev_headers(s, h, n)
  BY Zenon DEF Doge!get_prev_headers, get_prev_headers
<1>2. \A s, n : Doge!get_header_by_height(s, n) = get_header_by_height(s, n)
  BY Zenon DEF Doge!get_header_by_height, get_header_by_height
<1>3. \A s, h : Doge!last_regular_bits(s, h) = last_regular_bits(s, h)
  BY Zenon DEF Doge!last_regular_bits, last_regular_bits, Doge!get_prev_headers, get_prev_headers
<1>4. \A s, h, now : Doge!time_accepted(s, h, now) <=> time_accepted(s, h, now)
  BY Zenon DEF time_accepted, Doge!time_accepted,
     get_median_time_past, Doge!get_median_time_past, Median, Doge!Median,
     get_prev_headers, Doge!get_prev_headers, Cardinality, Doge!Cardinality,
     IsFiniteSet, Doge!IsFiniteSet
<1>5. \A h, n : Doge!Ancestor(h, n) = Ancestor(h, n)
  BY Zenon DEF Doge!Ancestor, Ancestor, Doge!HC!Ancestor, HC!Ancestor
<1>6. \A h : Doge!TrueHeight(h) = TrueHeight(h)
  BY Zenon DEF Doge!TrueHeight, TrueHeight
<1>7. \A h, n : Doge!AncestorAt(h, n) = AncestorAt(h, n)
  BY <1>5, <1>6 DEF Doge!AncestorAt, AncestorAt
<1>8. \A h, now : Doge!TimeIsValid(h, now) <=> TimeIsValid(h, now)
  BY Zenon DEF Doge!TimeIsValid, TimeIsValid, Doge!MedianTimePast, MedianTimePast,
     Doge!Ancestor, Ancestor, Doge!HC!Ancestor, HC!Ancestor, Doge!Range, Range,
     Cardinality, Doge!Cardinality, IsFiniteSet, Doge!IsFiniteSet
<1>9. Doge!Initialised <=> Initialised
  BY DEF Doge!Initialised, Initialised, Doge!EmptyStorage, EmptyStorage
<1> QED
  BY <1>1, <1>2, <1>3, <1>4, <1>5, <1>6, <1>7, <1>8, <1>9

\* A quotient that is rounded towards zero.
LEMMA QuotientIs ==
  ASSUME NEW e \in Int
  PROVE  /\ Quotient(e, 8) \in Int
         /\ e >= 0 => 8 * Quotient(e, 8) <= e /\ e < 8 * (Quotient(e, 8) + 1)
         /\ e < 0 => 8 * (Quotient(e, 8) - 1) < e /\ e <= 8 * Quotient(e, 8)
BY DEF Quotient

\* The rule's way to say how a time span is damped.
LEMMA DampedIs ==
  ASSUME NEW a \in Nat, NEW b \in Nat
  PROVE  (CHOOSE n \in -(a + pow_target_timespan) .. b :
            IF b - a - pow_target_timespan >= 0
              THEN 8 * n <= b - a - pow_target_timespan /\ b - a - pow_target_timespan < 8 * (n + 1)
              ELSE 8 * (n - 1) < b - a - pow_target_timespan /\ b - a - pow_target_timespan <= 8 * n)
           = Quotient(b - a - pow_target_timespan, 8)
<1> DEFINE T == pow_target_timespan
           e == b - a - T
           q == Quotient(e, 8)
           Is(n) == /\ n \in -(a + T) .. b
                    /\ IF e >= 0 THEN 8 * n <= e /\ e < 8 * (n + 1)
                                 ELSE 8 * (n - 1) < e /\ e <= 8 * n
<1>1. T \in Nat /\ e \in Int
  BY ConfigAssumption
<1>2. /\ q \in Int
      /\ e >= 0 => 8 * q <= e /\ e < 8 * (q + 1)
      /\ e < 0 => 8 * (q - 1) < e /\ e <= 8 * q
  BY <1>1, QuotientIs
<1> HIDE DEF q, T
<1>3. Is(q)
  BY <1>1, <1>2
<1>4. ASSUME NEW n, Is(n) PROVE n = q
  <2>1. n \in Int
    BY <1>1, <1>4
  <2> QED
    BY <1>1, <1>2, <1>4, <2>1
<1>5. (CHOOSE n \in -(a + T) .. b :
          IF e >= 0 THEN 8 * n <= e /\ e < 8 * (n + 1)
                    ELSE 8 * (n - 1) < e /\ e <= 8 * n) = CHOOSE n : Is(n)
  OBVIOUS
<1> HIDE DEF Is, e
<1>6. (CHOOSE n : Is(n)) = q
  BY <1>3, <1>4
<1> QED
  BY <1>5, <1>6 DEF e, q, T

\* The damped and limited time span of a retarget.
LEMMA DampedIn ==
  ASSUME NEW x \in Int
  PROVE  LET T == pow_target_timespan
         IN  Clamp(T + x, T - T \div 4, T + T \div 2) \in 0 .. T + T \div 2
<1> DEFINE T == pow_target_timespan
           n == T + x
           lo == T - T \div 4
           hi == T + T \div 2
<1>1. n \in Int /\ lo \in Nat /\ hi \in Nat /\ lo <= hi
  <2>1. T \in Nat
    BY ConfigAssumption
  <2> HIDE DEF T
  <2> QED
    BY <2>1
<1>2. Clamp(n, lo, hi) \in 0 .. hi
  <2> HIDE DEF n, lo, hi
  <2>1. lo \in Int /\ hi \in Int
    BY <1>1
  <2>2. Clamp(n, lo, hi) \in lo .. hi
    BY <1>1, <2>1, ClampIn
  <2> QED
    BY <1>1, <2>2
<1> QED
  BY <1>2

\* A retarget computes what the rule says.
LEMMA DogecoinRetarget ==
  ASSUME Scales(Val(pow_limit), pow_target_timespan + pow_target_timespan \div 2),
         NEW p \in Hash, TargetOf(p) <= Val(pow_limit), NEW f \in Nat
  PROVE  LET T == pow_target_timespan
             m == Clamp(T + Quotient(Time[p] - f - T, 8), T - T \div 4, T + T \div 2)
             v == (TargetOf(p) * m) \div T
         IN  v \in 0 .. Size - 1 /\ Doge!calculate_next_work_required(p, f) = {LimitedCompact(v)}
<1> DEFINE T == pow_target_timespan
           m == Clamp(T + Quotient(Time[p] - f - T, 8), T - T \div 4, T + T \div 2)
<1>1. m \in 0 .. T + T \div 2
  <2>1. Time[p] - f - T \in Int
    BY FieldsAssumption, ConfigAssumption
  <2>2. Quotient(Time[p] - f - T, 8) \in Int
    BY <2>1, QuotientIs
  <2> QED
    BY <2>2, DampedIn
<1> DEFINE product == overflowing_mul(target_from_bits(Bits[p]), m)
<1>2. Doge!calculate_next_work_required(p, f)
        = limited_bits(product, quotient(product.val, from(T)))
  <2>1. \A a, b : Doge!Quotient(a, b) = Quotient(a, b)
    BY DEF Doge!Quotient, Quotient
  <2> QED
    BY <2>1, DogeNumbers, DogeArithmetic DEF Doge!calculate_next_work_required
<1> HIDE DEF m
<1> QED
  BY <1>1, <1>2, RetargetIs DEF m

\* A checked header is within the limit, if the stored ones are.
LEMMA DogecoinLimited ==
  ASSUME Scales(Val(pow_limit), pow_target_timespan + pow_target_timespan \div 2), LimitHolds,
         NEW s, DOMAIN s.headers_pool \subseteq Limited,
         NEW h \in Hash, Prev[h] \in DOMAIN s.headers_pool,
         Bits[h] \in Doge!get_next_work_required(s, h)
  PROVE  TargetOf(h) <= Val(pow_limit)
<1> DEFINE p == Prev[h]
<1>1. p \in Hash /\ TargetOf(p) <= Val(pow_limit)
  BY DEF Limited, Mined
<1>2. \/ Bits[h] = Bits[p]
      \/ Bits[h] = proof_of_work_limit_bits
      \/ Bits[h] \in last_regular_bits(s, p)
      \/ \E k : LET first == get_header_by_height(s, k)
                IN  first # NoHash /\ Bits[h] \in Doge!calculate_next_work_required(p, Time[first])
  BY DogeLookups, Zenon DEF Doge!get_next_work_required
<1>3. CASE Bits[h] = Bits[p]
  BY <1>1, <1>3 DEF TargetOf
<1>4. CASE Bits[h] = proof_of_work_limit_bits
  BY <1>4 DEF TargetOf, LimitHolds
<1>5. CASE Bits[h] \in last_regular_bits(s, p)
  BY <1>5, RegularLimited DEF TargetOf
<1>6. ASSUME NEW k, LET first == get_header_by_height(s, k)
                    IN  first # NoHash
                        /\ Bits[h] \in Doge!calculate_next_work_required(p, Time[first])
      PROVE  TargetOf(h) <= Val(pow_limit)
  <2> DEFINE first == get_header_by_height(s, k)
  <2>1. first \in DOMAIN s.headers_pool
    BY <1>6 DEF get_header_by_height
  <2>2. Time[first] \in Nat
    BY <2>1, FieldsAssumption DEF Limited, Mined
  <2>3. Bits[h] \in Doge!calculate_next_work_required(p, Time[first])
    BY <1>6
  <2> HIDE DEF first, p
  <2>4. PICK v \in 0 .. Size - 1 :
               Doge!calculate_next_work_required(p, Time[first]) = {LimitedCompact(v)}
    BY <1>1, <2>2, DogecoinRetarget
  <2>5. Bits[h] = LimitedCompact(v)
    BY <2>3, <2>4
  <2> QED
    BY <2>5, LimitedTarget DEF TargetOf
<1> QED
  BY <1>2, <1>3, <1>4, <1>5, <1>6

\* The bits a block on the tip must have are those of the rule.
LEMMA DogecoinBits ==
  ASSUME Inv, Initialised,
         Scales(Val(pow_limit), pow_target_timespan + pow_target_timespan \div 2),
         DigishieldHeight \in Int, TipHeight >= DigishieldHeight, TipHeight >= 1,
         TargetOf(saved.tip_blockhash) <= Val(pow_limit), HasBefore(1),
         NEW h \in Hash, Prev[h] = saved.tip_blockhash
  PROVE  Doge!get_next_work_required(saved, h) = {Doge!NetworkBits(h)}
<1> DEFINE t == saved.tip_blockhash
           f == Prev[t]
           T == pow_target_timespan
           q == Quotient(Time[t] - Time[f] - T, 8)
           v == (TargetOf(t) * Clamp(T + q, T - T \div 4, T + T \div 2)) \div T
           late == Time[h] > Time[t] + 2 * pow_target_spacing
           easy == pow_allow_min_difficulty_blocks /\ TipHeight >= MinDifficultyHeight /\ late
<1>1. /\ t \in Hash /\ saved.headers_pool[t].block_height = TipHeight
      /\ TipHeight \in Int /\ TrueHeight(t) = TipHeight
  BY TipIs DEF TipHeight
<1>2. f \in Hash /\ f # NoHash /\ get_header_by_height(saved, TipHeight - 1) = f
  BY <1>1, TipReads, FirstAncestors
<1>3. Time[f] \in Nat /\ Time[t] \in Nat /\ Time[h] \in Nat /\ pow_target_spacing \in Nat
  BY <1>1, <1>2, FieldsAssumption, ConfigAssumption
<1>4. Doge!allow_min_difficulty_for_block(saved, h) <=> easy
  <2>1. pow_target_spacing * 2 = 2 * pow_target_spacing
    BY <1>3
  <2> QED
    BY <1>1, <2>1 DEF Doge!allow_min_difficulty_for_block
<1>5. Doge!calculate_next_work_required(t, Time[f]) = {LimitedCompact(v)}
  BY <1>1, <1>3, DogecoinRetarget
<1>6. Doge!get_next_work_required(saved, h)
        = IF easy THEN {proof_of_work_limit_bits} ELSE {LimitedCompact(v)}
  <2>1. /\ (TipHeight + 1) % 1 = 0 /\ TipHeight + 1 # 1 /\ ~(TipHeight < 1)
        /\ TipHeight >= DigishieldHeight
    BY <1>1
  <2> HIDE DEF easy, v, f
  <2> QED
    BY <1>1, <1>2, <1>4, <1>5, <2>1, DogeLookups DEF Doge!get_next_work_required
<1>7. Doge!NetworkBits(h) = IF easy THEN proof_of_work_limit_bits ELSE LimitedCompact(v)
  <2> DEFINE e == Time[t] - Time[f] - T
             damped == CHOOSE n \in -(Time[f] + T) .. Time[t] :
                         IF e >= 0 THEN 8 * n <= e /\ e < 8 * (n + 1)
                                   ELSE 8 * (n - 1) < e /\ e <= 8 * n
  <2>1. damped = q
    BY <1>3, DampedIs
  <2>2. Doge!NetworkBits(h) =
          IF /\ pow_allow_min_difficulty_blocks
             /\ TipHeight >= MinDifficultyHeight
             /\ Time[h] - Time[t] > 2 * pow_target_spacing
            THEN proof_of_work_limit_bits
            ELSE LimitedCompact((TargetOf(t) * Clamp(T + damped, T - T \div 4, T + T \div 2)) \div T)
    BY <1>1, DogeLookups, DogeArithmetic, DogeNumbers DEF Doge!NetworkBits
  <2>3. Time[h] - Time[t] > 2 * pow_target_spacing <=> late
    BY <1>3
  <2> HIDE DEF damped, q, late
  <2> QED
    BY <2>1, <2>2, <2>3
<1> HIDE DEF easy, v
<1> QED
  BY <1>6, <1>7

\* Dogecoin, from the height on where every block retargets: the check of a
\* block on the tip decides what the network's rule does.
THEOREM DogecoinTheorem ==
  ASSUME \A s, h, now : CheckTarget(s, h, now) <=> Doge!check_pow(s, h, now),
         \A h, now : NetworkAccepts(h, now) <=> Doge!IsValid(h, now),
         Chain = "dogecoin", ~skip_pow_verification, InitIsChain,
         DigishieldHeight \in Int, GenesisHeight >= DigishieldHeight,
         KeepsBlocks(MEDIAN_TIME_SPAN),
         Scales(Val(pow_limit), pow_target_timespan + pow_target_timespan \div 2), LimitHolds
  PROVE  Spec => []TipChildJudgedByNetwork
<1>1. ReadsBack(MEDIAN_TIME_SPAN) /\ MEDIAN_TIME_SPAN \in Nat
  <2>1. \A s, h, now : CheckTarget(s, h, now) => ChecksMedian(s, h)
    BY DogecoinChecks
  <2> QED
    BY <2>1, MedianReadsBack, SpanAssumption
<1>2. Closed(Limited) /\ Limited \in SUBSET Mined
  <2>1. ASSUME NEW s, NEW h, NEW now,
               IsStorage(s) /\ DOMAIN s.headers_pool \subseteq Limited,
               h \in Hash /\ Prev[h] \in DOMAIN s.headers_pool,
               CheckTarget(s, h, now)
        PROVE  TargetOf(h) <= Val(pow_limit)
    <3>1. Bits[h] \in Doge!get_next_work_required(s, h)
      BY <2>1 DEF Doge!check_pow
    <3> QED
      BY <2>1, <3>1, DogecoinLimited
  <2> QED
    BY <2>1, LimitedClosed
<1>3. ASSUME LongInv(MEDIAN_TIME_SPAN, Limited)
      PROVE  TipChildJudgedByNetwork
  <2>0. Inv /\ PoolInv(Limited) /\ PoolInv(Mined) /\ TallInv(MEDIAN_TIME_SPAN) /\ KeptInv
    BY <1>3 DEF LongInv
  <2> SUFFICES ASSUME Initialised, NEW h \in Hash, Prev[h] = saved.tip_blockhash
               PROVE  Doge!check_pow(saved, h, clock) <=> Doge!IsValid(h, clock)
    BY DEF TipChildJudgedByNetwork, JudgedByNetwork
  <2>1. TargetOf(saved.tip_blockhash) <= Val(pow_limit)
    BY <2>0, InitialisedChain DEF PoolInv, Limited
  <2>2. HasBefore(MEDIAN_TIME_SPAN)
    BY <1>1, <2>0, LongDepth
  <2>3. TipHeight >= DigishieldHeight /\ TipHeight >= 1 /\ HasBefore(1)
    <3>1. /\ TipHeight \in Int /\ TrueHeight(saved.initial_blockhash) \in Int
          /\ GenesisHeight \in Nat /\ MEDIAN_TIME_SPAN \in Nat \ {0}
      BY <2>0, InitialisedChain, ParametersAssumption, SpanAssumption DEF TipHeight
    <3>2. TipHeight >= GenesisHeight + MEDIAN_TIME_SPAN
      BY <2>0 DEF TallInv, TipHeight
    <3> QED
      BY <2>2, <3>1, <3>2 DEF HasBefore
  <2>4. Doge!get_next_work_required(saved, h) = {Doge!NetworkBits(h)}
    BY <2>0, <2>1, <2>3, DogecoinBits
  <2>5. time_accepted(saved, h, clock) <=> TimeIsValid(h, clock)
    BY <2>0, <2>2, TipTime
  <2> QED
    BY <2>4, <2>5, DogeLookups DEF Doge!check_pow, Doge!IsValid
<1>4. Init => LongInv(MEDIAN_TIME_SPAN, Limited)
  BY InitLong
<1>5. LongInv(MEDIAN_TIME_SPAN, Limited) /\ [Next]_vars => LongInv(MEDIAN_TIME_SPAN, Limited)'
  BY <1>1, <1>2, NextLong
<1> QED
  BY <1>3, <1>4, <1>5, PTL DEF Spec

-----------------------------------------------------------------------------
(***************************************************************************)
(* Litecoin.                                                               *)
(***************************************************************************)

\* The operators of Litecoin are those of U256 and PowRules.
LEMMA LtcNumbers ==
  /\ \A n : Ltc!Pow2(n) = Pow2(n)
  /\ Ltc!Base = Base /\ Ltc!Half = Half
  /\ \A n : Ltc!Bytes(n) = Bytes(n)
  /\ Ltc!Mantissa = Mantissa /\ Ltc!SignBit = SignBit /\ Ltc!Byte = Byte
  /\ \A a : Ltc!Val(a) = Val(a)
  /\ \A n : Ltc!from(n) = from(n)
  /\ \A a, b : Ltc!Le(a, b) <=> Le(a, b)
  /\ \A n, lo, hi : Ltc!Clamp(n, lo, hi) = Clamp(n, lo, hi)
<1>1. \A n : Ltc!Pow2(n) = Pow2(n)
  BY Zenon DEF Ltc!Pow2, Pow2
<1>2. Ltc!Base = Base /\ Ltc!Half = Half /\ Ltc!Byte = Byte
  BY <1>1 DEF Ltc!Base, Base, Ltc!Half, Half, Ltc!Byte, Byte
<1>3. \A n : Ltc!Bytes(n) = Bytes(n)
  BY <1>1 DEF Ltc!Bytes, Bytes
<1>4. Ltc!Mantissa = Mantissa
  BY <1>3 DEF Ltc!Mantissa, Mantissa
<1>5. Ltc!SignBit = SignBit
  BY <1>4 DEF Ltc!SignBit, SignBit
<1>6. \A a : Ltc!Val(a) = Val(a)
  BY <1>2 DEF Ltc!Val, Val
<1>7. \A n : Ltc!from(n) = from(n)
  BY DEF Ltc!from, from
<1>8. \A a, b : Ltc!Le(a, b) <=> Le(a, b)
  BY DEF Ltc!Le, Le
<1>9. \A n, lo, hi : Ltc!Clamp(n, lo, hi) = Clamp(n, lo, hi)
  BY DEF Ltc!Clamp, Clamp
<1> QED
  BY <1>1, <1>2, <1>3, <1>4, <1>5, <1>6, <1>7, <1>8, <1>9

LEMMA LtcArithmetic ==
  /\ \A a, r : Ltc!overflowing_mul(a, r) = overflowing_mul(a, r)
  /\ \A a, r : Ltc!wrapping_shl(a, r) = wrapping_shl(a, r) /\ Ltc!wrapping_shr(a, r) = wrapping_shr(a, r)
  /\ \A a : Ltc!bits(a) = bits(a)
  /\ \A a, b : Ltc!quotient(a, b) = quotient(a, b)
  /\ \A b : Ltc!target_from_bits(b) = target_from_bits(b)
  /\ \A p, t : Ltc!limited_bits(p, t) = limited_bits(p, t)
  /\ \A h : Ltc!TargetOf(h) = TargetOf(h)
  /\ \A v : Ltc!LimitedCompact(v) = LimitedCompact(v)
<1>1. \A a, r : Ltc!overflowing_mul(a, r) = overflowing_mul(a, r)
  BY LtcNumbers DEF Ltc!overflowing_mul, overflowing_mul
<1>2. \A a, b : Ltc!wrapping_add(a, b) = wrapping_add(a, b)
  BY LtcNumbers DEF Ltc!wrapping_add, wrapping_add, Ltc!overflowing_add, overflowing_add
<1>3. \A a, r : Ltc!wrapping_shl(a, r) = wrapping_shl(a, r) /\ Ltc!wrapping_shr(a, r) = wrapping_shr(a, r)
  BY LtcNumbers DEF Ltc!wrapping_shl, wrapping_shl, Ltc!wrapping_shr, wrapping_shr
<1>4. \A a : Ltc!bits(a) = bits(a)
  BY Zenon DEF Ltc!bits, bits, Ltc!limb_bits, limb_bits, Ltc!Pow2, Pow2
<1>5. \A b : Ltc!target_from_bits(b) = target_from_bits(b)
  BY LtcNumbers, <1>3 DEF Ltc!target_from_bits, target_from_bits, Ltc!ZERO, ZERO
<1>6. \A a : Ltc!target_to_bits(a) = target_to_bits(a)
  BY LtcNumbers, <1>3, <1>4 DEF Ltc!target_to_bits, target_to_bits
<1>7. \A v : Ltc!CompactForm(v) = CompactForm(v)
  BY Zenon DEF Ltc!CompactForm, CompactForm, Ltc!Bytes, Bytes, Ltc!Pow2, Pow2, Ltc!Mantissa, Mantissa
<1>8. \A a, b : Ltc!wrapping_sub(a, b) = wrapping_sub(a, b)
  BY LtcNumbers, <1>2 DEF Ltc!wrapping_sub, wrapping_sub, Ltc!overflowing_sub, overflowing_sub,
     Ltc!Not, Not, Ltc!ONE, ONE
<1>9. \A r, k : Ltc!div_round(r, k) = div_round(r, k)
  BY LtcNumbers, <1>2, <1>3, <1>8 DEF Ltc!div_round, div_round, Ltc!SetBit, SetBit, Ltc!ONE, ONE
<1>10. ASSUME NEW a, NEW b PROVE Ltc!quotient(a, b) = quotient(a, b)
  <2> DEFINE shift == bits(a) - bits(b)
             same  == Ltc!bits(a) - Ltc!bits(b)
             Runs(g) == g = [i \in 0 .. shift + 1 |->
               IF i = 0
                 THEN [sub_copy |-> a, shift_copy |-> wrapping_shl(b, shift), ret |-> ZERO]
                 ELSE div_round(g[i - 1], shift - i + 1)]
             Same(g) == g = [i \in 0 .. same + 1 |->
               IF i = 0
                 THEN [sub_copy |-> a, shift_copy |-> Ltc!wrapping_shl(b, same), ret |-> Ltc!ZERO]
                 ELSE Ltc!div_round(g[i - 1], same - i + 1)]
             run  == CHOOSE g : Runs(g)
             run2 == CHOOSE g : Same(g)
  <2>1. quotient(a, b) = IF shift < 0 THEN ZERO ELSE run[shift + 1].ret
    BY DEF quotient, div_rem
  <2>2. Ltc!quotient(a, b) = IF same < 0 THEN Ltc!ZERO ELSE run2[same + 1].ret
    BY DEF Ltc!quotient, Ltc!div_rem
  <2>3. same = shift /\ Ltc!ZERO = ZERO
    BY <1>4 DEF Ltc!ZERO, ZERO
  <2> HIDE DEF shift, same
  <2>4. \A g : Same(g) <=> Runs(g)
    BY <1>3, <1>9, <2>3
  <2> HIDE DEF Runs, Same
  <2>5. run2 = run
    BY <2>4, Zenon
  <2> HIDE DEF run, run2
  <2> QED
    BY <2>1, <2>2, <2>3, <2>5
<1>11. \A p, t : Ltc!limited_bits(p, t) = limited_bits(p, t)
  BY LtcNumbers, <1>6 DEF Ltc!limited_bits, limited_bits
<1>12. \A h : Ltc!TargetOf(h) = TargetOf(h)
  BY LtcNumbers, <1>5 DEF Ltc!TargetOf, TargetOf
<1>13. \A v : Ltc!LimitedCompact(v) = LimitedCompact(v)
  BY LtcNumbers, <1>7 DEF Ltc!LimitedCompact, LimitedCompact
<1> QED
  BY <1>1, <1>3, <1>4, <1>5, <1>10, <1>11, <1>12, <1>13

LEMMA LtcLookups ==
  /\ \A s, h, n : Ltc!get_prev_headers(s, h, n) = get_prev_headers(s, h, n)
  /\ \A s, n : Ltc!get_header_by_height(s, n) = get_header_by_height(s, n)
  /\ \A s, h : Ltc!last_regular_bits(s, h) = last_regular_bits(s, h)
  /\ \A s, h, now : Ltc!time_accepted(s, h, now) <=> time_accepted(s, h, now)
  /\ \A h, n : Ltc!Ancestor(h, n) = Ancestor(h, n)
  /\ \A h : Ltc!TrueHeight(h) = TrueHeight(h)
  /\ \A h, n : Ltc!AncestorAt(h, n) = AncestorAt(h, n)
  /\ \A h, now : Ltc!TimeIsValid(h, now) <=> TimeIsValid(h, now)
  /\ Ltc!Initialised <=> Initialised
<1>1. \A s, h, n : Ltc!get_prev_headers(s, h, n) = get_prev_headers(s, h, n)
  BY Zenon DEF Ltc!get_prev_headers, get_prev_headers
<1>2. \A s, n : Ltc!get_header_by_height(s, n) = get_header_by_height(s, n)
  BY Zenon DEF Ltc!get_header_by_height, get_header_by_height
<1>3. \A s, h : Ltc!last_regular_bits(s, h) = last_regular_bits(s, h)
  BY Zenon DEF Ltc!last_regular_bits, last_regular_bits, Ltc!get_prev_headers, get_prev_headers
<1>4. \A s, h, now : Ltc!time_accepted(s, h, now) <=> time_accepted(s, h, now)
  BY Zenon DEF time_accepted, Ltc!time_accepted,
     get_median_time_past, Ltc!get_median_time_past, Median, Ltc!Median,
     get_prev_headers, Ltc!get_prev_headers, Cardinality, Ltc!Cardinality,
     IsFiniteSet, Ltc!IsFiniteSet
<1>5. \A h, n : Ltc!Ancestor(h, n) = Ancestor(h, n)
  BY Zenon DEF Ltc!Ancestor, Ancestor, Ltc!HC!Ancestor, HC!Ancestor
<1>6. \A h : Ltc!TrueHeight(h) = TrueHeight(h)
  BY Zenon DEF Ltc!TrueHeight, TrueHeight
<1>7. \A h, n : Ltc!AncestorAt(h, n) = AncestorAt(h, n)
  BY <1>5, <1>6 DEF Ltc!AncestorAt, AncestorAt
<1>8. \A h, now : Ltc!TimeIsValid(h, now) <=> TimeIsValid(h, now)
  BY Zenon DEF Ltc!TimeIsValid, TimeIsValid, Ltc!MedianTimePast, MedianTimePast,
     Ltc!Ancestor, Ancestor, Ltc!HC!Ancestor, HC!Ancestor, Ltc!Range, Range,
     Cardinality, Ltc!Cardinality, IsFiniteSet, Ltc!IsFiniteSet
<1>9. Ltc!Initialised <=> Initialised
  BY DEF Ltc!Initialised, Initialised, Ltc!EmptyStorage, EmptyStorage
<1> QED
  BY <1>1, <1>2, <1>3, <1>4, <1>5, <1>6, <1>7, <1>8, <1>9

\* The shape of a target survives a shift by one to the right.
LEMMA HalfShape ==
  ASSUME NEW t \in 0 .. SignBit - 1, NEW k \in 0 .. 2 * LimbBits - 1, t * Pow2(k) \in Nat
  PROVE  \E t2 \in 0 .. SignBit - 1, k2 \in 0 .. 2 * LimbBits - 1 :
            ((t * Pow2(k)) % Size) \div 2 = (t2 * Pow2(k2)) % Size
<1>1. /\ LimbBits \in Nat \ {0} /\ SignBit \in Nat \ {0} /\ t \in Nat /\ k \in Nat
      /\ Base \in Nat \ {0} /\ Size \in Nat \ {0} /\ Size = Base * Base
      /\ SignBit <= Base
  BY WidthsAssumption, MantissaType, BaseType DEF Size
<1>2. CASE k = 0
  <2>1. Base <= Size
    BY <1>1
  <2>2. t * Pow2(0) = t /\ t \in 0 .. Size - 1
    BY <1>1, <2>1, Pow2Zero
  <2>3. (t * Pow2(0)) % Size = t
    BY <1>1, <2>2, ModSmall
  <2> DEFINE t2 == t \div 2
  <2>4. t2 \in 0 .. SignBit - 1 /\ t2 \in 0 .. Size - 1 /\ t2 * 1 = t2
    BY <1>1, <2>2
  <2>5. (t2 * Pow2(0)) % Size = t2
    BY <1>1, <2>4, Pow2Zero, ModSmall
  <2>6. 0 \in 0 .. 2 * LimbBits - 1
    BY <1>1
  <2> QED
    BY <1>2, <2>3, <2>4, <2>5, <2>6
<1>3. CASE k # 0
  <2> DEFINE j == k - 1
             P == Pow2(j)
             c == Pow2(2 * LimbBits - k)
             q == t \div c
             t2 == t % c
  <2>1. /\ j \in Nat /\ k = j + 1 /\ j \in 0 .. 2 * LimbBits - 1
        /\ 2 * LimbBits - k \in Nat /\ k + (2 * LimbBits - k) = LimbBits + LimbBits
    BY <1>1, <1>3
  <2>2. /\ P \in Nat \ {0} /\ c \in Nat \ {0} /\ Pow2(k) = 2 * P
    BY <2>1, Pow2Type, Pow2Step
  <2>3. Size = (2 * P) * c
    <3>1. Pow2(LimbBits + LimbBits) = Size
      BY <1>1, Pow2Add DEF Base
    <3>2. Pow2(k + (2 * LimbBits - k)) = Pow2(k) * c
      BY <1>1, <2>1, Pow2Add
    <3> QED
      BY <2>1, <2>2, <3>1, <3>2
  <2>4. q \in Nat /\ t2 \in Nat /\ t2 < c /\ t = q * c + t2
    BY <1>1, <2>2, DivModNat
  <2> HIDE DEF j, P, c, q, t2
  <2>5. t2 \in 0 .. SignBit - 1
    <3>1. q * c \in Nat
      BY <2>2, <2>4
    <3>2. t2 <= t /\ t < SignBit
      BY <1>1, <2>4, <3>1
    <3> QED
      BY <1>1, <2>4, <3>2
  <2> DEFINE r == t2 * P
  <2>6. r \in Nat /\ 2 * r < Size
    <3>1. r \in Nat /\ 2 * r = t2 * (2 * P)
      BY <2>2, <2>4
    <3>2. t2 * (2 * P) < c * (2 * P)
      BY <2>2, <2>4
    <3> QED
      BY <2>2, <2>3, <3>1, <3>2
  <2>7. t * Pow2(k) = q * Size + 2 * r
    <3>1. (q * c + t2) * (2 * P) = q * ((2 * P) * c) + 2 * (t2 * P)
      BY <2>2, <2>4
    <3> QED
      BY <2>2, <2>3, <2>4, <3>1
  <2> HIDE DEF r
  <2>8. (t * Pow2(k)) % Size = 2 * r
    <3>1. 2 * r \in 0 .. Size - 1 /\ q \in Int
      BY <1>1, <2>4, <2>6
    <3> DEFINE x == 2 * r
    <3>2. (q * Size + x) % Size = x
      <4> HIDE DEF x
      <4>1. x \in 0 .. Size - 1
        BY <3>1 DEF x
      <4> QED
        BY <1>1, <3>1, <4>1, DivModUnique
    <3> QED
      BY <2>7, <3>2
  <2>9. (2 * r) \div 2 = r
    BY <2>6
  <2>10. r % Size = r
    <3>1. r \in 0 .. Size - 1
      BY <1>1, <2>6
    <3> QED
      BY <1>1, <3>1, ModSmall
  <2>11. (t2 * Pow2(j)) % Size = r
    BY <2>10 DEF r, P
  <2> QED
    BY <2>1, <2>5, <2>8, <2>9, <2>11
<1> QED
  BY <1>2, <1>3

\* A limit of all ones has more bits than its half.
LEMMA NeedsShift ==
  ASSUME NEW n \in 0 .. Size - 1, NEW w \in 1 .. 2 * LimbBits, Val(pow_limit) + 1 = Pow2(w)
  PROVE  bits(Of(n)) > bits(pow_limit) - 1 <=> 2 * n > Val(pow_limit)
<1> DEFINE v == Val(pow_limit)
           b == bits(Of(n))
           c == bits(Of(v))
           P == Pow2(w - 1)
<1>1. v \in 0 .. Size - 1 /\ pow_limit = Of(v) /\ LimbBits \in Nat /\ Size \in Nat \ {0}
  BY ConfigAssumption, WidthsAssumption, BaseType
<1>2. /\ b \in Nat /\ n < Pow2(b) /\ (b > 0 => n >= Pow2(b - 1))
      /\ c \in Nat /\ v < Pow2(c) /\ (c > 0 => v >= Pow2(c - 1))
  BY <1>1, BitsExact DEF IsWidth
<1>3. /\ w \in Nat /\ w - 1 \in Nat /\ P \in Nat \ {0} /\ n \in Nat /\ v \in Nat
      /\ v + 1 = 2 * P
  <2>1. w \in Nat /\ w - 1 \in Nat /\ (w - 1) + 1 = w
    BY <1>1
  <2> QED
    BY <1>1, <2>1, Pow2Type, Pow2Step
<1> HIDE DEF v, b, c, P
<1>4. c = w
  <2>1. CASE c < w
    <3>1. c <= w - 1
      BY <1>2, <1>3, <2>1
    <3>2. Pow2(c) <= P /\ Pow2(c) \in Nat
      BY <1>2, <1>3, <3>1, Pow2Mono, Pow2Type DEF P
    <3> QED
      BY <1>2, <1>3, <3>2
  <2>2. CASE c > w
    <3>1. c > 0 /\ c - 1 \in Nat /\ w <= c - 1
      BY <1>2, <1>3, <2>2
    <3>2. Pow2(w) <= Pow2(c - 1) /\ Pow2(c - 1) \in Nat
      BY <1>3, <3>1, Pow2Mono, Pow2Type
    <3>3. v >= Pow2(c - 1) /\ v + 1 = Pow2(w)
      BY <1>2, <3>1 DEF v
    <3> QED
      BY <1>3, <3>2, <3>3
  <2> QED
    BY <1>2, <1>3, <2>1, <2>2
<1>5. b > w - 1 <=> n >= P
  <2>1. CASE b > w - 1
    <3>1. b > 0 /\ b - 1 \in Nat /\ w - 1 <= b - 1
      BY <1>2, <1>3, <2>1
    <3>2. P <= Pow2(b - 1) /\ Pow2(b - 1) \in Nat
      BY <1>3, <3>1, Pow2Mono, Pow2Type DEF P
    <3> QED
      BY <1>2, <1>3, <2>1, <3>1, <3>2
  <2>2. CASE b <= w - 1
    <3>1. Pow2(b) <= P /\ Pow2(b) \in Nat
      BY <1>2, <1>3, <2>2, Pow2Mono, Pow2Type DEF P
    <3> QED
      BY <1>2, <1>3, <2>2, <3>1
  <2> QED
    BY <1>2, <1>3, <2>1, <2>2
<1>6. n >= P <=> 2 * n > v
  BY <1>3
<1>7. bits(Of(n)) > bits(pow_limit) - 1 <=> b > c - 1
  BY <1>1 DEF b, c
<1> QED
  BY <1>4, <1>5, <1>6, <1>7 DEF v

\* The product of a target, shifted or not, and a time span.
LEMMA ShiftedProduct ==
  ASSUME ScalesShifted, NEW p \in Hash, TargetOf(p) <= Val(pow_limit), NEW unit \in {1, 2},
         unit = IF 2 * TargetOf(p) > Val(pow_limit) THEN 2 ELSE 1,
         NEW m \in 0 .. pow_target_timespan * 4
  PROVE  LET n == TargetOf(p) \div unit
         IN  /\ n \in 0 .. Size - 1 /\ n * m \in 0 .. Size - 1
             /\ overflowing_mul(Of(n), m) = [val |-> Of(n * m), overflow |-> FALSE]
<1> DEFINE a == TargetOf(p)
           n == a \div unit
           v == Val(pow_limit)
           most == pow_target_timespan * 4
<1>1. Bits[p] \in Nat /\ v \in Nat /\ Half \in Nat \ {0} /\ Size \in Nat \ {0}
  BY FieldsAssumption, ConfigAssumption, BaseType
<1>2. /\ a \in 0 .. Size - 1 /\ target_from_bits(Bits[p]) = Of(a)
      /\ \E t \in 0 .. SignBit - 1, k \in 0 .. 2 * LimbBits - 1 :
            t * Pow2(k) \in Nat /\ a = (t * Pow2(k)) % Size
  BY <1>1, TargetIs DEF TargetOf
<1>3. Scales(v \div 2, most) /\ v \div 2 \in Nat
  BY <1>1 DEF ScalesShifted
<1>4. n \in 0 .. v \div 2 /\ n < Size /\ n \in 0 .. Size - 1
  <2> HIDE DEF a, v
  <2>1. a \in Nat /\ a < Size /\ a <= v /\ unit = IF 2 * a > v THEN 2 ELSE 1
    BY <1>1, <1>2 DEF a, v
  <2> QED
    BY <1>1, <2>1
<1>5. \/ n % Half = 0
      \/ /\ (SignBit - 1) * most < 2 * Half
         /\ \E t \in 0 .. SignBit - 1, k \in 0 .. 2 * LimbBits - 1 : n = (t * Pow2(k)) % Size
  <2>1. CASE a % (2 * Half) = 0
    <3> DEFINE q == a \div (2 * Half)
    <3>1. a \in Nat /\ 2 * Half \in Nat \ {0}
      BY <1>1, <1>2
    <3>2. q \in Nat /\ a = q * (2 * Half) + 0
      BY <2>1, <3>1, DivModNat
    <3> HIDE DEF q, a
    <3>3. 0 \in 0 .. Half - 1
      BY <1>1
    <3>4. CASE unit = 1
      <4>1. n = (2 * q) * Half + 0 /\ 2 * q \in Int
        BY <1>1, <3>1, <3>2, <3>4
      <4> HIDE DEF n
      <4> QED
        BY <1>1, <3>3, <4>1, DivModUnique
    <3>5. CASE unit = 2
      <4> DEFINE x == q * Half
      <4>1. x \in Nat /\ a = 2 * x
        BY <1>1, <3>2
      <4>2. n = x
        <5> HIDE DEF x
        <5> QED
          BY <3>5, <4>1
      <4>3. x = q * Half + 0 /\ q \in Int
        BY <1>1, <3>2
      <4> HIDE DEF n, x
      <4> QED
        BY <1>1, <3>3, <4>2, <4>3, DivModUnique
    <3> QED
      BY <3>4, <3>5
  <2>2. CASE (SignBit - 1) * most < 2 * Half
    <3>1. PICK t \in 0 .. SignBit - 1, k \in 0 .. 2 * LimbBits - 1 :
                 t * Pow2(k) \in Nat /\ a = (t * Pow2(k)) % Size
      BY <1>2
    <3>2. CASE unit = 1
      <4>1. n = a
        BY <1>2, <3>2
      <4> QED
        BY <2>2, <3>1, <4>1
    <3>3. CASE unit = 2
      <4>1. n = ((t * Pow2(k)) % Size) \div 2
        BY <3>1, <3>3
      <4> HIDE DEF n
      <4> QED
        BY <2>2, <3>1, <4>1, HalfShape
    <3> QED
      BY <3>2, <3>3
  <2> QED
    BY <1>3, <2>1, <2>2 DEF Scales
<1>6. m \in 0 .. most
  OBVIOUS
<1> HIDE DEF n, most, v
<1>7. /\ overflowing_mul(Of(n), m) = [val |-> Of(n * m), overflow |-> FALSE]
      /\ n * m \in 0 .. Size - 1
  BY <1>3, <1>4, <1>5, <1>6, ProductIs
<1> QED
  BY <1>4, <1>7 DEF n

\* A retarget computes what the rule says: the shift costs its last bit.
LEMMA LitecoinRetarget ==
  ASSUME ScalesShifted, NEW p \in Hash, TargetOf(p) <= Val(pow_limit), NEW f \in Nat
  PROVE  LET m == Clamp(Time[p] - f, pow_target_timespan \div 4, pow_target_timespan * 4)
             unit == IF 2 * TargetOf(p) > Val(pow_limit) THEN 2 ELSE 1
             v == unit * (((TargetOf(p) \div unit) * m) \div pow_target_timespan)
         IN  v \in 0 .. Size - 1 /\ Ltc!calculate_next_work_required(p, f) = {LimitedCompact(v)}
<1> DEFINE T == pow_target_timespan
           m == Clamp(Time[p] - f, T \div 4, T * 4)
           a == TargetOf(p)
           unit == IF 2 * a > Val(pow_limit) THEN 2 ELSE 1
           n == a \div unit
           shift == IF bits(Of(a)) > bits(pow_limit) - 1 THEN 1 ELSE 0
           product == overflowing_mul(wrapping_shr(Of(a), shift), m)
           scaled == (n * m) \div T
<1>1. /\ Bits[p] \in Nat /\ Val(pow_limit) \in Nat /\ Size \in Nat \ {0} /\ T \in Nat /\ T > 1
      /\ LimbBits \in Nat \ {0}
  BY FieldsAssumption, ConfigAssumption, BaseType, WidthsAssumption DEF ScalesShifted
<1>2. a \in 0 .. Size - 1 /\ target_from_bits(Bits[p]) = Of(a)
  BY <1>1, TargetIs DEF TargetOf
<1>3. m \in 0 .. T * 4
  BY SpanIn
<1>4. /\ unit \in {1, 2} /\ shift \in 0 .. 2 * LimbBits - 1 /\ Pow2(shift) = unit
  <2>1. bits(Of(a)) > bits(pow_limit) - 1 <=> 2 * a > Val(pow_limit)
    BY <1>2, NeedsShift DEF ScalesShifted
  <2>2. Pow2(0) = 1 /\ Pow2(1) = 2
    <3>1. Pow2(0 + 1) = 2 * Pow2(0)
      BY Pow2Step
    <3> QED
      BY <3>1, Pow2Zero
  <2>3. 0 \in 0 .. 2 * LimbBits - 1 /\ 1 \in 0 .. 2 * LimbBits - 1
    BY <1>1
  <2> QED
    BY <2>1, <2>2, <2>3
<1>5. /\ n \in 0 .. Size - 1 /\ n * m \in 0 .. Size - 1
      /\ overflowing_mul(Of(n), m) = [val |-> Of(n * m), overflow |-> FALSE]
  <2> HIDE DEF m
  <2>1. unit = IF 2 * TargetOf(p) > Val(pow_limit) THEN 2 ELSE 1
    OBVIOUS
  <2> HIDE DEF unit
  <2> QED
    BY <1>3, <1>4, <2>1, ShiftedProduct
<1>6. wrapping_shr(Of(a), shift) = Of(n)
  BY <1>2, <1>4, ShrExact
<1>7. product.val = Of(n * m) /\ ~product.overflow
  BY <1>5, <1>6
<1>8. Ltc!calculate_next_work_required(p, f)
        = limited_bits(product, wrapping_shl(quotient(product.val, from(T)), shift))
  BY <1>2, LtcNumbers, LtcArithmetic DEF Ltc!calculate_next_work_required
<1> HIDE DEF m, a, unit, n, shift, product
<1>9. quotient(Of(n * m), from(T)) = Of(scaled) /\ scaled \in 0 .. Size - 1
  BY <1>5, ConfigAssumption, SpanQuotient
<1>10. unit * scaled \in 0 .. Size - 1
  <2> DEFINE x == n * m
  <2>1. x \in Nat /\ x < Size
    BY <1>1, <1>5
  <2>2. scaled \in Nat /\ scaled * T <= x
    <3> DEFINE r == x % T
    <3>1. scaled \in Nat /\ r \in Nat /\ x = scaled * T + r
      BY <1>1, <2>1, DivModNat
    <3> HIDE DEF x, scaled, r
    <3>2. scaled * T \in Nat
      BY <1>1, <3>1
    <3> QED
      BY <3>1, <3>2
  <2> HIDE DEF x, scaled
  <2>3. 2 * scaled <= scaled * T
    BY <1>1, <2>2
  <2> QED
    BY <1>1, <1>4, <2>1, <2>2, <2>3
<1>11. wrapping_shl(Of(scaled), shift) = Of(unit * scaled)
  <2> HIDE DEF scaled
  <2>1. wrapping_shl(Of(scaled), shift) = Of((scaled * unit) % Size)
    BY <1>4, <1>9, ShlExact
  <2>2. scaled * unit = unit * scaled
    BY <1>4, <1>9
  <2>3. (unit * scaled) % Size = unit * scaled
    BY <1>1, <1>10, ModSmall
  <2> QED
    BY <2>1, <2>2, <2>3
<1>12. limited_bits(product, Of(unit * scaled)) = {LimitedCompact(unit * scaled)}
  <2> HIDE DEF scaled
  <2> QED
    BY <1>7, <1>10, LimitedIs
<1>13. Ltc!calculate_next_work_required(p, f) = {LimitedCompact(unit * scaled)}
  BY <1>7, <1>8, <1>9, <1>11, <1>12
<1> QED
  BY <1>10, <1>13 DEF m, a, unit, n

\* A checked header is within the limit, if the stored ones are.
LEMMA LitecoinLimited ==
  ASSUME ScalesShifted, LimitHolds,
         NEW s, DOMAIN s.headers_pool \subseteq Limited,
         NEW h \in Hash, Prev[h] \in DOMAIN s.headers_pool,
         Bits[h] \in Ltc!get_next_work_required(s, h)
  PROVE  TargetOf(h) <= Val(pow_limit)
<1> DEFINE p == Prev[h]
           height == s.headers_pool[p].block_height
           first == get_header_by_height(s, height - Ltc!blocks_to_go_back(height))
<1>1. p \in Hash /\ TargetOf(p) <= Val(pow_limit)
  BY DEF Limited, Mined
<1>2. \/ Bits[h] = Bits[p]
      \/ Bits[h] = proof_of_work_limit_bits
      \/ Bits[h] \in last_regular_bits(s, p)
      \/ first # NoHash /\ Bits[h] \in Ltc!calculate_next_work_required(p, Time[first])
  BY LtcLookups, Zenon DEF Ltc!get_next_work_required
<1>3. CASE Bits[h] = Bits[p]
  BY <1>1, <1>3 DEF TargetOf
<1>4. CASE Bits[h] = proof_of_work_limit_bits
  BY <1>4 DEF TargetOf, LimitHolds
<1>5. CASE Bits[h] \in last_regular_bits(s, p)
  BY <1>5, RegularLimited DEF TargetOf
<1>6. CASE first # NoHash /\ Bits[h] \in Ltc!calculate_next_work_required(p, Time[first])
  <2>1. first \in DOMAIN s.headers_pool
    BY <1>6 DEF get_header_by_height
  <2>2. Time[first] \in Nat
    BY <2>1, FieldsAssumption DEF Limited, Mined
  <2> HIDE DEF first, p
  <2>3. PICK v \in 0 .. Size - 1 :
               Ltc!calculate_next_work_required(p, Time[first]) = {LimitedCompact(v)}
    BY <1>1, <2>2, LitecoinRetarget
  <2>4. Bits[h] = LimitedCompact(v)
    BY <1>6, <2>3
  <2> QED
    BY <2>4, LimitedTarget DEF TargetOf
<1> QED
  BY <1>2, <1>3, <1>4, <1>5, <1>6

\* At the end of an interval, the whole interval before the tip is stored.
LEMMA LitecoinDepth ==
  ASSUME Inv, PoolInv(Mined), TallInv(MEDIAN_TIME_SPAN), KeptInv, Initialised,
         Chain = "litecoin", KeepsBlocks(difficulty_adjustment_interval),
         (TipHeight + 1) % difficulty_adjustment_interval = 0
  PROVE  HasBefore(difficulty_adjustment_interval)
<1> DEFINE d == difficulty_adjustment_interval
           lo == TrueHeight(saved.initial_blockhash)
<1>1. d \in Nat \ {0} /\ GenesisHeight \in Nat /\ MEDIAN_TIME_SPAN \in Nat \ {0}
  BY ConfigAssumption, ParametersAssumption, SpanAssumption
<1>2. lo \in Int /\ TipHeight \in Int
  BY InitialisedChain DEF TipHeight
<1>3. lo = GenesisHeight \/ lo <= TipHeight - d
  BY <1>1, KeptDepth DEF TipHeight
<1>4. TipHeight >= GenesisHeight + MEDIAN_TIME_SPAN /\ (GenesisHeight + 1) % d = 0
  BY DEF TallInv, TipHeight, init_requires
<1>5. (GenesisHeight + 1) + d <= TipHeight + 1
  <2>1. GenesisHeight + 1 \in Nat /\ TipHeight + 1 \in Nat /\ GenesisHeight + 1 < TipHeight + 1
    BY <1>1, <1>2, <1>4
  <2> QED
    BY <1>1, <1>4, <2>1, MultiplesApart
<1> HIDE DEF lo, d
<1>6. lo <= TipHeight - d
  BY <1>1, <1>2, <1>3, <1>5
<1> QED
  BY <1>6 DEF HasBefore, lo, d

\* The bits a block on the tip must have are those of the rule.
LEMMA LitecoinBits ==
  ASSUME Inv, Initialised, ScalesShifted, ~pow_allow_min_difficulty_blocks,
         TargetOf(saved.tip_blockhash) <= Val(pow_limit),
         (TipHeight + 1) % difficulty_adjustment_interval = 0
           => HasBefore(difficulty_adjustment_interval),
         NEW h \in Hash, Prev[h] = saved.tip_blockhash
  PROVE  Ltc!get_next_work_required(saved, h) = {Ltc!NetworkBits(h)}
<1> DEFINE d == difficulty_adjustment_interval
           t == saved.tip_blockhash
           T == pow_target_timespan
           back == Ltc!blocks_to_go_back(TipHeight)
<1>1. /\ t \in Hash /\ saved.headers_pool[t].block_height = TipHeight
      /\ TipHeight \in Int /\ TrueHeight(h) = TipHeight + 1
      /\ TrueHeight(saved.initial_blockhash) \in Int
      /\ d \in Nat \ {0}
  BY TipIs, ConfigAssumption
<1>2. CASE TrueHeight(h) % d = 0
  <2> DEFINE f == Ancestor(t, back)
             m == Clamp(Time[t] - Time[f], T \div 4, T * 4)
             unit == IF 2 * TargetOf(t) > Val(pow_limit) THEN 2 ELSE 1
             v == unit * (((TargetOf(t) \div unit) * m) \div T)
  <2>1. back \in Nat /\ back <= d
    BY <1>1 DEF Ltc!blocks_to_go_back
  <2>2. HasBefore(back)
    BY <1>1, <1>2, <2>1, TipIs DEF HasBefore
  <2> HIDE DEF back
  <2>3. /\ f \in Hash /\ f # NoHash
        /\ get_header_by_height(saved, TipHeight - back) = f
    BY <2>1, <2>2, TipReads
  <2>4. Ltc!get_next_work_required(saved, h) = Ltc!calculate_next_work_required(t, Time[f])
    BY <1>1, <1>2, <2>3, LtcLookups DEF Ltc!get_next_work_required, back
  <2>5. Time[f] \in Nat
    BY <2>3, FieldsAssumption
  <2>6. Ltc!calculate_next_work_required(t, Time[f]) = {LimitedCompact(v)}
    BY <1>1, <2>5, LitecoinRetarget
  <2>7. AncestorAt(t, TrueHeight(h) - 1 - back) = f
    <3>1. TipHeight - (TrueHeight(h) - 1 - back) = back
      BY <1>1, <2>1
    <3> QED
      BY <3>1 DEF AncestorAt, TipHeight
  <2>8. Ltc!NetworkBits(h) = LimitedCompact(v)
    <3>1. TrueHeight(h) - 1 = TipHeight
      BY <1>1
    <3>2. Ltc!AncestorAt(t, TrueHeight(h) - 1 - Ltc!blocks_to_go_back(TrueHeight(h) - 1)) = f
      BY <2>7, <3>1, LtcLookups DEF back
    <3> HIDE DEF f
    <3> QED
      BY <1>2, <3>2, LtcLookups, LtcArithmetic, LtcNumbers DEF Ltc!NetworkBits
  <2> QED
    BY <2>4, <2>6, <2>8
<1>3. CASE TrueHeight(h) % d # 0
  <2>1. Ltc!NetworkBits(h) = Bits[t]
    BY <1>3, LtcLookups DEF Ltc!NetworkBits
  <2>2. Ltc!get_next_work_required(saved, h) = {Bits[t]}
    BY <1>1, <1>3 DEF Ltc!get_next_work_required
  <2> QED
    BY <2>1, <2>2
<1> QED
  BY <1>2, <1>3

\* Litecoin, on its main network: the check of a block on the tip decides what
\* the network's rule does, at the easiest target too.
THEOREM LitecoinTheorem ==
  ASSUME \A s, h, now : CheckTarget(s, h, now) <=> Ltc!check_pow(s, h, now),
         \A h, now : NetworkAccepts(h, now) <=> Ltc!IsValid(h, now),
         Chain = "litecoin", ~skip_pow_verification, ~pow_allow_min_difficulty_blocks,
         InitIsChain,
         KeepsBlocks(MEDIAN_TIME_SPAN), KeepsBlocks(difficulty_adjustment_interval),
         ScalesShifted, LimitHolds
  PROVE  Spec => []TipChildJudgedByNetwork
<1>1. ReadsBack(MEDIAN_TIME_SPAN) /\ MEDIAN_TIME_SPAN \in Nat
  <2>1. \A s, h, now : CheckTarget(s, h, now) => ChecksMedian(s, h)
    BY LitecoinChecks
  <2> QED
    BY <2>1, MedianReadsBack, SpanAssumption
<1>2. Closed(Limited) /\ Limited \in SUBSET Mined
  <2>1. ASSUME NEW s, NEW h, NEW now,
               IsStorage(s) /\ DOMAIN s.headers_pool \subseteq Limited,
               h \in Hash /\ Prev[h] \in DOMAIN s.headers_pool,
               CheckTarget(s, h, now)
        PROVE  TargetOf(h) <= Val(pow_limit)
    <3>1. Bits[h] \in Ltc!get_next_work_required(s, h)
      BY <2>1 DEF Ltc!check_pow
    <3> QED
      BY <2>1, <3>1, LitecoinLimited
  <2> QED
    BY <2>1, LimitedClosed
<1>3. ASSUME LongInv(MEDIAN_TIME_SPAN, Limited)
      PROVE  TipChildJudgedByNetwork
  <2>0. Inv /\ PoolInv(Limited) /\ PoolInv(Mined) /\ TallInv(MEDIAN_TIME_SPAN) /\ KeptInv
    BY <1>3 DEF LongInv
  <2> SUFFICES ASSUME Initialised, NEW h \in Hash, Prev[h] = saved.tip_blockhash
               PROVE  Ltc!check_pow(saved, h, clock) <=> Ltc!IsValid(h, clock)
    BY DEF TipChildJudgedByNetwork, JudgedByNetwork
  <2>1. TargetOf(saved.tip_blockhash) <= Val(pow_limit)
    BY <2>0, InitialisedChain DEF PoolInv, Limited
  <2>2. (TipHeight + 1) % difficulty_adjustment_interval = 0
          => HasBefore(difficulty_adjustment_interval)
    BY <2>0, LitecoinDepth
  <2>3. Ltc!get_next_work_required(saved, h) = {Ltc!NetworkBits(h)}
    BY <2>0, <2>1, <2>2, LitecoinBits
  <2>4. time_accepted(saved, h, clock) <=> TimeIsValid(h, clock)
    BY <1>1, <2>0, LongDepth, TipTime
  <2> QED
    BY <2>3, <2>4, LtcLookups DEF Ltc!check_pow, Ltc!IsValid
<1>4. Init => LongInv(MEDIAN_TIME_SPAN, Limited)
  BY InitLong
<1>5. LongInv(MEDIAN_TIME_SPAN, Limited) /\ [Next]_vars => LongInv(MEDIAN_TIME_SPAN, Limited)'
  BY <1>1, <1>2, NextLong
<1> QED
  BY <1>3, <1>4, <1>5, PTL DEF Spec

-----------------------------------------------------------------------------
(***************************************************************************)
(* Zcash.                                                                  *)
(***************************************************************************)

\* Where the ancestors are stored, a walk finds them.
LEMMA StoredWalk ==
  ASSUME NEW s, IsStorage(s), NEW h \in Hash, NEW n \in Nat,
         \A i \in 1 .. n : Ancestor(h, i) \in DOMAIN s.headers_pool
  PROVE  get_prev_headers(s, h, n) = Ancestor(h, n) /\ Ancestor(h, n) \in Hash
<1> DEFINE g == CHOOSE f : IsWalk(f, s, h, n)
<1>1. IsWalk(g, s, h, n)
  BY WalkExists
<1>2. get_prev_headers(s, h, n) = g[n]
  BY DEF get_prev_headers, IsWalk
<1> HIDE DEF g
<1> DEFINE S == {i \in Nat : i <= n => g[i] = Ancestor(h, i) /\ g[i] \in Hash}
<1>3. 0 \in S
  <2>1. 0 \in 0 .. n /\ 0 \in Nat
    OBVIOUS
  <2>2. g[0] = h
    BY <1>1, <2>1 DEF IsWalk
  <2>3. Ancestor(h, 0) = h
    BY <2>1, AncestorSteps, Zenon
  <2> QED
    BY <2>2, <2>3
<1>4. ASSUME NEW i \in Nat, i \in S PROVE i + 1 \in S
  <2>0. i + 1 \in Nat
    OBVIOUS
  <2> SUFFICES ASSUME i + 1 <= n
               PROVE  g[i + 1] = Ancestor(h, i + 1) /\ g[i + 1] \in Hash
    BY <2>0
  <2>1. i + 1 \in 0 .. n /\ i + 1 \in 1 .. n /\ i + 1 # 0 /\ (i + 1) - 1 = i /\ i <= n
    OBVIOUS
  <2>2. g[i + 1] = IF g[i] # NoHash /\ Prev[g[i]] \in DOMAIN s.headers_pool
                     THEN Prev[g[i]] ELSE NoHash
    BY <1>1, <2>1 DEF IsWalk
  <2>3. g[i] \in Hash /\ g[i] = Ancestor(h, i) /\ g[i] # NoHash
    BY <1>4, <2>1, HeadersAssumption
  <2>4. Ancestor(h, i + 1) = IF Ancestor(h, i) \in Hash THEN Prev[Ancestor(h, i)] ELSE NoHash
    BY AncestorSteps
  <2>5. Ancestor(h, i + 1) \in DOMAIN s.headers_pool /\ Ancestor(h, i + 1) \in Hash
    BY <2>1 DEF IsStorage
  <2> HIDE DEF S
  <2> QED
    BY <2>2, <2>3, <2>4, <2>5
<1> HIDE DEF S
<1>5. n \in S
  BY <1>3, <1>4, SetInduction
<1> QED
  BY <1>2, <1>5 DEF S

\* Ancestors of an ancestor.
LEMMA AncestorOfAncestor ==
  ASSUME NEW h, NEW m \in Nat, NEW n \in Nat
  PROVE  Ancestor(Ancestor(h, m), n) = Ancestor(h, m + n)
<1> DEFINE a == Ancestor(h, m)
           S == {i \in Nat : Ancestor(a, i) = Ancestor(h, m + i)}
<1>1. 0 \in S
  <2>1. 0 \in Nat /\ m + 0 = m
    OBVIOUS
  <2>2. Ancestor(a, 0) = a
    BY <2>1, AncestorSteps, Zenon
  <2> QED
    BY <2>1, <2>2
<1>2. ASSUME NEW i \in Nat, i \in S PROVE i + 1 \in S
  <2>1. m + i \in Nat /\ (m + i) + 1 = m + (i + 1) /\ i + 1 \in Nat
    OBVIOUS
  <2>2. Ancestor(a, i + 1) = IF Ancestor(a, i) \in Hash THEN Prev[Ancestor(a, i)] ELSE NoHash
    BY AncestorSteps
  <2>3. Ancestor(h, (m + i) + 1) =
          IF Ancestor(h, m + i) \in Hash THEN Prev[Ancestor(h, m + i)] ELSE NoHash
    BY <2>1, AncestorSteps
  <2>4. Ancestor(a, i) = Ancestor(h, m + i)
    BY <1>2
  <2> HIDE DEF a, S
  <2>5. Ancestor(a, i + 1) = Ancestor(h, m + (i + 1))
    BY <2>1, <2>2, <2>3, <2>4
  <2> QED
    BY <2>1, <2>5 DEF S
<1> HIDE DEF S, a
<1>3. n \in S
  BY <1>1, <1>2, SetInduction
<1> QED
  BY <1>3 DEF S, a

\* The blocks that the check of a header on p reads.
Reach == pow_averaging_window + MEDIAN_TIME_SPAN

StoredBack(s, p) == \A i \in 0 .. Reach : Ancestor(p, i) \in DOMAIN s.headers_pool

\* They are p's ancestors, and the medians are those of the network.
LEMMA WindowReads ==
  ASSUME pow_averaging_window \in Nat, pow_averaging_window >= MEDIAN_TIME_SPAN,
         NEW s, IsStorage(s), NEW p \in Hash, StoredBack(s, p)
  PROVE  LET w      == pow_averaging_window
             n      == MEDIAN_TIME_SPAN
             at     == [i \in 0 .. w |-> get_prev_headers(s, p, i)]
             before == [i \in 0 .. n |-> get_prev_headers(s, p, w + i)]
         IN  /\ \A i \in 0 .. w : at[i] = Ancestor(p, i) /\ at[i] \in Hash
             /\ before[n] # NoHash
             /\ Median(at, n) = MedianTimePast(p) /\ MedianTimePast(p) \in Nat
             /\ Median(before, n) = MedianTimePast(Ancestor(p, w))
             /\ MedianTimePast(Ancestor(p, w)) \in Nat
<1> DEFINE w      == pow_averaging_window
           n      == MEDIAN_TIME_SPAN
           q      == Ancestor(p, w)
           at     == [i \in 0 .. w |-> get_prev_headers(s, p, i)]
           before == [i \in 0 .. n |-> get_prev_headers(s, p, w + i)]
<1>1. w \in Nat /\ n \in Nat /\ w >= n /\ Reach = w + n
  BY SpanAssumption DEF Reach
<1> HIDE DEF w, n
<1>2. ASSUME NEW i \in 0 .. w + n
      PROVE  /\ get_prev_headers(s, p, i) = Ancestor(p, i) /\ Ancestor(p, i) \in Hash
             /\ Ancestor(p, i) # NoHash
  <2>1. i \in Nat /\ \A k \in 1 .. i : k \in 0 .. w + n
    BY <1>1
  <2>2. \A k \in 1 .. i : Ancestor(p, k) \in DOMAIN s.headers_pool
    BY <1>1, <2>1 DEF StoredBack
  <2> QED
    BY <2>1, <2>2, StoredWalk, HeadersAssumption
<1>3. ASSUME NEW i \in 0 .. n
      PROVE  get_prev_headers(s, q, i) = get_prev_headers(s, p, w + i)
  <2>1. q \in Hash /\ i \in Nat
    BY <1>1, <1>2
  <2>2. \A k \in Nat : Ancestor(q, k) = Ancestor(p, w + k)
    BY <1>1, AncestorOfAncestor
  <2>3. \A k \in 1 .. i : w + k \in 0 .. w + n /\ k \in Nat
    BY <1>1
  <2>4. \A k \in 1 .. i : Ancestor(q, k) \in DOMAIN s.headers_pool
    BY <1>1, <2>2, <2>3 DEF StoredBack
  <2>5. get_prev_headers(s, q, i) = Ancestor(q, i)
    BY <2>1, <2>4, StoredWalk
  <2>6. w + i \in 0 .. w + n
    BY <1>1
  <2> QED
    BY <1>2, <2>1, <2>2, <2>5, <2>6
<1>4. \A i \in 0 .. w : at[i] = Ancestor(p, i) /\ at[i] \in Hash
  <2>1. \A i \in 0 .. w : i \in 0 .. w + n
    BY <1>1
  <2> QED
    BY <1>2, <2>1
<1>5. before[n] # NoHash /\ get_prev_headers(s, q, n) # NoHash /\ get_prev_headers(s, p, w + n) # NoHash
  <2>1. n \in 0 .. n /\ w + n \in 0 .. w + n
    BY <1>1
  <2> QED
    BY <1>2, <1>3, <2>1
<1>6. q \in Hash
  BY <1>1, <1>2
<1>7. ReadsPast(s, p, at) /\ ReadsPast(s, q, before)
  <2>1. \A i \in Span : i \in 0 .. w /\ i \in 0 .. n
    BY <1>1 DEF Span, n
  <2>2. \A i \in Span : at[i] = get_prev_headers(s, p, i) /\ before[i] = get_prev_headers(s, q, i)
    BY <1>3, <2>1
  <2>3. w + n \in Nat /\ w + n >= n /\ n >= n
    BY <1>1
  <2> HIDE DEF at, before, q
  <2> QED
    BY <1>1, <1>5, <2>2, <2>3 DEF ReadsPast, n
<1> HIDE DEF at, before, q
<1>8. /\ Median(at, n) = MedianTimePast(p) /\ HasPast(p)
      /\ Median(before, n) = MedianTimePast(q) /\ HasPast(q)
  BY <1>6, <1>7, MedianAgrees DEF n
<1>9. MedianTimePast(p) \in Nat /\ MedianTimePast(q) \in Nat
  BY <1>8, MedianTimePastIs
<1> QED
  BY <1>4, <1>5, <1>8, <1>9 DEF at, before, q, n, w

\* The sum of the targets of the network's blocks.
IsSum(f, h, n) ==
  f = [i \in 0 .. n |-> IF i = 0 THEN 0 ELSE f[i - 1] + TargetOf(Ancestor(h, i - 1))]

\* There is such a function.
LEMMA SumExists ==
  ASSUME NEW h, NEW n \in Nat
  PROVE  \E f : IsSum(f, h, n)
<1> DEFINE S == {m \in Nat : \E f : IsSum(f, h, m)}
           t(i) == TargetOf(Ancestor(h, i))
<1>1. 0 \in S
  <2>1. IsSum([i \in 0 .. 0 |-> 0], h, 0)
    BY DEF IsSum
  <2> QED
    BY <2>1
<1>2. ASSUME NEW m \in Nat, m \in S PROVE m + 1 \in S
  <2> SUFFICES ASSUME NEW g, IsSum(g, h, m)
               PROVE  \E e : IsSum(e, h, m + 1)
    BY <1>2
  <2> DEFINE e == [i \in 0 .. m + 1 |-> IF i = m + 1 THEN g[m] + t(m) ELSE g[i]]
  <2>1. ASSUME NEW i \in 0 .. m + 1
        PROVE  e[i] = IF i = 0 THEN 0 ELSE e[i - 1] + t(i - 1)
    <3>1. CASE i = m + 1
      <4>1. i # 0 /\ i - 1 = m /\ m \in 0 .. m + 1 /\ m # m + 1
        BY <3>1
      <4>2. e[i] = g[m] + t(m) /\ e[m] = g[m]
        BY <3>1, <4>1
      <4> HIDE DEF t
      <4> QED
        BY <4>1, <4>2
    <3>2. CASE i # m + 1
      <4>1. i \in 0 .. m /\ e[i] = g[i]
        BY <3>2
      <4>2. i # 0 => i - 1 \in 0 .. m + 1 /\ i - 1 # m + 1 /\ e[i - 1] = g[i - 1]
        BY <3>2
      <4>3. g[i] = IF i = 0 THEN 0 ELSE g[i - 1] + t(i - 1)
        BY <4>1 DEF IsSum
      <4> HIDE DEF t
      <4> QED
        BY <4>1, <4>2, <4>3
    <3> QED
      BY <3>1, <3>2
  <2>2. e = [i \in 0 .. m + 1 |-> e[i]]
    OBVIOUS
  <2> HIDE DEF e
  <2>3. IsSum(e, h, m + 1)
    BY <2>1, <2>2 DEF IsSum
  <2> QED
    BY <2>3
<1> HIDE DEF S
<1>3. n \in S
  BY <1>1, <1>2, SetInduction
<1> QED
  BY <1>3 DEF S

\* It is bounded where the targets are.
LEMMA SumBounds ==
  ASSUME NEW h, NEW n \in Nat, NEW g, IsSum(g, h, n), NEW v \in Nat,
         \A i \in 0 .. n - 1 : TargetOf(Ancestor(h, i)) \in 0 .. v
  PROVE  \A i \in 0 .. n : g[i] \in Nat /\ i * v \in Nat /\ g[i] <= i * v
<1> DEFINE S == {i \in Nat : i <= n => g[i] \in Nat /\ g[i] <= i * v}
<1>1. 0 \in S
  <2>1. 0 \in 0 .. n /\ 0 * v = 0
    OBVIOUS
  <2>2. g[0] = 0
    BY <2>1 DEF IsSum
  <2> QED
    BY <2>1, <2>2
<1>2. ASSUME NEW i \in Nat, i \in S PROVE i + 1 \in S
  <2>0. i + 1 \in Nat
    OBVIOUS
  <2> SUFFICES ASSUME i + 1 <= n PROVE g[i + 1] \in Nat /\ g[i + 1] <= (i + 1) * v
    BY <2>0
  <2> DEFINE t == TargetOf(Ancestor(h, i))
  <2>1. i + 1 \in 0 .. n /\ i + 1 # 0 /\ (i + 1) - 1 = i /\ i <= n /\ i \in 0 .. n - 1
    OBVIOUS
  <2>2. g[i + 1] = g[i] + t
    BY <2>1 DEF IsSum
  <2>3. g[i] \in Nat /\ g[i] <= i * v /\ t \in 0 .. v
    BY <1>2, <2>1
  <2>4. (i + 1) * v = i * v + v /\ i * v \in Nat
    OBVIOUS
  <2> HIDE DEF S, t
  <2> QED
    BY <2>2, <2>3, <2>4
<1> HIDE DEF S
<1>3. \A i \in Nat : i \in S
  BY <1>1, <1>2, SetInduction
<1> QED
  BY <1>3 DEF S

\* The operators of Zcash are those of U256 and PowRules.
LEMMA ZecNumbers ==
  /\ \A n : Zec!Pow2(n) = Pow2(n)
  /\ Zec!Base = Base /\ Zec!Half = Half
  /\ \A n : Zec!Bytes(n) = Bytes(n)
  /\ Zec!Mantissa = Mantissa /\ Zec!SignBit = SignBit /\ Zec!Byte = Byte
  /\ \A a : Zec!Val(a) = Val(a)
  /\ \A n : Zec!from(n) = from(n)
  /\ \A a, b : Zec!Le(a, b) <=> Le(a, b)
  /\ \A n, lo, hi : Zec!Clamp(n, lo, hi) = Clamp(n, lo, hi)
<1>1. \A n : Zec!Pow2(n) = Pow2(n)
  BY Zenon DEF Zec!Pow2, Pow2
<1>2. Zec!Base = Base /\ Zec!Half = Half /\ Zec!Byte = Byte
  BY <1>1 DEF Zec!Base, Base, Zec!Half, Half, Zec!Byte, Byte
<1>3. \A n : Zec!Bytes(n) = Bytes(n)
  BY <1>1 DEF Zec!Bytes, Bytes
<1>4. Zec!Mantissa = Mantissa
  BY <1>3 DEF Zec!Mantissa, Mantissa
<1>5. Zec!SignBit = SignBit
  BY <1>4 DEF Zec!SignBit, SignBit
<1>6. \A a : Zec!Val(a) = Val(a)
  BY <1>2 DEF Zec!Val, Val
<1>7. \A n : Zec!from(n) = from(n)
  BY DEF Zec!from, from
<1>8. \A a, b : Zec!Le(a, b) <=> Le(a, b)
  BY DEF Zec!Le, Le
<1>9. \A n, lo, hi : Zec!Clamp(n, lo, hi) = Clamp(n, lo, hi)
  BY DEF Zec!Clamp, Clamp
<1> QED
  BY <1>1, <1>2, <1>3, <1>4, <1>5, <1>6, <1>7, <1>8, <1>9

LEMMA ZecArithmetic ==
  /\ \A a, r : Zec!overflowing_mul(a, r) = overflowing_mul(a, r)
  /\ \A a, r : Zec!wrapping_shl(a, r) = wrapping_shl(a, r) /\ Zec!wrapping_shr(a, r) = wrapping_shr(a, r)
  /\ \A a : Zec!bits(a) = bits(a)
  /\ \A a, b : Zec!quotient(a, b) = quotient(a, b)
  /\ \A b : Zec!target_from_bits(b) = target_from_bits(b)
  /\ \A p, t : Zec!limited_bits(p, t) = limited_bits(p, t)
  /\ \A h : Zec!TargetOf(h) = TargetOf(h)
  /\ \A v : Zec!LimitedCompact(v) = LimitedCompact(v)
<1>1. \A a, r : Zec!overflowing_mul(a, r) = overflowing_mul(a, r)
  BY ZecNumbers DEF Zec!overflowing_mul, overflowing_mul
<1>2. \A a, b : Zec!wrapping_add(a, b) = wrapping_add(a, b)
  BY ZecNumbers DEF Zec!wrapping_add, wrapping_add, Zec!overflowing_add, overflowing_add
<1>3. \A a, r : Zec!wrapping_shl(a, r) = wrapping_shl(a, r) /\ Zec!wrapping_shr(a, r) = wrapping_shr(a, r)
  BY ZecNumbers DEF Zec!wrapping_shl, wrapping_shl, Zec!wrapping_shr, wrapping_shr
<1>4. \A a : Zec!bits(a) = bits(a)
  BY Zenon DEF Zec!bits, bits, Zec!limb_bits, limb_bits, Zec!Pow2, Pow2
<1>5. \A b : Zec!target_from_bits(b) = target_from_bits(b)
  BY ZecNumbers, <1>3 DEF Zec!target_from_bits, target_from_bits, Zec!ZERO, ZERO
<1>6. \A a : Zec!target_to_bits(a) = target_to_bits(a)
  BY ZecNumbers, <1>3, <1>4 DEF Zec!target_to_bits, target_to_bits
<1>7. \A v : Zec!CompactForm(v) = CompactForm(v)
  BY Zenon DEF Zec!CompactForm, CompactForm, Zec!Bytes, Bytes, Zec!Pow2, Pow2, Zec!Mantissa, Mantissa
<1>8. \A a, b : Zec!wrapping_sub(a, b) = wrapping_sub(a, b)
  BY ZecNumbers, <1>2 DEF Zec!wrapping_sub, wrapping_sub, Zec!overflowing_sub, overflowing_sub,
     Zec!Not, Not, Zec!ONE, ONE
<1>9. \A r, k : Zec!div_round(r, k) = div_round(r, k)
  BY ZecNumbers, <1>2, <1>3, <1>8 DEF Zec!div_round, div_round, Zec!SetBit, SetBit, Zec!ONE, ONE
<1>10. ASSUME NEW a, NEW b PROVE Zec!quotient(a, b) = quotient(a, b)
  <2> DEFINE shift == bits(a) - bits(b)
             same  == Zec!bits(a) - Zec!bits(b)
             Runs(g) == g = [i \in 0 .. shift + 1 |->
               IF i = 0
                 THEN [sub_copy |-> a, shift_copy |-> wrapping_shl(b, shift), ret |-> ZERO]
                 ELSE div_round(g[i - 1], shift - i + 1)]
             Same(g) == g = [i \in 0 .. same + 1 |->
               IF i = 0
                 THEN [sub_copy |-> a, shift_copy |-> Zec!wrapping_shl(b, same), ret |-> Zec!ZERO]
                 ELSE Zec!div_round(g[i - 1], same - i + 1)]
             run  == CHOOSE g : Runs(g)
             run2 == CHOOSE g : Same(g)
  <2>1. quotient(a, b) = IF shift < 0 THEN ZERO ELSE run[shift + 1].ret
    BY DEF quotient, div_rem
  <2>2. Zec!quotient(a, b) = IF same < 0 THEN Zec!ZERO ELSE run2[same + 1].ret
    BY DEF Zec!quotient, Zec!div_rem
  <2>3. same = shift /\ Zec!ZERO = ZERO
    BY <1>4 DEF Zec!ZERO, ZERO
  <2> HIDE DEF shift, same
  <2>4. \A g : Same(g) <=> Runs(g)
    BY <1>3, <1>9, <2>3
  <2> HIDE DEF Runs, Same
  <2>5. run2 = run
    BY <2>4, Zenon
  <2> HIDE DEF run, run2
  <2> QED
    BY <2>1, <2>2, <2>3, <2>5
<1>11. \A p, t : Zec!limited_bits(p, t) = limited_bits(p, t)
  BY ZecNumbers, <1>6 DEF Zec!limited_bits, limited_bits
<1>12. \A h : Zec!TargetOf(h) = TargetOf(h)
  BY ZecNumbers, <1>5 DEF Zec!TargetOf, TargetOf
<1>13. \A v : Zec!LimitedCompact(v) = LimitedCompact(v)
  BY ZecNumbers, <1>7 DEF Zec!LimitedCompact, LimitedCompact
<1> QED
  BY <1>1, <1>3, <1>4, <1>5, <1>10, <1>11, <1>12, <1>13

LEMMA ZecLookups ==
  /\ \A s, h, n : Zec!get_prev_headers(s, h, n) = get_prev_headers(s, h, n)
  /\ \A s, n : Zec!get_header_by_height(s, n) = get_header_by_height(s, n)
  /\ \A s, h : Zec!last_regular_bits(s, h) = last_regular_bits(s, h)
  /\ \A s, h, now : Zec!time_accepted(s, h, now) <=> time_accepted(s, h, now)
  /\ \A h, n : Zec!Ancestor(h, n) = Ancestor(h, n)
  /\ \A h : Zec!TrueHeight(h) = TrueHeight(h)
  /\ \A h, n : Zec!AncestorAt(h, n) = AncestorAt(h, n)
  /\ \A h, now : Zec!TimeIsValid(h, now) <=> TimeIsValid(h, now)
  /\ Zec!Initialised <=> Initialised
<1>1. \A s, h, n : Zec!get_prev_headers(s, h, n) = get_prev_headers(s, h, n)
  BY Zenon DEF Zec!get_prev_headers, get_prev_headers
<1>2. \A s, n : Zec!get_header_by_height(s, n) = get_header_by_height(s, n)
  BY Zenon DEF Zec!get_header_by_height, get_header_by_height
<1>3. \A s, h : Zec!last_regular_bits(s, h) = last_regular_bits(s, h)
  BY Zenon DEF Zec!last_regular_bits, last_regular_bits, Zec!get_prev_headers, get_prev_headers
<1>4. \A s, h, now : Zec!time_accepted(s, h, now) <=> time_accepted(s, h, now)
  BY Zenon DEF time_accepted, Zec!time_accepted,
     get_median_time_past, Zec!get_median_time_past, Median, Zec!Median,
     get_prev_headers, Zec!get_prev_headers, Cardinality, Zec!Cardinality,
     IsFiniteSet, Zec!IsFiniteSet
<1>5. \A h, n : Zec!Ancestor(h, n) = Ancestor(h, n)
  BY Zenon DEF Zec!Ancestor, Ancestor, Zec!HC!Ancestor, HC!Ancestor
<1>6. \A h : Zec!TrueHeight(h) = TrueHeight(h)
  BY Zenon DEF Zec!TrueHeight, TrueHeight
<1>7. \A h, n : Zec!AncestorAt(h, n) = AncestorAt(h, n)
  BY <1>5, <1>6 DEF Zec!AncestorAt, AncestorAt
<1>8. \A h, now : Zec!TimeIsValid(h, now) <=> TimeIsValid(h, now)
  BY Zenon DEF Zec!TimeIsValid, TimeIsValid, Zec!MedianTimePast, MedianTimePast,
     Zec!Ancestor, Ancestor, Zec!HC!Ancestor, HC!Ancestor, Zec!Range, Range,
     Cardinality, Zec!Cardinality, IsFiniteSet, Zec!IsFiniteSet
<1>9. Zec!Initialised <=> Initialised
  BY DEF Zec!Initialised, Initialised, Zec!EmptyStorage, EmptyStorage
<1> QED
  BY <1>1, <1>2, <1>3, <1>4, <1>5, <1>6, <1>7, <1>8, <1>9

\* So are those of its window.
LEMMA ZecWindow ==
  /\ \A a, b : Zec!overflowing_add(a, b) = overflowing_add(a, b)
  /\ Zec!ZERO = ZERO /\ Zec!Size = Size
  /\ \A a, b : Zec!Quotient(a, b) = Quotient(a, b)
  /\ \A e, n : Zec!Median(e, n) = Median(e, n)
  /\ \A h : Zec!MedianTimePast(h) = MedianTimePast(h)
  /\ \A h : Zec!IsMined(h) <=> IsMined(h)
<1>1. \A a, b : Zec!overflowing_add(a, b) = overflowing_add(a, b)
  BY ZecNumbers DEF Zec!overflowing_add, overflowing_add
<1>2. Zec!ZERO = ZERO /\ Zec!Size = Size
  BY ZecNumbers DEF Zec!ZERO, ZERO, Zec!Size, Size
<1>3. \A a, b : Zec!Quotient(a, b) = Quotient(a, b)
  BY DEF Zec!Quotient, Quotient
<1>4. \A e, n : Zec!Median(e, n) = Median(e, n)
  BY Zenon DEF Zec!Median, Median, Cardinality, Zec!Cardinality, IsFiniteSet, Zec!IsFiniteSet
<1>5. \A h : Zec!MedianTimePast(h) = MedianTimePast(h)
  BY Zenon DEF Zec!MedianTimePast, MedianTimePast,
     Zec!Ancestor, Ancestor, Zec!HC!Ancestor, HC!Ancestor, Zec!Range, Range,
     Cardinality, Zec!Cardinality, IsFiniteSet, Zec!IsFiniteSet
<1>6. \A h : Zec!IsMined(h) <=> IsMined(h)
  BY Zenon DEF Zec!IsMined, IsMined, Zec!TrueHeight, TrueHeight,
     Zec!Ancestor, Ancestor, Zec!HC!Ancestor, HC!Ancestor,
     Zec!Trusted, Trusted, Zec!Range, Range
<1> QED
  BY <1>1, <1>2, <1>3, <1>4, <1>5, <1>6

\* The running total of the code, as a function of the number of blocks.
IsTotal(f, at, n) ==
  f = [i \in 0 .. n |->
         IF i = 0 THEN [val |-> ZERO, overflow |-> FALSE]
         ELSE LET more == overflowing_add(f[i - 1].val, target_from_bits(Bits[at[i - 1]]))
              IN  [val |-> more.val, overflow |-> more.overflow \/ f[i - 1].overflow]]

\* One more block of the window.
LEMMA TotalStep ==
  ASSUME NEW a \in Nat, NEW b \in Nat, a + b < Size
  PROVE  LET more == overflowing_add(Of(a), Of(b))
         IN  [val |-> more.val, overflow |-> more.overflow \/ FALSE]
               = [val |-> Of(a + b), overflow |-> FALSE]
<1>1. Size \in Nat \ {0}
  BY BaseType
<1>2. a \in 0 .. Size - 1 /\ b \in 0 .. Size - 1 /\ a + b \in 0 .. Size - 1
  BY <1>1
<1>3. (a + b) % Size = a + b
  BY <1>1, <1>2, ModSmall
<1>4. (a + b >= Size) = FALSE
  BY <1>1
<1>5. overflowing_add(Of(a), Of(b)) = [val |-> Of(a + b), overflow |-> FALSE]
  BY <1>2, <1>3, <1>4, AddExact
<1> DEFINE more == overflowing_add(Of(a), Of(b))
<1>6. more.val = Of(a + b) /\ more.overflow = FALSE
  BY <1>5
<1> HIDE DEF more
<1>7. (more.overflow \/ FALSE) = FALSE
  BY <1>6
<1>8. [val |-> more.val, overflow |-> more.overflow \/ FALSE] = [val |-> Of(a + b), overflow |-> FALSE]
  BY <1>6, <1>7
<1> QED
  BY <1>8 DEF more

\* The blocks of a window are ancestors of h with targets up to v.
IsWindow(at, h, n, v) ==
  \A i \in 0 .. n - 1 : at[i] = Ancestor(h, i) /\ at[i] \in Hash /\ TargetOf(at[i]) <= v

\* The total of a window is the sum of its targets, without an overflow.
LEMMA TotalIs ==
  ASSUME NEW h, NEW at, NEW n \in Nat, NEW g, IsSum(g, h, n), NEW v \in Nat, n * v < Size,
         IsWindow(at, h, n, v)
  PROVE  /\ Zec!total_target(at, n) = [val |-> Of(g[n]), overflow |-> FALSE]
         /\ g[n] \in Nat /\ g[n] <= n * v
<1> DEFINE Sum(i) == [val |-> Of(g[i]), overflow |-> FALSE]
<1>1. \A i \in 0 .. n - 1 :
         /\ TargetOf(Ancestor(h, i)) \in 0 .. v
         /\ target_from_bits(Bits[at[i]]) = Of(TargetOf(Ancestor(h, i)))
  <2> SUFFICES ASSUME NEW i \in 0 .. n - 1
               PROVE  /\ TargetOf(at[i]) \in 0 .. v
                      /\ target_from_bits(Bits[at[i]]) = Of(TargetOf(at[i]))
    BY Zenon DEF IsWindow
  <2>1. Bits[at[i]] \in Nat /\ TargetOf(at[i]) <= v
    BY FieldsAssumption DEF IsWindow
  <2>2. TargetOf(at[i]) \in 0 .. Size - 1 /\ target_from_bits(Bits[at[i]]) = Of(TargetOf(at[i]))
    BY <2>1, TargetIs DEF TargetOf
  <2> QED
    BY <2>1, <2>2, BaseType
<1>2. \A i \in 0 .. n : g[i] \in Nat /\ g[i] <= i * v
  BY <1>1, SumBounds
<1>3. g[0] = 0 /\ \A i \in Nat : i + 1 <= n => g[i + 1] = g[i] + TargetOf(Ancestor(h, i))
  <2>1. 0 \in 0 .. n
    OBVIOUS
  <2>2. \A i \in Nat : i + 1 <= n => i + 1 \in 0 .. n /\ i + 1 # 0 /\ (i + 1) - 1 = i
    OBVIOUS
  <2> QED
    BY <2>1, <2>2 DEF IsSum
<1>4. Sum(0) = [val |-> ZERO, overflow |-> FALSE]
  <2>1. Of(0) = ZERO
    BY BaseType, LowLimb DEF ZERO
  <2> QED
    BY <1>3, <2>1
<1>5. ASSUME NEW i \in Nat, i + 1 <= n
      PROVE  LET more == overflowing_add(Sum(i).val, target_from_bits(Bits[at[i]]))
             IN  [val |-> more.val, overflow |-> more.overflow \/ Sum(i).overflow] = Sum(i + 1)
  <2> DEFINE t == TargetOf(Ancestor(h, i))
  <2>1. i \in 0 .. n - 1 /\ i + 1 \in 0 .. n /\ i \in 0 .. n
    BY <1>5
  <2>2. t \in Nat /\ g[i] \in Nat /\ g[i + 1] = g[i] + t /\ target_from_bits(Bits[at[i]]) = Of(t)
    BY <1>1, <1>2, <1>3, <1>5, <2>1
  <2>3. g[i + 1] <= (i + 1) * v
    BY <1>2, <2>1
  <2>4. (i + 1) * v <= n * v /\ (i + 1) * v \in Nat /\ n * v \in Nat /\ Size \in Nat
    BY <1>5, BaseType
  <2> HIDE DEF t
  <2>5. g[i] + t < Size
    BY <2>2, <2>3, <2>4
  <2> DEFINE more == overflowing_add(Of(g[i]), Of(t))
  <2>6. [val |-> more.val, overflow |-> more.overflow \/ FALSE]
          = [val |-> Of(g[i] + t), overflow |-> FALSE]
    BY <2>2, <2>5, TotalStep
  <2> QED
    BY <2>2, <2>6
<1> HIDE DEF Sum
<1> DEFINE e == [i \in 0 .. n |-> Sum(i)]
<1>6. IsTotal(e, at, n)
  <2> SUFFICES ASSUME NEW i \in 0 .. n
               PROVE  Sum(i) = IF i = 0 THEN [val |-> ZERO, overflow |-> FALSE]
                               ELSE LET more == overflowing_add(e[i - 1].val,
                                                                target_from_bits(Bits[at[i - 1]]))
                                    IN  [val |-> more.val, overflow |-> more.overflow \/ e[i - 1].overflow]
    BY DEF IsTotal
  <2>1. CASE i = 0
    BY <1>4, <2>1
  <2>2. CASE i # 0
    <3>1. i - 1 \in Nat /\ (i - 1) + 1 = i /\ i - 1 \in 0 .. n /\ (i - 1) + 1 <= n
      BY <2>2
    <3>2. e[i - 1] = Sum(i - 1)
      BY <3>1
    <3> HIDE DEF e
    <3> QED
      BY <1>5, <2>2, <3>1, <3>2
  <2> QED
    BY <2>1, <2>2
<1> DEFINE f == CHOOSE x : IsTotal(x, at, n)
<1>7. IsTotal(f, at, n)
  <2> HIDE DEF e
  <2> QED
    BY <1>6, Zenon
<1>8. Zec!total_target(at, n) = f[n]
  <2> DEFINE Same(x) ==
        x = [i \in 0 .. n |->
               IF i = 0 THEN [val |-> Zec!ZERO, overflow |-> FALSE]
               ELSE LET more == Zec!overflowing_add(x[i - 1].val,
                                                    Zec!target_from_bits(Bits[at[i - 1]]))
                    IN  [val |-> more.val, overflow |-> more.overflow \/ x[i - 1].overflow]]
  <2>1. Zec!total_target(at, n) = (CHOOSE x : Same(x))[n]
    BY DEF Zec!total_target
  <2>2. \A x : Same(x) <=> IsTotal(x, at, n)
    BY ZecWindow, ZecArithmetic DEF IsTotal
  <2> HIDE DEF Same
  <2>3. (CHOOSE x : Same(x)) = f
    BY <2>2, Zenon
  <2> QED
    BY <2>1, <2>3
<1> HIDE DEF f
<1> DEFINE S == {i \in Nat : i <= n => f[i] = Sum(i)}
<1>9. n \in S
  <2>1. 0 \in S
    <3>1. 0 \in 0 .. n
      OBVIOUS
    <3>2. f[0] = [val |-> ZERO, overflow |-> FALSE]
      BY <1>7, <3>1 DEF IsTotal
    <3> QED
      BY <1>4, <3>2
  <2>2. ASSUME NEW i \in Nat, i \in S PROVE i + 1 \in S
    <3>0. i + 1 \in Nat
      OBVIOUS
    <3> SUFFICES ASSUME i + 1 <= n PROVE f[i + 1] = Sum(i + 1)
      BY <3>0
    <3>1. i + 1 \in 0 .. n /\ i + 1 # 0 /\ (i + 1) - 1 = i /\ i <= n
      OBVIOUS
    <3>2. f[i + 1] = LET more == overflowing_add(f[i].val, target_from_bits(Bits[at[i]]))
                     IN  [val |-> more.val, overflow |-> more.overflow \/ f[i].overflow]
      BY <1>7, <3>1 DEF IsTotal
    <3>3. f[i] = Sum(i)
      BY <2>2, <3>1
    <3> HIDE DEF S
    <3> QED
      BY <1>5, <3>2, <3>3
  <2> HIDE DEF S
  <2> QED
    BY <2>1, <2>2, SetInduction
<1>10. n \in 0 .. n
  OBVIOUS
<1> QED
  BY <1>2, <1>8, <1>9, <1>10 DEF S, Sum

\* The network's mean target is that of a sum of the window.
LEMMA MeanIs ==
  ASSUME pow_averaging_window \in Nat, NEW h
  PROVE  \E g : /\ IsSum(g, h, pow_averaging_window)
                /\ Zec!MeanTarget(h) = g[pow_averaging_window] \div pow_averaging_window
<1> DEFINE w == pow_averaging_window
           Same(x) == x = [i \in 0 .. w |->
                             IF i = 0 THEN 0 ELSE x[i - 1] + Zec!TargetOf(Zec!Ancestor(h, i - 1))]
           g == CHOOSE x : Same(x)
<1>1. Zec!MeanTarget(h) = g[w] \div w
  BY DEF Zec!MeanTarget
<1>2. \A x : Same(x) <=> IsSum(x, h, w)
  BY ZecArithmetic, ZecLookups DEF IsSum
<1> HIDE DEF Same
<1>3. \E x : Same(x)
  BY <1>2, SumExists
<1>4. Same(g)
  BY <1>3, Zenon
<1> HIDE DEF g
<1> QED
  BY <1>1, <1>2, <1>4

\* A retarget from a mean within the limit: the mean is divided before it is
\* multiplied.
LEMMA ZcashRetarget ==
  ASSUME Zec!WindowsScale, NEW x \in 0 .. Size - 1, x <= Val(pow_limit),
         NEW m \in 0 .. Zec!max_actual_timespan,
         LET low == (x \div Zec!averaging_window_timespan) % Base
         IN  (low * m) \div Base <= ((low \div Half) * m) \div Half
  PROVE  LET span    == Zec!averaging_window_timespan
             product == overflowing_mul(quotient(Of(x), from(span)), m)
         IN  /\ (x \div span) * m \in 0 .. Size - 1
             /\ limited_bits(product, product.val) = {LimitedCompact((x \div span) * m)}
<1> DEFINE T == Zec!averaging_window_timespan
           most == Zec!max_actual_timespan
           v == Val(pow_limit)
           n == x \div T
           product == overflowing_mul(Of(n), m)
<1>1. /\ T \in 1 .. Base - 1 /\ most \in 0 .. Half - 1 /\ (v \div T) * most < Size
      /\ v \in Nat
  BY ZecNumbers, ZecWindow, ConfigAssumption DEF Zec!WindowsScale
<1> HIDE DEF T, most, v
<1>2. quotient(Of(x), from(T)) = Of(n) /\ n \in 0 .. Size - 1
  BY <1>1, SpanQuotient
<1>3. /\ Size \in Nat \ {0} /\ Base \in Nat \ {0} /\ Half \in Nat \ {0} /\ Base = Half * Half
      /\ T \in Nat \ {0} /\ most \in Nat /\ m \in Nat /\ m <= most /\ x \in Nat
  BY <1>1, BaseType DEF most
<1>4. n \in Nat /\ v \div T \in Nat /\ n <= v \div T
  <2> DEFINE q == v \div T
  <2>1. q \in Nat /\ v = q * T + (v % T) /\ v % T \in Nat /\ v % T < T
    BY <1>1, <1>3, DivModNat
  <2>2. (q + 1) * T = q * T + T /\ q * T \in Nat
    BY <1>3, <2>1
  <2>3. x < (q + 1) * T
    BY <1>1, <1>3, <2>1, <2>2 DEF v
  <2> HIDE DEF q
  <2>4. n < q + 1 /\ n \in Nat
    <3>1. q + 1 \in Nat
      BY <2>1
    <3> QED
      BY <1>3, <2>3, <3>1, DivBounds
  <2>5. n <= q
    BY <2>1, <2>4
  <2> QED
    BY <2>1, <2>4, <2>5 DEF q
<1> HIDE DEF n
<1>5. n * m \in 0 .. Size - 1 /\ n * m \in Nat
  <2> DEFINE q == v \div T
  <2>1. n * m <= q * m /\ q * m <= q * most
    BY <1>3, <1>4
  <2>2. n * m \in Nat /\ q * m \in Nat /\ q * most \in Nat
    BY <1>3, <1>4
  <2> HIDE DEF q
  <2>3. q * most < Size
    BY <1>1 DEF q
  <2> QED
    BY <1>3, <2>1, <2>2, <2>3
<1>6. (n * m) % Size = n * m /\ (n * m >= Size) = FALSE
  <2> DEFINE y == n * m
  <2>1. y \in 0 .. Size - 1
    BY <1>5
  <2> HIDE DEF y
  <2>2. y % Size = y /\ (y >= Size) = FALSE
    BY <1>3, <2>1, ModSmall
  <2> QED
    BY <2>2 DEF y
<1>7. ~(((n % Base) * m) \div Base > (((n % Base) \div Half) * m) \div Half)
  <2> DEFINE low == n % Base
             a == (low * m) \div Base
             b == ((low \div Half) * m) \div Half
  <2>1. a <= b
    BY DEF n, T
  <2>2. low \in Nat
    BY <1>3, <1>4, DivModNat
  <2> HIDE DEF low
  <2>3. low \div Half \in Nat /\ low * m \in Nat
    BY <1>3, <2>2, DivModNat
  <2>4. a \in Nat /\ (low \div Half) * m \in Nat
    BY <1>3, <2>3, DivModNat
  <2>5. b \in Nat
    BY <1>3, <2>4, DivModNat
  <2> HIDE DEF a, b
  <2>6. ~(a > b)
    BY <2>1, <2>4, <2>5
  <2> QED
    BY <2>6 DEF a, b, low
<1>8. m \in 0 .. Half - 1
  BY <1>1, <1>3
<1>9. product = [val |-> Of((n * m) % Size), overflow |-> n * m >= Size]
  BY <1>2, <1>7, <1>8, MulExact, Zenon
<1>10. product.val = Of(n * m) /\ product.overflow = FALSE
  <2>1. product = [val |-> Of(n * m), overflow |-> FALSE]
    BY <1>6, <1>9, Zenon
  <2> HIDE DEF product
  <2> QED
    BY <2>1
<1> HIDE DEF product
<1>11. limited_bits(product, Of(n * m)) = {LimitedCompact(n * m)}
  BY <1>5, <1>10, LimitedIs
<1> QED
  BY <1>2, <1>5, <1>10, <1>11 DEF product, n, T

\* Rounding towards zero gives an integer.
LEMMA QuarterIn ==
  ASSUME NEW e \in Int
  PROVE  Quotient(e, 4) \in Int
BY DEF Quotient

\* The damped time span is within its limits.
LEMMA DampedTimespanIn ==
  ASSUME Zec!WindowsScale, NEW h, NEW k, Ancestor(h, pow_averaging_window) = k,
         MedianTimePast(h) \in Nat, MedianTimePast(k) \in Nat
  PROVE  /\ Zec!DampedTimespan(h) =
              Clamp(Zec!averaging_window_timespan
                      + Quotient(MedianTimePast(h) - MedianTimePast(k)
                                   - Zec!averaging_window_timespan, 4),
                    Zec!min_actual_timespan, Zec!max_actual_timespan)
         /\ Zec!DampedTimespan(h) \in 0 .. Zec!max_actual_timespan
<1> DEFINE T == Zec!averaging_window_timespan
           lo == Zec!min_actual_timespan
           hi == Zec!max_actual_timespan
           e == MedianTimePast(h) - MedianTimePast(k) - T
           n == T + Quotient(e, 4)
<1>1. T \in Int /\ lo \in 0 .. hi /\ hi \in Nat
  BY ZecNumbers, BaseType DEF Zec!WindowsScale
<1>2. Zec!DampedTimespan(h) = Clamp(n, lo, hi)
  <2> HIDE DEF T, lo, hi
  <2> QED
    BY ZecNumbers, ZecLookups, ZecWindow DEF Zec!DampedTimespan, T, lo, hi
<1> HIDE DEF T, lo, hi
<1>3. e \in Int
  BY <1>1
<1>4. n \in Int
  <2> HIDE DEF e
  <2>1. Quotient(e, 4) \in Int
    BY <1>3, QuarterIn
  <2> QED
    BY <1>1, <2>1
<1>5. lo \in Int /\ hi \in Int /\ lo <= hi
  BY <1>1
<1>6. Clamp(n, lo, hi) \in lo .. hi
  <2> HIDE DEF n
  <2> QED
    BY <1>4, <1>5, ClampIn
<1> HIDE DEF n
<1> QED
  BY <1>1, <1>2, <1>6 DEF n, e, T, lo, hi

\* A block with a window and a median before it in the pool is above them.
LEMMA StoredBackHigh ==
  ASSUME pow_averaging_window \in Nat, NEW s, DOMAIN s.headers_pool \subseteq Mined,
         NEW p \in Hash, StoredBack(s, p)
  PROVE  /\ p \in DOMAIN s.headers_pool /\ IsMined(p)
         /\ TrueHeight(p) >= GenesisHeight + pow_averaging_window + MEDIAN_TIME_SPAN
<1> DEFINE g == Ancestor(p, Reach)
<1>1. Reach \in Nat /\ 0 \in 0 .. Reach /\ Reach \in 0 .. Reach
      /\ pow_averaging_window \in Nat /\ MEDIAN_TIME_SPAN \in Nat
      /\ Reach = pow_averaging_window + MEDIAN_TIME_SPAN
  BY SpanAssumption DEF Reach
<1>2. p \in DOMAIN s.headers_pool /\ g \in DOMAIN s.headers_pool
  BY <1>1, FirstAncestors DEF StoredBack
<1>3. IsMined(p) /\ g \in Mined /\ g \in Hash
  BY <1>2 DEF Mined
<1>4. TrueHeight(g) = TrueHeight(p) - Reach
  BY <1>1, <1>3, AncestorHeight
<1>5. TrueHeight(g) >= GenesisHeight /\ TrueHeight(p) \in Int /\ GenesisHeight \in Nat
  <2>1. TrueHeight(g) \in Int /\ TrueHeight(p) \in Int /\ GenesisHeight \in Nat
    BY <1>3, TrueValues, ParametersAssumption
  <2> QED
    BY <1>3, <2>1 DEF Mined, IsMined
<1> HIDE DEF g
<1> QED
  BY <1>1, <1>2, <1>3, <1>4, <1>5

\* The mean target of the window of such a block.
LEMMA WindowMean ==
  ASSUME Zec!WindowsScale, NEW s, IsStorage(s), DOMAIN s.headers_pool \subseteq Limited,
         NEW p \in Hash, StoredBack(s, p)
  PROVE  LET at    == [i \in 0 .. pow_averaging_window |-> get_prev_headers(s, p, i)]
             total == Zec!total_target(at, pow_averaging_window)
         IN  /\ ~total.overflow
             /\ quotient(total.val, from(pow_averaging_window)) = Of(Zec!MeanTarget(p))
             /\ Zec!MeanTarget(p) \in 0 .. Size - 1
             /\ Zec!MeanTarget(p) <= Val(pow_limit)
<1> DEFINE w == pow_averaging_window
           v == Val(pow_limit)
           at == [i \in 0 .. w |-> get_prev_headers(s, p, i)]
           total == Zec!total_target(at, w)
<1>1. /\ w \in Nat /\ w >= MEDIAN_TIME_SPAN /\ w \in 1 .. Base - 1 /\ w * v < Size
      /\ v \in Nat /\ Size \in Nat
  BY ZecNumbers, ZecWindow, ConfigAssumption, SpanAssumption, BaseType DEF Zec!WindowsScale
<1>2. \A i \in 0 .. w : at[i] = Ancestor(p, i) /\ at[i] \in Hash
  BY <1>1, WindowReads
<1>3. \A i \in 0 .. w - 1 : at[i] = Ancestor(p, i) /\ at[i] \in Hash /\ TargetOf(at[i]) <= v
  <2> SUFFICES ASSUME NEW i \in 0 .. w - 1
               PROVE  at[i] = Ancestor(p, i) /\ at[i] \in Hash /\ TargetOf(at[i]) <= v
    OBVIOUS
  <2>1. i \in 0 .. w /\ i \in 0 .. Reach
    BY <1>1, SpanAssumption DEF Reach
  <2>2. Ancestor(p, i) \in DOMAIN s.headers_pool
    BY <2>1 DEF StoredBack
  <2>3. TargetOf(Ancestor(p, i)) <= v
    BY <2>2 DEF Limited
  <2> HIDE DEF at
  <2> QED
    BY <1>2, <2>1, <2>3
<1> HIDE DEF at
<1>4. PICK g : IsSum(g, p, w) /\ Zec!MeanTarget(p) = g[w] \div w
  BY <1>1, MeanIs
<1>5. total = [val |-> Of(g[w]), overflow |-> FALSE] /\ g[w] \in Nat /\ g[w] <= w * v
  <2> HIDE DEF w, v
  <2>1. IsWindow(at, p, w, v)
    BY <1>3 DEF IsWindow
  <2>2. IsSum(g, p, w) /\ w \in Nat /\ v \in Nat /\ w * v < Size
    BY <1>1, <1>4
  <2> QED
    BY <2>1, <2>2, TotalIs
<1> HIDE DEF total
<1>6. g[w] \in 0 .. Size - 1
  <2>1. w * v \in Nat
    BY <1>1
  <2> QED
    BY <1>1, <1>5, <2>1
<1>7. total.val = Of(g[w]) /\ ~total.overflow
  BY <1>5
<1>8. quotient(Of(g[w]), from(w)) = Of(g[w] \div w) /\ g[w] \div w \in 0 .. Size - 1
  BY <1>1, <1>6, SpanQuotient
<1>9. g[w] \div w <= v
  <2> DEFINE y == g[w]
  <2>1. y \in Nat /\ w \in Nat \ {0} /\ v + 1 \in Nat
    BY <1>1, <1>5
  <2>2. (v + 1) * w = w * v + w /\ w * v \in Nat
    BY <1>1
  <2>3. y <= w * v
    BY <1>5
  <2> HIDE DEF y
  <2>4. y < (v + 1) * w
    BY <1>1, <2>1, <2>2, <2>3
  <2>5. y \div w < v + 1 /\ y \div w \in Nat
    BY <2>1, <2>4, DivBounds
  <2>6. y \div w <= v
    BY <1>1, <2>5
  <2> QED
    BY <2>6 DEF y
<1> QED
  BY <1>4, <1>7, <1>8, <1>9 DEF total, at

\* What the check of a header expects is what the network's rule says, where
\* the blocks that it reads are stored, on a fork or on the main chain.
LEMMA ZcashBits ==
  ASSUME Zec!WindowsScale, NEW s, IsStorage(s), IsTrue(s),
         DOMAIN s.headers_pool \subseteq Limited,
         NEW h \in Hash, Prev[h] \in Hash, StoredBack(s, Prev[h])
  PROVE  /\ Zec!zcash_get_next_work_required(s, h)
              = {[expected_bits |-> Zec!NetworkBits(h),
                  prev_block_median_time_past |-> MedianTimePast(Prev[h])]}
         /\ \/ Zec!NetworkBits(h) = proof_of_work_limit_bits
            \/ \E v \in 0 .. Size - 1 : Zec!NetworkBits(h) = LimitedCompact(v)
<1> DEFINE w == pow_averaging_window
           n == MEDIAN_TIME_SPAN
           p == Prev[h]
           q == Ancestor(p, w)
           T == Zec!averaging_window_timespan
           at == [i \in 0 .. w |-> get_prev_headers(s, p, i)]
           before == [i \in 0 .. n |-> get_prev_headers(s, p, w + i)]
           total == Zec!total_target(at, w)
           mean == Zec!MeanTarget(p)
           m == Zec!DampedTimespan(p)
           v == (mean \div T) * m
           H == pow_allow_min_difficulty_blocks_after_height
           easy == /\ pow_allow_min_difficulty_blocks
                   /\ TrueHeight(p) >= H
                   /\ Time[h] - Time[p] > 6 * pow_target_spacing
<1>1. w \in Nat /\ w >= n
  BY DEF Zec!WindowsScale
<1>2. /\ before[n] # NoHash
      /\ Median(at, n) = MedianTimePast(p) /\ MedianTimePast(p) \in Nat
      /\ Median(before, n) = MedianTimePast(q) /\ MedianTimePast(q) \in Nat
  BY <1>1, WindowReads
<1>3. /\ ~total.overflow /\ quotient(total.val, from(w)) = Of(mean)
      /\ mean \in 0 .. Size - 1 /\ mean <= Val(pow_limit)
  BY WindowMean
<1>4. /\ m = Clamp(T + Quotient(MedianTimePast(p) - MedianTimePast(q) - T, 4),
                   Zec!min_actual_timespan, Zec!max_actual_timespan)
      /\ m \in 0 .. Zec!max_actual_timespan
  BY <1>2, DampedTimespanIn
<1>5. p \in DOMAIN s.headers_pool /\ IsMined(p)
      /\ TrueHeight(p) >= GenesisHeight + w + n
  BY <1>1, StoredBackHigh DEF Limited
<1>6. LET low == (mean \div T) % Base
      IN  (low * m) \div Base <= ((low \div Half) * m) \div Half
  BY <1>5, ZecNumbers, ZecWindow, ZecLookups DEF Zec!WindowsScale
<1>7. /\ v \in 0 .. Size - 1
      /\ LET product == overflowing_mul(quotient(Of(mean), from(T)), m)
         IN  limited_bits(product, product.val) = {LimitedCompact(v)}
  <2> HIDE DEF mean, m, T
  <2> QED
    BY <1>3, <1>4, <1>6, ZcashRetarget DEF T
<1>8. Zec!zcash_calculate_next_work_required(Of(mean), MedianTimePast(p), MedianTimePast(q))
        = {LimitedCompact(v)}
  <2> HIDE DEF mean, v, q, p
  <2> QED
    BY <1>4, <1>7, ZecNumbers, ZecArithmetic, ZecWindow
    DEF Zec!zcash_calculate_next_work_required, T
<1>9. Zec!NetworkBits(h) = IF easy THEN proof_of_work_limit_bits ELSE LimitedCompact(v)
  BY ZecArithmetic, ZecLookups DEF Zec!NetworkBits
<1>10. easy <=> /\ pow_allow_min_difficulty_blocks
                /\ s.headers_pool[p].block_height >= H
                /\ Time[h] > Time[p] + pow_target_spacing * 6
  <2>1. s.headers_pool[p].block_height = TrueHeight(p)
    BY <1>5 DEF IsTrue
  <2>2. Time[h] \in Nat /\ Time[p] \in Nat /\ pow_target_spacing \in Nat
    BY FieldsAssumption, ConfigAssumption
  <2> QED
    BY <2>1, <2>2
<1> HIDE DEF easy, v
<1> DEFINE expected == IF easy THEN {proof_of_work_limit_bits}
                       ELSE Zec!zcash_calculate_next_work_required(
                              quotient(total.val, from(w)), Median(at, n), Median(before, n))
<1>11. expected = {Zec!NetworkBits(h)}
  <2> HIDE DEF at, before, total, mean, q
  <2> QED
    BY <1>2, <1>3, <1>8, <1>9
<1>12. Zec!zcash_get_next_work_required(s, h) =
         IF before[n] = NoHash \/ total.overflow THEN {}
         ELSE {[expected_bits |-> b, prev_block_median_time_past |-> Median(at, n)] : b \in expected}
  <2>1. /\ at = [i \in 0 .. w |-> Zec!get_prev_headers(s, p, i)]
        /\ before = [i \in 0 .. n |-> Zec!get_prev_headers(s, p, w + i)]
    BY ZecLookups
  <2> HIDE DEF at, before
  <2> QED
    BY <1>10, <2>1, ZecNumbers, ZecArithmetic, ZecWindow DEF Zec!zcash_get_next_work_required
<1> HIDE DEF expected, at, before, total
<1>13. Zec!zcash_get_next_work_required(s, h) =
         {[expected_bits |-> b, prev_block_median_time_past |-> MedianTimePast(p)] :
            b \in {Zec!NetworkBits(h)}}
  BY <1>2, <1>3, <1>11, <1>12
<1> QED
  BY <1>7, <1>9, <1>13

\* The check walks back over a window and a median.
LEMMA ZcashReadsBack ==
  ASSUME \A s, h, now : CheckTarget(s, h, now) <=> Zec!check_pow(s, h, now),
         Chain = "zcash", pow_averaging_window \in Nat
  PROVE  ReadsBack(Reach) /\ Reach \in Nat
<1>1. /\ Reach \in Nat /\ Reach = pow_averaging_window + MEDIAN_TIME_SPAN
      /\ MEDIAN_TIME_SPAN \in Nat /\ MEDIAN_TIME_SPAN \in 0 .. MEDIAN_TIME_SPAN
  BY SpanAssumption DEF Reach
<1>2. ASSUME NEW s, NEW h, NEW now, CheckTarget(s, h, now)
      PROVE  get_prev_headers(s, Prev[h], Reach) # NoHash
  <2> DEFINE n == MEDIAN_TIME_SPAN
             before == [i \in 0 .. n |-> Zec!get_prev_headers(s, Prev[h], pow_averaging_window + i)]
  <2>1. Zec!zcash_get_next_work_required(s, h) # {}
    BY <1>2 DEF Zec!check_pow
  <2>2. before[n] # NoHash
    BY <2>1 DEF Zec!zcash_get_next_work_required
  <2> QED
    BY <1>1, <2>2, ZecLookups
<1>3. ASSUME NEW hs \in InitBlocks, init_requires(hs)
      PROVE  Len(hs) > Reach
  <2>1. Len(hs) \in Nat
    BY ParametersAssumption
  <2>2. MEDIAN_TIME_SPAN + pow_averaging_window = Len(hs) - 1
    BY <1>3 DEF init_requires
  <2> QED
    BY <1>1, <2>1, <2>2
<1> QED
  BY <1>1, <1>2, <1>3 DEF ReadsBack

\* Where the walk succeeds, the blocks are stored.
LEMMA WalkStored ==
  ASSUME NEW s, IsStorage(s), NEW p \in DOMAIN s.headers_pool, Reach \in Nat,
         get_prev_headers(s, p, Reach) # NoHash
  PROVE  StoredBack(s, p)
<1> SUFFICES ASSUME NEW i \in 0 .. Reach
             PROVE  Ancestor(p, i) \in DOMAIN s.headers_pool
  BY DEF StoredBack
<1>1. i \in Nat /\ i <= Reach /\ p \in Hash
  BY DEF IsStorage
<1>2. get_prev_headers(s, p, i) # NoHash
  BY <1>1, WalkSucceeds
<1> QED
  BY <1>1, <1>2, WalkInPool, WalkIsAncestors

\* The blocks before the tip, and those before a header with its ancestors
\* stored, are.
LEMMA ChildStored ==
  ASSUME Inv, Initialised, Chain = "zcash", pow_averaging_window \in Nat,
         Reach \in Nat, HasBefore(Reach),
         NEW h \in Hash, Prev[h] = saved.tip_blockhash \/ AncestorsStored(h)
  PROVE  Prev[h] \in Hash /\ StoredBack(saved, Prev[h])
<1>1. IsStorage(saved)
  BY SavedIsSound
<1>2. CASE Prev[h] = saved.tip_blockhash
  <2>1. saved.tip_blockhash \in Hash /\ TipHeight \in Int
        /\ TrueHeight(saved.initial_blockhash) \in Int
    BY <1>2, TipIs
  <2>2. ASSUME NEW i \in 0 .. Reach
        PROVE  Ancestor(saved.tip_blockhash, i) \in DOMAIN saved.headers_pool
    <3>1. i \in Nat /\ HasBefore(i)
      BY <2>1 DEF HasBefore
    <3> QED
      BY <3>1, TipReads
  <2> QED
    BY <1>2, <2>1, <2>2 DEF StoredBack
<1>3. CASE AncestorsStored(h)
  <2>1. \A k \in 1 .. Reach + 1 : Ancestor(h, k) \in DOMAIN saved.headers_pool
    <3>1. MEDIAN_TIME_SPAN + pow_averaging_window + 1 = Reach + 1
      BY SpanAssumption DEF Reach
    <3>2. \A k \in 1 .. MEDIAN_TIME_SPAN + pow_averaging_window + 1 :
             Ancestor(h, k) \in DOMAIN saved.headers_pool
      BY <1>3 DEF AncestorsStored
    <3> QED
      BY <3>1, <3>2
  <2>2. ASSUME NEW i \in 0 .. Reach
        PROVE  Ancestor(Prev[h], i) \in DOMAIN saved.headers_pool
    <3>1. i \in Nat /\ i + 1 \in 1 .. Reach + 1
      OBVIOUS
    <3> QED
      BY <2>1, <3>1, AncestorOfParent
  <2>3. Prev[h] \in DOMAIN saved.headers_pool
    <3>1. 1 \in 1 .. Reach + 1
      OBVIOUS
    <3> QED
      BY <2>1, <3>1, FirstAncestors
  <2> QED
    BY <1>1, <2>2, <2>3 DEF StoredBack, IsStorage
<1> QED
  BY <1>2, <1>3

\* Zcash, with or without minimum difficulty blocks: the check of a header on
\* the tip or on a fork decides what the network's rule does.
THEOREM ZcashTheorem ==
  ASSUME \A s, h, now : CheckTarget(s, h, now) <=> Zec!check_pow(s, h, now),
         \A h, now : NetworkAccepts(h, now) <=> Zec!IsValid(h, now),
         Chain = "zcash", ~skip_pow_verification, InitIsChain,
         KeepsBlocks(pow_averaging_window + MEDIAN_TIME_SPAN),
         Zec!WindowsScale, LimitHolds
  PROVE  Spec => []EveryChildJudgedByNetwork
<1>1. ReadsBack(Reach) /\ Reach \in Nat
  BY ZcashReadsBack DEF Zec!WindowsScale
<1>2. Closed(Limited) /\ Limited \in SUBSET Mined
  <2>1. ASSUME NEW s, NEW h, NEW now,
               IsStorage(s) /\ IsTrue(s) /\ DOMAIN s.headers_pool \subseteq Limited,
               h \in Hash /\ Prev[h] \in DOMAIN s.headers_pool,
               CheckTarget(s, h, now)
        PROVE  TargetOf(h) <= Val(pow_limit)
    <3>1. Prev[h] \in Hash /\ get_prev_headers(s, Prev[h], Reach) # NoHash
      BY <1>1, <2>1 DEF ReadsBack, IsStorage
    <3>2. StoredBack(s, Prev[h])
      BY <1>1, <2>1, <3>1, WalkStored
    <3>3. Bits[h] = Zec!NetworkBits(h)
      BY <2>1, <3>1, <3>2, ZcashBits DEF Zec!check_pow
    <3>4. \/ Bits[h] = proof_of_work_limit_bits
          \/ \E v \in 0 .. Size - 1 : Bits[h] = LimitedCompact(v)
      BY <2>1, <3>1, <3>2, <3>3, ZcashBits
    <3> QED
      BY <3>4, LimitedTarget DEF TargetOf, LimitHolds
  <2> QED
    BY <2>1, LimitedClosed
<1>3. ASSUME LongInv(Reach, Limited)
      PROVE  EveryChildJudgedByNetwork
  <2>0. Inv /\ PoolInv(Limited) /\ PoolInv(Mined) /\ TallInv(Reach) /\ KeptInv
    BY <1>3 DEF LongInv
  <2> SUFFICES ASSUME Initialised, NEW h \in Hash,
                      Prev[h] = saved.tip_blockhash \/ AncestorsStored(h)
               PROVE  Zec!check_pow(saved, h, clock) <=> Zec!IsValid(h, clock)
    BY DEF EveryChildJudgedByNetwork, JudgedByNetwork
  <2>1. HasBefore(Reach)
    BY <1>1, <2>0, LongDepth DEF Reach
  <2>2. Prev[h] \in Hash /\ StoredBack(saved, Prev[h])
    BY <1>1, <2>0, <2>1, ChildStored DEF Zec!WindowsScale
  <2>3. IsStorage(saved) /\ IsTrue(saved) /\ DOMAIN saved.headers_pool \subseteq Limited
    BY <2>0, SavedIsSound, SoundReadings DEF PoolInv
  <2>4. Zec!zcash_get_next_work_required(saved, h)
          = {[expected_bits |-> Zec!NetworkBits(h),
              prev_block_median_time_past |-> MedianTimePast(Prev[h])]}
    BY <2>2, <2>3, ZcashBits
  <2>5. Zec!TimeIsValid(h, clock) <=>
          /\ Time[h] > MedianTimePast(Prev[h])
          /\ Time[h] <= clock + MAX_FUTURE_BLOCK_TIME_LOCAL
    BY ZecLookups DEF TimeIsValid
  <2> QED
    BY <2>4, <2>5, ZecWindow DEF Zec!check_pow, Zec!IsValid
<1>4. Init => LongInv(Reach, Limited)
  BY InitLong
<1>5. LongInv(Reach, Limited) /\ [Next]_vars => LongInv(Reach, Limited)'
  BY <1>1, <1>2, NextLong
<1> QED
  BY <1>3, <1>4, <1>5, PTL DEF Spec
=============================================================================
