--------------------------- MODULE RelayerProofs ---------------------------
(***************************************************************************)
(* The relayer never goes on above what the contract has work for.         *)
(***************************************************************************)
EXTENDS Relayer, HeaviestChainProofs, SequenceTheorems

-----------------------------------------------------------------------------
(***************************************************************************)
(* Minima, maxima, intervals.                                              *)
(***************************************************************************)

\* The lower of two integers.
LEMMA MinPair ==
  ASSUME NEW x \in Int, NEW y \in Int
  PROVE  Min({x, y}) \in {x, y} /\ Min({x, y}) <= x /\ Min({x, y}) <= y
BY DEF Min

\* The higher of two integers.
LEMMA MaxPair ==
  ASSUME NEW x \in Int, NEW y \in Int
  PROVE  Max({x, y}) \in {x, y} /\ Max({x, y}) >= x /\ Max({x, y}) >= y
BY DEF Max

\* A set of natural numbers has its minimum.
LEMMA MinNat ==
  ASSUME NEW S \in SUBSET Nat, S # {}
  PROVE  Min(S) \in S
<1> DEFINE R == OpToRel(<, Nat)
<1>1. IsWellFoundedOn(R, Nat)
  BY NatLessThanWellFounded, Zenon DEF R
<1> HIDE DEF R
<1>2. PICK x \in S : \A y \in S : ~(<<y, x>> \in R)
  BY <1>1, WFMin
<1>3. \A y \in S : ~(y < x)
  BY <1>2 DEF R, OpToRel
<1>4. \A y \in S : x <= y
  BY <1>3
<1> QED
  BY <1>2, <1>4 DEF Min

\* A part of an interval that holds with a number all below it is an interval,
\* as long as its cardinality.
LEMMA PrefixIsInterval ==
  ASSUME NEW lo \in Int, NEW hi \in Int, NEW G \in SUBSET (lo .. hi),
         \A k \in G : lo .. k \subseteq G
  PROVE  Cardinality(G) \in Nat /\ G = lo .. (lo + Cardinality(G) - 1)
<1> DEFINE S == {d \in Nat : \/ lo .. (lo + d - 1) \subseteq G
                             \/ \E m \in Nat : G = lo .. (lo + m - 1)}
<1>1. 0 \in S
  <2>1. lo .. (lo + 0 - 1) = {}
    OBVIOUS
  <2> QED
    BY <2>1
<1>2. ASSUME NEW d \in Nat, d \in S PROVE d + 1 \in S
  <2>1. CASE \E m \in Nat : G = lo .. (lo + m - 1)
    BY <2>1
  <2>2. CASE lo .. (lo + d - 1) \subseteq G /\ lo + d \in G
    <3>1. lo .. (lo + (d + 1) - 1) \subseteq G
      BY <2>2
    <3> QED
      BY <3>1
  <2>3. CASE lo .. (lo + d - 1) \subseteq G /\ lo + d \notin G
    <3>1. ASSUME NEW k \in G PROVE k \in lo .. (lo + d - 1)
      <4>1. k \in Int /\ lo <= k /\ (lo + d <= k => lo + d \in lo .. k)
        OBVIOUS
      <4>2. ~(lo + d <= k)
        BY <2>3, <4>1
      <4> QED
        BY <4>1, <4>2
    <3>2. G = lo .. (lo + d - 1)
      BY <2>3, <3>1
    <3> QED
      BY <3>2
  <2> QED
    BY <1>2, <2>1, <2>2, <2>3
<1>3. Nat \subseteq S
  <2> HIDE DEF S
  <2> QED
    BY <1>1, <1>2, SetInduction
<1>4. \E m \in Nat : G = lo .. (lo + m - 1)
  <2>1. CASE hi < lo
    <3>1. G = {} /\ lo .. (lo + 0 - 1) = {}
      BY <2>1
    <3> QED
      BY <3>1
  <2>2. CASE lo <= hi
    <3>1. hi - lo + 1 \in Nat /\ lo + (hi - lo + 1) - 1 = hi
      BY <2>2
    <3>2. hi - lo + 1 \in S
      BY <1>3, <3>1
    <3>3. lo .. hi \subseteq G \/ \E m \in Nat : G = lo .. (lo + m - 1)
      BY <3>1, <3>2
    <3>4. lo .. hi \subseteq G => G = lo .. (lo + (hi - lo + 1) - 1)
      BY <3>1
    <3> QED
      BY <3>1, <3>3, <3>4
  <2> QED
    BY <2>1, <2>2
<1>5. PICK m \in Nat : G = lo .. (lo + m - 1)
  BY <1>4
<1>6. Cardinality(G) = m
  <2>1. lo + m - 1 \in Int
    OBVIOUS
  <2>2. Cardinality(lo .. (lo + m - 1)) =
          IF lo > lo + m - 1 THEN 0 ELSE (lo + m - 1) - lo + 1
    BY <2>1, FS_Interval
  <2> QED
    BY <1>5, <2>2
<1> QED
  BY <1>5, <1>6

-----------------------------------------------------------------------------
(***************************************************************************)
(* What the relayer fetches and how it cuts it up.                         *)
(***************************************************************************)

\* An ancestor is a header, or none.
LEMMA AncestorType ==
  ASSUME NEW h \in Hash, NEW n \in Nat
  PROVE  Ancestor(h, n) \in Hash \cup {NoHash}
<1> DEFINE anc == CHOOSE g : IsLine(g, h, n)
<1>1. IsLine(anc, h, n)
  BY LineExists
<1>2. Ancestor(h, n) = anc[n]
  BY DEF Ancestor, HC!Ancestor, IsLine
<1> HIDE DEF anc
<1>3. anc[n] = IF n = 0 THEN h ELSE IF anc[n - 1] \in Hash THEN Prev[anc[n - 1]] ELSE NoHash
  <2>1. n \in 0 .. n
    OBVIOUS
  <2> QED
    BY <1>1, <2>1 DEF IsLine
<1> QED
  BY <1>2, <1>3, HeadersAssumption

\* The block the node answers with is at the height asked for.
LEMMA NodeBlockHeight ==
  ASSUME node \in Hash, NEW k, NodeBlock(k) # NoHash
  PROVE  NodeBlock(k) \in Hash /\ TrueHeight(NodeBlock(k)) = k
<1> DEFINE n == TrueHeight(node) - k
<1>1. /\ k \in GenesisHeight .. TrueHeight(node) /\ NodeBlock(k) = Ancestor(node, n)
  BY DEF NodeBlock
<1>2. TrueHeight(node) \in Int
  BY TrueValues
<1>3. n \in Nat /\ TrueHeight(node) - n = k
  BY <1>1, <1>2
<1> HIDE DEF n
<1>4. Ancestor(node, n) \in Hash
  BY <1>1, <1>3, AncestorType
<1>5. TrueHeight(Ancestor(node, n)) = TrueHeight(node) - n
  BY <1>3, <1>4, AncestorHeight
<1> QED
  BY <1>1, <1>3, <1>4, <1>5

\* What was fetched is at its height, and is complete once it is signed.
FetchInv ==
  /\ \A k \in DOMAIN fetched : fetched[k] # NoHash =>
        fetched[k] \in Hash /\ TrueHeight(fetched[k]) = k
  /\ at = "sign" => DOMAIN fetched = heights

\* The blocks to submit are headers, and the last one is that many heights
\* above the first height asked for.
LEMMA BlocksToSubmit ==
  ASSUME FetchInv, DOMAIN fetched = heights,
         first_block_height_to_submit \in Int, end_height \in Int
  PROVE  LET bs == blocks_to_submit IN
         /\ bs \in Seq(Hash) /\ Len(bs) \in Nat
         /\ Len(bs) > 0 => TrueHeight(bs[Len(bs)]) = first_block_height_to_submit + Len(bs) - 1
<1> DEFINE lo == first_block_height_to_submit
           got == {k \in heights : \A j \in lo .. k : fetched[j] # NoHash}
           n == Cardinality(got)
           bs == blocks_to_submit
<1>1. bs = [i \in 1 .. n |-> fetched[lo + i - 1]]
  BY DEF blocks_to_submit
<1>2. got \in SUBSET (lo .. end_height)
  BY DEF heights
<1>3. \A k \in got : lo .. k \subseteq got
  BY DEF heights
<1>4. \A k \in got : k \in DOMAIN fetched /\ fetched[k] # NoHash
  BY DEF heights
<1> HIDE DEF got
<1>5. n \in Nat /\ got = lo .. (lo + n - 1)
  BY <1>2, <1>3, PrefixIsInterval
<1> HIDE DEF n, bs
<1>6. \A i \in 1 .. n : fetched[lo + i - 1] \in Hash /\ TrueHeight(fetched[lo + i - 1]) = lo + i - 1
  <2> SUFFICES ASSUME NEW i \in 1 .. n
               PROVE  fetched[lo + i - 1] \in Hash /\ TrueHeight(fetched[lo + i - 1]) = lo + i - 1
    OBVIOUS
  <2>1. lo + i - 1 \in got
    BY <1>5
  <2> QED
    BY <1>4, <2>1 DEF FetchInv
<1>7. bs \in Seq(Hash) /\ Len(bs) = n
  <2>1. bs \in [1 .. n -> Hash]
    BY <1>1, <1>6
  <2> QED
    BY <1>5, <2>1
<1>8. n > 0 => bs[n] = fetched[lo + n - 1] /\ TrueHeight(fetched[lo + n - 1]) = lo + n - 1
  <2>1. n > 0 => n \in 1 .. n
    BY <1>5
  <2> QED
    BY <1>1, <1>6, <2>1
<1> QED
  BY <1>5, <1>7, <1>8 DEF bs

\* Rounding up: the first index of every chunk is one of the sequence.
LEMMA ChunkStart ==
  ASSUME NEW n \in Nat, NEW size \in Nat \ {0}, NEW i \in 1 .. (n + size - 1) \div size
  PROVE  (i - 1) * size \in Nat /\ (i - 1) * size + 1 <= n /\ i * size = (i - 1) * size + size
<1> DEFINE q == (n + size - 1) \div size
<1>1. q \in Int /\ q * size <= n + size - 1
  OBVIOUS
<1> HIDE DEF q
<1>2. i \in Int /\ 1 <= i /\ i <= q
  BY DEF q
<1>3. i * size <= q * size
  BY <1>1, <1>2
<1>4. i * size = (i - 1) * size + size
  BY <1>2
<1>5. (i - 1) * size \in Nat
  BY <1>2
<1> QED
  BY <1>1, <1>3, <1>4, <1>5

\* Every chunk is a batch of headers with at least one of them.
LEMMA ChunksAreBatches ==
  ASSUME NEW bs \in Seq(Hash), current_batch_size \in Nat \ {0}
  PROVE  \A i \in DOMAIN chunks(bs) : chunks(bs)[i] \in Seq(Hash) /\ chunks(bs)[i] # <<>>
<1> DEFINE size == current_batch_size
           n == Len(bs)
           first(i) == (i - 1) * size + 1
           last(i) == Min({i * size, n})
<1>1. chunks(bs) = [i \in 1 .. (n + size - 1) \div size |-> SubSeq(bs, first(i), last(i))]
  BY DEF chunks
<1>2. n \in Nat
  OBVIOUS
<1> SUFFICES ASSUME NEW i \in 1 .. (n + size - 1) \div size
             PROVE  SubSeq(bs, first(i), last(i)) \in Seq(Hash) /\ SubSeq(bs, first(i), last(i)) # <<>>
  BY <1>1
<1>3. (i - 1) * size \in Nat /\ first(i) <= n /\ i * size = (i - 1) * size + size
  BY <1>2, ChunkStart
<1>4. first(i) \in Nat \ {0} /\ i * size \in Nat /\ first(i) <= i * size
  BY <1>3
<1>5. last(i) \in {i * size, n} /\ last(i) <= n
  <2>1. i * size \in Int /\ n \in Int
    BY <1>2, <1>4
  <2> QED
    BY <2>1, MinPair
<1>6. last(i) \in Int /\ first(i) \in Int /\ first(i) <= last(i) /\ last(i) <= n /\ 1 <= first(i)
  BY <1>2, <1>3, <1>4, <1>5
<1> HIDE DEF first, last
<1>7. \A j \in first(i) .. last(i) : bs[j] \in Hash
  BY <1>2, <1>6
<1>8. /\ SubSeq(bs, first(i), last(i)) \in Seq(Hash)
      /\ Len(SubSeq(bs, first(i), last(i))) = last(i) - first(i) + 1
  BY <1>6, <1>7, SubSeqProperties
<1>9. Len(SubSeq(bs, first(i), last(i))) # Len(<<>>)
  BY <1>6, <1>8
<1> QED
  BY <1>8, <1>9

-----------------------------------------------------------------------------
(***************************************************************************)
(* The invariant.                                                          *)
(***************************************************************************)

\* A contract with storage s has a tip with at least the work of h.
Known(s, h) == h \in Hash /\ Sound(s) /\ TrueWork(h) <= TrueWork(s.tip_blockhash)

\* Height k is at most one above such a header.
Reached(s, k) == \E h \in Hash : Known(s, h) /\ k <= TrueHeight(h) + 1

\* The headers a call has stored are no heavier than the tip it works on.
CallInv ==
  pc \in {"headers", "walk"} /\ ~call.init =>
    \A j \in 1 .. Len(call.headers) : j < call.next =>
       TrueWork(call.headers[j]) <=
         TrueWork(IF pc = "walk" THEN fork_tip ELSE db.tip_blockhash)

\* Views see a state the contract was in.
FinalInv ==
  /\ IsStorage(final)
  /\ final # EmptyStorage => Sound(final) /\ Known(saved, final.tip_blockhash)

Sent == {"pending", "running"} \cup Answers

TaskType ==
  [nonce : Int, blocks : Seq(Hash), state : {"tip", "compare", "hashes", "done"} \cup Sent,
   tip : Hash \cup {NoHash}, gas_burnt : Nat]

RelayerTypeOK ==
  /\ node \in Hash
  /\ first_block_height_to_submit \in Int
  /\ end_height \in Int
  /\ current_batch_size \in Nat \ {0}
  /\ gas \in Nat
  /\ tasks \in [DOMAIN tasks -> TaskType]
  /\ orphans \subseteq [nonce : Int, blocks : Seq(Hash)]

\* A submission has blocks; one that succeeded has its last block, and a lookup
\* the tip it read, below the tip's work.
GoodTask(s, t) ==
  /\ t.state \in Sent => t.blocks # <<>>
  /\ t.state = "ok" => Known(s, t.blocks[Len(t.blocks)])
  /\ t.state \in {"compare", "hashes"} => Known(s, t.tip)

TaskInv == \A i \in DOMAIN tasks : GoodTask(saved, tasks[i])

\* The call under way is that of the running task.
RunInv ==
  running # 0 =>
    /\ running \in DOMAIN tasks
    /\ tasks[running].state = "running"
    /\ pc \in {"headers", "walk"} /\ ~call.init
    /\ call.headers = tasks[running].blocks

\* Submissions exist in one phase only, and once the lookup at the start is
\* done the relayer is at a height that was reached.
PhaseInv ==
  /\ at \notin {"start", "submit"} => DOMAIN tasks = {}
  /\ at = "start" => DOMAIN tasks = {1} /\ tasks[1].state \notin Sent
  /\ at # "start" \/ tasks[1].state = "done" => Reached(saved, first_block_height_to_submit)

RelayerInv ==
  /\ Inv /\ LinkInv /\ CallInv
  /\ FinalInv /\ RelayerTypeOK /\ FetchInv /\ TaskInv /\ RunInv /\ PhaseInv

-----------------------------------------------------------------------------
(***************************************************************************)
(* The contract's part of it.                                              *)
(***************************************************************************)

\* What a step of the relayer's specification does to the contract.
ContractStep ==
  \/ [Next]_vars
  \/ \E hs \in Seq(Hash) : submit_blocks(RelayerAccount, hs, SubmitDeposit)

\* Before init there is no main chain.
LEMMA EmptyIsUnsound == ~Sound(EmptyStorage)
BY DEF Sound, IsPath, EmptyStorage

\* The contract's own invariants hold whoever submits what.
LEMMA ContractInv ==
  ASSUME Inv, LinkInv, ContractStep
  PROVE  Inv' /\ LinkInv'
<1>1. CASE [Next]_vars
  BY <1>1, NextInv, NextLink
<1>2. ASSUME NEW hs \in Seq(Hash), submit_blocks(RelayerAccount, hs, SubmitDeposit)
      PROVE  Inv' /\ LinkInv'
  <2>1. RelayerAccount \in Account /\ SubmitDeposit \in Nat
    BY RelayerAssumption
  <2> QED
    BY <1>2, <2>1, SubmitInv, SubmitLink
<1> QED
  BY <1>1, <1>2 DEF ContractStep

\* The committed tip never loses work.
LEMMA TipGains ==
  ASSUME Inv, LinkInv, ContractStep, Sound(saved)
  PROVE  Sound(saved') /\ TrueWork(saved.tip_blockhash) <= TrueWork(saved'.tip_blockhash)
<1>1. IsStorage(saved) /\ saved # EmptyStorage
  BY EmptyIsUnsound DEF Inv, TypeOK
<1>2. saved.tip_blockhash \in Hash /\ TrueWork(saved.tip_blockhash) \in Int
  BY <1>1, SoundIsChain, TrueValues
<1>3. ASSUME NEW s, IsStorage(s), Sound(s), NEW n \in Nat, gc_succeeds(s, n), saved' = gc(s, n),
             \/ s.tip_blockhash = saved.tip_blockhash
             \/ TrueWork(s.tip_blockhash) > TrueWork(saved.tip_blockhash)
      PROVE  Sound(saved') /\ TrueWork(saved.tip_blockhash) <= TrueWork(saved'.tip_blockhash)
  <2>1. Sound(gc(s, n))
    BY <1>3, GcSound
  <2>2. gc(s, n).tip_blockhash = s.tip_blockhash
    BY <1>3, GcChain
  <2>3. s.tip_blockhash \in Hash /\ TrueWork(s.tip_blockhash) \in Int
    BY <1>3, SoundIsChain, TrueValues
  <2> QED
    BY <1>2, <1>3, <2>1, <2>2, <2>3
<1>4. CASE saved' = saved
  BY <1>2, <1>4
<1>5. CASE FinishInit
  BY <1>1, <1>5 DEF FinishInit, HeadersDone, Inv, SavedInv
<1>6. CASE FinishSubmit
  <2> DEFINE n == Len(call.headers)
  <2>1. n \in Nat
    BY DEF Inv, TypeOK
  <2>2. /\ pc = "headers" /\ ~call.init
        /\ gc_succeeds(db, n) /\ saved' = gc(db, n)
    BY <1>6 DEF FinishSubmit, HeadersDone, submit_blocks_succeeds, Commit
  <2>3. /\ IsStorage(db) /\ Sound(db)
        /\ \/ db.tip_blockhash = saved.tip_blockhash
           \/ TrueWork(db.tip_blockhash) > TrueWork(saved.tip_blockhash)
    BY <2>2 DEF Inv, TypeOK, WorkingInv, LinkInv
  <2> HIDE DEF n
  <2> QED
    BY <1>3, <2>1, <2>2, <2>3
<1>7. ASSUME NEW a \in Account, NEW n \in GCBatchSizes, run_mainchain_gc(a, n)
      PROVE  Sound(saved') /\ TrueWork(saved.tip_blockhash) <= TrueWork(saved'.tip_blockhash)
  <2>1. n \in Nat
    BY ParametersAssumption
  <2>2. gc_succeeds(saved, n) /\ saved' = gc(saved, n)
    BY <1>7 DEF run_mainchain_gc, Inv, WorkingInv
  <2> QED
    BY <1>1, <1>3, <2>1, <2>2
<1>8. \/ saved' = saved
      \/ FinishInit
      \/ FinishSubmit
      \/ \E a \in Account, n \in GCBatchSizes : run_mainchain_gc(a, n)
  BY DEF ContractStep, Next, Start, Step, vars, init, submit_blocks, ExtendMainchain, StoreFork,
         StartReorg, WalkFork, FinishReorg, Panic, GasExceeded, Rollback, Pause, Unpause, Tick
<1> QED
  BY <1>4, <1>5, <1>6, <1>7, <1>8

\* So what it has the work of, it keeps the work of.
LEMMA KnownStays ==
  ASSUME Inv, LinkInv, ContractStep
  PROVE  /\ \A h : Known(saved, h) => Known(saved', h)
         /\ \A k : Reached(saved, k) => Reached(saved', k)
<1>1. \A h : Known(saved, h) => Known(saved', h)
  <2> SUFFICES ASSUME NEW h \in Hash, Known(saved, h) PROVE Known(saved', h)
    BY DEF Known
  <2>1. IsStorage(saved) /\ Sound(saved) /\ TrueWork(h) <= TrueWork(saved.tip_blockhash)
    BY DEF Known, Inv, TypeOK
  <2>2. Sound(saved') /\ TrueWork(saved.tip_blockhash) <= TrueWork(saved'.tip_blockhash)
    BY <2>1, TipGains
  <2>3. IsStorage(saved')
    BY ContractInv DEF Inv, TypeOK
  <2>4. /\ TrueWork(h) \in Int /\ TrueWork(saved.tip_blockhash) \in Int
        /\ TrueWork(saved'.tip_blockhash) \in Int
    BY <2>1, <2>2, <2>3, SoundIsChain, TrueValues
  <2> QED
    BY <2>1, <2>2, <2>4 DEF Known
<1> QED
  BY <1>1 DEF Reached

\* A header of a call is stored under a tip with at least its work.
LEMMA HeaderStepCall ==
  ASSUME Inv, CallInv, ExtendMainchain \/ StoreFork \/ StartReorg
  PROVE  CallInv'
<1> DEFINE hs == call.headers
           n  == call.next
           old == db.tip_blockhash
           new == IF pc' = "walk" THEN fork_tip' ELSE db'.tip_blockhash
           v == extend_header(db, Header)
<1>1. HeaderPending /\ header_accepted(db, Header) /\ NextHeader
  BY DEF ExtendMainchain, StoreFork, StartReorg
<1>2. /\ pc = "headers" /\ call'.headers = hs /\ call'.next = n + 1 /\ call'.init = call.init
      /\ n \in 1 .. Len(hs) /\ Header = hs[n] /\ n \in Nat /\ hs \in Seq(Hash)
  BY <1>1 DEF HeaderPending, NextHeader, Header, Inv, TypeOK
<1>3. /\ Header \in Hash
      /\ IsStorage(db) /\ Sound(db) /\ IsTrue(db)
      /\ Prev[Header] \in DOMAIN db.headers_pool /\ Prev[Header] \in Hash
      /\ old \in Hash /\ old \in DOMAIN db.headers_pool
  BY <1>1, HeaderIsHash
     DEF Inv, TypeOK, WorkingInv, HeaderPending, header_accepted, Sound, IsStorage, IsPath
<1>4. v \in ExtendedHeader /\ v.chain_work = TrueWork(Header)
  BY <1>3, ExtendIsTrue
<1>5. /\ TrueWork(Header) \in Int /\ TrueWork(old) \in Int
      /\ TrueWork(Header) > TrueWork(Prev[Header]) /\ TrueWork(Prev[Header]) \in Int
      /\ \A j \in 1 .. Len(hs) : TrueWork(hs[j]) \in Int
  <2>1. \A j \in 1 .. Len(hs) : hs[j] \in Hash
    BY <1>2
  <2> QED
    BY <1>3, <2>1, TrueValues
<1>6. /\ TrueWork(old) <= TrueWork(new) /\ TrueWork(Header) <= TrueWork(new)
      /\ TrueWork(new) \in Int
  <2> HIDE DEF v
  <2>1. CASE ExtendMainchain
    <3>1. /\ db' = [store_block_header(db, Header, v) EXCEPT !.tip_blockhash = Header]
          /\ pc' = "headers" /\ Prev[Header] = old
      BY <1>2, <2>1 DEF ExtendMainchain, v
    <3>2. IsStorage(store_block_header(db, Header, v))
      BY <1>3, <1>4, StoreBlockFields
    <3>3. new = Header
      BY <3>1, <3>2 DEF IsStorage
    <3> QED
      BY <1>5, <3>1, <3>3
  <2>2. CASE StoreFork
    <3>1. db' = store_fork_header(db, Header, v) /\ pc' = "headers" /\ ~fork_wins(db, Header)
      BY <1>2, <2>2 DEF StoreFork, v
    <3>2. new = old
      BY <1>3, <1>4, <3>1, StoreForkFields
    <3>3. ~(TrueWork(Header) > TrueWork(old))
      BY <1>3, <1>4, <3>1 DEF fork_wins, v, IsTrue, Tip
    <3> QED
      BY <1>5, <3>2, <3>3
  <2>3. CASE StartReorg
    <3>1. pc' = "walk" /\ fork_tip' = Header /\ fork_wins(db, Header)
      BY <2>3 DEF StartReorg
    <3>2. TrueWork(Header) > TrueWork(old)
      BY <1>3, <1>4, <3>1 DEF fork_wins, v, IsTrue, Tip
    <3> QED
      BY <1>5, <3>1, <3>2
  <2> QED
    BY <2>1, <2>2, <2>3
<1> HIDE DEF new
<1>7. ASSUME ~call.init, NEW j \in 1 .. Len(hs), j < n + 1
      PROVE  TrueWork(hs[j]) <= TrueWork(new)
  <2>1. CASE j = n
    BY <1>2, <1>6, <2>1
  <2>2. CASE j # n
    <3>1. j < n
      BY <1>2, <1>7, <2>2
    <3>2. TrueWork(hs[j]) <= TrueWork(old)
      BY <1>2, <1>7, <3>1 DEF CallInv
    <3> QED
      BY <1>5, <1>6, <3>2
  <2> QED
    BY <2>1, <2>2
<1> QED
  BY <1>2, <1>7 DEF CallInv, new

\* And so for every step of the contract.
LEMMA ContractCall ==
  ASSUME Inv, CallInv, ContractStep
  PROVE  CallInv'
<1>1. ASSUME NEW a, NEW hs, NEW amount, submit_blocks(a, hs, amount) PROVE CallInv'
  <2>1. call'.next = 1
    BY <1>1 DEF submit_blocks, NoCall
  <2> QED
    BY <2>1 DEF CallInv
<1>2. ASSUME NEW hs, init(hs) PROVE CallInv'
  <2>1. call'.init
    BY <1>2, NoCallType DEF init, CallType
  <2> QED
    BY <2>1 DEF CallInv
<1>3. ASSUME NEW a, NEW n, run_mainchain_gc(a, n) PROVE CallInv'
  BY <1>3 DEF run_mainchain_gc, CallInv
<1>4. ASSUME WalkFork PROVE CallInv'
  BY <1>4 DEF WalkFork, Walking, CallInv
<1>5. ASSUME FinishReorg PROVE CallInv'
  <2>1. db'.tip_blockhash = fork_tip
    BY <1>5 DEF FinishReorg, Inv, TypeOK, IsStorage
  <2> QED
    BY <1>5, <2>1 DEF FinishReorg, CallInv
<1>6. ASSUME FinishInit \/ FinishSubmit \/ Panic \/ GasExceeded PROVE CallInv'
  <2>1. pc' \in {"uninit", "idle"}
    BY <1>6 DEF FinishInit, FinishSubmit, Commit, Panic, GasExceeded, Rollback
  <2> QED
    BY <2>1 DEF CallInv
<1>7. ASSUME Pause \/ Unpause \/ Tick \/ UNCHANGED vars PROVE CallInv'
  BY <1>7 DEF Pause, Unpause, Tick, vars, CallInv
<1> QED
  BY <1>1, <1>2, <1>3, <1>4, <1>5, <1>6, <1>7, HeaderStepCall
     DEF ContractStep, Next, Start, Step

-----------------------------------------------------------------------------
(***************************************************************************)
(* The relayer's part.                                                     *)
(***************************************************************************)

\* A step of the contract keeps what is true of tasks, views and heights.
LEMMA StepStays ==
  ASSUME RelayerInv, ContractStep
  PROVE  /\ Inv' /\ LinkInv' /\ CallInv'
         /\ final' = final => FinalInv'
         /\ \A t : GoodTask(saved, t) => GoodTask(saved', t)
         /\ \A k : Reached(saved, k) => Reached(saved', k)
<1>1. Inv' /\ LinkInv' /\ CallInv'
  BY ContractInv, ContractCall DEF RelayerInv
<1>2. /\ \A h : Known(saved, h) => Known(saved', h)
      /\ \A k : Reached(saved, k) => Reached(saved', k)
  BY KnownStays DEF RelayerInv
<1>3. final' = final => FinalInv'
  BY <1>2 DEF RelayerInv, FinalInv
<1>4. \A t : GoodTask(saved, t) => GoodTask(saved', t)
  BY <1>2 DEF GoodTask
<1> QED
  BY <1>1, <1>2, <1>3, <1>4

\* Nothing of the relayer is executed between calls.
LEMMA NothingRuns ==
  ASSUME RelayerInv, pc \in {"idle", "uninit"}
  PROVE  running = 0
BY DEF RelayerInv, RunInv

\* A task goes on to t, between calls.
LEMMA TaskMoves ==
  ASSUME RelayerInv, pc = "idle",
         UNCHANGED <<vars, node, final, at, end_height, fetched, running, gas>>,
         NEW i \in DOMAIN tasks, NEW t \in TaskType, GoodTask(saved, t),
         tasks' = [tasks EXCEPT ![i] = t],
         at = "start" => t.state \notin Sent,
         first_block_height_to_submit' \in Int,
         \/ first_block_height_to_submit' = first_block_height_to_submit
         \/ Reached(saved, first_block_height_to_submit'),
         at = "start" /\ t.state = "done" => Reached(saved, first_block_height_to_submit'),
         current_batch_size' \in Nat \ {0},
         orphans' \subseteq [nonce : Int, blocks : Seq(Hash)]
  PROVE  RelayerInv'
<1>1. ContractStep /\ saved' = saved
  BY DEF ContractStep, vars
<1>2. Inv' /\ LinkInv' /\ CallInv' /\ FinalInv'
  BY <1>1, StepStays
<1>3. DOMAIN tasks' = DOMAIN tasks /\ tasks' \in [DOMAIN tasks -> TaskType]
  BY DEF RelayerInv, RelayerTypeOK
<1>4. RelayerTypeOK'
  BY <1>3 DEF RelayerInv, RelayerTypeOK
<1>5. at # "sign"
  BY DEF RelayerInv, PhaseInv
<1>6. FetchInv'
  BY <1>5 DEF RelayerInv, FetchInv
<1>7. TaskInv'
  BY <1>1, <1>3 DEF RelayerInv, TaskInv, RelayerTypeOK
<1>8. RunInv'
  BY NothingRuns DEF RunInv
<1>9. PhaseInv'
  <2>1. CASE at = "start"
    <3>1. i = 1 /\ tasks'[1] = t /\ DOMAIN tasks' = {1}
      BY <1>3, <2>1 DEF RelayerInv, PhaseInv, RelayerTypeOK
    <3> QED
      BY <1>1, <2>1, <3>1 DEF PhaseInv
  <2>2. CASE at # "start"
    BY <1>1, <1>3, <2>2 DEF RelayerInv, PhaseInv
  <2> QED
    BY <2>1, <2>2
<1> QED
  BY <1>2, <1>4, <1>6, <1>7, <1>8, <1>9 DEF RelayerInv

\* The sizer's answers are positive.
LEMMA SizerPositive ==
  ASSUME current_batch_size \in Nat \ {0}
  PROVE  /\ on_gas_exceeded => current_batch_size' \in Nat \ {0}
         /\ \A b \in Nat, n \in Nat \ {0} : on_success(b, n) => current_batch_size' \in Nat \ {0}
<1>1. min_batch_size \in Nat \ {0} /\ submit_batch_size \in Nat /\ TARGET_GAS_BUDGET \in Nat
  BY RelayerAssumption
<1>2. ASSUME NEW x \in Int PROVE Max({x, min_batch_size}) \in Nat \ {0}
  <2>1. Max({x, min_batch_size}) \in {x, min_batch_size} /\ Max({x, min_batch_size}) >= min_batch_size
    BY <1>1, MaxPair
  <2> QED
    BY <1>1, <2>1
<1>3. on_gas_exceeded => current_batch_size' \in Nat \ {0}
  <2>1. current_batch_size \div 2 \in Int
    OBVIOUS
  <2> QED
    BY <1>2, <2>1 DEF on_gas_exceeded
<1>4. ASSUME NEW b \in Nat, NEW n \in Nat \ {0}, on_success(b, n)
      PROVE  current_batch_size' \in Nat \ {0}
  <2> DEFINE g == b \div n
  <2>1. g \in Nat
    OBVIOUS
  <2>2. current_batch_size' =
          IF g = 0 THEN current_batch_size
          ELSE Max({Min({TARGET_GAS_BUDGET \div g, submit_batch_size}), min_batch_size})
    BY <1>4 DEF on_success
  <2> HIDE DEF g
  <2>3. ASSUME g # 0 PROVE Min({TARGET_GAS_BUDGET \div g, submit_batch_size}) \in Int
    <3>1. TARGET_GAS_BUDGET \div g \in Int
      BY <1>1, <2>1, <2>3
    <3>2. submit_batch_size \in Int
      BY <1>1
    <3>3. Min({TARGET_GAS_BUDGET \div g, submit_batch_size})
            \in {TARGET_GAS_BUDGET \div g, submit_batch_size}
      BY <3>1, <3>2, MinPair
    <3> QED
      BY <3>1, <3>2, <3>3
  <2> QED
    BY <1>2, <2>2, <2>3
<1> QED
  BY <1>3, <1>4

\* Only the state of a task changes.
LEMMA WithState ==
  ASSUME RelayerTypeOK, NEW i \in DOMAIN tasks,
         NEW state \in {"tip", "compare", "hashes", "done"} \cup Sent
  PROVE  LET t == [tasks[i] EXCEPT !.state = state] IN
         /\ t \in TaskType /\ t.state = state
         /\ t.blocks = tasks[i].blocks /\ t.tip = tasks[i].tip
BY DEF RelayerTypeOK, TaskType

\* What the answers of the contract, the failures and the timeouts do.
LEMMA AnswerKeeps ==
  ASSUME RelayerInv, pc = "idle", NEW i \in DOMAIN tasks,
         InvalidNonce(i) \/ Succeeded(i) \/ GoBack(i) \/ Failed(i) \/ Timeout(i)
  PROVE  RelayerInv'
<1> DEFINE t(s) == [tasks[i] EXCEPT !.state = s]
           done == t("done")
           tip == t("tip")
<1>1. RelayerTypeOK /\ tasks[i] \in TaskType /\ GoodTask(saved, tasks[i])
  BY DEF RelayerInv, RelayerTypeOK, TaskInv
<1>2. done \in TaskType /\ done.state = "done" /\ tip \in TaskType /\ tip.state = "tip"
  BY <1>1, WithState
<1>3. GoodTask(saved, done) /\ GoodTask(saved, tip)
  BY <1>2 DEF GoodTask, Sent, Answers
<1>4. at = "start" => tasks[i].state \notin Sent
  BY DEF RelayerInv, PhaseInv
<1>5. /\ current_batch_size \in Nat \ {0} /\ first_block_height_to_submit \in Int
      /\ orphans \subseteq [nonce : Int, blocks : Seq(Hash)]
      /\ done.state \notin Sent /\ tip.state \notin Sent
  BY <1>1, <1>2 DEF RelayerTypeOK, Sent, Answers
<1>6. CASE InvalidNonce(i) \/ Failed(i)
  <2>1. /\ tasks[i].state \in Sent
        /\ tasks' = [tasks EXCEPT ![i] = done]
        /\ UNCHANGED <<vars, node, final, at, end_height, fetched, running, gas, orphans,
                       first_block_height_to_submit, current_batch_size>>
    BY <1>6 DEF InvalidNonce, Failed, Pending, Becomes, sync_vars, Sent, Answers
  <2> HIDE DEF done, tip
  <2> QED
    BY <1>2, <1>3, <1>4, <1>5, <2>1, TaskMoves
<1>7. CASE Succeeded(i)
  <2> DEFINE last == tasks[i].blocks[Len(tasks[i].blocks)]
  <2>1. /\ tasks[i].state = "ok" /\ tasks[i].state \in Sent
        /\ tasks' = [tasks EXCEPT ![i] = done]
        /\ first_block_height_to_submit' = TrueHeight(last) + 1
        /\ on_success(tasks[i].gas_burnt, Len(tasks[i].blocks))
        /\ UNCHANGED <<vars, node, final, at, end_height, fetched, running, gas, orphans>>
    BY <1>7 DEF Succeeded, Sent, Answers
  <2>2. tasks[i].blocks # <<>> /\ Known(saved, last)
    BY <1>1, <2>1 DEF GoodTask
  <2>3. tasks[i].gas_burnt \in Nat /\ Len(tasks[i].blocks) \in Nat \ {0}
    BY <1>1, <2>2 DEF TaskType
  <2>4. current_batch_size' \in Nat \ {0}
    BY <1>5, <2>1, <2>3, SizerPositive
  <2> HIDE DEF last, done, tip
  <2>5. last \in Hash /\ TrueHeight(last) \in Int
    BY <2>2, TrueValues DEF Known
  <2>6. first_block_height_to_submit' \in Int /\ Reached(saved, first_block_height_to_submit')
    BY <2>1, <2>2, <2>5 DEF Reached
  <2> QED
    BY <1>2, <1>3, <1>4, <1>5, <2>1, <2>4, <2>6, TaskMoves
<1>8. CASE GoBack(i)
  <2>1. /\ tasks[i].state \in Sent
        /\ tasks' = [tasks EXCEPT ![i] = tip]
        /\ on_gas_exceeded \/ UNCHANGED current_batch_size
        /\ UNCHANGED <<vars, node, final, at, end_height, fetched, running, gas, orphans,
                       first_block_height_to_submit>>
    BY <1>8 DEF GoBack, sync_vars, Sent, Answers
  <2>2. current_batch_size' \in Nat \ {0}
    BY <1>5, <2>1, SizerPositive
  <2> HIDE DEF done, tip
  <2> QED
    BY <1>2, <1>3, <1>4, <1>5, <2>1, <2>2, TaskMoves
<1>9. CASE Timeout(i)
  <2>1. /\ tasks[i].state \in Sent
        /\ tasks' = [tasks EXCEPT ![i] = done]
        /\ \/ orphans' = orphans
           \/ orphans' = orphans \cup {[nonce |-> tasks[i].nonce, blocks |-> tasks[i].blocks]}
        /\ UNCHANGED <<vars, node, final, at, end_height, fetched, running, gas,
                       first_block_height_to_submit, current_batch_size>>
    BY <1>9 DEF Timeout, sync_vars, Sent, Answers
  <2>2. [nonce |-> tasks[i].nonce, blocks |-> tasks[i].blocks] \in [nonce : Int, blocks : Seq(Hash)]
    BY <1>1 DEF TaskType
  <2>3. orphans' \subseteq [nonce : Int, blocks : Seq(Hash)]
    BY <1>5, <2>1, <2>2
  <2> HIDE DEF done, tip
  <2> QED
    BY <1>2, <1>3, <1>4, <1>5, <2>1, <2>3, TaskMoves
<1> QED
  BY <1>6, <1>7, <1>8, <1>9

\* A lookup that fails leaves the height alone.
LEMMA LookupFailsKeeps ==
  ASSUME RelayerInv, pc = "idle", NEW i \in DOMAIN tasks, LookupFails(i)
  PROVE  RelayerInv'
<1> DEFINE state == IF at = "start" THEN "tip" ELSE "done"
           t == [tasks[i] EXCEPT !.state = state]
<1>1. /\ RelayerTypeOK
      /\ current_batch_size \in Nat \ {0} /\ first_block_height_to_submit \in Int
      /\ orphans \subseteq [nonce : Int, blocks : Seq(Hash)]
  BY DEF RelayerInv, RelayerTypeOK
<1>2. /\ tasks' = [tasks EXCEPT ![i] = t]
      /\ UNCHANGED <<vars, node, final, at, end_height, fetched, running, gas, orphans,
                     first_block_height_to_submit, current_batch_size>>
  BY DEF LookupFails, Becomes, sync_vars
<1>3. state \in {"tip", "done"} /\ state \notin Sent /\ (at = "start" => state # "done")
  BY DEF Sent, Answers
<1> HIDE DEF state
<1>4. t \in TaskType /\ t.state = state
  BY <1>1, <1>3, WithState
<1>5. GoodTask(saved, t)
  BY <1>3, <1>4 DEF GoodTask, Answers
<1> HIDE DEF t
<1> QED
  BY <1>1, <1>2, <1>3, <1>4, <1>5, TaskMoves

\* One that finds a block no higher than a header the contract has the work of
\* goes on there.
LEMMA LookupFindsKeeps ==
  ASSUME RelayerInv, pc = "idle", NEW i \in DOMAIN tasks, NEW height \in Int,
         LookupFinds(i, height), NEW h, Known(saved, h), height <= TrueHeight(h)
  PROVE  RelayerInv'
<1> DEFINE t == [tasks[i] EXCEPT !.state = "done"]
<1>1. /\ RelayerTypeOK
      /\ current_batch_size \in Nat \ {0}
      /\ orphans \subseteq [nonce : Int, blocks : Seq(Hash)]
  BY DEF RelayerInv, RelayerTypeOK
<1>2. /\ tasks' = [tasks EXCEPT ![i] = t]
      /\ first_block_height_to_submit' = height + 1
      /\ UNCHANGED <<vars, node, final, at, end_height, fetched, running, gas, orphans,
                     current_batch_size>>
  BY DEF LookupFinds
<1>3. t \in TaskType /\ t.state = "done"
  BY <1>1, WithState
<1>4. GoodTask(saved, t) /\ t.state \notin Sent
  BY <1>3 DEF GoodTask, Sent, Answers
<1> HIDE DEF t
<1>5. h \in Hash /\ TrueHeight(h) \in Int
  BY TrueValues DEF Known
<1>6. first_block_height_to_submit' \in Int /\ Reached(saved, first_block_height_to_submit')
  BY <1>2, <1>5 DEF Reached
<1> QED
  BY <1>1, <1>2, <1>3, <1>4, <1>6, TaskMoves

\* The lookup of the block to go on from.
LEMMA LookupKeeps ==
  ASSUME RelayerInv, pc = "idle", NEW i \in DOMAIN tasks,
         ReadTip(i) \/ CompareTip(i) \/ CompareHashes(i) \/ LookupFault(i)
  PROVE  RelayerInv'
<1>1. /\ RelayerTypeOK /\ tasks[i] \in TaskType /\ GoodTask(saved, tasks[i])
      /\ current_batch_size \in Nat \ {0} /\ first_block_height_to_submit \in Int
      /\ orphans \subseteq [nonce : Int, blocks : Seq(Hash)]
  BY DEF RelayerInv, RelayerTypeOK, TaskInv
<1>2. CASE ReadTip(i)
  <2> DEFINE t == [tasks[i] EXCEPT !.state = "compare", !.tip = final.tip_blockhash]
  <2>1. /\ tasks' = [tasks EXCEPT ![i] = t]
        /\ final.tip_blockhash # NoHash
        /\ UNCHANGED <<vars, node, final, at, end_height, fetched, running, gas, orphans,
                       first_block_height_to_submit, current_batch_size>>
    BY <1>2 DEF ReadTip, sync_vars
  <2>2. final # EmptyStorage
    BY <2>1 DEF EmptyStorage
  <2>3. Known(saved, final.tip_blockhash)
    BY <2>2 DEF RelayerInv, FinalInv
  <2>4. t \in TaskType /\ t.state = "compare" /\ t.tip = final.tip_blockhash
    BY <1>1, <2>3 DEF TaskType, Known
  <2>5. GoodTask(saved, t) /\ t.state \notin Sent
    BY <2>3, <2>4 DEF GoodTask, Sent, Answers
  <2> HIDE DEF t
  <2> QED
    BY <1>1, <2>1, <2>4, <2>5, TaskMoves
<1>3. CASE CompareTip(i)
  <2> DEFINE tip == tasks[i].tip
             block == NodeBlock(TrueHeight(tip))
  <2>1. /\ tasks[i].state = "compare"
        /\ \/ LookupFails(i)
           \/ block = tip /\ LookupFinds(i, TrueHeight(block))
           \/ Becomes(i, "hashes")
    BY <1>3 DEF CompareTip
  <2>2. Known(saved, tip)
    BY <1>1, <2>1 DEF GoodTask
  <2>3. TrueHeight(tip) \in Int
    BY <2>2, TrueValues DEF Known
  <2>4. CASE block = tip /\ LookupFinds(i, TrueHeight(block))
    <3>1. LookupFinds(i, TrueHeight(tip)) /\ TrueHeight(tip) <= TrueHeight(tip)
      BY <2>3, <2>4
    <3> HIDE DEF tip
    <3> QED
      BY <2>2, <2>3, <3>1, LookupFindsKeeps
  <2>5. CASE Becomes(i, "hashes")
    <3> DEFINE t == [tasks[i] EXCEPT !.state = "hashes"]
    <3>1. /\ tasks' = [tasks EXCEPT ![i] = t]
          /\ UNCHANGED <<vars, node, final, at, end_height, fetched, running, gas, orphans,
                         first_block_height_to_submit, current_batch_size>>
      BY <2>5 DEF Becomes, sync_vars
    <3>2. t \in TaskType /\ t.state = "hashes" /\ t.tip = tip
      BY <1>1, WithState
    <3>3. GoodTask(saved, t) /\ t.state \notin Sent
      BY <2>2, <3>2 DEF GoodTask, Sent, Answers
    <3> HIDE DEF t
    <3> QED
      BY <1>1, <3>1, <3>2, <3>3, TaskMoves
  <2> QED
    BY <2>1, <2>4, <2>5, LookupFailsKeeps
<1>4. CASE CompareHashes(i)
  <2> DEFINE hashes == get_last_n_blocks_hashes(final, 1, max_fork_len)
             n == Len(hashes)
             height(j) == TrueHeight(tasks[i].tip) - 1 - j
             same(j) == hashes[n - j] = NodeBlock(height(j))
             found == {j \in 0 .. n - 1 :
                         /\ Tip(final).block_height >= max_fork_len + 1
                         /\ same(j)
                         /\ \A k \in 0 .. j : NodeBlock(height(k)) # NoHash}
  <2>1. /\ tasks[i].state = "hashes"
        /\ \/ found # {} /\ LookupFinds(i, height(Min(found)))
           \/ LookupFails(i)
    BY <1>4 DEF CompareHashes
  <2>2. Known(saved, tasks[i].tip)
    BY <1>1, <2>1 DEF GoodTask
  <2>3. TrueHeight(tasks[i].tip) \in Int
    BY <2>2, TrueValues DEF Known
  <2>4. CASE found # {} /\ LookupFinds(i, height(Min(found)))
    <3>1. found \in SUBSET Nat
      OBVIOUS
    <3> HIDE DEF found
    <3>2. Min(found) \in Nat
      BY <2>4, <3>1, MinNat
    <3>3. height(Min(found)) \in Int /\ height(Min(found)) <= TrueHeight(tasks[i].tip)
      BY <2>3, <3>2
    <3> HIDE DEF height
    <3> QED
      BY <2>2, <2>4, <3>3, LookupFindsKeeps
  <2> QED
    BY <2>1, <2>4, LookupFailsKeeps
<1>5. CASE LookupFault(i)
  BY <1>5, LookupFailsKeeps DEF LookupFault
<1> QED
  BY <1>2, <1>3, <1>4, <1>5

\* The loop of sync before anything is submitted.
LEMMA LoopMoves ==
  ASSUME RelayerInv, pc = "idle",
         UNCHANGED <<vars, node, final, current_batch_size, tasks, orphans, running, gas>>,
         at \notin {"start", "submit"}, at' \notin {"start", "submit"},
         first_block_height_to_submit' \in Int, end_height' \in Int,
         Reached(saved, first_block_height_to_submit'), FetchInv'
  PROVE  RelayerInv'
<1>1. ContractStep /\ saved' = saved
  BY DEF ContractStep, vars
<1>2. Inv' /\ LinkInv' /\ CallInv' /\ FinalInv'
  BY <1>1, StepStays
<1>3. RelayerTypeOK' /\ TaskInv'
  BY <1>1 DEF RelayerInv, RelayerTypeOK, TaskInv
<1>4. RunInv'
  BY NothingRuns DEF RunInv
<1>5. PhaseInv'
  BY <1>1 DEF RelayerInv, PhaseInv
<1> QED
  BY <1>2, <1>3, <1>4, <1>5 DEF RelayerInv

\* Fetching asks for a finite range, gets blocks at their heights, and skips
\* them only where the last is on the main chain.
LEMMA FetchKeeps ==
  ASSUME RelayerInv, pc = "idle",
         Loop \/ (\E k \in heights : get_block_header(k)) \/ check_submission_skipped
  PROVE  RelayerInv'
<1> DEFINE lo == first_block_height_to_submit
<1>1. /\ FetchInv /\ lo \in Int /\ end_height \in Int /\ node \in Hash
      /\ current_batch_size \in Nat \ {0}
  BY DEF RelayerInv, RelayerTypeOK
<1>2. at \notin {"start", "submit"} => Reached(saved, lo)
  BY DEF RelayerInv, PhaseInv
<1>3. CASE Loop
  <2>1. /\ at = "loop" /\ at' = "fetch"
        /\ end_height' = Min({TrueHeight(node), lo + current_fetch_size})
        /\ fetched' = [k \in {} |-> NoHash]
        /\ UNCHANGED <<vars, node, final, current_batch_size, tasks, orphans, running, gas,
                       first_block_height_to_submit>>
    BY <1>3 DEF Loop
  <2>2. current_fetch_size \in Int
    <3>1. fetch_batch_size \in Int /\ submit_batch_size \in Nat \ {0} /\ fetch_batch_size \in Nat
      BY RelayerAssumption
    <3>2. fetch_batch_size \div submit_batch_size \in Int
      BY <3>1
    <3>3. num_parallel_txs \in Int
      <4>1. num_parallel_txs \in {fetch_batch_size \div submit_batch_size, 1}
        BY <3>2, MaxPair DEF num_parallel_txs
      <4> QED
        BY <3>2, <4>1
    <3>4. current_batch_size * num_parallel_txs \in Int
      BY <1>1, <3>3
    <3>5. current_fetch_size \in {current_batch_size * num_parallel_txs, fetch_batch_size}
      BY <3>1, <3>4, MinPair DEF current_fetch_size
    <3> QED
      BY <3>1, <3>4, <3>5
  <2>3. end_height' \in Int
    <3>1. TrueHeight(node) \in Int /\ lo + current_fetch_size \in Int
      BY <1>1, <2>2, TrueValues
    <3>2. Min({TrueHeight(node), lo + current_fetch_size})
            \in {TrueHeight(node), lo + current_fetch_size}
      BY <3>1, MinPair
    <3> QED
      BY <2>1, <3>1, <3>2
  <2>4. FetchInv'
    BY <2>1 DEF FetchInv
  <2> QED
    BY <1>1, <1>2, <2>1, <2>3, <2>4, LoopMoves
<1>4. ASSUME NEW k \in heights, get_block_header(k) PROVE RelayerInv'
  <2>1. /\ at = "fetch" /\ at' = "fetch"
        /\ \/ fetched' = Insert(fetched, k, NodeBlock(k))
           \/ fetched' = Insert(fetched, k, NoHash)
        /\ UNCHANGED <<vars, node, final, current_batch_size, tasks, orphans, running, gas,
                       first_block_height_to_submit, end_height>>
    BY <1>4 DEF get_block_header
  <2>2. PICK v : fetched' = Insert(fetched, k, v) /\ v \in {NodeBlock(k), NoHash}
    BY <2>1
  <2>3. v # NoHash => v \in Hash /\ TrueHeight(v) = k
    BY <1>1, <2>2, NodeBlockHeight
  <2>4. FetchInv'
    BY <1>1, <2>1, <2>2, <2>3 DEF FetchInv, Insert
  <2> QED
    BY <1>1, <1>2, <2>1, <2>4, LoopMoves
<1>5. CASE check_submission_skipped
  <2> DEFINE bs == blocks_to_submit
             n == Len(bs)
             last == bs[n]
  <2>1. /\ at = "fetch" /\ heights = DOMAIN fetched
        /\ \/ at' = "loop" /\ UNCHANGED first_block_height_to_submit
           \/ /\ n > 0 /\ last \in DOMAIN final.header_to_height
              /\ at' = "loop" /\ first_block_height_to_submit' = lo + n
           \/ at' = "sign" /\ UNCHANGED first_block_height_to_submit
        /\ UNCHANGED <<vars, node, final, current_batch_size, tasks, orphans, running, gas,
                       end_height, fetched>>
    BY <1>5 DEF check_submission_skipped
  <2>2. /\ bs \in Seq(Hash) /\ n \in Nat
        /\ n > 0 => TrueHeight(last) = lo + n - 1
    BY <1>1, <2>1, BlocksToSubmit
  <2>3. first_block_height_to_submit' = lo \/ first_block_height_to_submit' = lo + n
    BY <2>1
  <2> HIDE DEF bs, n, last
  <2>4. first_block_height_to_submit' \in Int
    BY <1>1, <2>2, <2>3
  <2>5. FetchInv'
    BY <1>1, <2>1 DEF FetchInv, heights
  <2>6. Reached(saved, first_block_height_to_submit')
    <3>1. CASE first_block_height_to_submit' = lo
      BY <1>2, <2>1, <3>1
    <3>2. CASE n > 0 /\ last \in DOMAIN final.header_to_height
               /\ first_block_height_to_submit' = lo + n
      <4>1. final # EmptyStorage
        BY <3>2 DEF EmptyStorage
      <4>2. IsStorage(final) /\ Sound(final) /\ Known(saved, final.tip_blockhash)
        BY <4>1 DEF RelayerInv, FinalInv
      <4>3. SoundPath(final) /\ SoundWork(final)
        BY <4>2, SoundReadings
      <4>4. last \in DOMAIN final.headers_pool /\ last \in Hash
        BY <3>2, <4>2, <4>3 DEF SoundPath, IsStorage
      <4>5. TrueWork(last) <= TrueWork(final.tip_blockhash)
        BY <4>3, <4>4 DEF SoundWork
      <4>6. Known(saved, last)
        <5>1. IsStorage(saved) /\ Sound(saved) /\ final.tip_blockhash \in Hash
              /\ TrueWork(final.tip_blockhash) <= TrueWork(saved.tip_blockhash)
          BY <4>2 DEF Known, RelayerInv, Inv, TypeOK
        <5>2. saved.tip_blockhash \in Hash
          BY <5>1, SoundIsChain
        <5>3. /\ TrueWork(last) \in Int /\ TrueWork(final.tip_blockhash) \in Int
              /\ TrueWork(saved.tip_blockhash) \in Int
          BY <4>4, <5>1, <5>2, TrueValues
        <5> QED
          BY <4>4, <4>5, <5>1, <5>3 DEF Known
      <4>7. TrueHeight(last) = lo + n - 1
        BY <2>2, <3>2
      <4> QED
        BY <1>1, <2>2, <3>2, <4>4, <4>6, <4>7 DEF Reached
    <3> QED
      BY <2>1, <3>1, <3>2
  <2> QED
    BY <1>1, <2>1, <2>4, <2>5, <2>6, LoopMoves
<1> QED
  BY <1>3, <1>4, <1>5

\* Signing makes batches of headers of what was fetched.
LEMMA SignKeeps ==
  ASSUME RelayerInv, pc = "idle", sign_submit_blocks
  PROVE  RelayerInv'
<1> DEFINE cs == chunks(blocks_to_submit)
<1>1. /\ FetchInv /\ RelayerTypeOK
      /\ first_block_height_to_submit \in Int /\ end_height \in Int
      /\ current_batch_size \in Nat \ {0}
  BY DEF RelayerInv, RelayerTypeOK
<1>2. /\ at = "sign" /\ fetched' = [k \in {} |-> NoHash]
      /\ \/ at' = "submit" /\ tasks' = [i \in DOMAIN cs |-> Task(i, cs[i], "pending")]
         \/ at' = "loop" /\ UNCHANGED tasks
      /\ UNCHANGED <<vars, node, final, first_block_height_to_submit, current_batch_size,
                     end_height, orphans, running, gas>>
  BY DEF sign_submit_blocks
<1>3. Reached(saved, first_block_height_to_submit)
  BY <1>2 DEF RelayerInv, PhaseInv
<1>4. FetchInv'
  BY <1>2 DEF FetchInv
<1>5. CASE at' = "loop" /\ UNCHANGED tasks
  BY <1>1, <1>2, <1>3, <1>4, <1>5, LoopMoves
<1>6. CASE at' = "submit" /\ tasks' = [i \in DOMAIN cs |-> Task(i, cs[i], "pending")]
  <2>1. blocks_to_submit \in Seq(Hash)
    BY <1>1, <1>2, BlocksToSubmit DEF FetchInv
  <2>2. \A i \in DOMAIN cs : cs[i] \in Seq(Hash) /\ cs[i] # <<>>
    BY <1>1, <2>1, ChunksAreBatches
  <2>3. DOMAIN cs \subseteq Int
    BY DEF chunks
  <2> HIDE DEF cs
  <2>4. ASSUME NEW i \in DOMAIN cs
        PROVE  Task(i, cs[i], "pending") \in TaskType /\ GoodTask(saved, Task(i, cs[i], "pending"))
    BY <2>2, <2>3, <2>4 DEF Task, TaskType, GoodTask, Sent, Answers
  <2>5. DOMAIN tasks' = DOMAIN cs
    BY <1>6
  <2>6. ContractStep /\ saved' = saved
    BY <1>2 DEF ContractStep, vars
  <2>7. Inv' /\ LinkInv' /\ CallInv' /\ FinalInv'
    BY <1>2, <2>6, StepStays
  <2>8. RelayerTypeOK'
    BY <1>1, <1>2, <1>6, <2>4, <2>5 DEF RelayerTypeOK
  <2>9. TaskInv'
    BY <1>6, <2>4, <2>5, <2>6 DEF TaskInv
  <2>10. RunInv'
    BY <1>2, NothingRuns DEF RunInv
  <2>11. PhaseInv'
    BY <1>2, <1>3, <1>6, <2>6 DEF PhaseInv
  <2> QED
    BY <1>4, <2>7, <2>8, <2>9, <2>10, <2>11 DEF RelayerInv
<1> QED
  BY <1>2, <1>5, <1>6

\* The access key moves on: a task keeps its blocks and its state.
LEMMA KeyMoves ==
  ASSUME RelayerTypeOK, NEW n \in Int
  PROVE  LET ts == KeyMovesTo(n, tasks) IN
         /\ DOMAIN ts = DOMAIN tasks
         /\ \A i \in DOMAIN tasks :
              /\ ts[i] \in TaskType
              /\ ts[i].state = tasks[i].state
              /\ ts[i].blocks = tasks[i].blocks
              /\ ts[i].tip = tasks[i].tip
         /\ Later(n) \subseteq [nonce : Int, blocks : Seq(Hash)]
<1> DEFINE ts == KeyMovesTo(n, tasks)
<1>1. DOMAIN ts = DOMAIN tasks
  BY DEF KeyMovesTo
<1>2. ASSUME NEW i \in DOMAIN tasks
      PROVE  /\ ts[i] \in TaskType
             /\ ts[i].state = tasks[i].state
             /\ ts[i].blocks = tasks[i].blocks
             /\ ts[i].tip = tasks[i].tip
  <2>1. tasks[i] \in TaskType
    BY DEF RelayerTypeOK
  <2>2. Max({tasks[i].nonce - n, 0}) \in Int
    <3>1. tasks[i].nonce - n \in Int /\ 0 \in Int
      BY <2>1 DEF TaskType
    <3>2. Max({tasks[i].nonce - n, 0}) \in {tasks[i].nonce - n, 0}
      BY <3>1, MaxPair, Zenon
    <3> QED
      BY <3>1, <3>2
  <2>3. ts[i] = IF tasks[i].state = "pending"
                  THEN [tasks[i] EXCEPT !.nonce = Max({tasks[i].nonce - n, 0})] ELSE tasks[i]
    BY DEF KeyMovesTo
  <2> QED
    BY <2>1, <2>2, <2>3 DEF TaskType
<1>3. Later(n) \subseteq [nonce : Int, blocks : Seq(Hash)]
  BY DEF Later, RelayerTypeOK
<1> QED
  BY <1>1, <1>2, <1>3

\* NEAR starts to execute a transaction of the relayer, given up or not.
LEMMA ExecuteKeeps ==
  ASSUME RelayerInv,
         \/ \E i \in DOMAIN tasks : Execute(i)
         \/ \E o \in orphans : ExecuteOrphan(o)
  PROVE  RelayerInv'
<1>1. RelayerTypeOK /\ FetchInv
  BY DEF RelayerInv
<1>2. ASSUME NEW i \in DOMAIN tasks, Execute(i) PROVE RelayerInv'
  <2> DEFINE n == tasks[i].nonce
             ts == KeyMovesTo(n, tasks)
             bs == tasks[i].blocks
  <2>1. /\ tasks[i].state = "pending"
        /\ submit_blocks(RelayerAccount, bs, SubmitDeposit)
        /\ tasks' = [ts EXCEPT ![i] = [ts[i] EXCEPT !.state = "running"]]
        /\ orphans' = Later(n) /\ running' = i
        /\ UNCHANGED <<node, final, first_block_height_to_submit, at, end_height, fetched,
                       current_batch_size, gas>>
    BY <1>2 DEF Execute, Pending, sync_vars
  <2>2. tasks[i] \in TaskType /\ n \in Int /\ bs \in Seq(Hash)
    BY <1>1 DEF RelayerTypeOK, TaskType
  <2>3. ContractStep
    BY <2>1, <2>2 DEF ContractStep
  <2>4. /\ pc = "idle" /\ pc' = "headers" /\ saved' = saved
        /\ ~call'.init /\ call'.headers = bs
    BY <2>1, NoCallType DEF submit_blocks, NoCall
  <2> HIDE DEF n
  <2>5. /\ DOMAIN ts = DOMAIN tasks
        /\ \A j \in DOMAIN tasks :
             /\ ts[j] \in TaskType
             /\ ts[j].state = tasks[j].state
             /\ ts[j].blocks = tasks[j].blocks
             /\ ts[j].tip = tasks[j].tip
        /\ Later(n) \subseteq [nonce : Int, blocks : Seq(Hash)]
    BY <1>1, <2>2, KeyMoves
  <2> HIDE DEF ts
  <2>6. /\ DOMAIN tasks' = DOMAIN tasks
        /\ \A j \in DOMAIN tasks : j # i => tasks'[j] = ts[j]
        /\ tasks'[i] = [ts[i] EXCEPT !.state = "running"]
    BY <2>1, <2>5
  <2>7. tasks'[i] \in TaskType /\ tasks'[i].state = "running" /\ tasks'[i].blocks = bs
    BY <2>5, <2>6 DEF TaskType, Sent
  <2>8. tasks' \in [DOMAIN tasks' -> TaskType]
    BY <2>1, <2>5, <2>6, <2>7
  <2>9. at # "start" /\ at # "sign"
    BY <2>1 DEF RelayerInv, PhaseInv, Sent
  <2>10. Inv' /\ LinkInv' /\ CallInv' /\ FinalInv'
    BY <2>1, <2>3, StepStays
  <2>11. RelayerTypeOK'
    BY <1>1, <2>1, <2>5, <2>8 DEF RelayerTypeOK
  <2>12. FetchInv'
    BY <1>1, <2>1, <2>9 DEF FetchInv
  <2>13. TaskInv'
    <3>1. ASSUME NEW j \in DOMAIN tasks PROVE GoodTask(saved, tasks'[j])
      <4>1. GoodTask(saved, tasks[j]) /\ GoodTask(saved, tasks[i])
        BY DEF RelayerInv, TaskInv
      <4>2. CASE j # i
        BY <2>5, <2>6, <4>1, <4>2 DEF GoodTask
      <4>3. CASE j = i
        BY <2>1, <2>7, <4>1, <4>3 DEF GoodTask, Sent, Answers
      <4> QED
        BY <4>2, <4>3
    <3> QED
      BY <2>4, <2>6, <3>1 DEF TaskInv
  <2>14. RunInv'
    BY <2>1, <2>4, <2>6, <2>7 DEF RunInv
  <2>15. PhaseInv'
    BY <2>1, <2>4, <2>6, <2>9 DEF RelayerInv, PhaseInv
  <2> QED
    BY <2>10, <2>11, <2>12, <2>13, <2>14, <2>15 DEF RelayerInv
<1>3. ASSUME NEW o \in orphans, ExecuteOrphan(o) PROVE RelayerInv'
  <2> DEFINE n == o.nonce
             ts == KeyMovesTo(n, tasks)
  <2>1. /\ submit_blocks(RelayerAccount, o.blocks, SubmitDeposit)
        /\ tasks' = ts /\ orphans' = Later(n)
        /\ UNCHANGED <<node, final, first_block_height_to_submit, at, end_height, fetched,
                       current_batch_size, running, gas>>
    BY <1>3 DEF ExecuteOrphan, sync_vars
  <2>2. n \in Int /\ o.blocks \in Seq(Hash)
    BY <1>1 DEF RelayerTypeOK
  <2>3. ContractStep
    BY <2>1, <2>2 DEF ContractStep
  <2>4. pc = "idle" /\ saved' = saved
    BY <2>1 DEF submit_blocks
  <2> HIDE DEF n
  <2>5. /\ DOMAIN ts = DOMAIN tasks
        /\ \A j \in DOMAIN tasks :
             /\ ts[j] \in TaskType
             /\ ts[j].state = tasks[j].state
             /\ ts[j].blocks = tasks[j].blocks
             /\ ts[j].tip = tasks[j].tip
        /\ Later(n) \subseteq [nonce : Int, blocks : Seq(Hash)]
    BY <1>1, <2>2, KeyMoves
  <2>6. ts \in [DOMAIN tasks -> TaskType]
    <3>1. ts = [j \in DOMAIN tasks |-> ts[j]]
      BY DEF KeyMovesTo
    <3> HIDE DEF ts
    <3> QED
      BY <2>5, <3>1
  <2> HIDE DEF ts
  <2>7. Inv' /\ LinkInv' /\ CallInv' /\ FinalInv'
    BY <2>1, <2>3, StepStays
  <2>8. RelayerTypeOK'
    BY <1>1, <2>1, <2>5, <2>6 DEF RelayerTypeOK
  <2>9. FetchInv'
    BY <1>1, <2>1 DEF FetchInv, heights
  <2>10. TaskInv'
    BY <2>1, <2>4, <2>5 DEF RelayerInv, TaskInv, GoodTask
  <2>11. RunInv'
    BY <2>1, <2>4, NothingRuns DEF RunInv
  <2>12. PhaseInv'
    BY <2>1, <2>4, <2>5 DEF RelayerInv, PhaseInv
  <2> QED
    BY <2>7, <2>8, <2>9, <2>10, <2>11, <2>12 DEF RelayerInv
<1> QED
  BY <1>2, <1>3

\* A step of the running call, and what its end leaves to the task.
LEMMA AnsweredKeeps ==
  ASSUME RelayerInv, ContractStep, pc \in {"headers", "walk"},
         UNCHANGED <<node, final, first_block_height_to_submit, at, end_height, fetched,
                     current_batch_size, orphans>>,
         NEW answer \in Answers, NEW burnt \in Nat, Answered(answer, burnt),
         running # 0 /\ answer = "ok" /\ pc' = "idle" =>
           Known(saved', call.headers[Len(call.headers)]),
         running # 0 /\ pc' # "idle" =>
           pc' \in {"headers", "walk"} /\ ~call'.init /\ call'.headers = call.headers
  PROVE  RelayerInv'
<1>1. RelayerTypeOK /\ FetchInv
  BY DEF RelayerInv
<1>2. /\ Inv' /\ LinkInv' /\ CallInv' /\ FinalInv'
      /\ \A t : GoodTask(saved, t) => GoodTask(saved', t)
      /\ \A k : Reached(saved, k) => Reached(saved', k)
  BY StepStays
<1>3. FetchInv'
  BY <1>1 DEF FetchInv, heights
<1>4. CASE tasks' = tasks /\ gas' \in Nat /\ RunInv'
  <2>1. RelayerTypeOK' /\ TaskInv'
    BY <1>1, <1>2, <1>4 DEF RelayerInv, RelayerTypeOK, TaskInv
  <2>2. PhaseInv'
    BY <1>2, <1>4 DEF RelayerInv, PhaseInv
  <2> QED
    BY <1>2, <1>3, <1>4, <2>1, <2>2 DEF RelayerInv
<1>5. CASE pc' # "idle"
  <2>1. tasks' = tasks /\ running' = running /\ gas' \in Nat
    BY <1>5 DEF Answered
  <2>2. RunInv'
    BY <1>5, <2>1 DEF RelayerInv, RunInv
  <2> QED
    BY <1>4, <2>1, <2>2
<1>6. CASE pc' = "idle" /\ running = 0
  <2>1. tasks' = tasks /\ running' = 0 /\ gas' \in Nat
    BY <1>6 DEF Answered
  <2>2. RunInv'
    BY <2>1 DEF RunInv
  <2> QED
    BY <1>4, <2>1, <2>2
<1>7. CASE pc' = "idle" /\ running # 0
  <2> DEFINE i == running
             t == [tasks[i] EXCEPT !.state = answer, !.gas_burnt = burnt]
  <2>1. /\ tasks' = [tasks EXCEPT ![i] = t]
        /\ running' = 0 /\ gas' = 0
    BY <1>7 DEF Answered
  <2>2. /\ i \in DOMAIN tasks /\ tasks[i] \in TaskType
        /\ tasks[i].state = "running" /\ call.headers = tasks[i].blocks
    BY <1>1, <1>7 DEF RelayerInv, RunInv, RelayerTypeOK
  <2>3. t \in TaskType /\ t.state = answer /\ t.blocks = call.headers
    BY <2>2 DEF TaskType, Sent
  <2>4. GoodTask(saved', t)
    <3>1. tasks[i].blocks # <<>>
      BY <2>2 DEF RelayerInv, TaskInv, GoodTask, Sent
    <3> QED
      BY <1>7, <2>2, <2>3, <3>1 DEF GoodTask, Answers
  <2>5. at # "start" /\ at # "sign"
    BY <2>2 DEF RelayerInv, PhaseInv, Sent
  <2> HIDE DEF t, i
  <2>6. DOMAIN tasks' = DOMAIN tasks /\ tasks' \in [DOMAIN tasks -> TaskType]
    BY <1>1, <2>1, <2>2, <2>3 DEF RelayerTypeOK
  <2>7. RelayerTypeOK'
    BY <1>1, <2>1, <2>6 DEF RelayerTypeOK
  <2>8. TaskInv'
    <3>1. \A j \in DOMAIN tasks : tasks'[j] = IF j = i THEN t ELSE tasks[j]
      BY <1>1, <2>1, <2>2 DEF RelayerTypeOK
    <3> QED
      BY <1>2, <2>4, <2>6, <3>1 DEF RelayerInv, TaskInv
  <2>9. RunInv'
    BY <2>1 DEF RunInv
  <2>10. PhaseInv'
    BY <1>2, <2>5, <2>6 DEF RelayerInv, PhaseInv
  <2> QED
    BY <1>2, <1>3, <2>7, <2>8, <2>9, <2>10 DEF RelayerInv
<1> QED
  BY <1>5, <1>6, <1>7

\* The contract works on a call until it ends or its gas does.
LEMMA CallKeeps ==
  ASSUME RelayerInv, CallStep \/ CallOutOfGas
  PROVE  RelayerInv'
<1>1. UNCHANGED <<node, final, first_block_height_to_submit, at, end_height, fetched,
                  current_batch_size, orphans>>
  BY DEF CallStep, CallOutOfGas, sync_vars
<1>2. GasAfterStep \in Nat
  <2>1. gas \in Nat
    BY DEF RelayerInv, RelayerTypeOK
  <2>2. HeaderGas \in Nat /\ WalkGas \in Nat
    BY RelayerAssumption
  <2> QED
    BY <2>1, <2>2 DEF GasAfterStep
<1>3. running # 0 => ~call.init
  BY DEF RelayerInv, RunInv
<1>4. CASE CallStep
  <2> DEFINE answer == parse_submit_blocks_response
             last == call.headers[Len(call.headers)]
  <2>1. Step /\ Answered(answer, GasAfterStep)
    BY <1>4 DEF CallStep
  <2>2. answer \in Answers
    BY DEF parse_submit_blocks_response, Answers
  <2>3. answer = "ok" => HeadersDone /\ submit_blocks_succeeds
    BY DEF parse_submit_blocks_response
  <2> HIDE DEF answer
  <2>4. ContractStep
    BY <2>1 DEF ContractStep, Next
  <2>5. pc \in {"headers", "walk"}
    BY <2>1 DEF Step, ExtendMainchain, StoreFork, StartReorg, WalkFork, FinishReorg, FinishInit,
                FinishSubmit, Panic, Panics, HeaderPending, HeadersDone, Walking
  <2>6. ASSUME running # 0, pc' # "idle"
        PROVE  pc' \in {"headers", "walk"} /\ ~call'.init /\ call'.headers = call.headers
    <3>1. CASE ExtendMainchain \/ StoreFork \/ StartReorg
      <4>1. NextHeader /\ pc' \in {"headers", "walk"}
        BY <2>5, <3>1 DEF ExtendMainchain, StoreFork, StartReorg, HeaderPending
      <4>2. call'.headers = call.headers /\ call'.init = call.init
        BY <4>1 DEF NextHeader, RelayerInv, Inv, TypeOK
      <4> QED
        BY <1>3, <2>6, <4>1, <4>2
    <3>2. CASE WalkFork \/ FinishReorg
      BY <1>3, <2>5, <2>6, <3>2 DEF WalkFork, FinishReorg
    <3>3. CASE FinishInit \/ FinishSubmit \/ Panic
      BY <1>3, <2>6, <3>3 DEF FinishInit, FinishSubmit, Commit, Panic, Rollback
    <3> QED
      BY <2>1, <3>1, <3>2, <3>3 DEF Step
  <2>7. ASSUME running # 0, answer = "ok", pc' = "idle"
        PROVE  Known(saved', last)
    <3>1. HeadersDone /\ submit_blocks_succeeds /\ ~call.init /\ pc = "headers"
      BY <1>3, <2>3, <2>7 DEF HeadersDone
    <3>2. /\ call.headers \in Seq(Hash) /\ Len(call.headers) \in Nat
          /\ call.next \in Nat /\ call.next > Len(call.headers)
          /\ IsStorage(db) /\ Sound(db)
      BY <3>1 DEF HeadersDone, RelayerInv, Inv, TypeOK, WorkingInv
    <3>3. ~HeaderPending
      BY <3>2 DEF HeaderPending
    <3>4. FinishSubmit
      BY <2>1, <3>1, <3>3 DEF Step, ExtendMainchain, StoreFork, StartReorg, WalkFork, Walking,
                              FinishReorg, FinishInit, Panic, Panics
    <3> DEFINE n == Len(call.headers)
    <3>5. gc_succeeds(db, n) /\ saved' = gc(db, n)
      BY <3>1, <3>4 DEF FinishSubmit, submit_blocks_succeeds, Commit
    <3>6. call.headers # <<>>
      BY <2>7 DEF RelayerInv, RunInv, TaskInv, GoodTask, Sent
    <3>7. n \in 1 .. n /\ n < call.next /\ last \in Hash
      BY <3>2, <3>6
    <3>8. TrueWork(last) <= TrueWork(db.tip_blockhash)
      BY <3>1, <3>7 DEF RelayerInv, CallInv
    <3> HIDE DEF n
    <3>9. saved'.tip_blockhash = db.tip_blockhash /\ Sound(saved')
      <4>1. n \in Nat
        BY <3>2 DEF n
      <4> QED
        BY <3>2, <3>5, <4>1, GcChain, GcSound
    <3> QED
      BY <3>7, <3>8, <3>9 DEF Known
  <2> HIDE DEF last
  <2> QED
    BY <1>1, <1>2, <2>1, <2>2, <2>4, <2>5, <2>6, <2>7, AnsweredKeeps DEF last
<1>5. CASE CallOutOfGas
  <2>1. GasExceeded /\ Answered("GasExceeded", MaxGas) /\ pc \in {"headers", "walk"}
    BY <1>5 DEF CallOutOfGas, GasExceeded
  <2>2. ContractStep
    BY <2>1 DEF ContractStep, Next
  <2>3. running # 0 => pc' = "idle"
    BY <1>3, <2>1 DEF GasExceeded, Rollback
  <2>4. "GasExceeded" \in Answers /\ "GasExceeded" # "ok" /\ MaxGas \in Nat
    BY RelayerAssumption DEF Answers
  <2> QED
    BY <1>1, <2>1, <2>2, <2>3, <2>4, AnsweredKeeps
<1> QED
  BY <1>4, <1>5

\* The rest of the world: init, the node, finality, expiry.
LEMMA OutsideKeeps ==
  ASSUME RelayerInv,
         \/ InitContract
         \/ Finalise
         \/ NodeMoves
         \/ \E o \in orphans : OrphanExpires(o)
         \/ UNCHANGED <<vars, relayer_vars>>
  PROVE  RelayerInv'
<1>1. /\ saved' = saved
      /\ UNCHANGED <<first_block_height_to_submit, at, end_height, fetched, current_batch_size,
                     tasks, running, gas>>
      /\ (\E hs \in InitBlocks : init(hs)) \/ UNCHANGED vars
      /\ node' = node \/ node' \in NodeTips
      /\ orphans' \subseteq orphans
      /\ final' = final \/ (final # saved /\ final' = saved)
  <2>1. CASE InitContract
    BY <2>1 DEF InitContract, relayer_vars, sync_vars, init
  <2>2. CASE Finalise \/ NodeMoves \/ \E o \in orphans : OrphanExpires(o)
    BY <2>2 DEF Finalise, NodeMoves, OrphanExpires, vars, sync_vars
  <2>3. CASE UNCHANGED <<vars, relayer_vars>>
    BY <2>3 DEF vars, relayer_vars, sync_vars
  <2> QED
    BY <2>1, <2>2, <2>3
<1>2. ContractStep
  BY <1>1 DEF ContractStep, Next, Start
<1>3. /\ Inv' /\ LinkInv' /\ CallInv'
      /\ final' = final => FinalInv'
  BY <1>2, StepStays
<1>4. FinalInv'
  <2>1. CASE final # saved /\ final' = saved
    <3>1. IsStorage(saved)
      BY DEF RelayerInv, Inv, TypeOK
    <3>2. saved # EmptyStorage
      BY <2>1, EmptyIsUnsound DEF RelayerInv, FinalInv, Known
    <3>3. Sound(saved)
      BY <3>2, SavedIsSound DEF RelayerInv, Initialised
    <3>4. Known(saved, saved.tip_blockhash)
      BY <3>1, <3>3, SoundIsChain, TrueValues DEF Known
    <3> QED
      BY <1>1, <2>1, <3>1, <3>3, <3>4 DEF FinalInv
  <2> QED
    BY <1>1, <1>3, <2>1
<1>5. RelayerTypeOK'
  <2>1. NodeTips \subseteq Hash
    BY RelayerAssumption
  <2> QED
    BY <1>1, <2>1 DEF RelayerInv, RelayerTypeOK
<1>6. FetchInv' /\ TaskInv' /\ PhaseInv'
  BY <1>1 DEF RelayerInv, FetchInv, heights, TaskInv, PhaseInv
<1>7. RunInv'
  <2>1. CASE UNCHANGED vars
    BY <1>1, <2>1 DEF RelayerInv, RunInv, vars
  <2>2. ASSUME NEW hs \in InitBlocks, init(hs) PROVE RunInv'
    <3>1. pc = "uninit"
      BY <2>2 DEF init
    <3> QED
      BY <1>1, <3>1, NothingRuns DEF RunInv
  <2> QED
    BY <1>1, <2>1, <2>2
<1> QED
  BY <1>3, <1>4, <1>5, <1>6, <1>7 DEF RelayerInv

\* The process starts with one lookup.
LEMMA StartingType ==
  /\ DOMAIN Starting = {1} /\ Starting \in [{1} -> TaskType]
  /\ Starting[1].state = "tip"
<1> DEFINE t == Task(0, <<>>, "tip")
<1>1. t \in TaskType /\ t.state = "tip"
  BY DEF Task, TaskType
<1>2. Starting = <<t>>
  BY DEF Starting
<1> HIDE DEF t
<1>3. DOMAIN <<t>> = {1} /\ <<t>>[1] = t
  OBVIOUS
<1>4. <<t>> \in [{1} -> TaskType]
  BY <1>1, <1>3
<1> QED
  BY <1>1, <1>2, <1>3, <1>4

\* The end of an iteration, and a restart of the process.
LEMMA RestartKeeps ==
  ASSUME RelayerInv, pc = "idle", IterationDone \/ Crash
  PROVE  RelayerInv'
<1>1. /\ UNCHANGED <<vars, node, final, first_block_height_to_submit, running, gas>>
      /\ saved' = saved
  BY DEF IterationDone, Crash, vars
<1>2. ContractStep
  BY <1>1 DEF ContractStep
<1>3. Inv' /\ LinkInv' /\ CallInv' /\ FinalInv'
  BY <1>1, <1>2, StepStays
<1>4. RunInv'
  BY <1>1, NothingRuns DEF RunInv
<1>5. CASE IterationDone
  <2>1. /\ at \in {"start", "submit"} /\ at' = "loop" /\ tasks' = <<>>
        /\ \A i \in DOMAIN tasks : tasks[i].state = "done"
        /\ UNCHANGED <<current_batch_size, end_height, fetched, orphans>>
    BY <1>5 DEF IterationDone
  <2>2. DOMAIN tasks' = {} /\ tasks' \in [{} -> TaskType]
    BY <2>1
  <2>3. RelayerTypeOK' /\ FetchInv' /\ TaskInv'
    BY <1>1, <2>1, <2>2 DEF RelayerInv, RelayerTypeOK, FetchInv, TaskInv
  <2>4. Reached(saved, first_block_height_to_submit)
    BY <2>1 DEF RelayerInv, PhaseInv
  <2>5. PhaseInv'
    BY <1>1, <2>1, <2>2, <2>4 DEF PhaseInv
  <2> QED
    BY <1>3, <1>4, <2>3, <2>5 DEF RelayerInv
<1>6. CASE Crash
  <2>1. /\ at' = "start" /\ tasks' = Starting
        /\ current_batch_size' = submit_batch_size /\ end_height' = 0
        /\ fetched' = [k \in {} |-> NoHash]
        /\ orphans' = orphans \cup
             {[nonce |-> tasks[i].nonce, blocks |-> tasks[i].blocks] :
                i \in {j \in DOMAIN tasks : Pending(j) /\ tasks[j].nonce > 0}}
    BY <1>6 DEF Crash
  <2>2. /\ DOMAIN tasks' = {1} /\ tasks' \in [{1} -> TaskType]
        /\ tasks'[1].state = "tip"
    BY <2>1, StartingType
  <2>3. submit_batch_size \in Nat \ {0}
    BY RelayerAssumption
  <2>4. orphans' \subseteq [nonce : Int, blocks : Seq(Hash)]
    BY <2>1 DEF RelayerInv, RelayerTypeOK, TaskType
  <2>5. RelayerTypeOK'
    BY <1>1, <2>1, <2>2, <2>3, <2>4 DEF RelayerInv, RelayerTypeOK
  <2>6. FetchInv' /\ TaskInv'
    BY <2>1, <2>2 DEF FetchInv, TaskInv, GoodTask, Sent, Answers
  <2>7. PhaseInv'
    BY <2>1, <2>2 DEF PhaseInv, Sent, Answers
  <2> QED
    BY <1>3, <1>4, <2>5, <2>6, <2>7 DEF RelayerInv
<1> QED
  BY <1>5, <1>6

-----------------------------------------------------------------------------
(***************************************************************************)
(* The theorems.                                                           *)
(***************************************************************************)

\* The invariant holds at the start.
LEMMA RelayerInitInv == RelayerInit => RelayerInv
<1> SUFFICES ASSUME RelayerInit PROVE RelayerInv
  OBVIOUS
<1>1. Init /\ Inv /\ LinkInv /\ CallInv
  BY InitInv, InitLink DEF RelayerInit, Init, CallInv
<1>2. FinalInv
  BY EmptyIsStorage DEF RelayerInit, FinalInv
<1>3. /\ DOMAIN tasks = {1} /\ tasks \in [{1} -> TaskType]
      /\ tasks[1].state = "tip"
  BY StartingType DEF RelayerInit
<1>4. RelayerTypeOK
  <2>1. FirstNodeTip \in Hash /\ submit_batch_size \in Nat \ {0}
    BY RelayerAssumption
  <2> QED
    BY <1>3, <2>1 DEF RelayerInit, RelayerTypeOK
<1>5. FetchInv /\ TaskInv /\ RunInv
  BY <1>3 DEF RelayerInit, FetchInv, TaskInv, RunInv, GoodTask, Sent, Answers
<1>6. PhaseInv
  BY <1>3 DEF RelayerInit, PhaseInv, Sent, Answers
<1> QED
  BY <1>1, <1>2, <1>4, <1>5, <1>6 DEF RelayerInv

\* Every step keeps it.
LEMMA RelayerNextInv ==
  RelayerInv /\ [RelayerNext]_<<vars, relayer_vars>> => RelayerInv'
<1> SUFFICES ASSUME RelayerInv, [RelayerNext]_<<vars, relayer_vars>> PROVE RelayerInv'
  OBVIOUS
<1>1. ASSUME Relay PROVE RelayerInv'
  BY <1>1, FetchKeeps, SignKeeps, AnswerKeeps, LookupKeeps, RestartKeeps DEF Relay
<1>2. ASSUME Crash PROVE RelayerInv'
  BY <1>2, RestartKeeps DEF Crash
<1>3. ASSUME pc = "idle", NEW i \in DOMAIN tasks, Timeout(i) \/ LookupFault(i) PROVE RelayerInv'
  BY <1>3, AnswerKeeps, LookupKeeps
<1> QED
  BY <1>1, <1>2, <1>3, CallKeeps, ExecuteKeeps, OutsideKeeps DEF RelayerNext, Near

\* The invariant holds in every state of every behaviour.
LEMMA RelayerSpecInv == RelayerSpec => []RelayerInv
BY RelayerInitInv, RelayerNextInv, PTL DEF RelayerSpec

\* Between iterations the relayer is at most one above a header that has no
\* more work than the contract's tip.
NeverAheadOfWork ==
  at = "loop" =>
    \E h \in Hash : /\ first_block_height_to_submit <= TrueHeight(h) + 1
                    /\ TrueWork(h) <= TrueWork(saved.tip_blockhash)

\* Whatever was lost, late, executed after all or reorganised, in any network
\* and with any batch sizes, the relayer goes on at most one above a header
\* the contract has the work of.
THEOREM NeverAheadOfWorkTheorem == RelayerSpec => []NeverAheadOfWork
<1>1. RelayerInv => NeverAheadOfWork
  BY DEF RelayerInv, PhaseInv, Reached, Known, NeverAheadOfWork
<1> QED
  BY <1>1, RelayerSpecInv, PTL

\* A higher header has more work, as it has where the difficulty is the same
\* for all of them.
HigherIsHeavier ==
  \A g, h \in Hash : NetHeight[g] > NetHeight[h] => NetWork[g] > NetWork[h]

\* In such a network the relayer never skips a header: between iterations it
\* goes on at most one above the highest header the contract holds.
THEOREM NeverAheadTheorem ==
  ASSUME HigherIsHeavier
  PROVE  RelayerSpec => []NeverAhead
<1>1. ASSUME RelayerInv PROVE NeverAhead
  <2> SUFFICES ASSUME at = "loop"
               PROVE  \E h \in DOMAIN saved.headers_pool :
                         first_block_height_to_submit <= TrueHeight(h) + 1
    BY DEF NeverAhead
  <2> DEFINE tip == saved.tip_blockhash
  <2>1. PICK h \in Hash : Known(saved, h) /\ first_block_height_to_submit <= TrueHeight(h) + 1
    BY <1>1 DEF RelayerInv, PhaseInv, Reached
  <2>2. IsStorage(saved) /\ Sound(saved) /\ first_block_height_to_submit \in Int
    BY <1>1, <2>1 DEF RelayerInv, Inv, TypeOK, Known, RelayerTypeOK
  <2>3. tip \in DOMAIN saved.headers_pool /\ tip \in Hash
    BY <2>2 DEF Sound, IsPath, IsStorage
  <2>4. TrueHeight(h) <= TrueHeight(tip)
    <3>1. /\ NetHeight \in [Hash -> Nat] /\ NetWork \in [Hash -> Nat]
          /\ GenesisHash \in Hash /\ GenesisHeight \in Nat /\ Work[GenesisHash] \in Nat
      BY HeadersAssumption, NetworkAssumption, ParametersAssumption
    <3>2. NetWork[h] <= NetWork[tip]
      BY <2>1, <2>3, <3>1 DEF Known, TrueWork
    <3>3. ~(NetHeight[h] > NetHeight[tip])
      BY <2>3, <3>1, <3>2 DEF HigherIsHeavier
    <3> QED
      BY <2>3, <3>1, <3>3 DEF TrueHeight
  <2>5. TrueHeight(h) \in Int /\ TrueHeight(tip) \in Int
    BY <2>3, TrueValues
  <2> QED
    BY <2>1, <2>2, <2>3, <2>4, <2>5
<1> QED
  BY <1>1, RelayerSpecInv, PTL
=============================================================================
