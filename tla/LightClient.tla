----------------------------- MODULE LightClient -----------------------------
(***************************************************************************)
(* The BtcLightClient contract (contract/src/lib.rs): its storage, and the *)
(* calls that change it, one NEAR call at a time.                          *)
(*                                                                         *)
(* A call executes in small steps, one per header and one per iteration of *)
(* the loop of reorg_chain, on the working storage db.  A call that        *)
(* returns copies db to saved, the state the chain keeps and every view    *)
(* and every later call reads; a call that panics or runs out of gas       *)
(* restores db from saved.  pc says where the running call is.             *)
(*                                                                         *)
(* A header is named by its hash; what the header says is a constant       *)
(* function of the hash (the hash is taken to be collision free).          *)
(***************************************************************************)
EXTENDS Integers, Sequences, FiniteSets, Functions

CONSTANTS
  Hash,                 \* the headers anybody may submit
  NoHash,               \* H256::default(), the hash of no header
  Prev,                 \* prev_block_hash of a header
  Work,                 \* work_from_bits(bits) of a header
  PowHashMeetsTarget,   \* headers whose pow hash is at most their own target
  CheckTarget(_, _, _), \* check_target(storage, header, clock), per coin
  NetHeight, NetWork,   \* height and accumulated work in the coin's network
  MaxU256               \* the largest U256

CONSTANTS
  Chain,                          \* the cargo feature of the build
  MEDIAN_TIME_SPAN, pow_averaging_window, difficulty_adjustment_interval,
  GenesisHash, GenesisHeight,     \* InitArgs of the deployment ...
  skip_pow_verification, gc_threshold,
  InitBlocks                      \* ... and the submit_blocks tried for it

CONSTANTS
  Account, NoAccount,
  TrustedRelayers,      \* accounts the staking contract part has activated
  RoleOf,               \* the roles granted to each account
  PausableFeatures,     \* features a PauseManager may pause
  Batches,              \* the header vectors tried as submit_blocks arguments
  Deposits,             \* the attached deposits tried
  GCBatchSizes,         \* the batch_size arguments tried
  MaxTime,              \* bound on the block timestamp
  EntryBytes, HeaderBytes  \* storage bytes of a height/hash entry, a header

VARIABLES
  db,       \* the contract's storage as the running call sees it
  saved,    \* the contract's storage as of the last call that returned
  pc,       \* "uninit", "idle", or inside a call: "headers", "walk"
  call,     \* the running call
  cursor,   \* fork_header_cursor of the running reorg_chain
  fork_tip, \* fork_tip_hash of the running reorg_chain
  paused,   \* the paused features
  balance,  \* storage paid for so far, in bytes
  clock     \* the block timestamp

vars == <<db, saved, pc, call, cursor, fork_tip, paused, balance, clock>>

ASSUME HeadersAssumption ==
  /\ IsFiniteSet(Hash)
  /\ NoHash \notin Hash
  /\ Prev \in [Hash -> Hash \cup {NoHash}]
  /\ Work \in [Hash -> Nat \ {0}]
  /\ GenesisHash \in Hash

\* The network's headers form a forest: height and work grow along Prev.
ASSUME NetworkAssumption ==
  /\ NetHeight \in [Hash -> Nat]
  /\ NetWork \in [Hash -> Nat]
  /\ \A h \in Hash : Prev[h] \in Hash =>
        /\ NetHeight[h] = NetHeight[Prev[h]] + 1
        /\ NetWork[h] = NetWork[Prev[h]] + Work[h]

ASSUME ParametersAssumption ==
  /\ GenesisHeight \in Nat
  /\ gc_threshold \in Nat
  /\ skip_pow_verification \in BOOLEAN
  /\ InitBlocks \subseteq Seq(Hash)
  /\ Batches \subseteq Seq(Hash)
  /\ Deposits \subseteq Nat
  /\ GCBatchSizes \subseteq Nat
  /\ MaxTime \in Nat
  /\ EntryBytes \in Nat
  /\ HeaderBytes \in Nat
  /\ NoAccount \notin Account

-----------------------------------------------------------------------------
(***************************************************************************)
(* Storage: three lookup maps and two hashes.                              *)
(***************************************************************************)
EmptyStorage ==
  [ height_to_header  |-> [k \in {} |-> NoHash],
    header_to_height  |-> [h \in {} |-> 0],
    tip_blockhash     |-> NoHash,
    initial_blockhash |-> NoHash,
    headers_pool      |-> [h \in {} |-> [block_height |-> 0, chain_work |-> 0]] ]

\* LookupMap::insert; LookupMap::remove is Restrict.
Insert(f, k, v) == [x \in DOMAIN f \cup {k} |-> IF x = k THEN v ELSE f[x]]

store_block_header(s, h, header) ==
  [s EXCEPT !.height_to_header = Insert(@, header.block_height, h),
            !.header_to_height = Insert(@, h, header.block_height),
            !.headers_pool     = Insert(@, h, header)]

store_fork_header(s, h, header) ==
  [s EXCEPT !.headers_pool = Insert(@, h, header)]

\* remove_block_header, for each hash of the set hs.
remove_block_headers(s, hs) ==
  [s EXCEPT !.header_to_height = Restrict(@, DOMAIN @ \ hs),
            !.headers_pool     = Restrict(@, DOMAIN @ \ hs)]

\* The main chain blocks at those of the heights that have one.
HashesAt(s, heights) ==
  {s.height_to_header[k] : k \in heights \cap DOMAIN s.height_to_header}

\* The loops that delete a range of main chain heights from the three maps.
remove_heights(s, heights) ==
  LET r == remove_block_headers(s, HashesAt(s, heights))
  IN  [r EXCEPT !.height_to_header = Restrict(@, DOMAIN @ \ heights)]

Tip(s) == s.headers_pool[s.tip_blockhash]

Initial(s) == s.headers_pool[s.initial_blockhash]

\* env::storage_usage, the part of it the maps account for.
storage_usage(s) ==
  EntryBytes * (Cardinality(DOMAIN s.height_to_header)
                  + Cardinality(DOMAIN s.header_to_height))
    + HeaderBytes * Cardinality(DOMAIN s.headers_pool)

-----------------------------------------------------------------------------
(***************************************************************************)
(* run_mainchain_gc as a function of the storage.                          *)
(***************************************************************************)
get_mainchain_size(s) == Tip(s).block_height - Initial(s).block_height + 1

\* selected_amount_to_remove; nothing is removed up to the threshold.
gc_amount_below_threshold(s, batch_size) ==
  LET excess == get_mainchain_size(s) - gc_threshold + 1
  IN  IF excess <= 0 THEN 0 ELSE IF excess < batch_size THEN excess ELSE batch_size

gc_amount_whole_batch(s, batch_size) ==
  IF get_mainchain_size(s) > gc_threshold THEN batch_size ELSE 0

gc_amount(s, batch_size) ==
  LET excess == get_mainchain_size(s) - gc_threshold
  IN  IF excess <= 0 THEN 0 ELSE IF excess < batch_size THEN excess ELSE batch_size

gc_heights(s, batch_size) ==
  Initial(s).block_height
    .. (Initial(s).block_height + gc_amount(s, batch_size) - 1)

gc_end(s, batch_size) == Initial(s).block_height + gc_amount(s, batch_size)

\* Every lookup of the function finds its key, and no u64 goes below zero.
gc_succeeds(s, batch_size) ==
  /\ s.initial_blockhash \in DOMAIN s.headers_pool
  /\ s.tip_blockhash \in DOMAIN s.headers_pool
  /\ get_mainchain_size(s) > 0
  /\ get_mainchain_size(s) > gc_threshold =>
        gc_heights(s, batch_size) \cup {gc_end(s, batch_size)}
          \subseteq DOMAIN s.height_to_header

gc(s, batch_size) ==
  IF get_mainchain_size(s) > gc_threshold
    THEN [remove_heights(s, gc_heights(s, batch_size)) EXCEPT
            !.initial_blockhash = s.height_to_header[gc_end(s, batch_size)]]
    ELSE s

-----------------------------------------------------------------------------
(***************************************************************************)
(* Access control (near_plugins and omni_utils macros).                    *)
(***************************************************************************)
PauseAllowsSubmit(a) == "submit_blocks" \notin paused

PauseAllowsGC(a) ==
  "run_mainchain_gc" \notin paused \/ "UnrestrictedRunGC" \in RoleOf[a]

IsTrustedRelayer(a) ==
  a \in TrustedRelayers \/ RoleOf[a] \cap {"DAO", "UnrestrictedSubmitBlocks"} # {}

\* pa_pause_feature and pa_unpause_feature, called by a PauseManager.
Pause ==
  /\ pc = "idle"
  /\ \E f \in PausableFeatures \ paused : paused' = paused \cup {f}
  /\ UNCHANGED <<db, saved, pc, call, cursor, fork_tip, balance, clock>>

Unpause ==
  /\ pc = "idle"
  /\ \E f \in paused : paused' = paused \ {f}
  /\ UNCHANGED <<db, saved, pc, call, cursor, fork_tip, balance, clock>>

\* Block time passes between calls.
Tick ==
  /\ pc = "idle"
  /\ clock < MaxTime
  /\ clock' = clock + 1
  /\ UNCHANGED <<db, saved, pc, call, cursor, fork_tip, paused, balance>>

-----------------------------------------------------------------------------
(***************************************************************************)
(* Starting and ending a call.                                             *)
(***************************************************************************)
\* The running call: its caller and deposit, its headers and the one that is
\* next, and whether it is init, which skips verification and GC.
NoCall ==
  [caller |-> NoAccount, amount |-> 0, headers |-> <<>>, next |-> 1,
   skip |-> FALSE, init |-> FALSE]

NotReorganising == cursor' = NoHash /\ fork_tip' = NoHash

\* init_genesis accepts its arguments.
init_requires(hs) ==
  /\ hs # <<>>
  /\ Chain = "bitcoin" => GenesisHeight % difficulty_adjustment_interval = 0
  /\ Chain \in {"litecoin", "dogecoin"} =>
        (GenesisHeight + 1) % difficulty_adjustment_interval = 0
  /\ Chain # "zcash" => Len(hs) > MEDIAN_TIME_SPAN
  /\ Chain = "zcash" => MEDIAN_TIME_SPAN + pow_averaging_window = Len(hs) - 1
  /\ hs[1] = GenesisHash

genesis_storage ==
  LET header == [block_height |-> GenesisHeight, chain_work |-> Work[GenesisHash]]
  IN  [store_block_header(EmptyStorage, GenesisHash, header) EXCEPT
         !.initial_blockhash = GenesisHash, !.tip_blockhash = GenesisHash]

\* init: the first header is stored unconditionally, the others go through
\* submit_block_header with skip_pow_verification = true.
init(hs) ==
  /\ pc = "uninit"
  /\ init_requires(hs)
  /\ db' = genesis_storage
  /\ pc' = "headers"
  /\ call' = [NoCall EXCEPT !.headers = hs, !.next = 2, !.skip = TRUE, !.init = TRUE]
  /\ UNCHANGED <<saved, cursor, fork_tip, paused, balance, clock>>

submit_blocks(a, hs, amount) ==
  /\ pc = "idle"
  /\ PauseAllowsSubmit(a)
  /\ IsTrustedRelayer(a)
  /\ pc' = "headers"
  /\ call' = [NoCall EXCEPT !.caller = a, !.amount = amount, !.headers = hs,
                            !.skip = skip_pow_verification]
  /\ UNCHANGED <<db, saved, cursor, fork_tip, paused, balance, clock>>

HeadersDone == pc = "headers" /\ call.next > Len(call.headers)

\* The call returns: what it wrote becomes the contract's state.
Commit(s, kept) ==
  /\ db' = s
  /\ saved' = s
  /\ balance' = balance + kept
  /\ pc' = "idle"
  /\ call' = NoCall
  /\ NotReorganising
  /\ UNCHANGED <<paused, clock>>

\* The contract's own account carries what init writes.
FinishInit == HeadersDone /\ call.init /\ Commit(db, storage_usage(db))

\* saturating_sub: a call that frees storage owes nothing.
required_deposit_after_headers(s) ==
  LET diff == storage_usage(s) - storage_usage(db) IN IF diff > 0 THEN diff ELSE 0

required_deposit(s) ==
  LET diff == storage_usage(s) - storage_usage(saved) IN IF diff > 0 THEN diff ELSE 0

submit_blocks_succeeds ==
  LET n == Len(call.headers) IN
  /\ PauseAllowsGC(call.caller)
  /\ gc_succeeds(db, n)
  /\ call.amount >= required_deposit(gc(db, n))

\* The end of submit_blocks: GC as many headers as were submitted, charge the
\* growth of the storage and refund the rest of the deposit.
FinishSubmit ==
  /\ HeadersDone
  /\ ~call.init
  /\ submit_blocks_succeeds
  /\ LET s == gc(db, Len(call.headers)) IN Commit(s, required_deposit(s))

\* A panic, or the gas limit: everything the call wrote is undone.
Rollback ==
  /\ db' = saved
  /\ pc' = IF call.init THEN "uninit" ELSE "idle"
  /\ call' = NoCall
  /\ NotReorganising
  /\ UNCHANGED <<saved, paused, balance, clock>>

run_mainchain_gc(a, batch_size) ==
  /\ pc = "idle"
  /\ PauseAllowsGC(a)
  /\ gc_succeeds(db, batch_size)
  /\ LET s == gc(db, batch_size) IN db' = s /\ saved' = s
  /\ UNCHANGED <<pc, call, cursor, fork_tip, paused, balance, clock>>

-----------------------------------------------------------------------------
(***************************************************************************)
(* submit_block_header.                                                    *)
(***************************************************************************)
Header == call.headers[call.next]

\* The ExtendedHeader computed for h from its parent in the pool.
extend_header_on_tip(s, h) ==
  [block_height |-> 1 + Tip(s).block_height,
   chain_work   |-> s.headers_pool[Prev[h]].chain_work + Work[h]]

extend_header_less_work(s, h) ==
  LET prev == s.headers_pool[Prev[h]]
  IN  [block_height |-> 1 + prev.block_height,
       chain_work   |-> prev.chain_work - Work[h]]

extend_header(s, h) ==
  LET prev == s.headers_pool[Prev[h]]
  IN  [block_height |-> 1 + prev.block_height,
       chain_work   |-> prev.chain_work + Work[h]]

\* The checks submit_block_header makes before it stores anything.
header_accepted(s, h) ==
  /\ Prev[h] \in DOMAIN s.headers_pool
  /\ extend_header(s, h).chain_work <= MaxU256
  /\ ~call.skip => CheckTarget(s, h, clock) /\ h \in PowHashMeetsTarget

HeaderPending == pc = "headers" /\ call.next <= Len(call.headers)

SameHeader == call' = call

NextHeader == call' = [call EXCEPT !.next = @ + 1]

\* The header continues the main chain.
ExtendMainchain ==
  /\ HeaderPending
  /\ header_accepted(db, Header)
  /\ Prev[Header] = db.tip_blockhash
  /\ db' = [store_block_header(db, Header, extend_header(db, Header)) EXCEPT
              !.tip_blockhash = Header]
  /\ NextHeader
  /\ UNCHANGED <<saved, pc, cursor, fork_tip, paused, balance, clock>>

\* The current header's chain has more work than the main chain.
fork_wins_on_ties(s, h) == extend_header(s, h).chain_work >= Tip(s).chain_work

fork_wins_by_height(s, h) == extend_header(s, h).block_height > Tip(s).block_height

fork_wins(s, h) == extend_header(s, h).chain_work > Tip(s).chain_work

\* The header belongs to a fork, or is on the main chain already, and the
\* main chain has at least as much work.
StoreFork ==
  /\ HeaderPending
  /\ header_accepted(db, Header)
  /\ Prev[Header] # db.tip_blockhash
  /\ ~fork_wins(db, Header)
  /\ db' = store_fork_header(db, Header, extend_header(db, Header))
  /\ NextHeader
  /\ UNCHANGED <<saved, pc, cursor, fork_tip, paused, balance, clock>>

\* Main chain heights above the tip of the heavier fork.
heights_above_off_by_one(s, h) ==
  (extend_header(s, h).block_height + 2) .. Tip(s).block_height

heights_above(s, h) == (extend_header(s, h).block_height + 1) .. Tip(s).block_height

\* reorg_chain, the part before its loop.
StartReorg ==
  /\ HeaderPending
  /\ header_accepted(db, Header)
  /\ Prev[Header] # db.tip_blockhash
  /\ fork_wins(db, Header)
  /\ heights_above(db, Header) \subseteq DOMAIN db.height_to_header
  /\ db' = remove_heights(store_fork_header(db, Header, extend_header(db, Header)),
                          heights_above(db, Header))
  /\ cursor' = Header
  /\ fork_tip' = Header
  /\ pc' = "walk"
  /\ NextHeader
  /\ UNCHANGED <<saved, paused, balance, clock>>

\* One iteration of the loop, up to its lookup of the previous block: the
\* fork block takes its height, the main chain block it displaces is removed.
promote_removing_below(s, h) ==
  LET height == s.headers_pool[h].block_height
      r      == [s EXCEPT !.height_to_header = Insert(@, height, h),
                          !.header_to_height = Insert(@, h, height)]
  IN  remove_block_headers(r, HashesAt(s, {height - 1}))

promote(s, h) ==
  LET height == s.headers_pool[h].block_height
      r      == [s EXCEPT !.height_to_header = Insert(@, height, h),
                          !.header_to_height = Insert(@, h, height)]
  IN  remove_block_headers(r, HashesAt(s, {height}))

Walking == pc = "walk" /\ cursor \notin DOMAIN db.header_to_height

WalkFork ==
  /\ Walking
  /\ Prev[cursor] \in DOMAIN promote(db, cursor).headers_pool
  /\ db' = promote(db, cursor)
  /\ cursor' = Prev[cursor]
  /\ UNCHANGED <<saved, pc, call, fork_tip, paused, balance, clock>>

\* The walk has reached the main chain.
FinishReorg ==
  /\ pc = "walk"
  /\ cursor \in DOMAIN db.header_to_height
  /\ db' = [db EXCEPT !.tip_blockhash = fork_tip]
  /\ pc' = "headers"
  /\ NotReorganising
  /\ UNCHANGED <<saved, call, paused, balance, clock>>

\* A lookup or a require of the running call fails.
Panics ==
  \/ HeaderPending /\ ~header_accepted(db, Header)
  \/ /\ HeaderPending
     /\ header_accepted(db, Header)
     /\ Prev[Header] # db.tip_blockhash
     /\ fork_wins(db, Header)
     /\ ~(heights_above(db, Header) \subseteq DOMAIN db.height_to_header)
  \/ Walking /\ Prev[cursor] \notin DOMAIN promote(db, cursor).headers_pool
  \/ HeadersDone /\ ~call.init /\ ~submit_blocks_succeeds

Panic == Panics /\ Rollback

\* The NEAR runtime stops a call that used up its gas, wherever it is.
GasExceeded == pc \in {"headers", "walk"} /\ Rollback

-----------------------------------------------------------------------------
Init ==
  /\ db = EmptyStorage
  /\ saved = EmptyStorage
  /\ pc = "uninit"
  /\ call = NoCall
  /\ cursor = NoHash
  /\ fork_tip = NoHash
  /\ paused = {}
  /\ balance = 0
  /\ clock = 0

Start ==
  \/ \E hs \in InitBlocks : init(hs)
  \/ \E a \in Account, hs \in Batches, amount \in Deposits : submit_blocks(a, hs, amount)
  \/ \E a \in Account, n \in GCBatchSizes : run_mainchain_gc(a, n)

Step ==
  \/ ExtendMainchain
  \/ StoreFork
  \/ StartReorg
  \/ WalkFork
  \/ FinishReorg
  \/ FinishInit
  \/ FinishSubmit
  \/ Panic

Next == Start \/ Step \/ GasExceeded \/ Pause \/ Unpause \/ Tick

\* The runtime keeps executing a call it has started.
Spec == Init /\ [][Next]_vars /\ WF_vars(Step)

-----------------------------------------------------------------------------
(***************************************************************************)
(* What the contract answers: the checks of verify_transaction_inclusion   *)
(* that come before the Merkle proof.                                      *)
(***************************************************************************)
confirmed_one_short(s, b, confirmations) ==
  /\ confirmations <= gc_threshold
  /\ b \in DOMAIN s.header_to_height
  /\ Tip(s).block_height - s.header_to_height[b] + 2 >= confirmations

confirmed(s, b, confirmations) ==
  /\ confirmations <= gc_threshold
  /\ s.tip_blockhash \in DOMAIN s.headers_pool
  /\ b \in DOMAIN s.header_to_height
  /\ LET depth == Tip(s).block_height - s.header_to_height[b]
     IN  (IF depth > 0 THEN depth ELSE 0) + 1 >= confirmations
  /\ b \in DOMAIN s.headers_pool

-----------------------------------------------------------------------------
(***************************************************************************)
(* Properties.                                                             *)
(***************************************************************************)
Initialised == saved # EmptyStorage

ExtendedHeader == [block_height : Nat, chain_work : Nat]

\* The maps of s hold hashes, heights and headers.
IsStorage(s) ==
  /\ DOMAIN s = {"height_to_header", "header_to_height", "tip_blockhash",
                 "initial_blockhash", "headers_pool"}
  /\ DOMAIN s.height_to_header \subseteq Nat
  /\ s.height_to_header \in [DOMAIN s.height_to_header -> Hash]
  /\ DOMAIN s.header_to_height \subseteq Hash
  /\ s.header_to_height \in [DOMAIN s.header_to_height -> Nat]
  /\ s.tip_blockhash \in Hash \cup {NoHash}
  /\ s.initial_blockhash \in Hash \cup {NoHash}
  /\ DOMAIN s.headers_pool \subseteq Hash
  /\ s.headers_pool \in [DOMAIN s.headers_pool -> ExtendedHeader]

\* Every variable has its type: storage maps, control state, running call.
TypeOK ==
  /\ IsStorage(db)
  /\ IsStorage(saved)
  /\ pc \in {"uninit", "idle", "headers", "walk"}
  /\ call \in [caller : Account \cup {NoAccount}, amount : Nat, headers : Seq(Hash),
               next : Nat \ {0}, skip : BOOLEAN, init : BOOLEAN]
  /\ cursor \in Hash \cup {NoHash}
  /\ fork_tip \in Hash \cup {NoHash}
  /\ paused \subseteq PausableFeatures
  /\ balance \in Nat
  /\ clock \in Nat

\* The main chain of s is one path of parent links from the initial block to
\* the tip; the two main chain maps are inverse to each other and cover
\* exactly its heights, and every block of it is in the pool.
IsPath(s) ==
  LET lo == Initial(s).block_height
      hi == Tip(s).block_height
      at == s.height_to_header
  IN  /\ {s.initial_blockhash, s.tip_blockhash} \subseteq DOMAIN s.headers_pool
      /\ lo <= hi
      /\ DOMAIN at = lo .. hi
      /\ at[lo] = s.initial_blockhash
      /\ at[hi] = s.tip_blockhash
      /\ DOMAIN s.header_to_height = {at[k] : k \in lo .. hi}
      /\ \A k \in lo .. hi :
            /\ s.header_to_height[at[k]] = k
            /\ at[k] \in DOMAIN s.headers_pool
            /\ s.headers_pool[at[k]].block_height = k
            /\ k > lo => Prev[at[k]] = at[k - 1]

\* The committed main chain is such a path, whatever headers were submitted
\* in whatever order, reorganised, collected, or undone by a panic: what
\* reorg_chain and run_mainchain_gc leave behind is never torn.
MainchainIsPath == Initialised => IsPath(saved)

IsHeaviest(s) ==
  \A h \in DOMAIN s.headers_pool :
     s.headers_pool[h].chain_work <= Tip(s).chain_work

\* No header the committed pool holds has more work than the tip: the fork
\* choice of submit_block_header_inner never leaves a heavier fork aside.
TipIsHeaviest == Initialised => IsHeaviest(saved)

\* Height and accumulated work as the network counts them, from genesis.
TrueHeight(h) == NetHeight[h] - NetHeight[GenesisHash] + GenesisHeight

TrueWork(h) == NetWork[h] - NetWork[GenesisHash] + Work[GenesisHash]

IsTrue(s) ==
  \A h \in DOMAIN s.headers_pool :
     /\ s.headers_pool[h].block_height = TrueHeight(h)
     /\ s.headers_pool[h].chain_work = TrueWork(h)

\* The height and the chain work stored with a header are the ones the header
\* has in the network, along any order of submission and any reorganisation.
PoolMatchesNetwork == IsTrue(saved)

\* The storage while reorg_chain walks back from the fork tip t and is at c:
\* what is left of the old main chain, up to the lower of the two tips, with
\* the fork above c written over it.
MidReorg(s, c, t) ==
  LET at == s.height_to_header
      lo == TrueHeight(s.initial_blockhash)
      hi == TrueHeight(t)
      ch == TrueHeight(c)
      old == TrueHeight(s.tip_blockhash)
  IN  /\ c \in DOMAIN s.headers_pool
      /\ {t, s.initial_blockhash, s.tip_blockhash} \subseteq Hash
      /\ lo <= old
      /\ ch <= hi
      /\ DOMAIN at = {k \in lo .. old : k <= hi} \cup ((ch + 1) .. hi)
      /\ DOMAIN s.header_to_height = {at[k] : k \in DOMAIN at}
      /\ \A k \in DOMAIN at :
            /\ TrueHeight(at[k]) = k
            /\ s.header_to_height[at[k]] = k
            /\ at[k] \in DOMAIN s.headers_pool
            /\ k > lo /\ k # ch + 1 => Prev[at[k]] = at[k - 1]
      /\ IF ch = hi THEN c = t /\ c \notin DOMAIN s.header_to_height
                    ELSE at[hi] = t /\ Prev[at[ch + 1]] = c
      /\ lo <= ch /\ lo <= hi => at[lo] = s.initial_blockhash
      /\ \A h \in DOMAIN s.headers_pool : TrueWork(h) <= TrueWork(t)

\* In the middle of a reorganisation the maps are torn in this way only, so
\* that the walk, once it reaches a main chain block, has joined the fork to
\* what remains of the old chain.
ReorgTearsOnlyAtCursor == pc = "walk" => MidReorg(db, cursor, fork_tip)

\* The committed main chain as the outside sees it.
HC == INSTANCE HeaviestChain WITH chain <- saved.height_to_header

\* The contract implements the chain it promises: every call, whatever it
\* stores, reorganises, collects or undoes, moves the committed main chain in
\* one step from a chain of the network to one at least as heavy that starts
\* at the same block or at a buried descendant of it, or not at all.
ImplementsHeaviestChain == HC!Spec

Ancestor(h, n) == HC!Ancestor(h, n)

\* A block verify_transaction_inclusion accepts with n confirmations has at
\* least n - 1 blocks of the network built on it, the last of them the tip.
ConfirmedIsBuried ==
  \A b \in DOMAIN saved.header_to_height, n \in 0 .. gc_threshold :
     confirmed(saved, b, n) =>
       \E d \in 0 .. Cardinality(Hash) :
          d + 1 >= n /\ Ancestor(saved.tip_blockhash, d) = b

LosesOnlyOldOrOutweighed ==
  \A b \in DOMAIN saved.header_to_height \ DOMAIN saved'.header_to_height :
     \/ \E d \in gc_threshold .. Cardinality(Hash) :
           Ancestor(saved'.tip_blockhash, d) = b
     \/ /\ \A d \in 0 .. Cardinality(Hash) : Ancestor(saved'.tip_blockhash, d) # b
        /\ Tip(saved').chain_work > Tip(saved).chain_work

\* A block leaves the committed main chain only in one of two ways: it was
\* collected, and the tip is gc_threshold or more blocks above it, or the tip
\* no longer descends from it and has strictly more work than before.
MainchainLosesOnlyOldOrOutweighed == [][LosesOnlyOldOrOutweighed]_saved

\* GC finds every key it looks up, whatever batch_size it is called with: as
\* run_mainchain_gc ends every submit_blocks, a state where it panics would
\* refuse every further block.
GCNeverPanics ==
  Initialised /\ gc_threshold > 0 =>
    \A n \in 0 .. Cardinality(Hash) : gc_succeeds(saved, n)

\* The deposits kept cover the storage in use: charging the growth of every
\* call, and refunding nothing for what GC frees, never falls behind.
StorageIsPaidFor == storage_usage(saved) <= balance

\* Headers hs come one after the other, the first on a main chain block.
SubmittedFromMainchain(hs) ==
  /\ hs # <<>>
  /\ Prev[hs[1]] \in DOMAIN saved.header_to_height
  /\ \A i \in 2 .. Len(hs) : Prev[hs[i]] = hs[i - 1]

\* A batch that starts on a main chain block and goes up parent by parent, as
\* the relayer submits it, never meets a missing block in the walk back of
\* reorg_chain, even where an earlier reorganisation or GC removed blocks of
\* the fork it belongs to.
OrderedBatchNeverStrands ==
  Walking /\ SubmittedFromMainchain(call.headers) =>
    Prev[cursor] \in DOMAIN promote(db, cursor).headers_pool

\* The walk back of reorg_chain finds the previous block, as its panic message
\* says ("previous fork block should be there"), unless the fork leaves the
\* main chain below the oldest block GC has kept.
PreviousForkBlockIsThere ==
  Walking /\ ~call.init /\ db.headers_pool[cursor].block_height > Initial(saved).block_height + 1 =>
    Prev[cursor] \in DOMAIN promote(db, cursor).headers_pool

\* Every call ends: the walk of reorg_chain reaches the main chain or panics.
CallEnds == pc \in {"headers", "walk"} ~> pc \in {"uninit", "idle"}
=============================================================================
