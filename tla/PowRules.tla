------------------------------ MODULE PowRules ------------------------------
(***************************************************************************)
(* What the checks of all coins share: the header fields they read, the    *)
(* lookups of BlocksGetter, and the median time past (contract/src/utils.rs*)
(* and the parameters of btc-types/src/network.rs).                        *)
(***************************************************************************)
EXTENDS LightClient, U256

CONSTANTS
  Time, Bits, Version,           \* the fields of a header
  NetworkAccepts(_, _),          \* the rule of the coin's network on a header,
                                 \* at a time: IsValid of the coin's module
  MAX_FUTURE_BLOCK_TIME_LOCAL,
  pow_target_timespan, pow_target_spacing,
  proof_of_work_limit_bits,
  pow_limit,                     \* a U256
  pow_allow_min_difficulty_blocks

ASSUME SpanAssumption == MEDIAN_TIME_SPAN \in Nat \ {0}

ASSUME FieldsAssumption ==
  /\ Time \in [Hash -> Nat]
  /\ Bits \in [Hash -> Nat]
  /\ Version \in [Hash -> Int]
  /\ Work = [h \in Hash |-> Val(work_from_bits(Bits[h]))]
  /\ MaxU256 = Val(MAX)

ASSUME ConfigAssumption ==
  /\ difficulty_adjustment_interval \in Nat \ {0}
  /\ pow_target_timespan \in 1 .. Base - 1
  /\ pow_target_spacing \in Nat
  /\ proof_of_work_limit_bits \in Nat
  /\ Val(pow_limit) \in 0 .. Size - 1 /\ pow_limit = Of(Val(pow_limit))

-----------------------------------------------------------------------------
\* get_prev_header called n times, from h; NoHash where a call panics.
get_prev_headers(s, h, n) ==
  LET prev[i \in 0 .. n] ==
        IF i = 0 THEN h
        ELSE IF prev[i - 1] # NoHash /\ Prev[prev[i - 1]] \in DOMAIN s.headers_pool
          THEN Prev[prev[i - 1]]
          ELSE NoHash
  IN  prev[n]

\* The main chain block at a height; NoHash where the call panics.
get_header_by_height(s, height) ==
  IF /\ height \in DOMAIN s.height_to_header
     /\ s.height_to_header[height] \in DOMAIN s.headers_pool
    THEN s.height_to_header[height]
    ELSE NoHash

\* The element in the middle of the sorted times of the blocks at[0], ..,
\* at[n - 1].
Median(at, n) ==
  CHOOSE t \in {Time[at[i]] : i \in 0 .. n - 1} :
     /\ Cardinality({i \in 0 .. n - 1 : Time[at[i]] < t}) <= n \div 2
     /\ Cardinality({i \in 0 .. n - 1 : Time[at[i]] <= t}) > n \div 2

\* The times of h and the blocks before it.  The loop of the code also reads
\* the block before the last one it needs, and panics where that is missing:
\* no median then, which the empty set says.
get_median_time_past(s, h) ==
  LET at == [i \in 0 .. MEDIAN_TIME_SPAN |-> get_prev_headers(s, h, i)]
  IN  IF at[MEDIAN_TIME_SPAN] = NoHash THEN {} ELSE {Median(at, MEDIAN_TIME_SPAN)}

\* Bits of the nearest block, from h back, that was not mined at the minimum
\* difficulty or that starts an interval; none where a block is missing.
last_regular_bits(s, h) ==
  LET at(i) == get_prev_headers(s, h, i)
      stops(i) == \/ Bits[at(i)] # proof_of_work_limit_bits
                  \/ s.headers_pool[at(i)].block_height % difficulty_adjustment_interval = 0
  IN  {Bits[at(i)] : i \in {n \in 0 .. difficulty_adjustment_interval - 1 :
                              /\ \A k \in 0 .. n : at(k) # NoHash
                              /\ stops(n)
                              /\ \A k \in 0 .. n - 1 : ~stops(k)}}

\* The u32 and i64 arithmetic on times stays far from its limits; a quotient
\* of i64 values is rounded towards zero.
Quotient(a, b) == IF a >= 0 THEN a \div b ELSE -((-a) \div b)

Clamp(n, lo, hi) == IF n < lo THEN lo ELSE IF n > hi THEN hi ELSE n

\* The end of every calculate_next_work_required: no bits where the product
\* overflowed, else the target, limited, in compact form.
limited_bits(product, target) ==
  IF product.overflow THEN {}
  ELSE {target_to_bits(IF Le(target, pow_limit) THEN target ELSE pow_limit)}

\* The bounds on a header's time: after the median of the blocks before it,
\* and not too far after the block timestamp.
time_accepted(s, h, now) ==
  /\ \E t \in get_median_time_past(s, Prev[h]) : Time[h] > t
  /\ Time[h] <= now + MAX_FUTURE_BLOCK_TIME_LOCAL

-----------------------------------------------------------------------------
(***************************************************************************)
(* The rules as the networks state them: along a header's own ancestors,   *)
(* in integers.                                                            *)
(***************************************************************************)
TargetOf(h) == Val(target_from_bits(Bits[h]))

LimitedCompact(v) == CompactForm(IF v <= Val(pow_limit) THEN v ELSE Val(pow_limit))

\* The least time that more than half of the last MEDIAN_TIME_SPAN blocks,
\* up to h, do not exceed.
MedianTimePast(h) ==
  LET times == [i \in 0 .. MEDIAN_TIME_SPAN - 1 |-> Time[Ancestor(h, i)]]
      most(t) == 2 * Cardinality({i \in DOMAIN times : times[i] <= t}) > MEDIAN_TIME_SPAN
  IN  CHOOSE t \in Range(times) : most(t) /\ \A u \in Range(times) : most(u) => t <= u

TimeIsValid(h, now) ==
  /\ Time[h] > MedianTimePast(Prev[h])
  /\ Time[h] <= now + MAX_FUTURE_BLOCK_TIME_LOCAL

\* The block of h's ancestry at a height.
AncestorAt(h, height) == Ancestor(h, TrueHeight(h) - height)

\* Blocks nobody verified: those of init.
Trusted == UNION {Range(hs) : hs \in InitBlocks}

(***************************************************************************)
(* What a deployment and its network provide, beyond the code.             *)
(***************************************************************************)
\* init is given consecutive blocks.
InitIsChain == \A hs \in InitBlocks : \A i \in 2 .. Len(hs) : Prev[hs[i]] = hs[i - 1]

\* h goes back to genesis by headers that have a proof of work or came with
\* init.
IsMined(h) ==
  LET n == TrueHeight(h) - GenesisHeight
  IN  /\ n >= 0
      /\ Ancestor(h, n) = GenesisHash
      /\ \A i \in 0 .. n : Ancestor(h, i) \in PowHashMeetsTarget \cup Trusted

\* A chain that takes the place of another by its work may be shorter, but not
\* by so much that GC has not left n blocks before its tip.
KeepsBlocks(n) ==
  \A g, h \in Hash :
     IsMined(g) /\ IsMined(h) /\ TrueWork(g) <= TrueWork(h) =>
       TrueHeight(g) + n < TrueHeight(h) + gc_threshold

\* A target up to v times a time span up to most is a U256, which the carry of
\* overflowing_mul computes: at the code's widths, where a mantissa times a
\* time span is short, or for targets with a low limb of zeros.
Scales(v, most) ==
  /\ most \in 0 .. Half - 1
  /\ v * most < Size
  /\ \/ (SignBit - 1) * most < 2 * Half
     \/ \A h \in Hash : TargetOf(h) % (2 * Half) = 0

\* The same for Litecoin, which halves a target of as many bits as the limit:
\* a limit of ones is twice as long as its half.
ScalesShifted ==
  /\ pow_target_timespan > 1
  /\ Scales(Val(pow_limit) \div 2, pow_target_timespan * 4)
  /\ \E w \in 1 .. 2 * LimbBits : Val(pow_limit) + 1 = Pow2(w)

\* The limit on targets holds where a target is not computed.
LimitHolds ==
  /\ Val(target_from_bits(proof_of_work_limit_bits)) <= Val(pow_limit)
  /\ \A h \in Trusted : TargetOf(h) <= Val(pow_limit)

-----------------------------------------------------------------------------
\* The median time past of the committed main chain never decreases from a
\* block to the next one, though times themselves do: every verified block is
\* later than the median of the blocks before it.
MedianTimeNeverDecreases ==
  \A k \in DOMAIN saved.height_to_header :
     LET h == saved.height_to_header[k]
     IN  h \notin Trusted => MedianTimePast(Prev[h]) <= MedianTimePast(h)

\* What the contract decides of h, and what the network does.
JudgedByNetwork(h) == CheckTarget(saved, h, clock) <=> NetworkAccepts(h, clock)

\* The check of a block on the tip decides exactly what the network's rule on
\* the block's own ancestors does: after any reorganisation and collection the
\* storage still has every block the check reads, and the right ones; a refused
\* honest block would stop the chain for good.
TipChildJudgedByNetwork ==
  Initialised => \A h \in Hash : Prev[h] = saved.tip_blockhash => JudgedByNetwork(h)

\* The blocks that the check of h reads by walking back from it are stored.
AncestorsStored(h) ==
  LET most == MEDIAN_TIME_SPAN + (IF Chain = "zcash" THEN pow_averaging_window ELSE 0)
  IN  \A n \in 1 .. most + 1 : Ancestor(h, n) \in DOMAIN saved.headers_pool

\* A header on a fork too is judged as the network judges it on its own
\* ancestors, main chain blocks or not ("Go back by what we want to be 14 days
\* worth of blocks"): no lookup strays to another branch.
EveryChildJudgedByNetwork ==
  Initialised =>
    \A h \in Hash : Prev[h] = saved.tip_blockhash \/ AncestorsStored(h) => JudgedByNetwork(h)
=============================================================================
