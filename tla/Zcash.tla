------------------------------- MODULE Zcash -------------------------------
(***************************************************************************)
(* The checks of a Zcash header (contract/src/zcash.rs): every block       *)
(* retargets, from the mean target of a window of blocks and the medians   *)
(* of time at its two ends, all found by walking back parent by parent.    *)
(***************************************************************************)
EXTENDS PowRules

CONSTANTS
  MAX_FUTURE_BLOCK_TIME_MTP,
  pow_max_adjust_down, pow_max_adjust_up,        \* per cent
  pow_allow_min_difficulty_blocks_after_height,  \* where it is Some
  EquihashValid         \* headers with a valid Equihash solution

averaging_window_timespan == pow_averaging_window * pow_target_spacing

min_actual_timespan == (averaging_window_timespan * (100 - pow_max_adjust_up)) \div 100

max_actual_timespan == (averaging_window_timespan * (100 + pow_max_adjust_down)) \div 100

zcash_calculate_next_work_required_undamped(average_target, last_median, first_median) ==
  LET actual  == Clamp(last_median - first_median, min_actual_timespan, max_actual_timespan)
      product == overflowing_mul(quotient(average_target, from(averaging_window_timespan)), actual)
  IN  limited_bits(product, product.val)

zcash_calculate_next_work_required(average_target, last_median, first_median) ==
  LET span    == averaging_window_timespan
      actual  == Clamp(span + Quotient(last_median - first_median - span, 4),
                       min_actual_timespan, max_actual_timespan)
      product == overflowing_mul(quotient(average_target, from(span)), actual)
  IN  limited_bits(product, product.val)

\* total_target of the first n blocks of the window, at[0] and on.
total_target(at, n) ==
  LET sum[i \in 0 .. n] ==
        IF i = 0 THEN [val |-> ZERO, overflow |-> FALSE]
        ELSE LET more == overflowing_add(sum[i - 1].val, target_from_bits(Bits[at[i - 1]]))
             IN  [val |-> more.val, overflow |-> more.overflow \/ sum[i - 1].overflow]
  IN  sum[n]

\* The bits expected of h with the median time past before it; nothing where
\* a block is missing or a sum overflows.  The median is over the window's
\* first MEDIAN_TIME_SPAN blocks: the window is at least that long.
zcash_get_next_work_required(s, h) ==
  LET prev      == Prev[h]
      at        == [i \in 0 .. pow_averaging_window |-> get_prev_headers(s, prev, i)]
      before    == [i \in 0 .. MEDIAN_TIME_SPAN |->
                      get_prev_headers(s, prev, pow_averaging_window + i)]
      total     == total_target(at, pow_averaging_window)
      median    == Median(at, MEDIAN_TIME_SPAN)
      easy      == /\ pow_allow_min_difficulty_blocks
                   /\ s.headers_pool[prev].block_height
                        >= pow_allow_min_difficulty_blocks_after_height
                   /\ Time[h] > Time[prev] + pow_target_spacing * 6
      expected  == IF easy THEN {proof_of_work_limit_bits}
                   ELSE zcash_calculate_next_work_required(
                          quotient(total.val, from(pow_averaging_window)),
                          median, Median(before, MEDIAN_TIME_SPAN))
  IN  IF before[MEDIAN_TIME_SPAN] = NoHash \/ total.overflow THEN {}
      ELSE {[expected_bits |-> b, prev_block_median_time_past |-> median] : b \in expected}

check_pow_without_median(s, h, now) ==
  /\ \E r \in zcash_get_next_work_required(s, h) : r.expected_bits = Bits[h]
  /\ Time[h] <= now + MAX_FUTURE_BLOCK_TIME_LOCAL
  /\ Version[h] >= 4
  /\ h \in EquihashValid

check_pow(s, h, now) ==
  /\ \E r \in zcash_get_next_work_required(s, h) :
        /\ r.expected_bits = Bits[h]
        /\ Time[h] > r.prev_block_median_time_past
        /\ Time[h] <= r.prev_block_median_time_past + MAX_FUTURE_BLOCK_TIME_MTP
  /\ Time[h] <= now + MAX_FUTURE_BLOCK_TIME_LOCAL
  /\ Version[h] >= 4
  /\ h \in EquihashValid

-----------------------------------------------------------------------------
(***************************************************************************)
(* The rule of the network on a header's own ancestors, in integers.       *)
(***************************************************************************)
\* The mean target of the window of blocks that ends with h.
MeanTarget(h) ==
  LET sum[i \in 0 .. pow_averaging_window] ==
        IF i = 0 THEN 0 ELSE sum[i - 1] + TargetOf(Ancestor(h, i - 1))
  IN  sum[pow_averaging_window] \div pow_averaging_window

\* The time the window took, damped and limited.
DampedTimespan(h) ==
  LET span  == averaging_window_timespan
      taken == MedianTimePast(h) - MedianTimePast(Ancestor(h, pow_averaging_window))
  IN  Clamp(span + Quotient(taken - span, 4), min_actual_timespan, max_actual_timespan)

NetworkBits(h) ==
  LET prev == Prev[h]
  IN  IF /\ pow_allow_min_difficulty_blocks
         /\ TrueHeight(prev) >= pow_allow_min_difficulty_blocks_after_height
         /\ Time[h] - Time[prev] > 6 * pow_target_spacing
        THEN proof_of_work_limit_bits
        ELSE LimitedCompact((MeanTarget(prev) \div averaging_window_timespan) * DampedTimespan(prev))

IsValid(h, now) ==
  /\ Bits[h] = NetworkBits(h)
  /\ TimeIsValid(h, now)
  /\ Time[h] <= MedianTimePast(Prev[h]) + MAX_FUTURE_BLOCK_TIME_MTP
  /\ Version[h] >= 4
  /\ h \in EquihashValid

\* What a deployment and its network provide, beyond the code: a window has the
\* blocks of a median, its sums and products are U256 values, and the carry of
\* overflowing_mul is right for the means of the network's windows.
WindowsScale ==
  /\ pow_averaging_window \in Nat /\ pow_averaging_window >= MEDIAN_TIME_SPAN
  /\ pow_averaging_window < Base
  /\ averaging_window_timespan \in 1 .. Base - 1
  /\ min_actual_timespan \in 0 .. max_actual_timespan
  /\ max_actual_timespan \in 0 .. Half - 1
  /\ pow_averaging_window * Val(pow_limit) < Size
  /\ (Val(pow_limit) \div averaging_window_timespan) * max_actual_timespan < Size
  /\ \A h \in Hash :
        IsMined(h) /\ TrueHeight(h) >= GenesisHeight + pow_averaging_window + MEDIAN_TIME_SPAN =>
          LET low == (MeanTarget(h) \div averaging_window_timespan) % Base
              m   == DampedTimespan(h)
          IN  (low * m) \div Base <= ((low \div Half) * m) \div Half
=============================================================================
