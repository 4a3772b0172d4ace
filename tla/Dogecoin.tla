------------------------------ MODULE Dogecoin ------------------------------
(***************************************************************************)
(* The checks of a Dogecoin header's bits and time (contract/src/          *)
(* dogecoin.rs); merged mining counts as proof of work here.               *)
(***************************************************************************)
EXTENDS PowRules

CONSTANTS
  DigishieldHeight,      \* 145_000: from here on every block retargets
  MinDifficultyHeight    \* 157_500: from here on a late block may be easy

allow_min_difficulty_for_block(s, h) ==
  /\ pow_allow_min_difficulty_blocks
  /\ s.headers_pool[Prev[h]].block_height >= MinDifficultyHeight
  /\ Time[h] > Time[Prev[h]] + pow_target_spacing * 2

\* The time span is damped, rounding towards zero, and limited.
calculate_next_work_required_floored(prev, first_block_time) ==
  LET span      == Time[prev] - first_block_time - pow_target_timespan
      modulated == Clamp(pow_target_timespan + span \div 8,
                         pow_target_timespan - pow_target_timespan \div 4,
                         pow_target_timespan + pow_target_timespan \div 2)
      product   == overflowing_mul(target_from_bits(Bits[prev]), modulated)
  IN  limited_bits(product, quotient(product.val, from(pow_target_timespan)))

calculate_next_work_required(prev, first_block_time) ==
  LET span      == Time[prev] - first_block_time - pow_target_timespan
      modulated == Clamp(pow_target_timespan + Quotient(span, 8),
                         pow_target_timespan - pow_target_timespan \div 4,
                         pow_target_timespan + pow_target_timespan \div 2)
      product   == overflowing_mul(target_from_bits(Bits[prev]), modulated)
  IN  limited_bits(product, quotient(product.val, from(pow_target_timespan)))

get_next_work_required(s, h) ==
  LET prev     == Prev[h]
      height   == s.headers_pool[prev].block_height
      interval == IF height >= DigishieldHeight THEN 1 ELSE difficulty_adjustment_interval
      back     == IF height + 1 = interval THEN interval - 1 ELSE interval
      first    == get_header_by_height(s, height - back)
  IN  IF allow_min_difficulty_for_block(s, h) THEN {proof_of_work_limit_bits}
      ELSE IF (height + 1) % interval # 0
        THEN IF ~pow_allow_min_difficulty_blocks THEN {Bits[prev]}
             ELSE IF Time[h] > Time[prev] + pow_target_spacing * 2
               THEN {proof_of_work_limit_bits}
               ELSE last_regular_bits(s, prev)
      ELSE IF height < back \/ first = NoHash THEN {}
      ELSE calculate_next_work_required(prev, Time[first])

check_pow_without_median(s, h, now) ==
  /\ Bits[h] \in get_next_work_required(s, h)
  /\ Time[h] <= now + MAX_FUTURE_BLOCK_TIME_LOCAL

check_pow(s, h, now) ==
  /\ Bits[h] \in get_next_work_required(s, h)
  /\ time_accepted(s, h, now)

-----------------------------------------------------------------------------
(***************************************************************************)
(* The rule of the network on a header's own ancestors, for blocks that    *)
(* all retarget.                                                           *)
(***************************************************************************)
NetworkBits(h) ==
  LET prev   == Prev[h]
      T      == pow_target_timespan
      excess == Time[prev] - Time[Prev[prev]] - T
      damped == CHOOSE n \in -(Time[Prev[prev]] + T) .. Time[prev] :
                  IF excess >= 0 THEN 8 * n <= excess /\ excess < 8 * (n + 1)
                                 ELSE 8 * (n - 1) < excess /\ excess <= 8 * n
  IN  IF /\ pow_allow_min_difficulty_blocks
         /\ TrueHeight(prev) >= MinDifficultyHeight
         /\ Time[h] - Time[prev] > 2 * pow_target_spacing
        THEN proof_of_work_limit_bits
        ELSE LimitedCompact((TargetOf(prev) * Clamp(T + damped, T - T \div 4, T + T \div 2)) \div T)

IsValid(h, now) == Bits[h] = NetworkBits(h) /\ TimeIsValid(h, now)
=============================================================================
