------------------------------ MODULE Bitcoin ------------------------------
(***************************************************************************)
(* The checks of a Bitcoin header (contract/src/bitcoin.rs).  A lookup     *)
(* that panics yields no bits, and no header matches.                      *)
(***************************************************************************)
EXTENDS PowRules

calculate_next_work_required_unclamped(prev, first_block_time) ==
  LET product == overflowing_mul(target_from_bits(Bits[prev]), Time[prev] - first_block_time)
  IN  limited_bits(product, quotient(product.val, from(pow_target_timespan)))

calculate_next_work_required(prev, first_block_time) ==
  LET actual_time_taken ==
        Clamp(Time[prev] - first_block_time, pow_target_timespan \div 4, pow_target_timespan * 4)
      product == overflowing_mul(target_from_bits(Bits[prev]), actual_time_taken)
  IN  limited_bits(product, quotient(product.val, from(pow_target_timespan)))

get_next_work_required(s, h) ==
  LET prev   == Prev[h]
      height == s.headers_pool[prev].block_height
      first  == get_header_by_height(s, height - (difficulty_adjustment_interval - 1))
  IN  IF (height + 1) % difficulty_adjustment_interval # 0
        THEN IF ~pow_allow_min_difficulty_blocks THEN {Bits[prev]}
             ELSE IF Time[h] > Time[prev] + 2 * pow_target_spacing
               THEN {proof_of_work_limit_bits}
               ELSE last_regular_bits(s, prev)
        ELSE IF first = NoHash THEN {} ELSE calculate_next_work_required(prev, Time[first])

check_pow_without_median(s, h, now) ==
  /\ Bits[h] \in get_next_work_required(s, h)
  /\ Time[h] <= now + MAX_FUTURE_BLOCK_TIME_LOCAL
  /\ Version[h] >= 4

check_pow(s, h, now) ==
  /\ Bits[h] \in get_next_work_required(s, h)
  /\ time_accepted(s, h, now)
  /\ Version[h] >= 4

-----------------------------------------------------------------------------
(***************************************************************************)
(* The rule of the network, and what the contract's check is worth.        *)
(***************************************************************************)
NetworkBits(h) ==
  LET prev     == Prev[h]
      height   == TrueHeight(h)
      start(k) == AncestorAt(prev, height - k)
      interval == difficulty_adjustment_interval
      special(k) == Bits[start(k)] = proof_of_work_limit_bits /\ (height - k) % interval # 0
  IN  IF height % interval = 0
        THEN LimitedCompact(
               (TargetOf(prev) * Clamp(Time[prev] - Time[start(interval)],
                                       pow_target_timespan \div 4, pow_target_timespan * 4))
               \div pow_target_timespan)
      ELSE IF ~pow_allow_min_difficulty_blocks THEN Bits[prev]
      ELSE IF Time[h] > Time[prev] + 2 * pow_target_spacing THEN proof_of_work_limit_bits
      ELSE Bits[start(CHOOSE k \in 1 .. interval : ~special(k) /\ \A j \in 1 .. k - 1 : special(j))]

IsValid(h, now) == Bits[h] = NetworkBits(h) /\ TimeIsValid(h, now) /\ Version[h] >= 4
=============================================================================
