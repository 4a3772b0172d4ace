------------------------------ MODULE Litecoin ------------------------------
(***************************************************************************)
(* The checks of a Litecoin header (contract/src/litecoin.rs): as for      *)
(* Bitcoin, but for a retarget over the whole interval before, and for an  *)
(* intermediate shift that keeps a large target from overflowing.          *)
(***************************************************************************)
EXTENDS PowRules

calculate_next_work_required_unshifted(prev, first_block_time) ==
  LET actual_time_taken ==
        Clamp(Time[prev] - first_block_time, pow_target_timespan \div 4, pow_target_timespan * 4)
      product == overflowing_mul(target_from_bits(Bits[prev]), actual_time_taken)
  IN  limited_bits(product, quotient(product.val, from(pow_target_timespan)))

calculate_next_work_required(prev, first_block_time) ==
  LET actual_time_taken ==
        Clamp(Time[prev] - first_block_time, pow_target_timespan \div 4, pow_target_timespan * 4)
      target  == target_from_bits(Bits[prev])
      shift   == IF bits(target) > bits(pow_limit) - 1 THEN 1 ELSE 0
      product == overflowing_mul(wrapping_shr(target, shift), actual_time_taken)
      scaled  == quotient(product.val, from(pow_target_timespan))
  IN  limited_bits(product, wrapping_shl(scaled, shift))

\* The full period, unless it is the first retarget after genesis.
blocks_to_go_back(height) ==
  IF height + 1 = difficulty_adjustment_interval
    THEN difficulty_adjustment_interval - 1
    ELSE difficulty_adjustment_interval

get_next_work_required(s, h) ==
  LET prev   == Prev[h]
      height == s.headers_pool[prev].block_height
      first  == get_header_by_height(s, height - blocks_to_go_back(height))
  IN  IF (height + 1) % difficulty_adjustment_interval # 0
        THEN IF ~pow_allow_min_difficulty_blocks THEN {Bits[prev]}
             ELSE IF Time[h] > Time[prev] + 2 * pow_target_spacing
               THEN {proof_of_work_limit_bits}
               ELSE last_regular_bits(s, prev)
        ELSE IF first = NoHash THEN {} ELSE calculate_next_work_required(prev, Time[first])

check_pow_without_median(s, h, now) ==
  /\ Bits[h] \in get_next_work_required(s, h)
  /\ Time[h] <= now + MAX_FUTURE_BLOCK_TIME_LOCAL
  /\ Version[h] >= 4

check_pow(s, h, now) ==
  /\ Bits[h] \in get_next_work_required(s, h)
  /\ time_accepted(s, h, now)
  /\ Version[h] >= 4

-----------------------------------------------------------------------------
(***************************************************************************)
(* The rule of the network on a header's own ancestors, without minimum    *)
(* difficulty blocks (the main network).                                   *)
(***************************************************************************)
NetworkBits(h) ==
  LET prev   == Prev[h]
      height == TrueHeight(h)
      span   == Clamp(Time[prev] - Time[AncestorAt(prev, height - 1 - blocks_to_go_back(height - 1))],
                      pow_target_timespan \div 4, pow_target_timespan * 4)
      unit   == IF 2 * TargetOf(prev) > Val(pow_limit) THEN 2 ELSE 1
  IN  IF height % difficulty_adjustment_interval # 0 THEN Bits[prev]
      ELSE LimitedCompact(unit * (((TargetOf(prev) \div unit) * span) \div pow_target_timespan))

IsValid(h, now) == Bits[h] = NetworkBits(h) /\ TimeIsValid(h, now) /\ Version[h] >= 4
=============================================================================
