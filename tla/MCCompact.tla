----------------------------- MODULE MCCompact -----------------------------
(***************************************************************************)
(* Retargeting arithmetic: every compact target, multiplied by every u64   *)
(* time span and divided by the target time span, as the calculate_next_   *)
(* work_required functions of the coins do, against integer arithmetic.    *)
(***************************************************************************)
EXTENDS U256

CONSTANTS MaxSize,    \* the size byte of a compact target
          MaxFactor,  \* the longest time span taken
          Timespan    \* pow_target_timespan

\* A time span is a u64, and small: its product with a mantissa is at most one
\* bit longer than a u64 (23 and 23 bits in the code, of 64).
ASSUME SpansAssumption ==
  /\ MaxSize \in Nat
  /\ MaxFactor \in 0 .. Half - 1
  /\ (SignBit - 1) * MaxFactor < 2 * Half
  /\ Timespan \in 1 .. Base - 1

VARIABLES b, m

CompactInit == b = 0 /\ m = 0

NextBits == b' = (b + 1) % ((MaxSize + 1) * Mantissa) /\ UNCHANGED m

NextFactor == m' = (m + 1) % (MaxFactor + 1) /\ UNCHANGED b

CompactNext == NextBits \/ NextFactor

CompactSpec == CompactInit /\ [][CompactNext]_<<b, m>>

target == target_from_bits(b)

product == overflowing_mul(target, m)

new_target == quotient(product.val, from(Timespan))

\* A target read from bits is scaled exactly, and an overflow reported: the
\* half limb overflowing_mul leaves out of its carry is zero, or the product
\* of the low limb fits.
TargetScaledExactly ==
  /\ product.overflow <=> Val(target) * m >= Size
  /\ ~product.overflow => Val(product.val) = Val(target) * m

\* target_to_bits is the compact form of the scaled target, for values of any
\* size and with the sign bit in the way.
RetargetIsCompactQuotient ==
  ~product.overflow => target_to_bits(new_target) = CompactForm((Val(target) * m) \div Timespan)

\* Expected and claimed bits are compared as numbers: encoding, decoding and
\* encoding again gives the same bits, for a target that is not larger.
CompactFormIsStable ==
  LET n == target_to_bits(new_target)
  IN  /\ Le(target_from_bits(n), new_target)
      /\ target_to_bits(target_from_bits(n)) = n
=============================================================================
