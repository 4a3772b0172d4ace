-------------------------------- MODULE U256 --------------------------------
(***************************************************************************)
(* btc-types/src/u256.rs: unsigned integers of two u128 limbs, and the     *)
(* compact form of targets (btc-types/src/utils.rs).                       *)
(*                                                                         *)
(* U256(high, low) is the pair <<high, low>>.  The widths are parameters:  *)
(* LimbBits is 128 and ByteBits is 8 in the code; a u64 is half a limb.    *)
(***************************************************************************)
EXTENDS Integers

CONSTANTS LimbBits, ByteBits

ASSUME WidthsAssumption ==
  /\ LimbBits \in Nat \ {0} /\ LimbBits % 2 = 0
  /\ ByteBits \in Nat \ {0} /\ (2 * LimbBits) % ByteBits = 0
  /\ 3 * ByteBits <= LimbBits  \* a mantissa fits a limb

\* Powers of two, by doubling.
Pow2(n) ==
  LET p[k \in 0 .. n] == IF k = 0 THEN 1 ELSE 2 * p[k - 1] IN p[n]

Base == Pow2(LimbBits)

Half == Pow2(LimbBits \div 2)

Byte == Pow2(ByteBits)

\* The numbers of n bytes are those below.
Bytes(n) == Pow2(ByteBits * n)

\* The values of the type are those below.
Size == Base * Base

ZERO == <<0, 0>>

ONE == <<0, 1>>

MAX == <<Base - 1, Base - 1>>

\* The integer a pair stands for, and back.
Val(a) == a[1] * Base + a[2]

Of(n) == <<n \div Base, n % Base>>

\* From<u128>
from(n) == <<0, n>>

\* The derived order: the high limb first.
Le(a, b) == a[1] < b[1] \/ (a[1] = b[1] /\ a[2] <= b[2])

Not(a) == <<Base - 1 - a[1], Base - 1 - a[2]>>

-----------------------------------------------------------------------------
(***************************************************************************)
(* Addition, subtraction, shifts.                                          *)
(***************************************************************************)
overflowing_add_no_carry(a, b) ==
  [val      |-> <<(a[1] + b[1]) % Base, (a[2] + b[2]) % Base>>,
   overflow |-> a[1] + b[1] >= Base]

overflowing_add(a, b) ==
  LET carry == (a[2] + b[2]) \div Base
      high  == (a[1] + b[1]) % Base
  IN  [val      |-> <<(high + carry) % Base, (a[2] + b[2]) % Base>>,
       overflow |-> a[1] + b[1] >= Base \/ high + carry >= Base]

wrapping_add(a, b) == overflowing_add(a, b).val

\* self + !rhs + 1
overflowing_sub(a, b) ==
  [val |-> wrapping_add(wrapping_add(a, Not(b)), ONE), overflow |-> ~Le(b, a)]

wrapping_sub(a, b) == overflowing_sub(a, b).val

wrapping_inc(a) ==
  LET low == (a[2] + 1) % Base
  IN  <<IF low = 0 THEN (a[1] + 1) % Base ELSE a[1], low>>

\* The shift is masked to the width; a limb shifted by its width adds nothing.
wrapping_shl(a, rhs) ==
  LET shift == rhs % (2 * LimbBits)
      k     == shift % LimbBits
      carry == IF k > 0 THEN a[2] \div Pow2(LimbBits - k) ELSE 0
  IN  IF shift >= LimbBits
        THEN <<(a[2] * Pow2(k)) % Base, 0>>
        ELSE <<((a[1] * Pow2(k)) % Base) + carry, (a[2] * Pow2(k)) % Base>>

wrapping_shr_low_only(a, rhs) ==
  LET k == rhs % LimbBits
  IN  IF rhs % (2 * LimbBits) >= LimbBits
        THEN <<0, a[1] \div Pow2(k)>>
        ELSE <<a[1] \div Pow2(k), a[2] \div Pow2(k)>>

wrapping_shr(a, rhs) ==
  LET shift == rhs % (2 * LimbBits)
      k     == shift % LimbBits
      carry == IF k > 0 THEN (a[1] * Pow2(LimbBits - k)) % Base ELSE 0
  IN  IF shift >= LimbBits
        THEN <<0, a[1] \div Pow2(k)>>
        ELSE <<a[1] \div Pow2(k), (a[2] \div Pow2(k)) + carry>>

-----------------------------------------------------------------------------
(***************************************************************************)
(* Multiplication by a u64, division.                                      *)
(***************************************************************************)
\* The carry is computed from the upper half of the low limb alone.
overflowing_mul_no_carry(a, rhs) ==
  [val      |-> <<(a[1] * rhs) % Base, (a[2] * rhs) % Base>>,
   overflow |-> a[1] * rhs >= Base]

overflowing_mul(a, rhs) ==
  LET high  == (a[1] * rhs) % Base
      low   == (a[2] * rhs) % Base
      carry == IF a[2] * rhs >= Base THEN ((a[2] \div Half) * rhs) \div Half ELSE 0
  IN  [val      |-> <<(high + carry) % Base, low>>,
       overflow |-> a[1] * rhs >= Base \/ high + carry >= Base]

\* The least number of bits that hold a limb, and a U256.
limb_bits(n) == CHOOSE k \in 0 .. LimbBits : n < Pow2(k) /\ (k > 0 => n >= Pow2(k - 1))

bits(a) == IF a[1] > 0 THEN LimbBits + limb_bits(a[1]) ELSE limb_bits(a[2])

SetBit(a, k) == wrapping_add(a, wrapping_shl(ONE, k))

\* One round of the bitwise long division, for the bit k of the quotient.
div_round_strict(r, k) ==
  LET fits == ~Le(r.sub_copy, r.shift_copy)
  IN  [sub_copy   |-> IF fits THEN wrapping_sub(r.sub_copy, r.shift_copy) ELSE r.sub_copy,
       shift_copy |-> wrapping_shr(r.shift_copy, 1),
       ret        |-> IF fits THEN SetBit(r.ret, k) ELSE r.ret]

div_round(r, k) ==
  LET fits == Le(r.shift_copy, r.sub_copy)
  IN  [sub_copy   |-> IF fits THEN wrapping_sub(r.sub_copy, r.shift_copy) ELSE r.sub_copy,
       shift_copy |-> wrapping_shr(r.shift_copy, 1),
       ret        |-> IF fits THEN SetBit(r.ret, k) ELSE r.ret]

\* Quotient and remainder; the divisor is not zero.
div_rem(a, b) ==
  LET shift == bits(a) - bits(b)
      round[i \in 0 .. shift + 1] ==
        IF i = 0
          THEN [sub_copy |-> a, shift_copy |-> wrapping_shl(b, shift), ret |-> ZERO]
          ELSE div_round(round[i - 1], shift - i + 1)
  IN  IF shift < 0
        THEN [quot |-> ZERO, rem |-> a]
        ELSE [quot |-> round[shift + 1].ret, rem |-> round[shift + 1].sub_copy]

\* Div::div
quotient(a, b) == div_rem(a, b).quot

-----------------------------------------------------------------------------
(***************************************************************************)
(* Work of a target, and the compact form ("bits") of a target: a size in  *)
(* bytes above a mantissa of three bytes, the highest bit of which is the  *)
(* sign and is never set.                                                  *)
(***************************************************************************)
inverse_without_inc(a) ==
  IF a \in {ZERO, ONE} THEN MAX
  ELSE IF a = MAX THEN ONE
  ELSE quotient(Not(a), wrapping_inc(a))

inverse(a) ==
  IF a \in {ZERO, ONE} THEN MAX
  ELSE IF a = MAX THEN ONE
  ELSE wrapping_inc(quotient(Not(a), wrapping_inc(a)))

Mantissa == Bytes(3)

SignBit == Mantissa \div 2

target_to_bits_ignoring_sign(a) ==
  LET n_size == (bits(a) + ByteBits - 1) \div ByteBits
      n_compact == IF n_size <= 3
                     THEN a[2] * Bytes(3 - n_size)
                     ELSE wrapping_shr(a, ByteBits * (n_size - 3))[2] % Mantissa
  IN  n_size * Mantissa + n_compact

target_to_bits(a) ==
  LET n_size == (bits(a) + ByteBits - 1) \div ByteBits
      n_compact == IF n_size <= 3
                     THEN a[2] * Bytes(3 - n_size)
                     ELSE wrapping_shr(a, ByteBits * (n_size - 3))[2] % Mantissa
  IN  IF n_compact >= SignBit
        THEN (n_size + 1) * Mantissa + n_compact \div Byte
        ELSE n_size * Mantissa + n_compact

target_from_bits(b) ==
  LET unshifted_expt == b \div Mantissa
      mant == IF unshifted_expt <= 3
                THEN (b % Mantissa) \div Bytes(3 - unshifted_expt)
                ELSE b % Mantissa
      expt == IF unshifted_expt <= 3 THEN 0 ELSE ByteBits * (unshifted_expt - 3)
  IN  IF mant >= SignBit THEN ZERO ELSE wrapping_shl(from(mant), expt)

work_from_bits(b) == inverse(target_from_bits(b))

-----------------------------------------------------------------------------
\* The compact form by definition: the least size for which the value, in
\* units of the mantissa, stays below the sign bit; the mantissa rounded down.
CompactForm(v) ==
  LET size == CHOOSE n \in 0 .. 2 * LimbBits + 1 :
                2 * v < Bytes(n) /\ \A k \in 0 .. n - 1 : 2 * v >= Bytes(k)
      mant == IF size <= 3 THEN v * Bytes(3 - size) ELSE v \div Bytes(size - 3)
  IN  size * Mantissa + mant
=============================================================================
