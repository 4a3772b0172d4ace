------------------------------- MODULE MCU256 -------------------------------
(***************************************************************************)
(* The operations of U256 on every value x and the operands y of a grid,   *)
(* against integer arithmetic.  A step goes on to the next x or y.         *)
(***************************************************************************)
EXTENDS U256, Sequences

CONSTANT Operands   \* a sequence of operands

ASSUME OperandsAssumption == Operands \in Seq(0 .. Size - 1) /\ Operands # <<>>

VARIABLES x, i

y == Operands[i]

Init == x = 0 /\ i = 1

NextX == x' = (x + 1) % Size /\ UNCHANGED i

NextY == i' = (i % Len(Operands)) + 1 /\ UNCHANGED x

Next == NextX \/ NextY

Spec == Init /\ [][Next]_<<x, i>>

\* Around the edges of the limbs, of the type, and in between.
MCOperands ==
  <<0, 1, 2, 3, 5, Half - 1, Half, Half + 1, Base - 1, Base, Base + 1, 3 * Base - 1,
    (Half + 1) * Base - Half, Size \div 2 - 1, Size \div 2, Size - 2, Size - 1>>

\* overflowing_add and overflowing_sub wrap, and report that they did, exactly
\* where the integer result leaves the type: the carry between the limbs is
\* neither lost nor counted twice.
AddSubExact ==
  /\ overflowing_add(Of(x), Of(y)) = [val |-> Of((x + y) % Size), overflow |-> x + y >= Size]
  /\ overflowing_sub(Of(x), Of(y)) = [val |-> Of((x - y) % Size), overflow |-> y > x]

\* div_rem is Euclidean division, for operands on either side of a limb.
DivExact ==
  y > 0 => div_rem(Of(x), Of(y)) = [quot |-> Of(x \div y), rem |-> Of(x % y)]

\* << and >> by any amount below the width multiply and divide by a power of
\* two, bits moving between the limbs.
ShiftsExact ==
  \A k \in 0 .. 2 * LimbBits - 1 :
     /\ wrapping_shl(Of(x), k) = Of((x * Pow2(k)) % Size)
     /\ wrapping_shr(Of(x), k) = Of(x \div Pow2(k))

\* overflowing_mul computes the carry from half of the low limb: the result is
\* exact, overflow flag included, whenever the other half contributes nothing
\* to the carry, and otherwise it is one limb unit short at most.
MulCarryBounded ==
  LET m     == y % Half
      p     == overflowing_mul(Of(x), m)
      exact == [val |-> Of((x * m) % Size), overflow |-> x * m >= Size]
      lost  == ((x % Base) * m) \div Base > (((x % Base) \div Half) * m) \div Half
  IN  IF lost THEN p.val = Of((x * m - Base) % Size) ELSE p = exact

\* The work of a target x is 2^256 / (x + 1) rounded down, as documented, but
\* for the targets the code defines separately.
InverseExact ==
  Val(inverse(Of(x))) =
    CASE x <= 1 -> Size - 1
      [] x = Size - 1 -> 1
      [] OTHER -> Size \div (x + 1)
=============================================================================
