----------------------------- MODULE U256Proofs -----------------------------
(***************************************************************************)
(* The properties of MCU256 and MCCompact hold of all values and operands, *)
(* of all compact targets and time spans, at the 128 bits of the code too. *)
(***************************************************************************)
EXTENDS U256Lemmas, MCU256, MCCompact

-----------------------------------------------------------------------------
(***************************************************************************)
(* The specification runs through the values of the type.                  *)
(***************************************************************************)

Ranges == x \in 0 .. Size - 1 /\ i \in 1 .. Len(Operands)

\* The walk over the operands starts in range.
LEMMA RangesInit == Init => Ranges
<1>1. Len(Operands) \in Nat \ {0} /\ Size \in Nat \ {0}
  BY OperandsAssumption, BaseType
<1> QED
  BY <1>1 DEF Init, Ranges

\* A step of the walk stays in range.
LEMMA RangesNext == Ranges /\ [Next]_<<x, i>> => Ranges'
<1> SUFFICES ASSUME Ranges, [Next]_<<x, i>> PROVE Ranges'
  OBVIOUS
<1>1. Len(Operands) \in Nat \ {0} /\ Size \in Nat \ {0}
  BY OperandsAssumption, BaseType
<1>2. CASE NextX
  <2>1. x + 1 \in Int
    BY <1>1 DEF Ranges
  <2>2. (x + 1) % Size \in 0 .. Size - 1
    BY <1>1, <2>1, DivMod
  <2> QED
    BY <1>2, <2>2 DEF NextX, Ranges
<1>3. CASE NextY
  <2>1. i \in Int
    BY <1>1 DEF Ranges
  <2>2. i % Len(Operands) \in 0 .. Len(Operands) - 1
    BY <1>1, <2>1, DivMod
  <2>3. (i % Len(Operands)) + 1 \in 1 .. Len(Operands)
    BY <1>1, <2>2
  <2> QED
    BY <1>3, <2>3 DEF NextY, Ranges
<1>4. CASE UNCHANGED <<x, i>>
  BY <1>4 DEF Ranges
<1> QED
  BY <1>2, <1>3, <1>4 DEF Next

\* So both operands are numbers of the type in every state.
LEMMA RangesHold == Spec => []Ranges
<1> QED
  BY RangesInit, RangesNext, PTL DEF Spec

\* The second operand is one of the listed ones, hence in range.
LEMMA OperandRange ==
  ASSUME Ranges
  PROVE  y \in 0 .. Size - 1
<1> DEFINE T == 0 .. Size - 1
<1>1. Operands \in Seq(T) /\ i \in 1 .. Len(Operands)
  BY OperandsAssumption DEF Ranges
<1> HIDE DEF T
<1>2. Operands[i] \in T
  BY <1>1
<1> QED
  BY <1>2 DEF T, y

\* Addition and subtraction wrap exactly, at every width of the limbs.
THEOREM AddSubTheorem == Spec => []AddSubExact
<1>1. Ranges => AddSubExact
  <2> SUFFICES ASSUME Ranges PROVE AddSubExact
    OBVIOUS
  <2>1. x \in 0 .. Size - 1 /\ y \in 0 .. Size - 1
    BY OperandRange DEF Ranges
  <2> QED
    BY <2>1, AddExact, SubExact DEF AddSubExact
<1> QED
  BY <1>1, RangesHold, PTL

\* div_rem is Euclidean division, at every width of the limbs.
THEOREM DivTheorem == Spec => []DivExact
<1>1. Ranges => DivExact
  <2> SUFFICES ASSUME Ranges PROVE DivExact
    OBVIOUS
  <2>1. x \in 0 .. Size - 1 /\ y \in 0 .. Size - 1
    BY OperandRange DEF Ranges
  <2> QED
    BY <2>1, DivRemExact DEF DivExact
<1> QED
  BY <1>1, RangesHold, PTL

\* The shifts multiply and divide by powers of two, at every width of the limbs.
THEOREM ShiftTheorem == Spec => []ShiftsExact
<1>1. Ranges => ShiftsExact
  BY ShlExact, ShrExact DEF Ranges, ShiftsExact
<1> QED
  BY <1>1, RangesHold, PTL

\* The product is exact or one limb unit short, at every width of the limbs.
THEOREM MulTheorem == Spec => []MulCarryBounded
<1>1. Ranges => MulCarryBounded
  <2> SUFFICES ASSUME Ranges PROVE MulCarryBounded
    OBVIOUS
  <2>1. x \in 0 .. Size - 1 /\ y \in Int /\ Half \in Nat \ {0}
    BY OperandRange, BaseType DEF Ranges
  <2>2. y % Half \in 0 .. Half - 1
    BY <2>1, DivMod
  <2> QED
    BY <2>1, <2>2, MulExact, Zenon DEF MulCarryBounded
<1> QED
  BY <1>1, RangesHold, PTL

\* The work of a target is the documented quotient, at every width of the limbs.
THEOREM InverseTheorem == Spec => []InverseExact
<1>1. Ranges => InverseExact
  BY InverseIs DEF Ranges, InverseExact
<1> QED
  BY <1>1, RangesHold, PTL

-----------------------------------------------------------------------------
(***************************************************************************)
(* MCCompact runs through the compact targets and the time spans.          *)
(***************************************************************************)

CompactRanges == b \in Nat /\ m \in 0 .. MaxFactor

\* Both stay in range.
LEMMA CompactRangesHold == CompactSpec => []CompactRanges
<1>1. MaxSize \in Nat /\ MaxFactor \in Nat /\ Mantissa \in Nat \ {0} /\ Half \in Nat
  BY SpansAssumption, MantissaType, BaseType
<1>2. CompactInit => CompactRanges
  BY <1>1 DEF CompactInit, CompactRanges
<1>3. CompactRanges /\ [CompactNext]_<<b, m>> => CompactRanges'
  <2> SUFFICES ASSUME CompactRanges, [CompactNext]_<<b, m>> PROVE CompactRanges'
    OBVIOUS
  <2>1. CASE NextBits
    <3> DEFINE d == (MaxSize + 1) * Mantissa
    <3>1. d \in Nat \ {0} /\ b + 1 \in Nat
      BY <1>1 DEF CompactRanges
    <3> HIDE DEF d
    <3>2. (b + 1) % d \in Nat
      BY <3>1, DivModNat
    <3> QED
      BY <2>1, <3>2 DEF NextBits, CompactRanges, d
  <2>2. CASE NextFactor
    <3>1. MaxFactor + 1 \in Nat \ {0} /\ m + 1 \in Int
      BY <1>1 DEF CompactRanges
    <3>2. (m + 1) % (MaxFactor + 1) \in 0 .. (MaxFactor + 1) - 1
      BY <3>1, DivMod
    <3>3. (MaxFactor + 1) - 1 = MaxFactor
      BY <1>1
    <3> QED
      BY <2>2, <3>2, <3>3 DEF NextFactor, CompactRanges
  <2>3. CASE UNCHANGED <<b, m>>
    BY <2>3 DEF CompactRanges
  <2> QED
    BY <2>1, <2>2, <2>3 DEF CompactNext
<1> QED
  BY <1>2, <1>3, PTL DEF CompactSpec

\* The target, the product and the new target are these numbers.
LEMMA Retarget ==
  ASSUME CompactRanges
  PROVE  \E n \in 0 .. Size - 1 :
            /\ target = Of(n)
            /\ product = [val |-> Of((n * m) % Size), overflow |-> n * m >= Size]
            /\ n * m \in Nat /\ (n * m) % Size \in 0 .. Size - 1
            /\ ((n * m) % Size) \div Timespan \in 0 .. Size - 1
            /\ new_target = Of(((n * m) % Size) \div Timespan)
<1>1. /\ b \in Nat /\ m \in Nat /\ m <= MaxFactor /\ MaxFactor \in 0 .. Half - 1
      /\ Half \in Nat /\ SignBit \in Nat \ {0} /\ (SignBit - 1) * MaxFactor < 2 * Half
      /\ Size \in Nat \ {0} /\ Base \in Nat
      /\ Timespan \in Nat \ {0} /\ Timespan < Base
  BY SpansAssumption, BaseType, MantissaType DEF CompactRanges
<1>2. PICK t \in 0 .. SignBit - 1, k \in 0 .. 2 * LimbBits - 1 :
             t * Pow2(k) \in Nat /\ target_from_bits(b) = Of((t * Pow2(k)) % Size)
  BY <1>1, TargetShape
<1> DEFINE n == (t * Pow2(k)) % Size
<1>3. m \in 0 .. Half - 1 /\ (SignBit - 1) * m < 2 * Half
  <2>1. (SignBit - 1) * m <= (SignBit - 1) * MaxFactor
    BY <1>1
  <2>2. (SignBit - 1) * m \in Int /\ (SignBit - 1) * MaxFactor \in Int
    BY <1>1
  <2> QED
    BY <1>1, <2>1, <2>2
<1>4. /\ n \in 0 .. Size - 1
      /\ overflowing_mul(Of(n), m) = [val |-> Of((n * m) % Size), overflow |-> n * m >= Size]
  BY <1>2, <1>3, ScaledExact
<1>5. target = Of(n)
  BY <1>2 DEF target
<1> HIDE DEF n
<1> DEFINE p == (n * m) % Size
<1>6. product = [val |-> Of(p), overflow |-> n * m >= Size]
  BY <1>4, <1>5 DEF product
<1>7. n * m \in Nat /\ p \in 0 .. Size - 1
  <2>1. n * m \in Nat
    BY <1>1, <1>4
  <2>2. (n * m) % Size \in Nat /\ (n * m) % Size < Size
    BY <1>1, <2>1, DivModNat
  <2> QED
    BY <1>1, <2>1, <2>2
<1> HIDE DEF p
<1>8. Timespan \in 0 .. Size - 1 /\ from(Timespan) = Of(Timespan)
  BY <1>1, LowLimb
<1>9. new_target = Of(p \div Timespan)
  <2>1. div_rem(Of(p), Of(Timespan)) = [quot |-> Of(p \div Timespan), rem |-> Of(p % Timespan)]
    BY <1>1, <1>7, <1>8, DivRemExact
  <2>2. product.val = Of(p)
    BY <1>6
  <2> QED
    BY <1>8, <2>1, <2>2 DEF new_target, quotient
<1>10. p \div Timespan \in 0 .. Size - 1
  <2>1. p \in Nat /\ p = (p \div Timespan) * Timespan + (p % Timespan)
        /\ p \div Timespan \in Nat /\ p % Timespan \in Nat
    BY <1>1, <1>7, DivModNat
  <2>2. (p \div Timespan) * Timespan >= p \div Timespan
    BY <1>1, <2>1
  <2> QED
    BY <1>1, <1>7, <2>1, <2>2
<1> QED
  BY <1>4, <1>5, <1>6, <1>7, <1>9, <1>10 DEF p

\* The product of any compact target and any time span is exact, at every width
\* that leaves room for both.
THEOREM ScaleTheorem == CompactSpec => []TargetScaledExactly
<1>1. CompactRanges => TargetScaledExactly
  <2> SUFFICES ASSUME CompactRanges PROVE TargetScaledExactly
    OBVIOUS
  <2>1. PICK n \in 0 .. Size - 1 :
               /\ target = Of(n)
               /\ product = [val |-> Of((n * m) % Size), overflow |-> n * m >= Size]
               /\ n * m \in Nat /\ (n * m) % Size \in 0 .. Size - 1
    BY Retarget
  <2>2. Val(target) = n /\ Size \in Nat \ {0}
    BY <2>1, ValOf, BaseType
  <2>3. product.overflow <=> n * m >= Size
    BY <2>1
  <2>4. ASSUME ~product.overflow PROVE Val(product.val) = n * m
    <3>1. n * m \in 0 .. Size - 1
      BY <2>1, <2>2, <2>3, <2>4
    <3>2. (n * m) % Size = n * m
      BY <2>2, <3>1, ModSmall
    <3>3. product.val = Of(n * m)
      BY <2>1, <3>2
    <3> QED
      BY <3>1, <3>3, ValOf
  <2> QED
    BY <2>2, <2>3, <2>4 DEF TargetScaledExactly
<1> QED
  BY <1>1, CompactRangesHold, PTL

\* The bits of a retarget are the compact form of the integer quotient.
THEOREM RetargetTheorem == CompactSpec => []RetargetIsCompactQuotient
<1>1. CompactRanges => RetargetIsCompactQuotient
  <2> SUFFICES ASSUME CompactRanges, ~product.overflow
               PROVE  target_to_bits(new_target) = CompactForm((Val(target) * m) \div Timespan)
    BY DEF RetargetIsCompactQuotient
  <2>1. PICK n \in 0 .. Size - 1 :
               /\ target = Of(n)
               /\ product = [val |-> Of((n * m) % Size), overflow |-> n * m >= Size]
               /\ n * m \in Nat
               /\ ((n * m) % Size) \div Timespan \in 0 .. Size - 1
               /\ new_target = Of(((n * m) % Size) \div Timespan)
    BY Retarget
  <2>2. Val(target) = n /\ Size \in Nat \ {0}
    BY <2>1, ValOf, BaseType
  <2>3. (n * m) % Size = n * m
    <3>1. ~(n * m >= Size)
      BY <2>1
    <3>2. n * m \in 0 .. Size - 1
      BY <2>1, <2>2, <3>1
    <3> QED
      BY <2>2, <3>2, ModSmall
  <2> QED
    BY <2>1, <2>2, <2>3, ToBitsExact
<1> QED
  BY <1>1, CompactRangesHold, PTL

\* Bits computed from a target decode to one that is not larger and encodes to
\* the same bits.
THEOREM StableTheorem == CompactSpec => []CompactFormIsStable
<1>1. CompactRanges => CompactFormIsStable
  <2> SUFFICES ASSUME CompactRanges PROVE CompactFormIsStable
    OBVIOUS
  <2>1. PICK v \in 0 .. Size - 1 : new_target = Of(v)
    BY Retarget
  <2>2. target_to_bits(new_target) = CompactForm(v)
    BY <2>1, ToBitsExact
  <2>3. PICK w \in 0 .. v : /\ target_from_bits(CompactForm(v)) = Of(w)
                            /\ CompactForm(w) = CompactForm(v)
    BY CompactStable
  <2>4. w \in 0 .. Size - 1 /\ w <= v
    BY <2>1, <2>3, BaseType
  <2>5. Le(Of(w), Of(v)) /\ target_to_bits(Of(w)) = CompactForm(w)
    BY <2>1, <2>4, LeIsLe, ToBitsExact
  <2> QED
    BY <2>1, <2>2, <2>3, <2>5 DEF CompactFormIsStable
<1> QED
  BY <1>1, CompactRangesHold, PTL
=============================================================================
