SPECIFICATION Spec
CONSTANTS
  LimbBits = 6
  ByteBits = 2
  Operands <- MCOperands
INVARIANTS
  AddSubExact
  DivExact
  ShiftsExact
  MulCarryBounded
  InverseExact
