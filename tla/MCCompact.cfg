SPECIFICATION CompactSpec
CONSTANTS
  LimbBits = 14
  ByteBits = 2
  MaxSize = 14
  MaxFactor = 7
  Timespan = 3
INVARIANTS
  TargetScaledExactly
  RetargetIsCompactQuotient
  CompactFormIsStable
