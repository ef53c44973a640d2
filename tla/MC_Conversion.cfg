CONSTANTS
  Bits8 = 2
  Bits16 = 3
  Bits32 = 4
  NumTypes <- MCCoreTypes
  FloatValues <- MCFloatValues
SPECIFICATION Spec
INVARIANTS
  TypeOK
  ValueCorrect
