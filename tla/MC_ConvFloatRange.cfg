CONSTANTS
  Bits8 = 2
  Bits16 = 3
  Bits32 = 4
  NumTypes <- MCFloatTypes
  FloatValues <- MCFloatValues
SPECIFICATION Spec
PROPERTY FloatNarrowingWraps
