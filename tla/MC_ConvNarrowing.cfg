CONSTANTS
  Bits8 = 2
  Bits16 = 3
  Bits32 = 4
  NumTypes <- MCNarrowTypes
  FloatValues <- MCFloatValues
SPECIFICATION Spec
INVARIANT ValueCorrect
