CONSTANTS
  Bits8 = 2
  Bits16 = 3
  Bits32 = 4
  NumTypes <- MCWidenTypes
  FloatValues <- MCFloatValues
SPECIFICATION Spec
INVARIANT ValueCorrect
