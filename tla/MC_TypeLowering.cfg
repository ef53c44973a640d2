CONSTANTS
  Ty <- MCTy
  TypeDef <- MCTypeDef
  Roots <- MCRoots
SPECIFICATION Spec
INVARIANT
  NoRepeatedCall
PROPERTY
  Terminates
CHECK_DEADLOCK FALSE
