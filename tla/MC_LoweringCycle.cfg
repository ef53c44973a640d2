CONSTANTS
  Ty <- MCTy
  TypeDef <- MCTypeDef
  Roots <- MCCyclicRoots
SPECIFICATION Spec
PROPERTY
  Terminates
CHECK_DEADLOCK FALSE
