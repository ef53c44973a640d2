CONSTANTS
  IntA = IntA
  IntB = IntB
  MyInt = MyInt
  LocT1 = LocT1
  LocT2 = LocT2
  HxObj = HxObj
  Stringer = Stringer
  Empty = Empty
  NoType = NoType
  Types <- MCTypes
  Ident <- MCIdent
  Assignable <- MCAssignable
  InterfaceTypes <- MCInterfaces
  Str <- MCStr
  Names <- MCNames
  HaxeNames = {"_haxe.Obj"}
  MethodNames = {"String"}
  Methods <- MCMethods
  HaxePkgMethods <- MCHaxePkgMethods
  MaxInstrs = 3
SPECIFICATION Spec
INVARIANT
  DispatchTargetsDistinct
CHECK_DEADLOCK FALSE
