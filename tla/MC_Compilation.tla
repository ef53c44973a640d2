--------------------------- MODULE MC_Compilation ---------------------------
(***************************************************************************)
(* A small program's types for TLC.  uint8 is met as two type objects      *)
(* (IntA printed "uint8", IntB printed "byte"), identical to each other    *)
(* and printed differently, as go/types prints byte and uint8.  Two        *)
(* struct types T declared in different functions of package main (LocT1, *)
(* LocT2) print the same name and both get String from an embedded        *)
(* MyInt.  HxObj is a native Haxe class whose method is declared in its    *)
(* "_haxe" package.                                                        *)
(***************************************************************************)
EXTENDS Compilation

CONSTANTS IntA, IntB, MyInt, LocT1, LocT2, HxObj, Stringer, Empty

MCTypes == {IntA, IntB, MyInt, LocT1, LocT2, HxObj, Stringer, Empty}

MCIdent == {<<t, t>> : t \in MCTypes} \cup {<<IntA, IntB>>, <<IntB, IntA>>}

MCInterfaces == {Stringer, Empty}

MCAssignable ==
  MCIdent
  \cup {<<t, Empty>> : t \in MCTypes}
  \cup {<<t, Stringer>> : t \in {MyInt, LocT1, LocT2, HxObj}}

MCStr ==
  [t \in MCTypes |->
     CASE t = IntA             -> "uint8"
       [] t = IntB             -> "byte"
       [] t = MyInt            -> "main.MyInt"
       [] t \in {LocT1, LocT2} -> "main.T"
       [] t = HxObj            -> "_haxe.Obj"
       [] t = Stringer         -> "fmt.Stringer"
       [] t = Empty            -> "interface{}"]

MCNames == {"uint8", "byte", "main.MyInt", "main.T", "_haxe.Obj", "fmt.Stringer", "interface{}"}

MCMethods ==
  [t \in MCTypes |-> IF t \in {IntA, IntB, Empty} THEN {} ELSE {"String"}]

MCHaxePkgMethods == {<<HxObj, "String">>}
=============================================================================
