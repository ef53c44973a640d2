-------------------------- MODULE MC_TypeLowering --------------------------
(***************************************************************************)
(* A type graph with the shapes LangType meets: basic types, a named map   *)
(* type whose elements point back to it (type Tree map[string]*Tree), a    *)
(* self-referencing struct (type List struct{ next *List }), a channel, a  *)
(* slice, an array, a map keyed by Tree holding channels of Tree, a tuple  *)
(* of results, a signature, an interface and a named type bound to a Haxe  *)
(* class.  Two more types recurse through a map and a channel without a    *)
(* pointer: type M map[string]M and type C chan C, both legal Go.          *)
(***************************************************************************)
EXTENDS TypeLowering

T(form, kind, under, key, elems, haxe) ==
  [form |-> form, kind |-> kind, under |-> under, key |-> key,
   elems |-> elems, haxe |-> haxe]

B(k) == T("basic", k, "int", "int", << >>, "")

MCTypeDef ==
  [t \in {"int", "string", "int64", "uintptr", "Tree", "mapTree", "ptrTree",
          "List", "structList", "ptrList", "chanInt", "sliceInt", "arr",
          "results", "func", "error", "Obj", "chanTree", "Index", "mapIndex", "M", "mapM", "C", "chanC"} |->
     CASE t \in {"int", "string", "int64", "uintptr"} -> B(t)
       [] t = "Tree"       -> T("named", "", "mapTree", "int", << >>, "")
       [] t = "mapTree"    -> T("map", "", "ptrTree", "string", << >>, "")
       [] t = "ptrTree"    -> T("pointer", "", "Tree", "int", << >>, "")
       [] t = "List"       -> T("named", "", "structList", "int", << >>, "")
       [] t = "structList" -> T("struct", "", "int", "int", << >>, "")
       [] t = "ptrList"    -> T("pointer", "", "List", "int", << >>, "")
       [] t = "chanInt"    -> T("chan", "", "int", "int", << >>, "")
       [] t = "sliceInt"   -> T("slice", "", "int", "int", << >>, "")
       [] t = "arr"        -> T("array", "", "int", "int", << >>, "")
       [] t = "results"    -> T("tuple", "", "int", "int", <<"int64", "Tree", "error">>, "")
       [] t = "func"       -> T("signature", "", "int", "int", << >>, "")
       [] t = "error"      -> T("interface", "", "int", "int", << >>, "")
       [] t = "Obj"        -> T("named", "", "structList", "int", << >>, "haxe.Obj")
       [] t = "chanTree"   -> T("chan", "", "Tree", "int", << >>, "")
       [] t = "Index"      -> T("named", "", "mapIndex", "int", << >>, "")
       [] t = "mapIndex"   -> T("map", "", "chanTree", "Tree", << >>, "")
       [] t = "M"          -> T("named", "", "mapM", "int", << >>, "")
       [] t = "mapM"       -> T("map", "", "M", "string", << >>, "")
       [] t = "C"          -> T("named", "", "chanC", "int", << >>, "")
       [] t = "chanC"      -> T("chan", "", "C", "int", << >>, "")]

MCTy == DOMAIN MCTypeDef

(* The types lowered by the passing run: all but M and C.                  *)
MCRoots == MCTy \ {"M", "mapM", "C", "chanC"}

(* The two types that recurse without a pointer.                           *)
MCCyclicRoots == {"M", "C"}

(* The types reachable from MCRoots other than through a pointer, a slice  *)
(* or a signature, and the length of the longest such path below each: a  *)
(* rank that descends along every component of those types.  The depth    *)
(* is cut off after one level per type, so that it is defined on a cycle.  *)
MCLinks(t) == IF TypeDef[t].form \in Indirections THEN {} ELSE Components(t)

RECURSIVE MCClose(_)
MCClose(P) == LET P2 == P \cup UNION {MCLinks(t) : t \in P}
              IN  IF P2 = P THEN P ELSE MCClose(P2)

MCReach == MCClose(MCRoots)

RECURSIVE MCDepth(_, _)
MCDepth(t, fuel) ==
  LET D == {MCDepth(u, fuel - 1) : u \in MCLinks(t)}
  IN  IF fuel = 0 \/ D = {} THEN 0 ELSE 1 + (CHOOSE m \in D : \A x \in D : x <= m)

MCRank == [t \in MCReach |-> MCDepth(t, Cardinality(MCReach))]

(* The type graph of the lowering_terminates run is one the theorem        *)
(* LoweringNeverRepeats covers: every cycle among the types reachable from *)
(* its roots passes through a pointer (Tree = map[string]*Tree and the     *)
(* self-referencing struct).                                               *)
ASSUME MCCyclesThroughIndirections == CyclesThroughIndirections(MCReach, MCRank)

=============================================================================
