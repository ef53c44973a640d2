---------------------------- MODULE TypeLowering ----------------------------
(***************************************************************************)
(* The Type Lowering Engine (src/haxe/types.go: LangType).  LangType(t,    *)
(* retInitVal) gives the Haxe type of a Go type t, or with retInitVal the  *)
(* Haxe expression of its zero value, by recursion over the type: a named  *)
(* type without a Haxe class goes to its underlying type, a channel to its *)
(* element type, a map's zero value to the zero values of its key and      *)
(* element, a tuple to its elements.  A struct lowers to "Object" without *)
(* visiting its fields, and the pointer case returns "null" without        *)
(* looking at the element: that cuts a cycle like Tree map[string]*Tree.  *)
(*                                                                         *)
(* The recursion runs on an explicit call stack, one frame per active      *)
(* call, so that the model shows whether every call returns.  A type       *)
(* graph is a finite function TypeDef from type names to records:          *)
(*   form  : the types.Type variant ("basic", "named", "chan", ...)        *)
(*   kind  : the basic kind, for a basic type                              *)
(*   under : the underlying type of a named type; the element type of a    *)
(*           chan, map, slice, array or pointer                            *)
(*   key   : the key type of a map                                         *)
(*   elems : the element types of a tuple                                  *)
(*   haxe  : getHaxeClass of a named type's name ("" when none)            *)
(* Haxe text is abstracted to tokens and tuples of tokens.                 *)
(***************************************************************************)
EXTENDS Naturals, Sequences, FiniteSets

CONSTANTS Ty,        \* the types of the program
          TypeDef,   \* their definitions
          Roots      \* the types the compiler lowers

Forms == {"basic", "interface", "named", "chan", "map", "slice", "array",
          "struct", "tuple", "pointer", "signature"}

ASSUME TypeGraphAssumption ==
  /\ IsFiniteSet(Ty) /\ Roots \subseteq Ty
  /\ \A t \in Ty : /\ TypeDef[t].form \in Forms
                   /\ {TypeDef[t].under, TypeDef[t].key} \subseteq Ty
                   /\ TypeDef[t].elems \in Seq(Ty)
                   \* Underlying() of a named type is not named (spec 2)
                   /\ TypeDef[t].form = "named" =>
                        TypeDef[TypeDef[t].under].form # "named"

(* A call of LangType(t, retInitVal) that terminates never has a second    *)
(* frame of the same arguments below it, so its stack has at most one      *)
(* frame per pair; one more frame means the recursion repeats itself.      *)
MaxStack == 2 * Cardinality(Ty) + 1

(* t.Underlying()                                                          *)
Underlying(t) == IF TypeDef[t].form = "named" THEN TypeDef[t].under ELSE t

(* The basic kinds: the zero value and the Haxe type of each.              *)
BasicLowering(k, init) ==
  LET p == CASE k = "bool"                 -> <<"false", "Bool">>
             [] k = "string"               -> <<"\"\"", "String">>
             [] k \in {"float32", "float64"} -> <<"0.0", "Float">>
             [] k \in {"complex64", "complex128"} ->
                  <<"new Complex(0.0,0.0)", "Complex">>
             [] k \in {"int", "int8", "int16", "int32", "uint", "uint8",
                       "uint16", "uint32", "untyped rune"} -> <<"0", "Int">>
             [] k \in {"int64", "uint64"} -> <<"GOint64.make(0,0)", "GOint64">>
             [] k = "untyped int"  -> <<"UNTYPED_INT", "UNTYPED_INT">>
             [] k = "unsafe.Pointer" -> <<"null", "Pointer">>
             [] OTHER               -> <<"null", "Dynamic">>
  IN  IF init THEN p[1] ELSE p[2]

(* Mutant: the pointer's zero value built from its element's, as in the    *)
(* alternative the comment at line 167 rejects.                            *)
LangTypeCallsPointerElem(t, init) ==
  LET d == TypeDef[t]
  IN  CASE d.form = "named" /\ d.haxe = "" -> << <<d.under, init>> >>
        [] d.form = "chan"                 -> << <<d.under, FALSE>> >>
        [] d.form = "map" /\ init          -> << <<d.key, TRUE>>, <<d.under, TRUE>> >>
        [] d.form = "tuple"                ->
             [i \in 1 .. Len(d.elems) |-> <<Underlying(d.elems[i]), init>>]
        [] d.form = "pointer" /\ init      -> << <<d.under, init>> >>
        [] OTHER                           -> << >>

(* The calls LangType(t, init) makes, as <<type, retInitVal>> in order.    *)
LangTypeCalls(t, init) ==
  LET d == TypeDef[t]
  IN  CASE d.form = "named" /\ d.haxe = "" -> << <<d.under, init>> >>
        [] d.form = "chan"                 -> << <<d.under, FALSE>> >>
        [] d.form = "map" /\ init          -> << <<d.key, TRUE>>, <<d.under, TRUE>> >>
        [] d.form = "tuple"                ->
             [i \in 1 .. Len(d.elems) |-> <<Underlying(d.elems[i]), init>>]
        [] OTHER                           -> << >>

(* The text LangType(t, init) returns, from the results res of its calls.  *)
LangTypeResult(t, init, res) ==
  LET d == TypeDef[t]
      pick(z, n) == IF init THEN z ELSE n
  IN  CASE d.form = "basic"     -> BasicLowering(d.kind, init)
        [] d.form = "interface" -> pick("null", "Interface")
        [] d.form = "named"     -> IF d.haxe # "" THEN pick("null", d.haxe) ELSE res[1]
        [] d.form = "chan"      -> <<pick("new Channel", "Channel"), res[1]>>
        [] d.form = "map"       -> IF init THEN <<"new GOmap", res[1], res[2]>> ELSE "GOmap"
        [] d.form = "slice"     -> pick("new Slice", "Slice")
        [] d.form \in {"array", "struct"} -> pick("new Object", "Object")
        [] d.form = "tuple"     -> CASE Len(res) = 0 -> ""
                                     [] Len(res) = 1 -> res[1]
                                     [] OTHER        -> res
        [] d.form = "pointer"   -> pick("null", "Pointer")
        [] d.form = "signature" -> pick("null", "Closure")

----------------------------------------------------------------------------
VARIABLES stack,   \* the active calls, innermost last: [t, init, res]
          result   \* << >>, then << what the outermost call returned >>

vars == <<stack, result>>

Frame(t, init) == [t |-> t, init |-> init, res |-> << >>]

Init ==
  /\ \E t \in Roots, init \in BOOLEAN : stack = << Frame(t, init) >>
  /\ result = << >>

Top == stack[Len(stack)]

(* The innermost call makes its next recursive call.  Past MaxStack frames *)
(* the goroutine stack overflows and the compiler dies: no step is left.   *)
Call ==
  /\ stack # << >>
  /\ LET calls == LangTypeCalls(Top.t, Top.init)
         next  == calls[Len(Top.res) + 1]
     IN  /\ Len(Top.res) < Len(calls)
         /\ Len(stack) < MaxStack
         /\ stack' = Append(stack, Frame(next[1], next[2]))
  /\ UNCHANGED result

(* The innermost call, its calls done, returns to the call below it.       *)
ReturnToCaller ==
  /\ Len(stack) > 1
  /\ Len(Top.res) = Len(LangTypeCalls(Top.t, Top.init))
  /\ LET n == Len(stack)
         r == LangTypeResult(Top.t, Top.init, Top.res)
     IN  stack' = [SubSeq(stack, 1, n - 1) EXCEPT ![n - 1].res = Append(@, r)]
  /\ UNCHANGED result

(* The outermost call returns its text to the caller of LangType.          *)
ReturnToDriver ==
  /\ Len(stack) = 1
  /\ Len(Top.res) = Len(LangTypeCalls(Top.t, Top.init))
  /\ result' = << LangTypeResult(Top.t, Top.init, Top.res) >>
  /\ stack' = << >>

Next == Call \/ ReturnToCaller \/ ReturnToDriver

(* LangType is sequential code: while a call is active its next statement  *)
(* runs, so every enabled step is eventually taken.                        *)
Spec == Init /\ [][Next]_vars /\ WF_vars(Next)

----------------------------------------------------------------------------
(* Spec 4.2 and 8: lowering a type, or its zero value, returns; cycles in  *)
(* the type graph are cut (by the pointer case, types.go:167, or at a      *)
(* struct, types.go:146, which never recurses), so no call of LangType     *)
(* recurses forever.                                                       *)
Terminates == <>(stack = << >>)

(* The arguments <<t, retInitVal>> of the call a frame stands for.         *)
CallOf(f) == <<f.t, f.init>>

(* The types a type is built from (go/types): the underlying type of a     *)
(* named type, the element type of a chan, slice, array or pointer, the    *)
(* key and element types of a map, the element types of a tuple.  Struct   *)
(* fields and signatures are not recorded: LangType never visits them.     *)
Components(t) ==
  LET d == TypeDef[t]
  IN  CASE d.form \in {"named", "chan", "slice", "array", "pointer"} -> {d.under}
        [] d.form = "map"   -> {d.key, d.under}
        [] d.form = "tuple" -> {d.elems[i] : i \in 1 .. Len(d.elems)}
        [] OTHER            -> {}

(* The forms through which a Go type may refer to itself at no cost in     *)
(* size: a pointer, a slice, a function type.                              *)
Indirections == {"pointer", "slice", "signature"}

(* Every cycle of the type graph on T passes through a pointer, a slice or *)
(* a function type: the components of every other type of T are in T and  *)
(* of lower rank.  A self-referencing type of this shape keeps its         *)
(* self-reference behind a pointer or a slice (type T struct{next *T},     *)
(* type Tree map[string]*Tree); type M map[string]M and type C chan C,     *)
(* legal Go, are not of it.                                                *)
CyclesThroughIndirections(T, rank) ==
  /\ T \subseteq Ty
  /\ rank \in [T -> Nat]
  /\ \A t \in T : TypeDef[t].form \notin Indirections =>
       \A u \in Components(t) : u \in T /\ rank[u] < rank[t]

(* The stack stays below the depth at which the model lets it overflow.    *)
StackWithinBound == Len(stack) < MaxStack

(* Spec 4.2: no call of LangType is re-entered with the same arguments     *)
(* while it is still active, so the recursion never repeats itself (the    *)
(* pointer case, types.go:167, cuts Tree map[string]*Tree).  Violated,     *)
(* the stack grows until the goroutine stack overflows.                    *)
NoRepeatedCall ==
  \A i, j \in 1 .. Len(stack) : i < j => CallOf(stack[i]) # CallOf(stack[j])

=============================================================================
