----------------------------- MODULE Compilation -----------------------------
(***************************************************************************)
(* One compilation run of the Haxe backend, as far as dynamic types go.    *)
(* While functions are emitted, the instruction handlers of the dynamic-   *)
(* type engine (module DynamicTypes) register types and print their IDs;   *)
(* at the end EmitTypeInfo (module TypeInfo) prints the tables over the    *)
(* registry as it then stands.  The generated program answers type         *)
(* assertions, type names and interface method calls from those tables     *)
(* with the IDs printed earlier, so the properties below relate the IDs    *)
(* printed during emission to the tables printed at the end.               *)
(*                                                                         *)
(*   phase : "emit" while instructions are translated, "done" after        *)
(*           EmitTypeInfo                                                  *)
(*   info  : the tables EmitTypeInfo printed (NoInfo before)               *)
(***************************************************************************)
EXTENDS DynamicTypes, TypeInfo

CONSTANT MaxInstrs   \* bound on the ID-carrying instructions of one program

ASSUME MaxInstrsAssumption == MaxInstrs \in Nat

VARIABLES phase, info

vars == <<registry, code, msTypes, phase, info>>

NoInfo == [next |-> 0, inRange |-> TRUE, typesByID |-> <<>>, typIDs |-> <<>>,
           assignable |-> {}, identical |-> {}, concrete |-> {}, methods |-> {}]

Init ==
  /\ DTInit
  /\ phase = "emit"
  /\ info = NoInfo

(* One instruction handler of the dynamic-type engine.                     *)
EmitInstr ==
  /\ phase = "emit"
  /\ Cardinality(code) < MaxInstrs
  /\ DTNext
  /\ UNCHANGED <<phase, info>>

(* The driver calls EmitTypeInfo once, after the last function.            *)
EmitTypeInfoStep ==
  /\ phase = "emit"
  /\ \E order \in KeyOrders(registry) :
       info' = EmitTypeInfo(registry, msTypes, order)
  /\ phase' = "done"
  /\ UNCHANGED dtVars

Next == EmitInstr \/ EmitTypeInfoStep

Spec == Init /\ [][Next]_vars

---------------------------------------------------------------------------
Boxes   == {c \in code : c.op = "box"}
Asserts == {c \in code : c.op = "assert"}

TypeOK ==
  /\ IsRegistry(registry)
  /\ code \subseteq Instrs
  /\ msTypes \subseteq Types
  /\ phase \in {"emit", "done"}

(* Every type ID printed into the code is still the registry's ID of that  *)
(* type: a later LogTypeUse of the same or an identical type object never  *)
(* hands out or overwrites an ID, so the box and the assertion of one type *)
(* print the same number however far apart they are emitted.               *)
EmittedIDsCurrent ==
  \A c \in code : c.id # 0 /\ c.id = At(registry, c.typ)

(* End to end (spec 8): a value boxed by MakeInterface and then asserted  *)
(* with TypeAssert gets from Interface.assertOk, through the isConcrete,   *)
(* isIdentical and isAssignableTo tables, the answer Go gives.             *)
AssertAgreesWithGo ==
  phase = "done" =>
    \A b \in Boxes, a \in Asserts :
      AssertOkRT(info, b.id, a.id) = GoAssertOk(b.typ, a.typ)

(* getName of a boxed value's ID (types.go:581-589) gives the String() of  *)
(* the object its identity class was registered by, which a byte value     *)
(* may print as uint8; getId (606-610) binds that name to exactly one ID,  *)
(* one getName gives the name back for, whichever same-named type the      *)
(* Keys() walk lists first; the keys of the typIDs map literal are         *)
(* pairwise distinct (the deDup tag, 593-605).                             *)
TypeNamesResolve ==
  phase = "done" =>
    /\ info.inRange
    /\ \A p, q \in DOMAIN info.typIDs :
         info.typIDs[p].key = info.typIDs[q].key => p = q
    /\ \A b \in Boxes :
         LET name == Str[KeyOf(registry, b.typ)]
         IN  /\ GetName(info, b.id) = name
             /\ \E i \in GetIds(info, name) :
                  /\ GetIds(info, name) = {i}
                  /\ GetName(info, i) = name

(* An interface method call on a boxed value finds, through method(t, m)   *)
(* (types.go:668-715), the wrapper of method m of the value's dynamic type *)
(* when its method set has m outside a Haxe package, named after the type  *)
(* TypesWithMethodSets() lists for its identity class; and panics ("no     *)
(* method found!") otherwise.                                              *)
MethodDispatchSound ==
  phase = "done" =>
    \A b \in Boxes, m \in MethodNames :
      MethodRT(info, b.id, m) =
        IF m \in Methods[b.typ] /\ <<b.typ, m>> \notin HaxePkgMethods
        THEN {<<Str[s], m>> : s \in {s \in msTypes : Identical(s, b.typ)}}
        ELSE {}

---------------------------------------------------------------------------
(* The registry seen as the abstract one: the ID typeutil.Map.At answers   *)
(* for each type, and NextTypeID.                                          *)
AbsReg == INSTANCE RegistryAbstract
            WITH ids <- [t \in Types |-> At(registry, t)], nextID <- registry.next

(* The registry keeps the promise of spec 3: a map keyed by the first      *)
(* object of each identity class and looked up modulo types.Identical      *)
(* gives every type of a class the same ID, the classes IDs 1, 2, ... in   *)
(* order of first encounter, and never changes an ID.                      *)
RegistryRefines == AbsReg!ASpec

---------------------------------------------------------------------------
(* What the spec and the code's comments say, and the code does not.       *)

(* Spec 4.5 and 8: of two distinct types with the same string form, the   *)
(* first registered stays resolvable by name and the later is tagged as    *)
(* the duplicate; i.e. getId(name) answers the lowest ID of that name.     *)
FirstRegisteredNameWins ==
  phase = "done" =>
    \A b \in Boxes : \A i \in GetIds(info, Str[b.typ]) :
      \A k \in Keys(registry) : Str[k] = Str[b.typ] => i <= registry.id[k]

(* FuncPathName "returns a unique function path and name": two boxed       *)
(* values of non-identical dynamic types never dispatch a method call to   *)
(* the same generated function.                                            *)
DispatchTargetsDistinct ==
  phase = "done" =>
    \A b1, b2 \in Boxes, m \in MethodNames :
      ~Identical(b1.typ, b2.typ) =>
        MethodRT(info, b1.id, m) \cap MethodRT(info, b2.id, m) = {}

=============================================================================
