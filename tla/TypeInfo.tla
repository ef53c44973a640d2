------------------------------ MODULE TypeInfo ------------------------------
(***************************************************************************)
(* The Runtime Type-Metadata Emitter (src/haxe/types.go EmitTypeInfo) and  *)
(* the runtime queries the generated program answers from its tables.     *)
(*                                                                         *)
(* EmitTypeInfo runs once, after all code is emitted, over the registry.   *)
(* It walks TypesEncountered.Keys(), whose order typeutil.Map leaves       *)
(* unspecified: the walk order is a parameter, a bijection from            *)
(* 1..Cardinality(Keys) to the keys.  The Haxe class it prints is          *)
(* abstracted to the tables it defines:                                    *)
(*   next       nextTypeID                                                 *)
(*   inRange    no ID indexes past typesByID (else the compiler panics)    *)
(*   typesByID  ID -> key type, NoType at the unused entries               *)
(*   typIDs     the entries of the name -> ID map literal, in walk order   *)
(*   assignable, identical   the off-diagonal cases of the two matrices    *)
(*   concrete   the IDs isConcrete answers true for                        *)
(*   methods    the <<ID, method, target>> cases of method(t, m)           *)
(***************************************************************************)
EXTENDS TypeRegistry

CONSTANT NoType

ASSUME NoTypeAssumption == NoType \notin Types

(* The orders in which TypesEncountered.Keys() may list the keys.          *)
KeyOrders(reg) ==
  LET n == Cardinality(Keys(reg))
  IN {o \in [1..n -> Keys(reg)] : \A i, j \in 1..n : o[i] = o[j] => i = j}

(* typesByID := make([]types.Type, NextTypeID); typesByID[v] = key for     *)
(* each key in walk order, so the last key written to an index stays.      *)
TypesByID(reg, order) ==
  [i \in 0..(reg.next - 1) |->
     LET P == {p \in DOMAIN order : reg.id[order[p]] = i}
     IN IF P = {} THEN NoType ELSE order[CHOOSE p \in P : \A q \in P : q <= p]]

(* Mutant: no deDup, every name emitted untagged.                          *)
TypIDsNoDeDup(reg, order) ==
  [p \in DOMAIN order |->
     [key |-> [name |-> Str[order[p]], dup |-> 0], id |-> reg.id[order[p]]]]

(* The typIDs map literal: one entry per key, in walk order.  A name met   *)
(* before in the walk (deDup) is emitted tagged with this ID, as           *)
(* "<name> (duplicate type name! this id=<id>)".  A key is a record: the   *)
(* name and the ID of the tag, 0 for an untagged name.                     *)
TypIDs(reg, order) ==
  [p \in DOMAIN order |->
     LET t == order[p]
         seen == \E q \in DOMAIN order : q < p /\ Str[order[q]] = Str[t]
     IN [key |-> [name |-> Str[t], dup |-> IF seen THEN reg.id[t] ELSE 0],
         id  |-> reg.id[t]]]

(* isAssignableTo: for every ordered pair of keys with distinct IDs that   *)
(* types.AssignableTo relates, a case returning true.                      *)
AssignableCases(reg) ==
  {<<reg.id[p[1]], reg.id[p[2]]>> :
     p \in {q \in Keys(reg) \X Keys(reg) :
              reg.id[q[1]] # reg.id[q[2]] /\ AssignableTo(q[1], q[2])}}

(* isIdentical: the same, with types.Identical.                            *)
IdenticalCases(reg) ==
  {<<reg.id[p[1]], reg.id[p[2]]>> :
     p \in {q \in Keys(reg) \X Keys(reg) :
              reg.id[q[1]] # reg.id[q[2]] /\ Identical(q[1], q[2])}}

(* Mutant: isConcrete true for every key, interfaces included.            *)
ConcreteIDsAll(reg) == {reg.id[T] : T \in Keys(reg)}

(* isConcrete: true for the keys whose underlying type is no interface.    *)
ConcreteIDs(reg) == {reg.id[T] : T \in Keys(reg) \ InterfaceTypes}

(* Mutant: methods of "_" packages not skipped.                           *)
MethodCasesAllPkgs(reg, ms) ==
  {<<At(reg, p[1]), p[2], <<Str[p[1]], p[2]>>>> :
     p \in {q \in ms \X MethodNames : Has(reg, q[1]) /\ q[2] \in Methods[q[1]]}}

(* method(t, m): for each type of TypesWithMethodSets() that has an ID, a  *)
(* case per method of its method set, except methods declared in a "_"     *)
(* (Haxe) package; the target is Go_<LangName(Recv().String(), name)>.     *)
MethodCases(reg, ms) ==
  {<<At(reg, p[1]), p[2], <<Str[p[1]], p[2]>>>> :
     p \in {q \in ms \X MethodNames :
              /\ Has(reg, q[1])
              /\ q[2] \in Methods[q[1]]
              /\ q \notin HaxePkgMethods}}

(* EmitTypeInfo(): the tables of class TypeInfo for one walk order.        *)
EmitTypeInfo(reg, ms, order) ==
  [next       |-> reg.next,
   inRange    |-> \A k \in Keys(reg) : reg.id[k] < reg.next,
   typesByID  |-> TypesByID(reg, order),
   typIDs     |-> TypIDs(reg, order),
   assignable |-> AssignableCases(reg),
   identical  |-> IdenticalCases(reg),
   concrete   |-> ConcreteIDs(reg),
   methods    |-> MethodCases(reg, ms)]

---------------------------------------------------------------------------
(* The generated program's queries on the tables.  The functions that read *)
(* the tables are emitted by EmitTypeInfo; Interface.assertOk belongs to   *)
(* the hand-written runtime and is modelled from the spec (4.4): the       *)
(* asserted ID is compared with the dynamic ID through the tables.         *)

IsAssignableToRT(info, v, t) == v = t \/ <<v, t>> \in info.assignable

IsIdenticalRT(info, v, t) == v = t \/ <<v, t>> \in info.identical

(* getName(id): "UNKNOWN" out of range, else typesByID[id].stringForm,     *)
(* which is "" at an entry without a type.                                 *)
GetName(info, id) ==
  IF id < 0 \/ id >= info.next THEN "UNKNOWN"
  ELSE IF info.typesByID[id] = NoType THEN ""
  ELSE Str[info.typesByID[id]]

(* The IDs the typIDs literal binds to the untagged name n.                *)
GetIds(info, n) ==
  {info.typIDs[p].id : p \in {p \in DOMAIN info.typIDs :
                                info.typIDs[p].key = [name |-> n, dup |-> 0]}}

(* method(t, m): the targets found; none means "no method found!" panic.   *)
MethodRT(info, id, m) == {c[3] : c \in {c \in info.methods : c[1] = id /\ c[2] = m}}

(* Interface.assertOk(assTyp, i).r1                                        *)
AssertOkRT(info, dynId, assId) ==
  IF assId \in info.concrete THEN IsIdenticalRT(info, dynId, assId)
  ELSE IsAssignableToRT(info, dynId, assId)

=============================================================================
