---------------------------- MODULE DynamicTypes ----------------------------
(***************************************************************************)
(* The Interface & Dynamic-Type Engine of the Haxe backend                 *)
(* (src/haxe/types.go: MakeInterface, ChangeInterface, TypeAssert).  Each  *)
(* handler turns one SSA instruction into Haxe text and, on the way,       *)
(* registers the types it names in the Type Encounter Registry; the text   *)
(* carries the registry ID of the type.  The text itself is abstracted to  *)
(* a record naming the runtime entry point, the Go type and the ID emitted.*)
(*                                                                         *)
(*   registry : the Type Encounter Registry (module TypeRegistry)          *)
(*   code     : the emitted instructions that carry a type ID              *)
(*   msTypes  : pogo.TypesWithMethodSets(), the types whose method sets    *)
(*              the type-info table must hold (the boxed types)            *)
(***************************************************************************)
EXTENDS TypeRegistry

VARIABLES registry, code, msTypes

dtVars == <<registry, code, msTypes>>

Instrs == [op : {"box", "change"}, typ : Types, id : Nat]
          \cup [op : {"assert"}, typ : Types, id : Nat, commaOk : BOOLEAN]

DTInit ==
  /\ registry = EmptyRegistry
  /\ code = {}
  /\ msTypes = {}

(* Record t among the types whose method set is emitted, as the keys of a  *)
(* typeutil.Map, i.e. once per identity class (spec section 3,             *)
(* MethodSet entry: only for boxed types).                                 *)
AddMethodSetType(S, t) ==
  IF \E s \in S : Identical(s, t) THEN S ELSE S \cup {t}

(* Mutant: the ID read from the registry before LogTypeUse registers t.   *)
MakeInterfaceIdBeforeLog(t, regTyp) ==
  /\ t \notin InterfaceTypes
  /\ regTyp \in InterfaceTypes
  /\ AssignableTo(t, regTyp)
  /\ registry' = LogTypeUse(registry, t)
  /\ code' = code \cup {[op |-> "box", typ |-> t, id |-> At(registry, t)]}
  /\ msTypes' = AddMethodSetType(msTypes, t)

(* MakeInterface: box a value of concrete type t into the interface type   *)
(* regTyp: "new Interface(<LogTypeUse(t)>, v)", wrapped by                 *)
(* Force.toHaxeParam when regTyp is a native Haxe class.  SSA only builds  *)
(* it for a non-interface t assignable to regTyp.                          *)
MakeInterface(t, regTyp) ==
  /\ t \notin InterfaceTypes
  /\ regTyp \in InterfaceTypes
  /\ AssignableTo(t, regTyp)
  /\ LET reg == LogTypeUse(registry, t)
     IN /\ registry' = reg
        /\ code' = code \cup {[op |-> "box", typ |-> t, id |-> At(reg, t)]}
  /\ msTypes' = AddMethodSetType(msTypes, t)

(* ChangeInterface: re-box an interface value x of static type t as the    *)
(* interface type regTyp: LogTypeUse(regTyp) first, then                   *)
(* "Interface.change(<LogTypeUse(t)>, x)".                                 *)
ChangeInterface(regTyp, t) ==
  /\ t \in InterfaceTypes
  /\ regTyp \in InterfaceTypes
  /\ LET reg == LogTypeUse(LogTypeUse(registry, regTyp), t)
     IN /\ registry' = reg
        /\ code' = code \cup {[op |-> "change", typ |-> t, id |-> At(reg, t)]}
  /\ UNCHANGED msTypes

(* TypeAssert: x.(T) as "Interface.assertOk(<LogTypeUse(T)>, x)" in the   *)
(* comma-ok form and "Interface.assert(<LogTypeUse(T)>, x)" otherwise.     *)
(* (The handler returns "" without registering T when its register name is *)
(* empty; that case emits nothing and is a stutter of this model.)         *)
TypeAssert(T, commaOk) ==
  /\ LET reg == LogTypeUse(registry, T)
     IN /\ registry' = reg
        /\ code' = code \cup {[op |-> "assert", typ |-> T, id |-> At(reg, T),
                               commaOk |-> commaOk]}
  /\ UNCHANGED msTypes

DTNext ==
  \/ \E t, regTyp \in Types : MakeInterface(t, regTyp)
  \/ \E regTyp, t \in Types : ChangeInterface(regTyp, t)
  \/ \E T \in Types, commaOk \in BOOLEAN : TypeAssert(T, commaOk)

=============================================================================
