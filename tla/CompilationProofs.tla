-------------------------- MODULE CompilationProofs --------------------------
(***************************************************************************)
(* Proofs about module Compilation, for every type universe that satisfies *)
(* the assumptions of GoTypes.                                             *)
(***************************************************************************)
EXTENDS Compilation, TLAPS

(* A lookup in a well-formed registry answers a natural number, and a      *)
(* positive one exactly when an identical key is stored.                   *)
LEMMA AtType ==
  ASSUME NEW reg, IsRegistry(reg), NEW t
  PROVE  /\ At(reg, t) \in Nat
         /\ Has(reg, t) => At(reg, t) \in Nat \ {0}
<1>1. CASE Has(reg, t)
  <2>1. KeyOf(reg, t) \in Keys(reg)
    BY <1>1 DEF Has, KeyOf
  <2>. QED
    BY <1>1, <2>1 DEF At, IsRegistry, Keys
<1>2. CASE ~Has(reg, t)
  BY <1>2 DEF At
<1>. QED
  BY <1>1, <1>2

(* pogo.LogTypeUse keeps the registry well formed and leaves t registered. *)
LEMMA LogTypeUseType ==
  ASSUME NEW reg, IsRegistry(reg), NEW t \in Types
  PROVE  /\ IsRegistry(LogTypeUse(reg, t))
         /\ Has(LogTypeUse(reg, t), t)
<1>1. CASE Has(reg, t)
  BY <1>1 DEF LogTypeUse
<1>2. CASE ~Has(reg, t)
  <2>. DEFINE nid == [k \in Keys(reg) \cup {t} |-> IF k = t THEN reg.next ELSE reg.id[k]]
              r2 == [id |-> nid, next |-> reg.next + 1]
  <2>1. LogTypeUse(reg, t) = r2
    BY <1>2 DEF LogTypeUse, SetAt, IsRegistry, Keys
  <2>2. IsRegistry(r2)
    BY DEF IsRegistry, Keys
  <2>3. Has(r2, t)
    <3>1. Identical(t, t)
      BY IdentEquivalence
    <3>. QED
      BY <3>1 DEF Has, Keys
  <2>. QED
    BY <2>1, <2>2, <2>3
<1>. QED
  BY <1>1, <1>2

(* The type invariant holds initially.                                     *)
LEMMA InitTypeOK == Init => TypeOK
BY DEF Init, DTInit, TypeOK, IsRegistry, EmptyRegistry

(* The emitted record of a handler is an instruction of the right shape.   *)
LEMMA EmittedInstr ==
  ASSUME NEW reg, IsRegistry(reg), NEW t \in Types, NEW b \in BOOLEAN
  PROVE  /\ [op |-> "box", typ |-> t, id |-> At(reg, t)] \in Instrs
         /\ [op |-> "change", typ |-> t, id |-> At(reg, t)] \in Instrs
         /\ [op |-> "assert", typ |-> t, id |-> At(reg, t), commaOk |-> b] \in Instrs
BY AtType DEF Instrs

(* Every step keeps the type invariant.                                    *)
LEMMA NextTypeOK == TypeOK /\ [Next]_vars => TypeOK'
<1>. SUFFICES ASSUME TypeOK, [Next]_vars PROVE TypeOK'
  OBVIOUS
<1>1. ASSUME NEW t \in Types, NEW regTyp \in Types, MakeInterface(t, regTyp),
             UNCHANGED <<phase, info>>
      PROVE TypeOK'
  <2>. DEFINE reg == LogTypeUse(registry, t)
  <2>1. IsRegistry(reg)
    BY LogTypeUseType DEF TypeOK
  <2>2. code' \subseteq Instrs
    BY <1>1, <2>1, EmittedInstr DEF MakeInterface, TypeOK
  <2>3. msTypes' \subseteq Types
    BY <1>1 DEF MakeInterface, AddMethodSetType, TypeOK
  <2>. QED
    BY <1>1, <2>1, <2>2, <2>3 DEF MakeInterface, TypeOK
<1>2. ASSUME NEW regTyp \in Types, NEW t \in Types, ChangeInterface(regTyp, t),
             UNCHANGED <<phase, info>>
      PROVE TypeOK'
  <2>. DEFINE reg == LogTypeUse(LogTypeUse(registry, regTyp), t)
  <2>1. IsRegistry(reg)
    BY LogTypeUseType DEF TypeOK
  <2>2. code' \subseteq Instrs
    BY <1>2, <2>1, EmittedInstr DEF ChangeInterface, TypeOK
  <2>. QED
    BY <1>2, <2>1, <2>2 DEF ChangeInterface, TypeOK
<1>3. ASSUME NEW T \in Types, NEW commaOk \in BOOLEAN, TypeAssert(T, commaOk),
             UNCHANGED <<phase, info>>
      PROVE TypeOK'
  <2>. DEFINE reg == LogTypeUse(registry, T)
  <2>1. IsRegistry(reg)
    BY LogTypeUseType DEF TypeOK
  <2>2. code' \subseteq Instrs
    BY <1>3, <2>1, EmittedInstr DEF TypeAssert, TypeOK
  <2>. QED
    BY <1>3, <2>1, <2>2 DEF TypeAssert, TypeOK
<1>4. CASE EmitInstr
  BY <1>1, <1>2, <1>3, <1>4 DEF EmitInstr, DTNext, TypeOK
<1>5. CASE EmitTypeInfoStep
  BY <1>5 DEF EmitTypeInfoStep, dtVars, TypeOK
<1>6. CASE UNCHANGED vars
  BY <1>6 DEF vars, TypeOK
<1>. QED
  BY <1>4, <1>5, <1>6 DEF Next

(* Type correctness of a compilation run: the registry stays a map from    *)
(* type objects to positive IDs, every emitted instruction carries a Go    *)
(* type and a natural-number ID, and only boxed types are method-set types.*)
THEOREM TypeCorrect == Spec => []TypeOK
BY InitTypeOK, NextTypeOK, PTL DEF Spec

---------------------------------------------------------------------------
(* The registry's keys are pairwise non-identical: typeutil.Map stores one *)
(* key per identity class.                                                 *)
KeysDistinct(reg) ==
  \A k1, k2 \in Keys(reg) : Identical(k1, k2) => k1 = k2

(* In a registry with distinct keys, a registered type t finds the one key *)
(* identical to it.                                                        *)
LEMMA KeyOfUnique ==
  ASSUME NEW reg, IsRegistry(reg), KeysDistinct(reg), NEW t \in Types,
         NEW k \in Keys(reg),
         Identical(k, t)
  PROVE  KeyOf(reg, t) = k
<1>1. /\ KeyOf(reg, t) \in Keys(reg)
      /\ Identical(KeyOf(reg, t), t)
  BY DEF KeyOf
<1>2. Identical(KeyOf(reg, t), k)
  BY <1>1, IdentEquivalence DEF IsRegistry, Keys
<1>. QED
  BY <1>1, <1>2 DEF KeysDistinct

(* pogo.LogTypeUse(t) keeps the keys distinct, and every type registered   *)
(* before keeps its ID: a new key is added only when no identical key      *)
(* exists, and it is not identical to any other registered type.           *)
LEMMA LogTypeUseStable ==
  ASSUME NEW reg, IsRegistry(reg), KeysDistinct(reg), NEW t \in Types
  PROVE  /\ KeysDistinct(LogTypeUse(reg, t))
         /\ \A u \in Types : Has(reg, u) =>
              /\ Has(LogTypeUse(reg, t), u)
              /\ At(LogTypeUse(reg, t), u) = At(reg, u)
<1>1. CASE Has(reg, t)
  BY <1>1 DEF LogTypeUse
<1>2. CASE ~Has(reg, t)
  <2>. DEFINE nid == [k \in Keys(reg) \cup {t} |-> IF k = t THEN reg.next ELSE reg.id[k]]
              r2 == [id |-> nid, next |-> reg.next + 1]
  <2>1. LogTypeUse(reg, t) = r2
    BY <1>2 DEF LogTypeUse, SetAt, IsRegistry, Keys
  <2>2. Keys(r2) = Keys(reg) \cup {t}
    BY DEF Keys
  <2>3. \A k \in Keys(reg) : ~Identical(k, t) /\ ~Identical(t, k) /\ k # t
    BY <1>2, IdentEquivalence DEF Has, IsRegistry, Keys
  <2>4. KeysDistinct(r2)
    BY <2>2, <2>3 DEF KeysDistinct
  <2>5. ASSUME NEW u \in Types, Has(reg, u)
        PROVE  Has(r2, u) /\ At(r2, u) = At(reg, u)
    <3>1. PICK k \in Keys(reg) : Identical(k, u)
      BY <2>5 DEF Has
    <3>2. KeyOf(reg, u) = k
      BY <3>1, KeyOfUnique
    <3>3. KeyOf(r2, u) = k
      <4>1. IsRegistry(r2)
        BY LogTypeUseType, <2>1
      <4>. QED
        BY <2>2, <2>4, <3>1, <4>1, KeyOfUnique
    <3>4. Has(r2, u)
      BY <2>2, <3>1 DEF Has
    <3>5. nid[k] = reg.id[k]
      BY <2>3
    <3>. QED
      BY <2>5, <3>2, <3>3, <3>4, <3>5 DEF At
  <2>. QED
    BY <2>1, <2>4, <2>5
<1>. QED
  BY <1>1, <1>2

(* A set C of emitted instructions whose IDs are current stays current     *)
(* across LogTypeUse(t).                                                   *)
CodeCurrent(C, reg) == \A c \in C : c.id # 0 /\ c.id = At(reg, c.typ)

LEMMA LogTypeUseKeepsCode ==
  ASSUME NEW reg, IsRegistry(reg), KeysDistinct(reg), NEW t \in Types,
         NEW C \in SUBSET Instrs, CodeCurrent(C, reg)
  PROVE  /\ IsRegistry(LogTypeUse(reg, t))
         /\ KeysDistinct(LogTypeUse(reg, t))
         /\ CodeCurrent(C, LogTypeUse(reg, t))
         /\ At(LogTypeUse(reg, t), t) # 0
<1>1. ASSUME NEW c \in C PROVE Has(reg, c.typ)
  BY <1>1 DEF CodeCurrent, At
<1>2. \A c \in C : c.typ \in Types
  BY DEF Instrs
<1>3. At(LogTypeUse(reg, t), t) \in Nat \ {0}
  BY LogTypeUseType, AtType
<1>. QED
  BY <1>1, <1>2, <1>3, LogTypeUseType, LogTypeUseStable DEF CodeCurrent

(* The inductive invariant: the type invariant, one key per identity       *)
(* class, and the IDs in the code current.                                 *)
IInv == TypeOK /\ KeysDistinct(registry) /\ EmittedIDsCurrent

LEMMA InitIInv == Init => IInv
BY InitTypeOK DEF Init, DTInit, IInv, KeysDistinct, Keys, EmptyRegistry,
                  EmittedIDsCurrent

LEMMA NextIInv == IInv /\ [Next]_vars => IInv'
<1>. SUFFICES ASSUME IInv, [Next]_vars PROVE IInv'
  OBVIOUS
<1>0. TypeOK'
  BY NextTypeOK DEF IInv
<1>a. CodeCurrent(code, registry)
  BY DEF IInv, EmittedIDsCurrent, CodeCurrent
<1>1. ASSUME NEW t \in Types, NEW regTyp \in Types, MakeInterface(t, regTyp)
      PROVE  KeysDistinct(registry') /\ EmittedIDsCurrent'
  <2>1. /\ KeysDistinct(LogTypeUse(registry, t))
        /\ CodeCurrent(code, LogTypeUse(registry, t))
        /\ At(LogTypeUse(registry, t), t) # 0
    BY <1>a, LogTypeUseKeepsCode DEF IInv, TypeOK
  <2>. QED
    BY <1>1, <2>1 DEF MakeInterface, CodeCurrent, EmittedIDsCurrent
<1>2. ASSUME NEW regTyp \in Types, NEW t \in Types, ChangeInterface(regTyp, t)
      PROVE  KeysDistinct(registry') /\ EmittedIDsCurrent'
  <2>. DEFINE r1 == LogTypeUse(registry, regTyp)
  <2>1. /\ IsRegistry(r1)
        /\ KeysDistinct(r1)
        /\ CodeCurrent(code, r1)
    BY <1>a, LogTypeUseKeepsCode DEF IInv, TypeOK
  <2>2. /\ KeysDistinct(LogTypeUse(r1, t))
        /\ CodeCurrent(code, LogTypeUse(r1, t))
        /\ At(LogTypeUse(r1, t), t) # 0
    BY <2>1, LogTypeUseKeepsCode DEF IInv, TypeOK
  <2>. QED
    BY <1>2, <2>2 DEF ChangeInterface, CodeCurrent, EmittedIDsCurrent
<1>3. ASSUME NEW T \in Types, NEW commaOk \in BOOLEAN, TypeAssert(T, commaOk)
      PROVE  KeysDistinct(registry') /\ EmittedIDsCurrent'
  <2>1. /\ KeysDistinct(LogTypeUse(registry, T))
        /\ CodeCurrent(code, LogTypeUse(registry, T))
        /\ At(LogTypeUse(registry, T), T) # 0
    BY <1>a, LogTypeUseKeepsCode DEF IInv, TypeOK
  <2>. QED
    BY <1>3, <2>1 DEF TypeAssert, CodeCurrent, EmittedIDsCurrent
<1>4. CASE EmitInstr
  BY <1>0, <1>1, <1>2, <1>3, <1>4 DEF EmitInstr, DTNext, IInv
<1>5. CASE EmitTypeInfoStep \/ UNCHANGED vars
  BY <1>0, <1>5 DEF EmitTypeInfoStep, dtVars, vars, IInv, KeysDistinct,
                    EmittedIDsCurrent
<1>. QED
  BY <1>4, <1>5 DEF Next

(* The IDs printed into the code stay the registry's IDs of their types    *)
(* for the whole run, so the box of a value and every later assertion or   *)
(* re-box of an identical type print the same number (spec 3 and 8).       *)
THEOREM IDsStayCurrent == Spec => []EmittedIDsCurrent
<1>1. IInv => EmittedIDsCurrent
  BY DEF IInv
<1>. QED
  BY InitIInv, NextIInv, <1>1, PTL DEF Spec

=============================================================================
