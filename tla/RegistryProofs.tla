--------------------------- MODULE RegistryProofs ---------------------------
(***************************************************************************)
(* Proof that the Type Encounter Registry implements the abstract registry *)
(* of module RegistryAbstract under the mapping of module Compilation:     *)
(* ids[t] is TypesEncountered.At(t) and nextID is NextTypeID.              *)
(*                                                                         *)
(* The argument: LogTypeUse(t) on a map whose keys are pairwise            *)
(* non-identical (KeysDistinct, part of the invariant IInv proved in       *)
(* CompilationProofs) changes the answer of At exactly for the types       *)
(* identical to t, and only when none was registered, to NextTypeID; so    *)
(* each handler's one or two LogTypeUse calls are one abstract Encounter.  *)
(***************************************************************************)
EXTENDS CompilationProofs

(* A registry as the abstract registry sees it.                            *)
Abs(reg) == [ids |-> [s \in Types |-> At(reg, s)], next |-> reg.next]

----------------------------------------------------------------------------
(* One LogTypeUse(t) is one abstract RegisterClass(t).                     *)
LEMMA AbsLogTypeUse ==
  ASSUME NEW reg, IsRegistry(reg), KeysDistinct(reg), NEW t \in Types
  PROVE  Abs(LogTypeUse(reg, t)) = AbsReg!RegisterClass(Abs(reg), t)
<1>1. CASE Has(reg, t)
  <2>1. At(reg, t) # 0
    BY <1>1, AtType
  <2>. QED
    BY <1>1, <2>1 DEF LogTypeUse, AbsReg!RegisterClass, Abs
<1>2. CASE ~Has(reg, t)
  <2>. DEFINE r2 == LogTypeUse(reg, t)
  <2>1. At(reg, t) = 0
    BY <1>2 DEF At
  <2>2. /\ IsRegistry(r2)
        /\ KeysDistinct(r2)
    BY LogTypeUseType, LogTypeUseStable
  <2>3. r2 = [id   |-> [k \in Keys(reg) \cup {t} |-> IF k = t THEN reg.next ELSE reg.id[k]],
              next |-> reg.next + 1]
    BY <1>2 DEF LogTypeUse, SetAt, IsRegistry
  <2>4. /\ r2.next = reg.next + 1
        /\ Keys(r2) = Keys(reg) \cup {t}
        /\ r2.id[t] = reg.next
    BY <2>3 DEF Keys
  <2>5. ASSUME NEW s \in Types, Identical(s, t) PROVE At(r2, s) = reg.next
    <3>1. Identical(t, s)
      BY <2>5, IdentEquivalence
    <3>2. Has(r2, s)
      BY <2>4, <3>1 DEF Has
    <3>3. KeyOf(r2, s) = t
      BY <2>2, <2>4, <3>1, KeyOfUnique
    <3>. QED
      BY <2>4, <3>2, <3>3 DEF At
  <2>6. ASSUME NEW s \in Types, ~Identical(s, t) PROVE At(r2, s) = At(reg, s)
    <3>1. CASE Has(reg, s)
      BY <3>1, LogTypeUseStable
    <3>2. CASE ~Has(reg, s)
      <4>a. ~Identical(t, s)
        BY <2>6, IdentEquivalence
      <4>b. ~Has(r2, s)
        <5>. SUFFICES ASSUME NEW k \in Keys(r2), Identical(k, s) PROVE FALSE
          BY DEF Has
        <5>1. k \in Keys(reg) \/ k = t
          BY <2>4
        <5>. QED
          BY <3>2, <4>a, <5>1 DEF Has
      <4>c. At(r2, s) = 0
        BY <4>b DEF At
      <4>d. At(reg, s) = 0
        BY <3>2 DEF At
      <4>. QED
        BY <4>c, <4>d
    <3>. QED
      BY <3>1, <3>2
  <2>7. Abs(reg).ids[t] = 0
    BY <2>1 DEF Abs
  <2>8. AbsReg!RegisterClass(Abs(reg), t) =
          [ids  |-> [s \in Types |-> IF Identical(s, t) THEN reg.next ELSE At(reg, s)],
           next |-> reg.next + 1]
    BY <2>7 DEF AbsReg!RegisterClass, AbsReg!Identical, Identical, Abs
  <2>9. [s \in Types |-> At(r2, s)] =
          [s \in Types |-> IF Identical(s, t) THEN reg.next ELSE At(reg, s)]
    BY <2>5, <2>6
  <2>. QED
    BY <2>4, <2>8, <2>9 DEF Abs
<1>. QED
  BY <1>1, <1>2

(* A handler's LogTypeUse(t1) then LogTypeUse(t2) is one abstract step.    *)
LEMMA AbsLogTypeUseTwice ==
  ASSUME NEW reg, IsRegistry(reg), KeysDistinct(reg), NEW t1 \in Types,
         NEW t2 \in Types
  PROVE  Abs(LogTypeUse(LogTypeUse(reg, t1), t2)) =
           AbsReg!RegisterClass(AbsReg!RegisterClass(Abs(reg), t1), t2)
<1>1. /\ IsRegistry(LogTypeUse(reg, t1))
      /\ KeysDistinct(LogTypeUse(reg, t1))
  BY LogTypeUseType, LogTypeUseStable
<1>. QED
  BY <1>1, AbsLogTypeUse

(* Logging a type a second time changes nothing.                           *)
LEMMA LogTypeUseIdempotent ==
  ASSUME NEW reg, IsRegistry(reg), NEW t \in Types
  PROVE  LogTypeUse(LogTypeUse(reg, t), t) = LogTypeUse(reg, t)
BY LogTypeUseType DEF LogTypeUse

----------------------------------------------------------------------------
(* The detailed specification's initial state is the abstract one.         *)
LEMMA InitRefines == Init => AbsReg!AInit
<1>. SUFFICES ASSUME Init PROVE AbsReg!AInit
  OBVIOUS
<1>1. \A t \in Types : At(registry, t) = 0
  BY DEF Init, DTInit, EmptyRegistry, At, Has, Keys
<1>. QED
  BY <1>1 DEF AbsReg!AInit, Init, DTInit, EmptyRegistry

(* Every step of the compiler is an Encounter of the abstract registry or  *)
(* leaves the abstract state unchanged.                                    *)
LEMMA NextRefines == IInv /\ [Next]_vars => [AbsReg!ANext]_AbsReg!aVars
<1>. SUFFICES ASSUME IInv, [Next]_vars PROVE [AbsReg!ANext]_AbsReg!aVars
  OBVIOUS
<1>0. /\ IsRegistry(registry)
      /\ KeysDistinct(registry)
      /\ AbsReg!AState = Abs(registry)
  BY DEF IInv, TypeOK, AbsReg!AState, Abs
<1>a. ASSUME NEW t1 \in Types, NEW t2 \in Types,
             registry' = LogTypeUse(LogTypeUse(registry, t1), t2)
      PROVE  AbsReg!ANext
  <2>1. Abs(registry') = AbsReg!RegisterClass(AbsReg!RegisterClass(Abs(registry), t1), t2)
    BY <1>0, <1>a, AbsLogTypeUseTwice
  <2>2. AbsReg!Encounter(t1, t2)
    BY <1>0, <2>1 DEF AbsReg!Encounter, Abs
  <2>. QED
    BY <2>2 DEF AbsReg!ANext
<1>1. ASSUME NEW t \in Types, NEW regTyp \in Types, MakeInterface(t, regTyp)
      PROVE  AbsReg!ANext
  BY <1>0, <1>1, <1>a, LogTypeUseIdempotent DEF MakeInterface
<1>2. ASSUME NEW regTyp \in Types, NEW t \in Types, ChangeInterface(regTyp, t)
      PROVE  AbsReg!ANext
  BY <1>1, <1>2, <1>a DEF ChangeInterface
<1>3. ASSUME NEW T \in Types, NEW commaOk \in BOOLEAN, TypeAssert(T, commaOk)
      PROVE  AbsReg!ANext
  BY <1>0, <1>3, <1>a, LogTypeUseIdempotent DEF TypeAssert
<1>4. CASE UNCHANGED registry
  BY <1>4 DEF AbsReg!aVars
<1>. QED
  BY <1>1, <1>2, <1>3, <1>4 DEF Next, EmitInstr, DTNext, EmitTypeInfoStep,
                                 vars, dtVars

(* The Type Encounter Registry, driven by the three ID-printing handlers   *)
(* and EmitTypeInfo, implements the abstract registry of spec 3: one ID    *)
(* per identity class, handed out 1, 2, ... in order of first encounter,   *)
(* and never changed.  Holds for every type universe and bound.            *)
THEOREM RegistryRefinement == Spec => RegistryRefines
<1>1. IInv /\ [Next]_vars => [AbsReg!ANext]_AbsReg!aVars
  BY NextRefines
<1>. QED
  BY InitRefines, InitIInv, NextIInv, <1>1, PTL DEF Spec, RegistryRefines,
     AbsReg!ASpec

=============================================================================
