---------------------------- MODULE TableProofs ----------------------------
(***************************************************************************)
(* Proofs that the tables EmitTypeInfo prints answer type assertions and   *)
(* interface method calls as Go does, for every type universe that         *)
(* satisfies the assumptions of GoTypes and every Keys() walk order.       *)
(*                                                                         *)
(* The argument: the registry hands out IDs that are injective on its keys *)
(* (every new key gets NextTypeID, above every ID handed out before), its  *)
(* keys are pairwise non-identical, and the IDs printed into the code are  *)
(* still current when the tables are printed (CompilationProofs); so an    *)
(* ID printed for a type t names exactly the identity class of t in the    *)
(* tables, and each table case about two IDs is the go/types answer about  *)
(* the two types the code printed them for.                                *)
(***************************************************************************)
EXTENDS CompilationProofs

(* Every ID handed out is below NextTypeID.                                *)
IdsBelowNext(reg) == \A k \in Keys(reg) : reg.id[k] < reg.next

(* Distinct keys have distinct IDs.                                        *)
IdsInjective(reg) ==
  \A k1, k2 \in Keys(reg) : reg.id[k1] = reg.id[k2] => k1 = k2

(* Every boxed type has an identical type among TypesWithMethodSets(),     *)
(* and every one of those is registered.                                   *)
BoxesListed == \A b \in Boxes : \E s \in msTypes : Identical(s, b.typ)
MsRegistered == \A s \in msTypes : Has(registry, s)

(* The tables printed are those of the registry as it stands, for some     *)
(* walk order.                                                             *)
InfoEmitted ==
  phase = "done" =>
    \E o \in KeyOrders(registry) : info = EmitTypeInfo(registry, msTypes, o)

TInv ==
  /\ IInv
  /\ IdsBelowNext(registry) /\ IdsInjective(registry)
  /\ BoxesListed /\ MsRegistered
  /\ InfoEmitted

----------------------------------------------------------------------------
(* pogo.LogTypeUse(t) gives a new key the ID NextTypeID and then counts it *)
(* up, so IDs stay below the counter and distinct keys keep distinct IDs.  *)
LEMMA LogTypeUseIds ==
  ASSUME NEW reg, IsRegistry(reg), IdsBelowNext(reg), IdsInjective(reg),
         NEW t \in Types
  PROVE  /\ IdsBelowNext(LogTypeUse(reg, t))
         /\ IdsInjective(LogTypeUse(reg, t))
<1>1. CASE Has(reg, t)
  BY <1>1 DEF LogTypeUse
<1>2. CASE ~Has(reg, t)
  <2>. DEFINE nid == [k \in Keys(reg) \cup {t} |-> IF k = t THEN reg.next ELSE reg.id[k]]
              r2 == [id |-> nid, next |-> reg.next + 1]
  <2>1. LogTypeUse(reg, t) = r2
    BY <1>2 DEF LogTypeUse, SetAt, IsRegistry, Keys
  <2>2. t \notin Keys(reg)
    BY <1>2, IdentEquivalence DEF Has
  <2>3. /\ Keys(r2) = Keys(reg) \cup {t}
        /\ \A k \in Keys(reg) : nid[k] = reg.id[k]
        /\ nid[t] = reg.next
    BY <2>2 DEF Keys
  <2>4. IdsBelowNext(r2)
    BY <2>3 DEF IdsBelowNext, IsRegistry, Keys
  <2>5. IdsInjective(r2)
    BY <2>3 DEF IdsInjective, IdsBelowNext, IsRegistry, Keys
  <2>. QED
    BY <2>1, <2>4, <2>5
<1>. QED
  BY <1>1, <1>2

(* A type registered before LogTypeUse is registered after it.             *)
LEMMA LogTypeUseHas ==
  ASSUME NEW reg, IsRegistry(reg), KeysDistinct(reg), NEW t \in Types,
         NEW S \in SUBSET Types, \A s \in S : Has(reg, s)
  PROVE  \A s \in S : Has(LogTypeUse(reg, t), s)
BY LogTypeUseStable

(* TypesWithMethodSets() after AddMethodSetType(S, t): the old types, and  *)
(* one identical to t.                                                     *)
LEMMA AddMethodSetTypeSpec ==
  ASSUME NEW S, NEW t \in Types
  PROVE  /\ S \subseteq AddMethodSetType(S, t)
         /\ AddMethodSetType(S, t) \subseteq S \cup {t}
         /\ \E s \in AddMethodSetType(S, t) : Identical(s, t)
BY IdentEquivalence DEF AddMethodSetType

LEMMA InitTInv == Init => TInv
BY InitIInv DEF Init, DTInit, TInv, IdsBelowNext, IdsInjective, BoxesListed,
               MsRegistered, InfoEmitted, Boxes, EmptyRegistry, Keys

(* A handler's registry: the facts TInv needs about it, given those about  *)
(* the registry it started from.                                           *)
RegistryOK(reg) ==
  IsRegistry(reg) /\ KeysDistinct(reg) /\ IdsBelowNext(reg) /\ IdsInjective(reg)

LEMMA LogTypeUseOK ==
  ASSUME NEW reg, RegistryOK(reg), NEW t \in Types,
         NEW S \in SUBSET Types, \A s \in S : Has(reg, s)
  PROVE  /\ RegistryOK(LogTypeUse(reg, t))
         /\ Has(LogTypeUse(reg, t), t)
         /\ \A s \in S : Has(LogTypeUse(reg, t), s)
BY LogTypeUseType, LogTypeUseStable, LogTypeUseIds, LogTypeUseHas DEF RegistryOK

LEMMA NextTInv == TInv /\ [Next]_vars => TInv'
<1>. SUFFICES ASSUME TInv, [Next]_vars PROVE TInv'
  OBVIOUS
<1>0. /\ IInv'
      /\ RegistryOK(registry)
      /\ msTypes \subseteq Types
  BY NextIInv DEF TInv, RegistryOK, IInv, TypeOK
<1>1. ASSUME NEW t \in Types, NEW regTyp \in Types, MakeInterface(t, regTyp),
             UNCHANGED <<phase, info>>, phase = "emit"
      PROVE  TInv'
  <2>1. /\ RegistryOK(registry')
        /\ Has(registry', t)
        /\ \A s \in msTypes : Has(registry', s)
    BY <1>0, <1>1, LogTypeUseOK DEF MakeInterface, TInv, MsRegistered
  <2>2. MsRegistered'
    BY <1>1, <2>1, AddMethodSetTypeSpec DEF MakeInterface, MsRegistered
  <2>3. BoxesListed'
    <3>1. Boxes' \subseteq Boxes \cup {[op |-> "box", typ |-> t,
                                        id |-> At(LogTypeUse(registry, t), t)]}
      BY <1>1 DEF MakeInterface, Boxes
    <3>. QED
      BY <1>1, <3>1, AddMethodSetTypeSpec DEF MakeInterface, BoxesListed, TInv
  <2>4. InfoEmitted'
    BY <1>1 DEF MakeInterface, InfoEmitted, TInv, IInv, TypeOK
  <2>. QED
    BY <1>0, <2>1, <2>2, <2>3, <2>4 DEF TInv, RegistryOK
<1>2. ASSUME NEW regTyp \in Types, NEW t \in Types, ChangeInterface(regTyp, t),
             UNCHANGED <<phase, info>>, phase = "emit"
      PROVE  TInv'
  <2>. DEFINE r1 == LogTypeUse(registry, regTyp)
  <2>1. /\ RegistryOK(r1)
        /\ \A s \in msTypes : Has(r1, s)
    BY <1>0, LogTypeUseOK DEF TInv, MsRegistered
  <2>2. /\ RegistryOK(registry')
        /\ \A s \in msTypes : Has(registry', s)
    BY <1>0, <1>2, <2>1, LogTypeUseOK DEF ChangeInterface
  <2>3. Boxes' = Boxes
    BY <1>2 DEF ChangeInterface, Boxes
  <2>. QED
    BY <1>0, <1>2, <2>2, <2>3 DEF ChangeInterface, TInv, RegistryOK, BoxesListed,
                                  MsRegistered, InfoEmitted, IInv, TypeOK
<1>3. ASSUME NEW T \in Types, NEW commaOk \in BOOLEAN, TypeAssert(T, commaOk),
             UNCHANGED <<phase, info>>, phase = "emit"
      PROVE  TInv'
  <2>1. /\ RegistryOK(registry')
        /\ \A s \in msTypes : Has(registry', s)
    BY <1>0, <1>3, LogTypeUseOK DEF TypeAssert, TInv, MsRegistered
  <2>2. Boxes' = Boxes
    BY <1>3 DEF TypeAssert, Boxes
  <2>. QED
    BY <1>0, <1>3, <2>1, <2>2 DEF TypeAssert, TInv, RegistryOK, BoxesListed,
                                  MsRegistered, InfoEmitted, IInv, TypeOK
<1>4. CASE EmitInstr
  BY <1>1, <1>2, <1>3, <1>4 DEF EmitInstr, DTNext
<1>5. CASE EmitTypeInfoStep
  <2>1. UNCHANGED <<registry, code, msTypes>>
    BY <1>5 DEF EmitTypeInfoStep, dtVars
  <2>2. InfoEmitted'
    BY <1>5, <2>1 DEF EmitTypeInfoStep, InfoEmitted
  <2>. QED
    BY <1>0, <2>1, <2>2 DEF TInv, IdsBelowNext, IdsInjective, BoxesListed,
                            MsRegistered, Boxes
<1>6. CASE UNCHANGED vars
  BY <1>0, <1>6 DEF vars, TInv, IdsBelowNext, IdsInjective, BoxesListed,
                    MsRegistered, InfoEmitted, Boxes
<1>. QED
  BY <1>4, <1>5, <1>6 DEF Next

----------------------------------------------------------------------------
(* What the ID of a registered type says: its key, and that two IDs are    *)
(* equal exactly when the types are identical.                             *)
LEMMA IdOfType ==
  ASSUME NEW reg, RegistryOK(reg), NEW D \in Types, Has(reg, D)
  PROVE  /\ KeyOf(reg, D) \in Keys(reg) /\ KeyOf(reg, D) \in Types
         /\ Identical(KeyOf(reg, D), D) /\ Identical(D, KeyOf(reg, D))
         /\ At(reg, D) = reg.id[KeyOf(reg, D)]
BY IdentEquivalence DEF RegistryOK, IsRegistry, Has, KeyOf, At, Keys

LEMMA SameIdIffIdentical ==
  ASSUME NEW reg, RegistryOK(reg), NEW D \in Types, NEW T \in Types,
         Has(reg, D), Has(reg, T)
  PROVE  At(reg, D) = At(reg, T) <=> Identical(D, T)
<1>. DEFINE kd == KeyOf(reg, D)  kt == KeyOf(reg, T)
<1>1. /\ kd \in Keys(reg) /\ kd \in Types /\ Identical(kd, D) /\ Identical(D, kd)
      /\ kt \in Keys(reg) /\ kt \in Types /\ Identical(kt, T) /\ Identical(T, kt)
      /\ At(reg, D) = reg.id[kd] /\ At(reg, T) = reg.id[kt]
  BY IdOfType
<1>2. ASSUME At(reg, D) = At(reg, T) PROVE Identical(D, T)
  <2>1. kd = kt
    BY <1>1, <1>2 DEF RegistryOK, IdsInjective
  <2>. QED
    BY <1>1, <2>1, IdentEquivalence
<1>3. ASSUME Identical(D, T) PROVE At(reg, D) = At(reg, T)
  <2>1. Identical(kd, T)
    BY <1>1, <1>3, IdentEquivalence
  <2>2. kt = kd
    BY <1>1, <2>1, KeyOfUnique DEF RegistryOK
  <2>. QED
    BY <1>1, <2>2
<1>. QED
  BY <1>2, <1>3

(* Interface.assertOk, through isConcrete, isIdentical and isAssignableTo, *)
(* answers for the IDs of two registered types D and T what Go answers for *)
(* the assertion of a D value to T, whatever the walk order.               *)
LEMMA AssertTable ==
  ASSUME NEW reg, RegistryOK(reg), NEW ms, NEW o,
         NEW D \in Types, NEW T \in Types, Has(reg, D), Has(reg, T)
  PROVE  AssertOkRT(EmitTypeInfo(reg, ms, o), At(reg, D), At(reg, T))
           = GoAssertOk(D, T)
<1>. DEFINE kd == KeyOf(reg, D)  kt == KeyOf(reg, T)
            dI == At(reg, D)     tI == At(reg, T)
            tbl == EmitTypeInfo(reg, ms, o)
<1>1. /\ kd \in Keys(reg) /\ kd \in Types /\ Identical(kd, D) /\ Identical(D, kd)
      /\ kt \in Keys(reg) /\ kt \in Types /\ Identical(kt, T) /\ Identical(T, kt)
      /\ dI = reg.id[kd] /\ tI = reg.id[kt]
  BY IdOfType
<1>2. dI = tI <=> Identical(D, T)
  BY SameIdIffIdentical
<1>3. (tI \in ConcreteIDs(reg)) <=> T \notin InterfaceTypes
  <2>1. ASSUME NEW k \in Keys(reg) \ InterfaceTypes, reg.id[k] = tI
        PROVE  T \notin InterfaceTypes
    <3>1. k = kt
      BY <1>1, <2>1 DEF RegistryOK, IdsInjective
    <3>. QED
      BY <1>1, <2>1, <3>1, TypeQueriesRespectIdentity
  <2>2. T \notin InterfaceTypes => kt \notin InterfaceTypes
    BY <1>1, TypeQueriesRespectIdentity
  <2>. QED
    BY <1>1, <2>1, <2>2 DEF ConcreteIDs
<1>4. <<dI, tI>> \notin IdenticalCases(reg)
  <2>. SUFFICES ASSUME NEW k1 \in Keys(reg), NEW k2 \in Keys(reg),
                       reg.id[k1] # reg.id[k2], Identical(k1, k2)
                PROVE  FALSE
    BY DEF IdenticalCases
  <2>. QED
    BY DEF RegistryOK, KeysDistinct
<1>5. (<<dI, tI>> \in AssignableCases(reg)) <=> dI # tI /\ AssignableTo(D, T)
  <2>1. ASSUME NEW k1 \in Keys(reg), NEW k2 \in Keys(reg),
               reg.id[k1] = dI, reg.id[k2] = tI
        PROVE  k1 = kd /\ k2 = kt
    BY <1>1, <2>1 DEF RegistryOK, IdsInjective
  <2>2. AssignableTo(kd, kt) <=> AssignableTo(D, T)
    <3>1. AssignableTo(kd, kt) = AssignableTo(D, kt)
      BY <1>1, TypeQueriesRespectIdentity
    <3>2. AssignableTo(D, kt) = AssignableTo(D, T)
      BY <1>1, TypeQueriesRespectIdentity
    <3>. QED
      BY <3>1, <3>2
  <2>3. ASSUME <<dI, tI>> \in AssignableCases(reg)
        PROVE  dI # tI /\ AssignableTo(D, T)
    <3>1. PICK p \in {q \in Keys(reg) \X Keys(reg) :
                       reg.id[q[1]] # reg.id[q[2]] /\ AssignableTo(q[1], q[2])} :
                 <<dI, tI>> = <<reg.id[p[1]], reg.id[p[2]]>>
      BY <2>3 DEF AssignableCases
    <3>2. p[1] = kd /\ p[2] = kt
      BY <3>1, <2>1
    <3>. QED
      BY <3>1, <3>2, <2>2
  <2>4. ASSUME dI # tI, AssignableTo(D, T)
        PROVE  <<dI, tI>> \in AssignableCases(reg)
    <3>1. <<kd, kt>> \in {q \in Keys(reg) \X Keys(reg) :
                           reg.id[q[1]] # reg.id[q[2]] /\ AssignableTo(q[1], q[2])}
      BY <1>1, <2>2, <2>4
    <3>. QED
      BY <1>1, <3>1 DEF AssignableCases
  <2>. QED
    BY <2>3, <2>4
<1>6. Identical(D, T) => AssignableTo(D, T)
  BY TypeQueriesRespectIdentity DEF Identical, AssignableTo
<1>7. /\ tbl.concrete = ConcreteIDs(reg)
      /\ tbl.identical = IdenticalCases(reg)
      /\ tbl.assignable = AssignableCases(reg)
  BY DEF EmitTypeInfo
<1>8. CASE T \in InterfaceTypes
  <2>2. IsAssignableToRT(tbl, dI, tI) <=> AssignableTo(D, T)
    BY <1>2, <1>5, <1>6, <1>7 DEF IsAssignableToRT
  <2>. QED
    BY <1>3, <1>7, <1>8, <2>2 DEF AssertOkRT, IsAssignableToRT, GoAssertOk,
                                  AssignableTo
<1>9. CASE T \notin InterfaceTypes
  <2>2. IsIdenticalRT(tbl, dI, tI) <=> Identical(D, T)
    BY <1>2, <1>4, <1>7 DEF IsIdenticalRT
  <2>. QED
    BY <1>3, <1>7, <1>9, <2>2 DEF AssertOkRT, IsIdenticalRT, GoAssertOk,
                                  Identical
<1>. QED
  BY <1>8, <1>9

(* method(t, m) of the tables answers, for the ID of a registered type D   *)
(* listed (up to identity) among TypesWithMethodSets(), the wrappers of    *)
(* method m named after the listed types identical to D, when D has m      *)
(* outside a Haxe package, and nothing otherwise.                          *)
LEMMA MethodTable ==
  ASSUME NEW reg, RegistryOK(reg), NEW ms \in SUBSET Types,
         \A s \in ms : Has(reg, s), NEW o,
         NEW D \in Types, Has(reg, D), NEW m \in MethodNames
  PROVE  MethodRT(EmitTypeInfo(reg, ms, o), At(reg, D), m) =
           IF m \in Methods[D] /\ <<D, m>> \notin HaxePkgMethods
           THEN {<<Str[s], m>> : s \in {s \in ms : Identical(s, D)}} ELSE {}
<1>. DEFINE tbl == EmitTypeInfo(reg, ms, o)
            Ok(q) == Has(reg, q[1]) /\ q[2] \in Methods[q[1]] /\ q \notin HaxePkgMethods
            cond == m \in Methods[D] /\ <<D, m>> \notin HaxePkgMethods
            targets == {<<Str[s], m>> : s \in {s \in ms : Identical(s, D)}}
<1>1. tbl.methods = {<<At(reg, p[1]), p[2], <<Str[p[1]], p[2]>>>> :
                        p \in {q \in ms \X MethodNames : Ok(q)}}
  BY DEF EmitTypeInfo, MethodCases
<1>2. ASSUME NEW q \in ms
      PROVE  /\ At(reg, q) = At(reg, D) <=> Identical(q, D)
             /\ Identical(q, D) =>
                  \A n \in MethodNames :
                    Ok(<<q, n>>) <=> n \in Methods[D] /\ <<D, n>> \notin HaxePkgMethods
  <2>1. At(reg, q) = At(reg, D) <=> Identical(q, D)
    BY SameIdIffIdentical
  <2>2. Identical(q, D) =>
          \A n \in MethodNames :
            Ok(<<q, n>>) <=> n \in Methods[D] /\ <<D, n>> \notin HaxePkgMethods
    BY TypeQueriesRespectIdentity
  <2>. QED
    BY <2>1, <2>2
<1>3. ASSUME NEW x \in MethodRT(tbl, At(reg, D), m)
      PROVE  cond /\ x \in targets
  <2>1. PICK c \in tbl.methods : c[1] = At(reg, D) /\ c[2] = m /\ x = c[3]
    BY <1>3 DEF MethodRT
  <2>2. PICK p \in {q \in ms \X MethodNames : Ok(q)} :
               c = <<At(reg, p[1]), p[2], <<Str[p[1]], p[2]>>>>
    BY <1>1, <2>1
  <2>3. p[2] = m /\ At(reg, p[1]) = At(reg, D) /\ x = <<Str[p[1]], m>>
    BY <2>1, <2>2
  <2>4. Identical(p[1], D) /\ p[1] \in ms
    BY <2>2, <2>3, <1>2
  <2>5. Ok(<<p[1], m>>) <=> cond
    BY <2>4, <1>2
  <2>. QED
    BY <2>2, <2>3, <2>4, <2>5
<1>4. ASSUME cond, NEW s \in ms, Identical(s, D)
      PROVE  <<Str[s], m>> \in MethodRT(tbl, At(reg, D), m)
  <2>1. At(reg, s) = At(reg, D) /\ Ok(<<s, m>>)
    BY <1>4, <1>2
  <2>2. <<At(reg, D), m, <<Str[s], m>>>> \in tbl.methods
    BY <1>1, <2>1
  <2>. QED
    BY <2>2 DEF MethodRT
<1>. QED
  BY <1>3, <1>4

----------------------------------------------------------------------------
(* The facts about one boxed value that the two theorems use.              *)
LEMMA BoxFacts ==
  ASSUME TInv, NEW c \in code
  PROVE  /\ c.typ \in Types
         /\ Has(registry, c.typ)
         /\ c.id = At(registry, c.typ)
<1>1. c \in Instrs /\ c.id # 0 /\ c.id = At(registry, c.typ)
  BY DEF TInv, IInv, TypeOK, EmittedIDsCurrent
<1>. QED
  BY <1>1 DEF Instrs, At

LEMMA TInvAsserts == TInv => AssertAgreesWithGo
<1>. SUFFICES ASSUME TInv, phase = "done", NEW b \in Boxes, NEW a \in Asserts
              PROVE  AssertOkRT(info, b.id, a.id) = GoAssertOk(b.typ, a.typ)
  BY DEF AssertAgreesWithGo
<1>1. PICK o \in KeyOrders(registry) : info = EmitTypeInfo(registry, msTypes, o)
  BY DEF TInv, InfoEmitted
<1>2. RegistryOK(registry)
  BY DEF TInv, IInv, TypeOK, RegistryOK
<1>. QED
  BY <1>1, <1>2, BoxFacts, AssertTable DEF Boxes, Asserts

(* End to end (spec 8): in every compilation, for every type universe and  *)
(* every Keys() walk order, a value boxed by MakeInterface and asserted    *)
(* with TypeAssert gets from Interface.assertOk the answer Go gives.       *)
THEOREM AssertsAnsweredAsGo == Spec => []AssertAgreesWithGo
BY InitTInv, NextTInv, TInvAsserts, PTL DEF Spec

LEMMA TInvMethods == TInv => MethodDispatchSound
<1>. SUFFICES ASSUME TInv, phase = "done", NEW b \in Boxes, NEW m \in MethodNames
              PROVE  MethodRT(info, b.id, m) =
                       IF m \in Methods[b.typ] /\ <<b.typ, m>> \notin HaxePkgMethods
                       THEN {<<Str[s], m>> : s \in {s \in msTypes : Identical(s, b.typ)}}
                       ELSE {}
  BY DEF MethodDispatchSound
<1>1. PICK o \in KeyOrders(registry) : info = EmitTypeInfo(registry, msTypes, o)
  BY DEF TInv, InfoEmitted
<1>2. /\ RegistryOK(registry)
      /\ msTypes \subseteq Types
      /\ \A s \in msTypes : Has(registry, s)
  BY DEF TInv, IInv, TypeOK, RegistryOK, MsRegistered
<1>3. b.typ \in Types /\ Has(registry, b.typ) /\ b.id = At(registry, b.typ)
  BY BoxFacts DEF Boxes
<1>4. MethodRT(EmitTypeInfo(registry, msTypes, o), At(registry, b.typ), m) =
        IF m \in Methods[b.typ] /\ <<b.typ, m>> \notin HaxePkgMethods
        THEN {<<Str[s], m>> : s \in {s \in msTypes : Identical(s, b.typ)}}
        ELSE {}
  BY <1>2, <1>3, MethodTable
<1>. QED
  BY <1>1, <1>3, <1>4

(* In every compilation, an interface method call on a boxed value finds   *)
(* through method(t, m) exactly the wrapper of the method of the value's   *)
(* dynamic type, named after the type TypesWithMethodSets() lists for it,  *)
(* and panics exactly when that type has no such method outside a Haxe    *)
(* package, for every type universe and walk order.                        *)
THEOREM MethodsDispatchedAsGo == Spec => []MethodDispatchSound
BY InitTInv, NextTInv, TInvMethods, PTL DEF Spec
=============================================================================
