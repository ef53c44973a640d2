----------------------------- MODULE NameProofs -----------------------------
(***************************************************************************)
(* Proof that the name tables EmitTypeInfo prints resolve every boxed      *)
(* type: getName(id) answers the type's String(), the typIDs map literal   *)
(* has pairwise distinct keys, and getId(name) binds the name to exactly   *)
(* one ID, one of a type of that name; for every type universe and every   *)
(* Keys() walk order.                                                      *)
(*                                                                         *)
(* The argument rests on the invariant TInv of TableProofs (IDs injective  *)
(* on the keys and below NextTypeID) and on two facts about a walk order:  *)
(* it lists every key (an injection from 1..n onto a set of n keys), and   *)
(* among the positions of one name there is a first, whose entry the      *)
(* deDup loop leaves untagged.                                             *)
(***************************************************************************)
EXTENDS TableProofs, FiniteSetTheorems

----------------------------------------------------------------------------
(* A Keys() walk order lists every key of the registry.                    *)
LEMMA OrderOnto ==
  ASSUME NEW reg, IsRegistry(reg), NEW o \in KeyOrders(reg),
         NEW k \in Keys(reg)
  PROVE  \E p \in 1 .. Cardinality(Keys(reg)) : o[p] = k
<1>. DEFINE n == Cardinality(Keys(reg))
<1>1. IsFiniteSet(Keys(reg))
  BY TypesFinite, FS_Subset DEF IsRegistry, Keys
<1>2. n \in Nat
  BY <1>1, FS_CardinalityType
<1>3. o \in Injection(1 .. n, Keys(reg))
  BY DEF KeyOrders, Injection, IsInjective
<1>4. Cardinality(1 .. n) = n
  BY <1>2, FS_Interval
<1>5. o \in Surjection(1 .. n, Keys(reg))
  BY <1>1, <1>3, <1>4, FS_Injection
<1>. QED
  BY <1>5 DEF Surjection

(* A nonempty set of naturals has a least element.                         *)
LEMMA LeastPosition ==
  ASSUME NEW Q \in SUBSET Nat, Q # {}
  PROVE  \E m \in Q : \A q \in Q : m <= q
<1>1. \E m \in Q : \A q \in Q : ~(<<q, m>> \in OpToRel(<, Nat))
  BY NatLessThanWellFounded, WFMin
<1>2. ASSUME NEW q \in Nat, NEW m \in Nat, ~(<<q, m>> \in OpToRel(<, Nat))
      PROVE  m <= q
  <2>1. ~(q < m)
    BY <1>2 DEF OpToRel
  <2>. QED
    BY <2>1
<1>. QED
  BY <1>1, <1>2

----------------------------------------------------------------------------
(* The registry state the name tables are printed from.                    *)
NamesOK(reg, o) == RegistryOK(reg) /\ o \in KeyOrders(reg)

(* getName answers the String() of a key for its ID: the walk writes that  *)
(* key, and no other, at its index of typesByID.                           *)
LEMMA NameOfKey ==
  ASSUME NEW reg, NEW ms, NEW o, NamesOK(reg, o), NEW k \in Keys(reg)
  PROVE  GetName(EmitTypeInfo(reg, ms, o), reg.id[k]) = Str[k]
<1>. DEFINE tbl == EmitTypeInfo(reg, ms, o)
            n   == Cardinality(Keys(reg))
            i   == reg.id[k]
            P   == {p \in DOMAIN o : reg.id[o[p]] = i}
<1>1. /\ i \in Nat \ {0}
      /\ reg.next \in Nat
      /\ i < reg.next
      /\ k \in Types
      /\ DOMAIN o = 1 .. n
      /\ o \in [1 .. n -> Keys(reg)]
      /\ \A p, q \in 1 .. n : o[p] = o[q] => p = q
  BY DEF NamesOK, RegistryOK, IsRegistry, IdsBelowNext, Keys, KeyOrders
<1>2. PICK p0 \in 1 .. n : o[p0] = k
  BY OrderOnto DEF NamesOK, RegistryOK
<1>3. P = {p0}
  <2>1. ASSUME NEW p \in P PROVE p = p0
    <3>1. o[p] = k
      BY <1>1, <2>1 DEF NamesOK, RegistryOK, IdsInjective
    <3>. QED
      BY <1>1, <1>2, <3>1
  <2>. QED
    BY <1>1, <1>2, <2>1
<1>4. tbl.typesByID[i] = k
  <2>1. (CHOOSE p \in P : \A q \in P : q <= p) = p0
    BY <1>3
  <2>2. i \in 0 .. (reg.next - 1)
    BY <1>1
  <2>3. TypesByID(reg, o)[i] = o[CHOOSE p \in P : \A q \in P : q <= p]
    BY <1>3, <2>2 DEF TypesByID
  <2>4. tbl.typesByID = TypesByID(reg, o)
    BY DEF EmitTypeInfo
  <2>. QED
    BY <1>2, <2>1, <2>3, <2>4
<1>5. k # NoType
  BY <1>1, NoTypeAssumption
<1>6. tbl.next = reg.next
  BY DEF EmitTypeInfo
<1>. QED
  BY <1>1, <1>4, <1>5, <1>6 DEF GetName

(* The deDup loop keeps the keys of the typIDs literal pairwise distinct:  *)
(* two untagged entries of one name would make the later one "seen", and   *)
(* two tagged entries carry the IDs of their keys, which are distinct.     *)
LEMMA TypIDsKeysDistinct ==
  ASSUME NEW reg, NEW o, NamesOK(reg, o),
         NEW p \in DOMAIN TypIDs(reg, o), NEW q \in DOMAIN TypIDs(reg, o),
         TypIDs(reg, o)[p].key = TypIDs(reg, o)[q].key
  PROVE  p = q
<1>. DEFINE n == Cardinality(Keys(reg))
            seen(x) == \E y \in DOMAIN o : y < x /\ Str[o[y]] = Str[o[x]]
<1>1. /\ DOMAIN o = 1 .. n
      /\ o \in [1 .. n -> Keys(reg)]
      /\ \A x, y \in 1 .. n : o[x] = o[y] => x = y
      /\ reg.id \in [Keys(reg) -> Nat \ {0}]
      /\ \A k1, k2 \in Keys(reg) : reg.id[k1] = reg.id[k2] => k1 = k2
  BY DEF NamesOK, RegistryOK, IsRegistry, IdsInjective, Keys, KeyOrders
<1>2. /\ p \in 1 .. n /\ q \in 1 .. n
  BY <1>1 DEF TypIDs
<1>3. /\ TypIDs(reg, o)[p].key.name = Str[o[p]]
      /\ TypIDs(reg, o)[q].key.name = Str[o[q]]
      /\ TypIDs(reg, o)[p].key.dup = (IF seen(p) THEN reg.id[o[p]] ELSE 0)
      /\ TypIDs(reg, o)[q].key.dup = (IF seen(q) THEN reg.id[o[q]] ELSE 0)
  BY <1>1, <1>2 DEF TypIDs
<1>a. /\ Str[o[p]] = Str[o[q]]
      /\ (IF seen(p) THEN reg.id[o[p]] ELSE 0) = (IF seen(q) THEN reg.id[o[q]] ELSE 0)
  BY <1>3
<1>4. CASE seen(p) /\ seen(q)
  BY <1>1, <1>2, <1>a, <1>4
<1>5. CASE ~seen(p) /\ ~seen(q)
  <2>1. ~(p < q) /\ ~(q < p)
    BY <1>1, <1>2, <1>a, <1>5
  <2>. QED
    BY <1>2, <2>1
<1>6. CASE seen(p) # seen(q)
  BY <1>1, <1>2, <1>a, <1>6
<1>. QED
  BY <1>4, <1>5, <1>6

(* getId(name) for the name of a key: exactly one untagged entry, the      *)
(* first of that name in the walk, binds it, to an ID getName maps back    *)
(* to the name.                                                            *)
LEMMA GetIdsOfName ==
  ASSUME NEW reg, NEW ms, NEW o, NamesOK(reg, o), NEW k \in Keys(reg)
  PROVE  \E i \in GetIds(EmitTypeInfo(reg, ms, o), Str[k]) :
           /\ GetIds(EmitTypeInfo(reg, ms, o), Str[k]) = {i}
           /\ GetName(EmitTypeInfo(reg, ms, o), i) = Str[k]
<1>. DEFINE tbl == EmitTypeInfo(reg, ms, o)
            n   == Cardinality(Keys(reg))
            T   == TypIDs(reg, o)
            Q   == {p \in 1 .. n : Str[o[p]] = Str[k]}
            E   == {p \in DOMAIN T : T[p].key = [name |-> Str[k], dup |-> 0]}
<1>1. /\ DOMAIN o = 1 .. n
      /\ o \in [1 .. n -> Keys(reg)]
      /\ DOMAIN T = 1 .. n
      /\ tbl.typIDs = T
  BY DEF NamesOK, KeyOrders, TypIDs, EmitTypeInfo
<1>2. PICK p0 \in 1 .. n : o[p0] = k
  BY OrderOnto DEF NamesOK, RegistryOK
<1>3. PICK m \in Q : \A q \in Q : m <= q
  <2>1. Q \in SUBSET Nat /\ Q # {}
    BY <1>2
  <2>. QED
    BY <2>1, LeastPosition
<1>4. /\ T[m].key = [name |-> Str[k], dup |-> 0]
      /\ T[m].id = reg.id[o[m]]
  <2>1. ~\E y \in DOMAIN o : y < m /\ Str[o[y]] = Str[o[m]]
    BY <1>1, <1>3
  <2>. QED
    BY <1>1, <1>3, <2>1 DEF TypIDs
<1>5. E = {m}
  <2>1. m \in E
    BY <1>1, <1>4
  <2>2. ASSUME NEW p \in E PROVE p = m
    BY <1>4, <2>1, <2>2, TypIDsKeysDistinct
  <2>. QED
    BY <2>1, <2>2
<1>6. GetIds(tbl, Str[k]) = {reg.id[o[m]]}
  BY <1>1, <1>4, <1>5 DEF GetIds
<1>7. GetName(tbl, reg.id[o[m]]) = Str[k]
  BY <1>1, <1>3, NameOfKey
<1>. QED
  BY <1>6, <1>7

----------------------------------------------------------------------------
LEMMA TInvNames == TInv => TypeNamesResolve
<1>. SUFFICES ASSUME TInv, phase = "done"
              PROVE  /\ info.inRange
                     /\ \A p, q \in DOMAIN info.typIDs :
                          info.typIDs[p].key = info.typIDs[q].key => p = q
                     /\ \A b \in Boxes :
                          /\ GetName(info, b.id) = Str[KeyOf(registry, b.typ)]
                          /\ \E i \in GetIds(info, Str[KeyOf(registry, b.typ)]) :
                               /\ GetIds(info, Str[KeyOf(registry, b.typ)]) = {i}
                               /\ GetName(info, i) = Str[KeyOf(registry, b.typ)]
  BY DEF TypeNamesResolve
<1>1. PICK o \in KeyOrders(registry) : info = EmitTypeInfo(registry, msTypes, o)
  BY DEF TInv, InfoEmitted
<1>2. NamesOK(registry, o)
  BY <1>1 DEF TInv, IInv, TypeOK, RegistryOK, NamesOK
<1>3. info.inRange
  BY <1>1 DEF EmitTypeInfo, TInv, IdsBelowNext
<1>4. \A p, q \in DOMAIN info.typIDs :
        info.typIDs[p].key = info.typIDs[q].key => p = q
  <2>1. info.typIDs = TypIDs(registry, o)
    BY <1>1 DEF EmitTypeInfo
  <2>. QED
    BY <1>2, <2>1, TypIDsKeysDistinct
<1>5. ASSUME NEW b \in Boxes
      PROVE  /\ GetName(info, b.id) = Str[KeyOf(registry, b.typ)]
             /\ \E i \in GetIds(info, Str[KeyOf(registry, b.typ)]) :
                  /\ GetIds(info, Str[KeyOf(registry, b.typ)]) = {i}
                  /\ GetName(info, i) = Str[KeyOf(registry, b.typ)]
  <2>. DEFINE k == KeyOf(registry, b.typ)
  <2>1. /\ b.typ \in Types
        /\ Has(registry, b.typ)
        /\ b.id = At(registry, b.typ)
    BY BoxFacts DEF Boxes
  <2>2. /\ k \in Keys(registry) /\ k \in Types
        /\ At(registry, b.typ) = registry.id[k]
    BY <1>2, <2>1, IdOfType DEF NamesOK
  <2>3. GetName(info, b.id) = Str[k]
    BY <1>1, <1>2, <2>1, <2>2, NameOfKey
  <2>4. \E i \in GetIds(info, Str[k]) :
          /\ GetIds(info, Str[k]) = {i}
          /\ GetName(info, i) = Str[k]
    BY <1>1, <1>2, <2>2, GetIdsOfName
  <2>. QED
    BY <2>3, <2>4
<1>. QED
  BY <1>3, <1>4, <1>5

(* In every compilation, for every type universe and every Keys() walk     *)
(* order, the tables EmitTypeInfo prints name each boxed value by the      *)
(* String() of the object its identity class was registered by (getName), *)
(* keep the keys of the typIDs literal distinct (the deDup tag), and bind  *)
(* that name through getId to exactly one ID, which getName maps back to   *)
(* the name; identical types that print differently (byte, uint8) are not *)
(* assumed to print alike.                                                 *)
THEOREM TypeNamesAlwaysResolve == Spec => []TypeNamesResolve
BY InitTInv, NextTInv, TInvNames, PTL DEF Spec

=============================================================================
