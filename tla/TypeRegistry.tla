---------------------------- MODULE TypeRegistry ----------------------------
(***************************************************************************)
(* The Type Encounter Registry: pogo.TypesEncountered, a typeutil.Map from *)
(* types to integer IDs, and the counter pogo.NextTypeID.  A typeutil.Map  *)
(* compares its keys with types.Identical, so a type object identical to   *)
(* one already stored finds that entry and its ID.  The registry code      *)
(* (pogo.LogTypeUse) is not under src/: it is modelled from the spec       *)
(* (section 3, TypeEncounterRegistry): IDs are given on first encounter,   *)
(* from 1, and never reassigned; ID 0 means "no type".                     *)
(*                                                                         *)
(* The registry is one record:                                             *)
(*   id   : the map, a function from its key objects to their IDs          *)
(*   next : pogo.NextTypeID                                                *)
(***************************************************************************)
EXTENDS GoTypes

(* A registry: a map from some type objects to positive IDs, and the     *)
(* next ID.                                                                *)
IsRegistry(reg) ==
  /\ reg = [id |-> reg.id, next |-> reg.next]
  /\ DOMAIN reg.id \subseteq Types
  /\ reg.id \in [DOMAIN reg.id -> Nat \ {0}]
  /\ reg.next \in Nat \ {0}

(* Mutant: IDs counted from 0, so a real type gets the reserved ID 0.      *)
EmptyRegistryFromZero == [id |-> [k \in {} |-> 0], next |-> 0]

EmptyRegistry == [id |-> [k \in {} |-> 0], next |-> 1]

(* TypesEncountered.Keys(): the key objects stored in the map.             *)
Keys(reg) == DOMAIN reg.id

(* TypesEncountered.At(t) # nil                                            *)
Has(reg, t) == \E k \in Keys(reg) : Identical(k, t)

(* The stored key a lookup of t finds.                                     *)
KeyOf(reg, t) == CHOOSE k \in Keys(reg) : Identical(k, t)

(* TypesEncountered.At(t): the ID of t, 0 (nil) when absent.               *)
At(reg, t) == IF Has(reg, t) THEN reg.id[KeyOf(reg, t)] ELSE 0

(* TypesEncountered.Set(t, v): replaces the value of an identical key, or  *)
(* adds t as a new key.                                                    *)
SetAt(reg, t, v) ==
  IF Has(reg, t)
  THEN [reg EXCEPT !.id[KeyOf(reg, t)] = v]
  ELSE [reg EXCEPT !.id = [k \in Keys(reg) \cup {t} |->
                             IF k = t THEN v ELSE reg.id[k]]]

(* Mutant: the new key takes NextTypeID without counting it up.           *)
LogTypeUseNoIncrement(reg, t) ==
  IF Has(reg, t) THEN reg ELSE SetAt(reg, t, reg.next)

(* pogo.LogTypeUse(t): return the ID of t, registering t under the next    *)
(* ID if no identical type was met before.  The registry after the call.   *)
LogTypeUse(reg, t) ==
  IF Has(reg, t)
  THEN reg
  ELSE [SetAt(reg, t, reg.next) EXCEPT !.next = reg.next + 1]

=============================================================================
