-------------------------- MODULE RegistryAbstract --------------------------
(***************************************************************************)
(* What the Type Encounter Registry promises (spec section 3), without the *)
(* map that implements it: every type has an ID, 0 until its identity      *)
(* class is first encountered; a class met for the first time gets the     *)
(* next ID, counted from 1, for all of its types at once; and an ID, once  *)
(* given, never changes.  Identity classes are not represented: a class    *)
(* is the set of types Identical to one of them.                           *)
(*                                                                         *)
(* One compiler step encounters at most two types (ChangeInterface logs    *)
(* the interface it converts to and the one it converts from), so an       *)
(* abstract step registers the classes of two types, in order; t1 = t2 is  *)
(* a step that meets one type.                                             *)
(***************************************************************************)
EXTENDS GoTypes

VARIABLES ids,     \* ids[t]: the ID of type t, 0 while its class is unmet
          nextID   \* the ID the next new class gets

aVars == <<ids, nextID>>

AState == [ids |-> ids, next |-> nextID]

(* The state after the class of t is encountered in state st.              *)
RegisterClass(st, t) ==
  IF st.ids[t] # 0 THEN st
  ELSE [ids  |-> [s \in Types |-> IF Identical(s, t) THEN st.next ELSE st.ids[s]],
        next |-> st.next + 1]

AInit ==
  /\ ids = [t \in Types |-> 0]
  /\ nextID = 1

(* A step that encounters t1 and then t2.                                  *)
Encounter(t1, t2) ==
  [ids |-> ids', next |-> nextID'] = RegisterClass(RegisterClass(AState, t1), t2)

ANext == \E t1, t2 \in Types : Encounter(t1, t2)

ASpec == AInit /\ [][ANext]_aVars

=============================================================================
