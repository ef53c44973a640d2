------------------------------ MODULE GoTypes ------------------------------
(***************************************************************************)
(* The slice of the front end's type system (go/types) that the Haxe       *)
(* backend queries.  The backend never builds types: it receives           *)
(* types.Type objects from the SSA program and asks go/types about them,   *)
(* so every answer go/types gives is a constant of the model.              *)
(*                                                                         *)
(* Types are type OBJECTS.  Two distinct objects may denote the same type  *)
(* (types.Identical), e.g. two separately built []int; identical types may *)
(* print different String()s (byte and uint8, rune and int32, signatures   *)
(* whose parameter names differ); and two types that are not identical     *)
(* may print the same String(), e.g. two types T declared locally in       *)
(* different functions of package main.                                    *)
(***************************************************************************)
EXTENDS Naturals, FiniteSets

CONSTANTS
  Types,          \* the types.Type objects the compiled program uses
  Ident,          \* types.Identical, as a set of ordered pairs
  Assignable,     \* types.AssignableTo, as a set of ordered pairs <<V, T>>
  InterfaceTypes, \* types whose Underlying() is a *types.Interface
  Str,            \* t.String(): Types -> Names
  Names,          \* the strings t.String() can produce
  HaxeNames,      \* names for which getHaxeClass(name) # "" (package "_x")
  MethodNames,    \* method names
  Methods,        \* types.NewMethodSet(t): Types -> SUBSET MethodNames
  HaxePkgMethods  \* <<t, m>>: method m of t is declared in a "_" package

Identical(a, b) == <<a, b>> \in Ident
AssignableTo(v, t) == <<v, t>> \in Assignable

(* types.Identical is an equivalence relation.                             *)
ASSUME IdentEquivalence ==
  /\ Ident \subseteq Types \X Types
  /\ \A a \in Types : Identical(a, a)
  /\ \A a, b \in Types : Identical(a, b) => Identical(b, a)
  /\ \A a, b, c \in Types : Identical(a, b) /\ Identical(b, c) => Identical(a, c)

(* Go's first assignability rule: a value of type V is assignable to T     *)
(* when V and T are identical; and assignability, interface-ness and the   *)
(* method set do not depend on which of two identical objects is asked.    *)
(* The printed name does: String() is free on an identity class.           *)
ASSUME TypeQueriesRespectIdentity ==
  /\ Assignable \subseteq Types \X Types
  /\ Ident \subseteq Assignable
  /\ InterfaceTypes \subseteq Types
  /\ Str \in [Types -> Names]
  /\ HaxeNames \subseteq Names
  /\ Methods \in [Types -> SUBSET MethodNames]
  /\ HaxePkgMethods \subseteq Types \X MethodNames
  /\ \A a, b \in Types : Identical(a, b) =>
       /\ \A c \in Types : /\ AssignableTo(a, c) = AssignableTo(b, c)
                           /\ AssignableTo(c, a) = AssignableTo(c, b)
       /\ (a \in InterfaceTypes) = (b \in InterfaceTypes)
       /\ Methods[a] = Methods[b]
       /\ \A m \in MethodNames :
            (<<a, m>> \in HaxePkgMethods) = (<<b, m>> \in HaxePkgMethods)

ASSUME TypesFinite == IsFiniteSet(Types)

(* getHaxeClass(t.String()) # "": a named type of a package whose name     *)
(* starts with "_" is a native Haxe class (types.go getHaxeClass).         *)
IsHaxeClass(t) == Str[t] \in HaxeNames

(* Go's answer to the comma-ok type assertion x.(T) when x holds a value   *)
(* of dynamic type D: for a concrete T the types must be identical, for    *)
(* an interface T the dynamic type must implement it.                      *)
GoAssertOk(D, T) ==
  IF T \in InterfaceTypes THEN AssignableTo(D, T) ELSE Identical(D, T)

=============================================================================
