----------------------------- MODULE Conversion -----------------------------
(***************************************************************************)
(* The numeric part of the Conversion & Coercion Engine                    *)
(* (src/haxe/types.go: Convert, with the numeric kinds of LangType).       *)
(* Convert picks the Haxe code of a Go conversion from the Haxe types the  *)
(* source and the destination lower to: Int (a 32-bit Haxe Int holding     *)
(* every Go integer type up to 32 bits), GOint64 (the runtime's emulated   *)
(* 64-bit integer, a pair of Ints) and Float.  The model follows one       *)
(* register through a chain of conversions and keeps, beside the value    *)
(* the generated Haxe code computes (hx), the value Go gives (go).         *)
(*                                                                         *)
(* Widths are scaled: Bits32 is the width of a Haxe Int, Bits8 < Bits16 <  *)
(* Bits32 those of the narrow Go types, and GOint64 is two Ints wide.      *)
(* A float is an integer count of halves (f stands for f/2), enough to     *)
(* tell truncation from rounding; float precision is not modelled.         *)
(*                                                                         *)
(* The runtime operations (GOint64.*, Math.floor) and intTypeCoersion are  *)
(* not under src/; they are modelled from the spec (section 4.3).          *)
(***************************************************************************)
EXTENDS Integers

CONSTANTS Bits8, Bits16, Bits32,  \* widths of int8, int16, int32 and Int
          NumTypes,               \* the Go numeric types in the program
          FloatValues             \* the float64 constants, in halves

ASSUME WidthAssumption ==
  /\ Bits8 \in Nat \ {0}
  /\ Bits8 < Bits16 /\ Bits16 < Bits32

Bits64 == 2 * Bits32

(* 2^w = 2 * 2^(w-1) > 0 for the four widths: true of every positive       *)
(* width; stated because the provers know no facts about ^ with a symbolic *)
(* exponent (TLC evaluates it on every run).                               *)
ASSUME PowerAssumption ==
  \A w \in {Bits8, Bits16, Bits32, Bits64} :
    /\ 2^(w - 1) \in Nat \ {0}
    /\ 2^w = 2 * 2^(w - 1)

SignedInts   == {"int8", "int16", "int32"}
UnsignedInts == {"uint8", "uint16", "uint32"}
Ints64       == {"int64", "uint64"}

ASSUME NumTypesAssumption ==
  /\ NumTypes \subseteq SignedInts \cup UnsignedInts \cup Ints64 \cup {"float64"}
  /\ FloatValues \subseteq Int

(* types.Basic Info() & types.IsUnsigned                                   *)
IsUnsigned(t) == t \in UnsignedInts \cup {"uint64"}

Bits(t) ==
  CASE t \in {"int8", "uint8"}   -> Bits8
    [] t \in {"int16", "uint16"} -> Bits16
    [] t \in {"int32", "uint32"} -> Bits32
    [] t \in Ints64              -> Bits64

(* LangType(t, false) for the numeric basic kinds.                         *)
LangType(t) ==
  CASE t \in SignedInts \cup UnsignedInts -> "Int"
    [] t \in Ints64                        -> "GOint64"
    [] t = "float64"                       -> "Float"

(* v reduced modulo 2^w into the signed or the unsigned range of w bits.   *)
WrapBits(w, signed, v) ==
  LET r == v % 2^w
  IN  IF signed /\ r >= 2^(w - 1) THEN r - 2^w ELSE r

SignedRange(w)   == -(2^(w - 1)) .. 2^(w - 1) - 1
UnsignedRange(w) == 0 .. 2^w - 1

(* The values of Go type t (floats: the constants the program has).        *)
GoRange(t) ==
  IF t = "float64" THEN FloatValues
  ELSE IF IsUnsigned(t) THEN UnsignedRange(Bits(t)) ELSE SignedRange(Bits(t))

(* Truncation toward zero of a float given in halves.                      *)
Trunc(f) == IF f >= 0 THEN f \div 2 ELSE -((-f) \div 2)

HaxeInt(v) == WrapBits(Bits32, TRUE, v)

(* How the Haxe code holds the Go value v of type t: an Int holds the      *)
(* 32-bit pattern (so a uint32 at or above 2^31 is a negative Int, which   *)
(* GOint64.make(0, v) at line 294 undoes), a GOint64 the 64-bit pattern.   *)
Repr(t, v) ==
  CASE LangType(t) = "Int"     -> HaxeInt(v)
    [] LangType(t) = "GOint64" -> v % 2^Bits64
    [] LangType(t) = "Float"   -> v

(* The values of each Haxe type.                                           *)
HaxeValues(ht) ==
  CASE ht = "Int"     -> SignedRange(Bits32)
    [] ht = "GOint64" -> UnsignedRange(Bits64)
    [] ht = "Float"   -> Int

----------------------------------------------------------------------------
(* The runtime, modelled from the spec.                                    *)

(* intTypeCoersion(destType, v): masking or sign extension to the width    *)
(* and signedness of destType, as a Haxe Int.                              *)
IntTypeCoersion(t, v) == HaxeInt(WrapBits(Bits(t), ~IsUnsigned(t), v))

GOint64toInt(x)     == HaxeInt(x)
GOint64ofInt(i)     == i % 2^Bits64
GOint64make(hi, lo) == (hi * 2^Bits32 + (lo % 2^Bits32)) % 2^Bits64
GOint64toFloat(x)   == 2 * WrapBits(Bits64, TRUE, x)
GOint64toUFloat(x)  == 2 * x

(* GOint64.ofFloat and ofUFloat: truncation, unspecified out of range.    *)
GOint64ofFloat(f) ==
  IF Trunc(f) \in SignedRange(Bits64) THEN {Trunc(f) % 2^Bits64}
  ELSE UnsignedRange(Bits64)
GOint64ofUFloat(f) ==
  IF Trunc(f) \in UnsignedRange(Bits64) THEN {Trunc(f)}
  ELSE UnsignedRange(Bits64)

(* _f>=0 ? Math.floor(_f) : Math.ceil(_f): Haxe leaves the result          *)
(* unspecified outside the Int range.                                      *)
FloorCeil(f) ==
  IF Trunc(f) \in SignedRange(Bits32) THEN {Trunc(f)} ELSE SignedRange(Bits32)

----------------------------------------------------------------------------
(* Convert, by destination Haxe type.                                      *)

(* case "Int": the source reduced to an Int (vInt).                        *)
ToInt(srcTyp, x) ==
  CASE srcTyp = "GOint64" -> {GOint64toInt(x)}
    [] srcTyp = "Float"   -> FloorCeil(x)
    [] OTHER              -> {x}

(* Mutant: an Int widened by plain assignment, as for a Dynamic source.    *)
ToGOint64Assign(srcTyp, d, x) ==
  CASE srcTyp = "Int"   -> {x}
    [] srcTyp = "Float" -> IF IsUnsigned(d) THEN GOint64ofUFloat(x)
                           ELSE GOint64ofFloat(x)

(* case "GOint64": ofInt for an Int; ofUFloat or ofFloat for a Float by    *)
(* the signedness of the destination.                                      *)
ToGOint64(srcTyp, d, x) ==
  CASE srcTyp = "Int"   -> {GOint64ofInt(x)}
    [] srcTyp = "Float" -> IF IsUnsigned(d) THEN GOint64ofUFloat(x)
                           ELSE GOint64ofFloat(x)

(* Mutant: a GOint64 source read with the destination's signedness.        *)
ToFloatDestSign(srcTyp, s, d, x) ==
  CASE srcTyp = "GOint64" -> IF IsUnsigned(d) THEN GOint64toUFloat(x)
                             ELSE GOint64toFloat(x)
    [] srcTyp = "Int"     -> IF IsUnsigned(s) THEN GOint64toUFloat(GOint64make(0, x))
                             ELSE 2 * x

(* case "Float": by the signedness of the source.                          *)
ToFloat(srcTyp, s, d, x) ==
  CASE srcTyp = "GOint64" -> IF IsUnsigned(s) THEN GOint64toUFloat(x)
                             ELSE GOint64toFloat(x)
    [] srcTyp = "Int"     -> IF IsUnsigned(s) THEN GOint64toUFloat(GOint64make(0, x))
                             ELSE 2 * x

(* Convert(register, langType, destType, v): the values the emitted code   *)
(* can leave in the register, for a source of type s holding x.            *)
ConvertResults(s, d, x) ==
  LET srcTyp   == LangType(s)
      langType == LangType(d)
  IN  IF srcTyp = langType /\ langType # "Float" THEN {x}
      ELSE CASE langType = "Int"     -> {IntTypeCoersion(d, i) : i \in ToInt(srcTyp, x)}
             [] langType = "GOint64" -> ToGOint64(srcTyp, d, x)
             [] langType = "Float"   -> {ToFloat(srcTyp, s, d, x)}

(* Go's conversion of v from s to d (the reference): integers wrap, an     *)
(* integer is exact as a float, a float truncates toward zero and out of   *)
(* range gives an implementation-dependent value.                          *)
GoConvert(s, d, v) ==
  CASE s # "float64" /\ d # "float64" -> {WrapBits(Bits(d), ~IsUnsigned(d), v)}
    [] d = "float64"                  -> {2 * v}
    [] OTHER -> IF Trunc(v) \in GoRange(d) THEN {Trunc(v)} ELSE GoRange(d)

----------------------------------------------------------------------------
VARIABLES typ, go, hx

vars == <<typ, go, hx>>

Init ==
  /\ typ \in NumTypes
  /\ go \in GoRange(typ)
  /\ hx = Repr(typ, go)

(* One SSA Convert instruction from the register to a new one of type d.   *)
(* The Go side takes the value matching the code's where Go leaves the     *)
(* result open.                                                            *)
ConvertStep(d) ==
  /\ d # typ
  /\ \E x \in ConvertResults(typ, d, hx) :
       LET G == GoConvert(typ, d, go)
       IN  /\ hx' = x
           /\ go' = IF \E g \in G : Repr(d, g) = x
                    THEN CHOOSE g \in G : Repr(d, g) = x
                    ELSE CHOOSE g \in G : TRUE
  /\ typ' = d

Next == \E d \in NumTypes : ConvertStep(d)

Spec == Init /\ [][Next]_vars

----------------------------------------------------------------------------
TypeOK ==
  /\ typ \in NumTypes
  /\ hx \in HaxeValues(LangType(typ))

(* The register always holds the Haxe form of the value Go gives after the *)
(* same chain of conversions: widening, narrowing and signedness changes   *)
(* through Int, GOint64 and Float reproduce Go's results.                  *)
ValueCorrect == hx = Repr(typ, go)

(* Spec 4.3 and 8: float64 to a native integer truncates toward zero and   *)
(* then wraps to the destination's width, for every float (1.0e20 too).    *)
FloatNarrowingWraps ==
  [][typ = "float64" /\ typ' # "float64" /\ LangType(typ') = "Int" =>
       hx' = Repr(typ', WrapBits(Bits(typ'), ~IsUnsigned(typ'), Trunc(go)))]_vars

=============================================================================
