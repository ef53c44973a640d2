-------------------------- MODULE ConversionProofs --------------------------
(***************************************************************************)
(* Proof that every chain of numeric conversions leaves the register with  *)
(* a value of the Haxe type its Go type lowers to: an Int in the 32-bit    *)
(* signed range, a GOint64 as a 64-bit pattern, a Float as a number; for   *)
(* every set of numeric types and every set of float constants, and for    *)
(* every choice the runtime makes where Haxe leaves the result open.       *)
(*                                                                         *)
(* The argument is local to one step: each branch of Convert ends in a     *)
(* reduction modulo 2^w (intTypeCoersion, GOint64.ofInt, GOint64.make), a  *)
(* choice from the destination's range (Math.floor out of range, ofFloat   *)
(* out of range), or a doubling of an integer (a Float in halves).         *)
(***************************************************************************)
EXTENDS Conversion, TLAPS

----------------------------------------------------------------------------
(* The ranges the Haxe types hold are sets of integers.                    *)
LEMMA HaxeValuesInt ==
  ASSUME NEW ht \in {"Int", "GOint64", "Float"}
  PROVE  HaxeValues(ht) \subseteq Int
BY DEF HaxeValues, SignedRange, UnsignedRange

(* Reduction modulo 2^w to w bits, signed or unsigned, gives an integer.   *)
LEMMA WrapBitsInt ==
  ASSUME NEW w \in {Bits8, Bits16, Bits32, Bits64}, NEW signed \in BOOLEAN,
         NEW v \in Int
  PROVE  WrapBits(w, signed, v) \in Int
BY PowerAssumption DEF WrapBits

(* HaxeInt: any integer wrapped into the 32-bit signed range.              *)
LEMMA HaxeIntRange ==
  ASSUME NEW v \in Int
  PROVE  HaxeInt(v) \in SignedRange(Bits32)
<1>. DEFINE P == 2^(Bits32 - 1)  r == v % 2^Bits32
<1>1. P \in Nat \ {0} /\ 2^Bits32 = 2 * P
  BY PowerAssumption
<1>2. r \in 0 .. 2 * P - 1
  BY <1>1
<1>. QED
  BY <1>1, <1>2 DEF HaxeInt, WrapBits, SignedRange

(* A 64-bit pattern: any integer modulo 2^Bits64.                          *)
LEMMA Mod64Range ==
  ASSUME NEW v \in Int
  PROVE  v % 2^Bits64 \in UnsignedRange(Bits64)
<1>1. 2^Bits64 \in Nat \ {0}
  BY PowerAssumption
<1>. QED
  BY <1>1 DEF UnsignedRange

(* Every integer type has one of the four widths.                         *)
LEMMA BitsWidth ==
  ASSUME NEW t \in NumTypes, t # "float64"
  PROVE  Bits(t) \in {Bits8, Bits16, Bits32, Bits64}
<1>1. t \in {"int8", "uint8"} \/ t \in {"int16", "uint16"}
        \/ t \in {"int32", "uint32"} \/ t \in Ints64
  BY NumTypesAssumption DEF SignedInts, UnsignedInts, Ints64
<1>. QED
  BY <1>1 DEF Bits, Ints64

(* Every value of a Go numeric type is an integer (floats in halves).      *)
LEMMA GoRangeInt ==
  ASSUME NEW t \in NumTypes
  PROVE  GoRange(t) \subseteq Int
<1>1. CASE t = "float64"
  BY <1>1, NumTypesAssumption DEF GoRange
<1>2. CASE t # "float64"
  <2>1. 2^(Bits(t) - 1) \in Nat /\ 2^Bits(t) \in Nat
    BY <1>2, BitsWidth, PowerAssumption
  <2>. QED
    BY <1>2, <2>1 DEF GoRange, SignedRange, UnsignedRange
<1>. QED
  BY <1>1, <1>2

(* Which Haxe type each Go numeric type lowers to.                         *)
LEMMA LangTypeCases ==
  ASSUME NEW t \in NumTypes
  PROVE  /\ LangType(t) = "Int"     <=> t \in SignedInts \cup UnsignedInts
         /\ LangType(t) = "GOint64" <=> t \in Ints64
         /\ LangType(t) = "Float"   <=> t = "float64"
BY NumTypesAssumption DEF LangType, SignedInts, UnsignedInts, Ints64

(* Truncation of a float in halves gives an integer.                       *)
LEMMA TruncInt ==
  ASSUME NEW f \in Int
  PROVE  Trunc(f) \in Int
BY DEF Trunc

(* intTypeCoersion gives a Haxe Int for every integer.                     *)
LEMMA IntTypeCoersionRange ==
  ASSUME NEW d \in NumTypes, d # "float64", NEW i \in Int
  PROVE  IntTypeCoersion(d, i) \in SignedRange(Bits32)
<1>1. WrapBits(Bits(d), ~IsUnsigned(d), i) \in Int
  BY BitsWidth, WrapBitsInt
<1>. QED
  BY <1>1, HaxeIntRange DEF IntTypeCoersion

(* The Float a GOint64 or an Int is converted to is an integer of halves.  *)
LEMMA ToFloatInt ==
  ASSUME NEW st \in {"Int", "GOint64"}, NEW s, NEW d, NEW x \in Int
  PROVE  ToFloat(st, s, d, x) \in Int
<1>1. 2^Bits32 \in Nat \ {0} /\ 2^Bits64 \in Nat \ {0}
  BY PowerAssumption
<1>2. CASE st = "GOint64"
  <2>1. ToFloat(st, s, d, x) =
          IF IsUnsigned(s) THEN 2 * x ELSE 2 * WrapBits(Bits64, TRUE, x)
    BY <1>2 DEF ToFloat, GOint64toUFloat, GOint64toFloat
  <2>2. 2 * x \in Int /\ 2 * WrapBits(Bits64, TRUE, x) \in Int
    BY PowerAssumption DEF WrapBits
  <2>. QED
    BY <2>1, <2>2, Zenon
<1>3. CASE st = "Int"
  <2>1. ToFloat(st, s, d, x) =
          IF IsUnsigned(s) THEN 2 * GOint64make(0, x) ELSE 2 * x
    BY <1>3 DEF ToFloat, GOint64toUFloat
  <2>2. GOint64make(0, x) \in Int
    BY <1>1 DEF GOint64make
  <2>. QED
    BY <2>1, <2>2 DEF IsUnsigned
<1>. QED
  BY <1>2, <1>3

(* A conversion to d of a value of s's Haxe type leaves a value of d's.    *)
LEMMA ConvertResultsType ==
  ASSUME NEW s \in NumTypes, NEW d \in NumTypes, d # s,
         NEW x \in HaxeValues(LangType(s))
  PROVE  ConvertResults(s, d, x) \subseteq HaxeValues(LangType(d))
<1>. DEFINE srcTyp == LangType(s)  langType == LangType(d)
<1>0. /\ srcTyp \in {"Int", "GOint64", "Float"}
      /\ langType \in {"Int", "GOint64", "Float"}
      /\ x \in Int
  BY LangTypeCases, HaxeValuesInt, NumTypesAssumption
     DEF SignedInts, UnsignedInts, Ints64
<1>1. CASE srcTyp = langType /\ langType # "Float"
  BY <1>1 DEF ConvertResults
<1>2. CASE ~(srcTyp = langType /\ langType # "Float") /\ langType = "Int"
  <2>1. ToInt(srcTyp, x) \subseteq Int
    <3>1. CASE srcTyp = "GOint64"
      BY <1>0, <3>1, HaxeIntRange DEF ToInt, GOint64toInt, SignedRange
    <3>2. CASE srcTyp = "Float"
      <4>1. Trunc(x) \in Int
        BY <1>0, TruncInt
      <4>. QED
        BY <3>2, <4>1 DEF ToInt, FloorCeil, SignedRange
    <3>. QED
      BY <1>0, <1>2, <3>1, <3>2 DEF ToInt
  <2>2. d # "float64"
    BY <1>2, LangTypeCases
  <2>3. ConvertResults(s, d, x) = {IntTypeCoersion(d, i) : i \in ToInt(srcTyp, x)}
    BY <1>2 DEF ConvertResults
  <2>. QED
    BY <1>2, <2>1, <2>2, <2>3, IntTypeCoersionRange DEF HaxeValues
<1>3. CASE ~(srcTyp = langType /\ langType # "Float") /\ langType = "GOint64"
  <2>0. HaxeValues(langType) = UnsignedRange(Bits64)
    BY <1>3 DEF HaxeValues
  <2>1. ConvertResults(s, d, x) = ToGOint64(srcTyp, d, x)
    BY <1>3 DEF ConvertResults
  <2>2. CASE srcTyp = "Int"
    <3>1. x % 2^Bits64 \in UnsignedRange(Bits64)
      BY <1>0, Mod64Range
    <3>. QED
      BY <2>0, <2>1, <2>2, <3>1 DEF ToGOint64, GOint64ofInt
  <2>3. CASE srcTyp = "Float"
    <3>1. Trunc(x) \in Int
      BY <1>0, TruncInt
    <3>2. Trunc(x) % 2^Bits64 \in UnsignedRange(Bits64)
      BY <3>1, Mod64Range
    <3>3. /\ GOint64ofFloat(x) \subseteq UnsignedRange(Bits64)
          /\ GOint64ofUFloat(x) \subseteq UnsignedRange(Bits64)
      BY <3>2 DEF GOint64ofFloat, GOint64ofUFloat
    <3>. QED
      BY <2>0, <2>1, <2>3, <3>3 DEF ToGOint64
  <2>. QED
    BY <1>0, <1>3, <2>2, <2>3
<1>4. CASE ~(srcTyp = langType /\ langType # "Float") /\ langType = "Float"
  <2>1. srcTyp # "Float"
    BY <1>4, LangTypeCases
  <2>2. ConvertResults(s, d, x) = {ToFloat(srcTyp, s, d, x)}
    BY <1>4 DEF ConvertResults
  <2>6. ToFloat(srcTyp, s, d, x) \in Int
    BY <1>0, <2>1, ToFloatInt
  <2>. QED
    BY <1>4, <2>2, <2>6 DEF HaxeValues
<1>. QED
  BY <1>0, <1>1, <1>2, <1>3, <1>4

----------------------------------------------------------------------------
(* The Haxe form of a Go value is a value of the Haxe type.                *)
LEMMA ReprType ==
  ASSUME NEW t \in NumTypes, NEW v \in GoRange(t)
  PROVE  Repr(t, v) \in HaxeValues(LangType(t))
<1>1. v \in Int
  BY GoRangeInt
<1>2. CASE LangType(t) = "Int"
  BY <1>1, <1>2, HaxeIntRange DEF Repr, HaxeValues
<1>3. CASE LangType(t) = "GOint64"
  BY <1>1, <1>3, Mod64Range DEF Repr, HaxeValues
<1>4. CASE LangType(t) = "Float"
  BY <1>1, <1>4 DEF Repr, HaxeValues
<1>. QED
  BY <1>2, <1>3, <1>4, LangTypeCases, NumTypesAssumption
     DEF SignedInts, UnsignedInts, Ints64

LEMMA InitTypeOK == Init => TypeOK
BY ReprType DEF Init, TypeOK

LEMMA NextTypeOK == TypeOK /\ [Next]_vars => TypeOK'
<1>. SUFFICES ASSUME TypeOK, [Next]_vars PROVE TypeOK'
  OBVIOUS
<1>1. ASSUME NEW d \in NumTypes, ConvertStep(d) PROVE TypeOK'
  BY <1>1, ConvertResultsType DEF ConvertStep, TypeOK
<1>2. CASE UNCHANGED vars
  BY <1>2 DEF TypeOK, vars
<1>. QED
  BY <1>1, <1>2 DEF Next

(* After any chain of Convert instructions the register holds a value of   *)
(* the Haxe type its Go type lowers to (types.go Convert, lines 194-296):  *)
(* no branch leaves an Int outside 32 bits or a GOint64 outside 64, for    *)
(* every set of numeric types, every float constant and every choice the   *)
(* runtime makes where Haxe leaves the result open.                        *)
THEOREM ConversionTypeCorrect == Spec => []TypeOK
BY InitTypeOK, NextTypeOK, PTL DEF Spec

=============================================================================
