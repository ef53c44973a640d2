--------------------------- MODULE MC_Conversion ---------------------------
(***************************************************************************)
(* Widths for TLC: a Haxe Int of 4 bits, int16 of 3, int8 of 2, GOint64   *)
(* of 8.  The floats run in halves past both ends of the uint64 range, so  *)
(* truncation, negative values and out-of-range values all occur.          *)
(***************************************************************************)
EXTENDS Conversion

MCFloatValues == -(2^(2 * 4 + 1) + 6) .. 2^(2 * 4 + 1) + 6

(* The types whose conversions the code handles as Go does.                *)
MCCoreTypes == {"int32", "int64", "uint64", "float64"}

(* Integer types that all lower to Int.                                    *)
MCNarrowTypes == {"int32", "int8", "uint8", "int16"}

(* An unsigned 32-bit type beside the emulated 64-bit types.               *)
MCWidenTypes == {"uint32", "int64", "uint64"}

(* A float beside a 32-bit integer.                                         *)
MCFloatTypes == {"float64", "int32"}
=============================================================================
