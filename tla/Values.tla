------------------------------- MODULE Values -------------------------------
(***************************************************************************)
(* The runtime value of a watchable (WatchableValue, src/datasource.rs),   *)
(* how a client's JSON becomes one (parse_write_value, src/server.rs) and  *)
(* how one becomes JSON again (to_json).                                   *)
(*                                                                         *)
(* An f64 is an integer here, or not finite: the conversions tell only     *)
(* that apart, and the rounding of large integers is left out.  The        *)
(* integers of type i64 are MinInt..MaxInt.                                *)
(***************************************************************************)
EXTENDS Integers

CONSTANT MaxInt

ASSUME RangeAssumption == MaxInt \in Nat

MinInt == -MaxInt - 1

WatchableValue == [kind : {"Float", "NonFinite", "Int", "Uint", "Bool"}, v : Int]

Float(x) == [kind |-> "Float", v |-> x]
NonFinite == [kind |-> "NonFinite", v |-> 0]    \* a Float that is NaN or infinite
SignedInt(n) == [kind |-> "Int", v |-> n]
Uint(n) == [kind |-> "Uint", v |-> n]
Bool(b) == [kind |-> "Bool", v |-> b]

(* JSON values, by what parse_write_value looks at.  A "text" is a string; *)
(* it may spell a truth value, a number, or neither.                       *)
JsonType == {"bool", "integer", "fraction", "text_bool", "text_number",
             "text_nonfinite", "text", "null", "array", "object"}
JsonValue == [type : JsonType, v : Int]

Unparsed == [kind |-> "Err", v |-> 0]

(* An integer that fits in no i64 is read as a float, a string as a truth  *)
(* value or as a float, even one that spells an integer.                   *)
parse_write_value(j) ==
    CASE j.type \in {"bool", "text_bool"} -> Bool(j.v)
      [] j.type = "integer" /\ j.v \in MinInt..MaxInt -> SignedInt(j.v)
      [] j.type \in {"integer", "fraction", "text_number"} -> Float(j.v)
      [] j.type = "text_nonfinite" -> NonFinite
      [] OTHER -> Unparsed

(* JSON has no number for a float that is not finite.                      *)
to_json(value) ==
    CASE value.kind = "Bool" -> [type |-> "bool", v |-> value.v]
      [] value.kind = "Float" -> [type |-> "fraction", v |-> value.v]
      [] value.kind = "NonFinite" -> [type |-> "null", v |-> 0]
      [] OTHER -> [type |-> "integer", v |-> value.v]

(* Of the data types, those of the watchables that the two datasources of  *)
(* the crate define; the kinds of value that a watchable of the type       *)
(* carries, and the type that such values have as JSON.                    *)
DataType == {"float64", "sint64", "uint32"}

KindsOf(dtype) ==
    CASE dtype = "float64" -> {"Float", "NonFinite"}
      [] dtype = "sint64" -> {"Int"}
      [] dtype = "uint32" -> {"Uint"}

JsonTypeOf(dtype) == IF dtype = "float64" THEN "fraction" ELSE "integer"

=============================================================================
