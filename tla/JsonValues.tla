----------------------------- MODULE JsonValues -----------------------------
(***************************************************************************)
(* The values of JSON, as jslibs/scriptlets/src/helpers/jsonPrune.ts tells *)
(* them apart: [is, of], "object" and "array" with the values under their  *)
(* keys (those of an array are strings too), "null" or "plain" with        *)
(* nothing.                                                                *)
(***************************************************************************)

Plain == [is |-> "plain", of |-> <<>>]
Null == [is |-> "null", of |-> <<>>]
Object(of) == [is |-> "object", of |-> of]
Array(of) == [is |-> "array", of |-> of]

Nested(v) == v.is \in {"object", "array"}

=============================================================================
