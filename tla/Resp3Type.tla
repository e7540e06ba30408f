----------------------------- MODULE Resp3Type ------------------------------
(* The types of RESP3 values that the parser and the adapters tell apart   *)
(* (resp3/type.hpp).                                                       *)

Types == {"array", "push", "set", "map", "attribute"}

is_aggregate(t) == t \in Types

\* Variant: a map counts as many elements as it has pairs.
element_multiplicity_one(t) == 1
element_multiplicity(t) == IF t \in {"map", "attribute"} THEN 2 ELSE 1

\* The types that a result keeps instead of a value.
is_error(t) == t \in {"simple_error", "blob_error"}
=============================================================================
