------------------------------ MODULE Adapters ------------------------------
(***************************************************************************)
(* The adapters (adapter/detail/adapters.hpp, result_traits.hpp): each     *)
(* takes the nodes of a reply one by one and fills a result.               *)
(*                                                                         *)
(* A type T of result says which class impl_map and result_traits choose   *)
(* (impl), what its elements are (of), whether it is a std::optional       *)
(* (opt), the size of an array and the elements of a tuple.  The state of  *)
(* an adapter is a record with the result, the members of the adapter and  *)
(* the error code of the last call.  A string is a sequence of the pieces  *)
(* it was put together from.  A number is a string that from_chars reads.  *)
(***************************************************************************)
EXTENDS Integers, Sequences, Resp3Type

fail(s, e) == [s EXCEPT !.ec = e]

\* Result{} of the wrapper's constructor, and T{} of an optional.
empty_value(T) ==
    CASE T.impl = "array" -> [k \in 1 .. T.size |-> << >>]
      [] T.impl = "set"   -> {}
      [] OTHER            -> << >>

\* boost_redis_from_bulk: only a number can be refused.  The error ends the
\* exec, whatever default or indeterminate element it leaves in the result.
from_bulk(T, s, nd, value) ==
    IF T.of = "number" /\ nd.type # "number" THEN fail(s, "not_a_number")
    ELSE [s EXCEPT !.value = value]

-----------------------------------------------------------------------------
(* The classes of impl_map.                                                *)

\* A string is appended to, a number is replaced.
simple_impl(T, s, nd) ==
    IF is_aggregate(nd.type) THEN fail(s, "expects_resp3_simple_type")
    ELSE from_bulk(T, s, nd, IF T.of = "number" THEN nd.value ELSE s.value \o nd.value)

set_impl(T, s, nd) ==
    IF is_aggregate(nd.type)
    THEN IF nd.type = "set" THEN s ELSE fail(s, "expects_resp3_set")
    ELSE IF nd.depth < 1 THEN fail(s, "expects_resp3_set")
    ELSE from_bulk(T, s, nd, s.value \cup {nd.value})

\* A key is inserted with an empty value, which the next element replaces.
map_impl(T, s, nd) ==
    IF is_aggregate(nd.type)
    THEN IF element_multiplicity(nd.type) = 2 THEN s ELSE fail(s, "expects_resp3_map")
    ELSE IF nd.depth < 1 THEN fail(s, "expects_resp3_map")
    ELSE LET r == [s EXCEPT !.on_key = ~s.on_key]
         IN  IF s.on_key
             THEN from_bulk(T, r, nd, Append(s.value, <<nd.value, << >>>>))
             ELSE from_bulk(T, r, nd, [s.value EXCEPT ![Len(s.value)][2] = nd.value])

vector_impl(T, s, nd) ==
    IF is_aggregate(nd.type) THEN s
    ELSE from_bulk(T, s, nd, Append(s.value, nd.value))

\* i is i_: the position of the next element, -1 before the aggregate.
array_impl(T, s, nd) ==
    LET r == [s EXCEPT !.i = @ + 1]
    IN  IF is_aggregate(nd.type)
        THEN IF s.i # -1 THEN fail(s, "nested_aggregate_not_supported")
             ELSE IF T.size # nd.size * element_multiplicity(nd.type)
             THEN fail(s, "incompatible_size")
             ELSE r
        ELSE IF s.i = -1 THEN fail(s, "expects_resp3_aggregate")
        ELSE IF s.i >= T.size THEN fail(s, "throws")   \* std::array::at
        ELSE from_bulk(T, r, nd, [s.value EXCEPT ![s.i + 1] = nd.value])

list_impl(T, s, nd) ==
    IF is_aggregate(nd.type) THEN s
    ELSE IF nd.depth < 1 THEN fail(s, "expects_resp3_aggregate")
    ELSE from_bulk(T, s, nd, Append(s.value, nd.value))

impl_map(T, s, nd) ==
    CASE T.impl = "simple" -> simple_impl(T, s, nd)
      [] T.impl = "set"    -> set_impl(T, s, nd)
      [] T.impl = "map"    -> map_impl(T, s, nd)
      [] T.impl = "vector" -> vector_impl(T, s, nd)
      [] T.impl = "array"  -> array_impl(T, s, nd)
      [] T.impl = "list"   -> list_impl(T, s, nd)

-----------------------------------------------------------------------------
(* What is around them.                                                    *)

\* Variant: an element that follows an error is stored.
wrapper_not_sticky(T, s, nd) ==
    IF is_error(nd.type) \/ (nd.type = "null" /\ ~T.opt)
    THEN [s EXCEPT !.error = nd.type]
    ELSE IF nd.type = "null" THEN s
    ELSE impl_map(T, [s EXCEPT !.some = TRUE, !.error = "none"], nd)

\* wrapper<result<T>> and wrapper<result<std::optional<T>>>: the first error
\* replaces the result; null is an error, or leaves an optional as it is.
wrapper(T, s, nd) ==
    IF s.error # "none" THEN s
    ELSE IF is_error(nd.type) \/ (nd.type = "null" /\ ~T.opt)
    THEN [s EXCEPT !.error = nd.type]
    ELSE IF nd.type = "null" THEN s
    ELSE impl_map(T, [s EXCEPT !.some = TRUE], nd)

\* value() of a result that holds an error throws.
general_aggregate(s, nd) ==
    IF is_error(nd.type) THEN [s EXCEPT !.error = nd.type, !.value = << >>]
    ELSE IF s.error # "none" THEN fail(s, "throws")
    ELSE [s EXCEPT !.value = Append(@, nd)]

general_simple(s, nd) ==
    IF is_error(nd.type) THEN [s EXCEPT !.error = nd.type, !.value = << >>]
    ELSE IF s.error # "none" THEN fail(s, "throws")
    ELSE [s EXCEPT !.value = <<nd>>]

ignore(s, nd) ==
    CASE nd.type = "simple_error" -> fail(s, "resp3_simple_error")
      [] nd.type = "blob_error"   -> fail(s, "resp3_blob_error")
      [] nd.type = "null"         -> fail(s, "resp3_null")
      [] OTHER                    -> s

\* internal_adapt: the adapter that result_traits chooses for one result.
adapt_one(T, s, nd) ==
    CASE T.impl = "node"   -> general_simple(s, nd)
      [] T.impl = "nodes"  -> general_aggregate(s, nd)
      [] T.impl = "ignore" -> ignore(s, nd)
      [] OTHER             -> wrapper(T, s, nd)

\* Variant: the elements of a map are counted once.
count_single(s, nd) ==
    IF nd.depth = 1
    THEN IF is_aggregate(nd.type) THEN [s EXCEPT !.aggregate_size = nd.size]
         ELSE [s EXCEPT !.i = @ + 1]
    ELSE [s EXCEPT !.aggregate_size = @ - 1,
                   !.i = IF s.aggregate_size = 1 THEN @ + 1 ELSE @]

\* static_aggregate_adapter::count: the adapter of the next node.  The counter
\* is unsigned; below zero it is as far from zero as no reply reaches.
count(s, nd) ==
    IF nd.depth = 1
    THEN IF is_aggregate(nd.type)
         THEN [s EXCEPT !.aggregate_size = element_multiplicity(nd.type) * nd.size]
         ELSE [s EXCEPT !.i = @ + 1]
    ELSE [s EXCEPT !.aggregate_size = @ - 1,
                   !.i = IF s.aggregate_size = 1 THEN @ + 1 ELSE @]

\* A tuple: the elements of the reply go to one adapter after the other.  An
\* index past the last adapter is undefined behaviour.
static_aggregate_adapter(T, s, nd) ==
    IF nd.depth = 0
    THEN IF nd.size * element_multiplicity(nd.type) # Len(T.elems)
         THEN fail(s, "incompatible_size") ELSE s
    ELSE IF s.i > Len(T.elems) THEN fail(s, "undefined")
    ELSE LET e == adapt_one(T.elems[s.i], s.elems[s.i], nd)
         IN  count([s EXCEPT !.elems[s.i] = e, !.ec = e.ec], nd)

\* The constructors, on a result that has not been used.
adapt_new(T) ==
    [value |-> empty_value(T), some |-> ~T.opt, error |-> "none",
     on_key |-> TRUE, i |-> -1, ec |-> "none"]

result_traits_adapt(T) ==
    IF T.impl # "tuple" THEN adapt_new(T)
    ELSE [elems |-> [k \in DOMAIN T.elems |-> adapt_new(T.elems[k])],
          i |-> 1, aggregate_size |-> 0, ec |-> "none"]

adapter_call(T, s, nd) ==
    IF T.impl = "tuple" THEN static_aggregate_adapter(T, s, nd) ELSE adapt_one(T, s, nd)
=============================================================================
