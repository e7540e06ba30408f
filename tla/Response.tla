------------------------------ MODULE Response ------------------------------
(***************************************************************************)
(* One async_exec, from the request to the response: the user puts the     *)
(* request together, the server answers its commands, and the nodes that   *)
(* the parser finds are handed to the adapters of the response             *)
(* (adapter/detail/response_traits.hpp, response.hpp, resp3/parser.hpp,    *)
(* on_read of connection_base.hpp).  Composes Request, Parser and          *)
(* Adapters.  Connection says which request a message belongs to; here     *)
(* there is one, or the response of async_receive, which takes pushes      *)
(* while the user consumes them.                                           *)
(***************************************************************************)
EXTENDS Request, Adapters, FiniteSets, FiniteSetsExt

CONSTANTS
    max_embedded_depth, Lengths, StreamLevels, Unlimited,   \* of Parser
    Leaves,         \* types of the leaves that the server sends
    MaxNodes,       \* bound: nodes of all replies, by the number of responses
    Pushes          \* bound: messages that async_receive is told of

VARIABLES
    depth, sizes, bulk, consumed, error, streaming, last,   \* of Parser
    phase,      \* of the exec: building, reading, done, failed
    resp,       \* kind of the response, and the types of its elements
    adapters,   \* their adapters and results
    missing,    \* expected_responses_ of req_info
    msgs,       \* history: the nodes of each message
    taken       \* messages taken by consume_one

parser_vars == <<depth, sizes, bulk, consumed, error, streaming, last>>
response_vars == <<phase, resp, adapters, missing, msgs, taken>>
vars == <<request_vars, parser_vars, response_vars>>

P == INSTANCE Parser

NoResponse == [kind |-> "none", types |-> << >>]
Nodes == [impl |-> "nodes", of |-> "text", opt |-> FALSE]
Ignored == [impl |-> "ignore", of |-> "text", opt |-> FALSE]

\* connection_base::set_receive_response, with a generic_response.
receiving ==
    /\ phase = "reading" /\ missing = Pushes /\ msgs = <<<< >>>>
    /\ resp = [kind |-> "receive", types |-> <<Nodes>>]
    /\ adapters = <<result_traits_adapt(Nodes)>>

building ==
    /\ phase = "building" /\ missing = 0 /\ msgs = << >>
    /\ resp = NoResponse /\ adapters = << >>

Init ==
    /\ RequestInit /\ P!Init /\ taken = 0
    /\ building \/ receiving

-----------------------------------------------------------------------------
(* The response: boost_redis_adapt and async_exec.                         *)

\* A response has one element for each command that is answered.
types_of(calls) ==
    LET answered == SelectSeq(calls, LAMBDA c : ~has_response(c.cmd))
    IN  [k \in DOMAIN answered |-> answered[k].type]

\* static_adapter, vector_adapter and ignore_adapter.
response_traits(kind) ==
    CASE kind = "static" -> types_of(pushed)
      [] kind = "generic" -> <<Nodes>>
      [] kind = "ignore" -> <<Ignored>>

get_supported_response_size(r) ==
    IF r.kind = "static" THEN Len(r.types) ELSE expected_responses

\* A request that expects no response completes when it has been written.
async_exec(kind) ==
    /\ phase = "building" /\ pushed # << >>
    /\ LET types == response_traits(kind)
       IN  /\ resp' = [kind |-> kind, types |-> types]
           /\ adapters' = [k \in DOMAIN types |-> result_traits_adapt(types[k])]
    /\ expected_responses <= get_supported_response_size(resp')
    /\ missing' = expected_responses
    /\ IF expected_responses = 0 THEN phase' = "done" /\ msgs' = << >>
       ELSE phase' = "reading" /\ msgs' = <<<< >>>>
    /\ UNCHANGED <<request_vars, parser_vars, taken>>

build ==
    /\ phase = "building"
    /\ RequestNext
    /\ UNCHANGED <<parser_vars, response_vars>>

-----------------------------------------------------------------------------
(* resp3::parse: a node from consume, then the adapter.                    *)

\* The adapter of req_info: the responses received are the index.
adapter_index == IF resp.kind = "static" THEN (expected_responses - missing) + 1 ELSE 1

\* bound: a message is not begun that would not fit.
nodes_read == FoldLeft(LAMBDA n, m : n + Len(m), 0, msgs)

adapter(nd) ==
    LET i == adapter_index
        s == adapter_call(resp.types[i], adapters[i], nd)
    IN  /\ adapters' = [adapters EXCEPT ![i] = s]
        /\ phase' = IF s.ec = "none" THEN phase ELSE "failed"
        /\ msgs' = [msgs EXCEPT ![Len(msgs)] = Append(@, nd)]
        /\ nodes_read + 1 + P!outstanding' <= MaxNodes[Max({expected_responses, 1})]
        /\ UNCHANGED <<request_vars, resp, missing, taken>>

\* The value of a node is its position, which no other node has.
value == <<nodes_read + 1>>
node(t, n, d, v) == [type |-> t, size |-> n, depth |-> d, value |-> v]

read_simple(t) ==
    /\ phase = "reading" /\ P!consume_simple
    /\ adapter(node(t, 1, depth, value))

read_header ==
    /\ phase = "reading" /\ P!consume_bulk_header
    /\ UNCHANGED <<request_vars, response_vars>>

read_bulk(t) ==
    /\ phase = "reading" /\ P!consume_bulk
    /\ t = "streamed_string_part" <=> streaming
    /\ adapter(node(t, 1, depth, value))

\* The server streams a string only to a result that can put it together again.
read_streamed_string ==
    /\ phase = "reading" /\ P!consume_streamed_string
    /\ resp.types[adapter_index].impl \in {"simple", "node", "nodes", "ignore"}
    /\ adapter(node("streamed_string", 0, depth', << >>))

read_last_part ==
    /\ phase = "reading" /\ P!consume_last_part
    /\ adapter(node("streamed_string_part", 1, depth, << >>))

\* A message that is nested too deeply is given up.
read_aggregate(t, l) ==
    /\ phase = "reading" /\ P!consume_aggregate(t, l)
    /\ IF error' THEN phase' = "failed" /\ UNCHANGED <<request_vars, resp, adapters, missing, msgs, taken>>
       ELSE adapter(node(t, l, depth, << >>))

\* on_read: the message is complete, and so may be the request.
read_done ==
    /\ phase = "reading" /\ P!done
    /\ P!reset
    /\ missing' = missing - 1
    /\ phase' = IF missing = 1 THEN "done" ELSE phase
    /\ msgs' = IF missing = 1 THEN msgs ELSE Append(msgs, << >>)
    /\ UNCHANGED <<request_vars, resp, adapters, taken>>

\* The connection is lost: an exec fails; the next session reads pushes into
\* the response that async_receive has been using.
connection_lost ==
    /\ phase = "reading" /\ msgs[Len(msgs)] # << >>
    /\ P!reader_op_exits
    /\ phase' = IF resp.kind = "receive" THEN "lost" ELSE "failed"
    /\ UNCHANGED <<request_vars, resp, adapters, missing, msgs, taken>>

next_session ==
    /\ phase = "lost"
    /\ P!reset
    /\ phase' = "reading" /\ msgs' = Append(msgs, << >>)
    /\ UNCHANGED <<request_vars, resp, adapters, missing, taken>>

-----------------------------------------------------------------------------
(* consume_one (impl/response.ipp).                                        *)

\* Variant: the search for the next root starts at the front.
next_root_none(v) == 1

\* Number of nodes up to the next one of depth 0.
next_root(v) ==
    LET roots == {k \in 2 .. Len(v) : v[k].depth = 0}
    IN  IF roots = {} THEN Len(v) ELSE Min(roots) - 1

\* The user of async_receive consumes one message for each one announced,
\* while the next may be arriving; a generic_response is consumed at the end.
consume_one ==
    /\ \/ resp.kind = "receive" /\ taken < Pushes - missing
       \/ resp.kind = "generic" /\ phase = "done" /\ taken < Len(msgs)
    /\ LET r == adapters[1]
       IN  /\ r.error = "none" /\ r.value # << >>
           /\ r.value[1].depth = 0   \* or incompatible_node_depth
           /\ adapters' = <<[r EXCEPT !.value = SubSeq(@, next_root(@) + 1, Len(@))]>>
    /\ taken' = taken + 1
    /\ UNCHANGED <<request_vars, parser_vars, phase, resp, missing, msgs>>

Simple == {"number", "null", "simple_error"}
Blobs  == {"blob_string", "blob_error"}

Next ==
    \/ build
    \/ \E kind \in {"static", "generic", "ignore"} : async_exec(kind)
    \/ \E t \in Leaves \cap Simple : read_simple(t)
    \/ read_header
    \/ \E t \in (Leaves \cap Blobs) \cup {"streamed_string_part"} : read_bulk(t)
    \/ read_streamed_string
    \/ read_last_part
    \/ \E t \in {"array", "set", "map"}, l \in Lengths : read_aggregate(t, l)
    \/ read_done
    \/ connection_lost
    \/ next_session
    \/ consume_one

Spec == Init /\ [][Next]_vars

-----------------------------------------------------------------------------
(* What a reply says, without an adapter.                                  *)

flat(ns) == \A k \in 2 .. Len(ns) : ~is_aggregate(ns[k].type)

is_refused(T, nd) == is_error(nd.type) \/ (nd.type = "null" /\ ~T.opt)

refused(T, ns) == {k \in DOMAIN ns : is_refused(T, ns[k])}

\* The type of a result is right for a reply, as README.md lists them.
shape_fits(T, nd) ==
    CASE T.impl = "simple" -> ~is_aggregate(nd.type)
      [] T.impl = "vector" -> TRUE
      [] T.impl = "list"   -> is_aggregate(nd.type)
      [] T.impl = "set"    -> nd.type = "set"
      [] T.impl = "map"    -> nd.type \in {"map", "attribute"}
      [] T.impl = "array"  -> /\ is_aggregate(nd.type)
                              /\ nd.size * element_multiplicity(nd.type) = T.size

nulls_fit(T, ns) == T.opt /\ Len(ns) > 1 => \A k \in DOMAIN ns : ns[k].type # "null"

\* adapter/ignore.hpp:21: "RESP3 errors won't be ignored".
fits(T, ns) ==
    CASE T.impl = "ignore" -> \A k \in DOMAIN ns : ~is_error(ns[k].type)
      [] T.impl \in {"node", "nodes"} -> TRUE
      [] OTHER ->
            \/ Len(ns) = 1 /\ (is_error(ns[1].type) \/ ns[1].type = "null")
            \/ /\ shape_fits(T, ns[1]) /\ flat(ns) /\ nulls_fit(T, ns)
               /\ T.of = "number" => \A k \in DOMAIN ns :
                     \/ is_aggregate(ns[k].type) \/ ns[k].type = "number"
                     \/ \E j \in 1 .. k : is_refused(T, ns[j])

\* The replies for which the code departs from the documentation.  Nested
\* aggregates "can't be read in STL containers" (README.md:354) but are, without
\* an error.  A null is an error to the adapter of ignore, and nothing to that
\* of an optional aggregate.  A node after an error makes a generic result throw.
departs(T, ns) ==
    CASE T.impl = "ignore" -> \E k \in DOMAIN ns : ns[k].type = "null"
      [] T.impl \in {"node", "nodes"} -> \E k \in 1 .. Len(ns) - 1 : is_error(ns[k].type)
      [] OTHER -> ~flat(ns) \/ ~nulls_fit(T, ns)

\* The result that a reply should leave: its first error, or its leaves.
holds(T, s, ns) ==
    LET leaves == SelectSeq(ns, LAMBDA nd : ~is_aggregate(nd.type) /\ nd.type # "null")
        values == [k \in DOMAIN leaves |-> leaves[k].value]
    IN  IF T.impl = "ignore" THEN TRUE
        ELSE IF refused([T EXCEPT !.opt = @ \/ T.impl \in {"node", "nodes"}], ns) # {}
        THEN s.error # "none"
        ELSE /\ s.error = "none"
             /\ CASE T.impl = "nodes" -> s.value = ns
                  [] T.impl = "node"  -> s.value = <<ns[Len(ns)]>>
                  [] OTHER -> s.some <=> \E k \in DOMAIN ns : ns[k].type # "null"
             /\ CASE T.impl = "simple" -> s.value = FlattenSeq(values)
                  [] T.impl \in {"vector", "list"} -> s.value = values
                  [] T.impl = "array" -> values # << >> => s.value = values
                  [] T.impl = "set" -> s.value = {values[k] : k \in DOMAIN values}
                  [] T.impl = "map" -> s.value = [k \in 1 .. Len(values) \div 2 |->
                                          <<values[2 * k - 1], values[2 * k]>>]
                  [] OTHER -> TRUE

\* The k-th element of an aggregate, with all that is nested in it.
element(ns, k) ==
    LET of == {j \in DOMAIN ns : /\ ns[j].depth > 0
                                 /\ Cardinality({m \in 1 .. j : ns[m].depth = 1}) = k}
    IN  IF of = {} THEN << >> ELSE SubSeq(ns, Min(of), Max(of))

\* The reply to a transaction, or its beginning, is one that the tuple is for.
elements_fit(T, ns) ==
    /\ is_aggregate(ns[1].type) /\ ns[1].size * element_multiplicity(ns[1].type) = Len(T.elems)
    /\ \A k \in DOMAIN T.elems : LET e == element(ns, k) IN
          e # << >> => fits(T.elems[k], e) /\ flat(e)

has_empty_element(ns) ==
    \E k \in 2 .. Len(ns) : is_aggregate(ns[k].type) /\ ns[k].size = 0

elements_hold(T, s, ns) ==
    \A k \in DOMAIN T.elems : holds(T.elems[k], s.elems[k], element(ns, k))

read == {k \in DOMAIN msgs : k < Len(msgs) \/ phase = "done" \/ (phase = "reading" /\ P!done)}

-----------------------------------------------------------------------------
(* Properties.                                                             *)

\* Every reply reaches the element of the response that was declared for its
\* command, through the payload, the parser and the index of static_adapter:
\* a reply that the type is for leaves exactly what it says, the keys of a map
\* with their own values, the elements of a transaction in their own results,
\* the first error in place of a value.  Elements of commands that have not
\* been answered are untouched.  (For a transaction with an empty element see
\* TransactionsAreRead.)
RepliesAreRead ==
    resp.kind = "static" =>
        /\ \A k \in read :
              LET T == resp.types[k] IN
              IF T.impl = "tuple"
              THEN elements_fit(T, msgs[k]) /\ ~has_empty_element(msgs[k])
                      => elements_hold(T, adapters[k], msgs[k])
              ELSE fits(T, msgs[k]) => holds(T, adapters[k], msgs[k])
        /\ \A k \in DOMAIN adapters : k > Len(msgs) =>
              adapters[k] = result_traits_adapt(resp.types[k])

\* README.md, Transactions: the reply to EXEC is read into a tuple that has a
\* container for each command, such as a vector for LRANGE.
TransactionsAreRead ==
    resp.kind = "static" => \A k \in read :
        LET T == resp.types[k] IN
        T.impl = "tuple" /\ msgs[k][1].type = "array" /\ elements_fit(T, msgs[k])
            => elements_hold(T, adapters[k], msgs[k])

\* "each tuple element is capable of storing the response to the command it
\* refers to, otherwise an error will occur" (README.md:182): except for the
\* replies in departs, an adapter fails, which ends the session for everybody, on
\* a reply that its type is not for, and on no other; and it fails with an error
\* code, it does not throw.  Of a transaction, read into a tuple, only this is
\* said: it does not fail if every element gets a reply that it is for, none of
\* them empty (see TransactionsAreRead).
RejectsMismatch ==
    resp.kind = "static" => \A k \in DOMAIN msgs :
        LET T == resp.types[k]
            ec == adapters[k].ec
        IN  IF T.impl = "tuple"
            THEN ec # "none" =>
                    \/ ~elements_fit(T, msgs[k]) \/ has_empty_element(msgs[k])
                    \/ \E j \in DOMAIN T.elems : departs(T.elems[j], element(msgs[k], j))
            ELSE ~departs(T, msgs[k]) =>
                    /\ ec # "none" => ~fits(T, msgs[k])
                    /\ k \in read => fits(T, msgs[k])
                    /\ ec # "throws"

\* A generic_response holds the nodes of all messages that consume_one has not
\* taken, in order: consume_one takes one whole message, even while the next
\* one is arriving or after one was cut off.  Strings that are streamed have no
\* node of depth 0 and are excepted.
GenericIsInOrder ==
    /\ resp.kind \in {"generic", "receive"} /\ adapters[1].error = "none"
    /\ \A k \in DOMAIN msgs : msgs[k] # << >> => msgs[k][1].depth = 0
    => adapters[1].value = FlattenSeq(SubSeq(msgs, taken + 1, Len(msgs)))

\* README.md, The general case: "Any response to a Redis command can be
\* received in a boost::redis::generic_response".
GenericWorksAlways == resp.kind = "generic" => adapters[1].ec = "none"
=============================================================================
