----------------------------- MODULE MCResponse -----------------------------
(* Response with calls of every overload and results of every type.        *)
EXTENDS Response

Of(impl, of) == [impl |-> impl, of |-> of, opt |-> FALSE]
Optional(T) == [T EXCEPT !.opt = TRUE]
Array(n, of) == [impl |-> "array", of |-> of, opt |-> FALSE, size |-> n]
Tuple(elems) == [impl |-> "tuple", elems |-> elems]

Call(form, cmd, args, type) ==
    [form |-> form, cmd |-> cmd, key |-> "key", args |-> args, of |-> "value", type |-> type]

\* The range is a map.
CallWithMap(form, cmd, args, type) == [Call(form, cmd, args, type) EXCEPT !.of = "pair"]

\* Of a program that uses every type.
AllCalls ==
    { Call("push", "HELLO", <<<<"3">>>>, Of("node", "text")),
      Call("push", "GET", <<<<"a">>>>, Optional(Of("simple", "text"))),
      Call("push", "INCR", <<<<"a">>>>, Of("simple", "number")),
      CallWithMap("push_range_key", "HSET", <<<<"a", "1">>, <<"b", "2">>>>, Of("ignore", "text")),
      Call("push_range_key", "RPUSH", << >>, Of("simple", "number")),
      Call("push_range", "MGET", <<<<"a">>, <<"b">>>>, Of("vector", "number")),
      Call("push", "HGETALL", << >>, Optional(Of("map", "text"))),
      Call("push", "SMEMBERS", << >>, Of("set", "text")),
      Call("push", "LRANGE", <<<<"0">>, <<"-1">>>>, Of("list", "text")),
      Call("push", "LPOP", <<<<"2">>>>, Array(2, "text")),
      Call("push", "DUMP", << >>, Of("nodes", "text")),
      Call("push_range", "SUBSCRIBE", <<<<"a">>>>, Of("ignore", "text")),
      Call("push", "EXEC", << >>,
           Tuple(<<Optional(Of("vector", "text")), Of("simple", "number")>>)),
      Call("push", "EXEC", << >>,
           Tuple(<<Of("map", "text"), Of("ignore", "text")>>)) }

\* The transaction of README.md: GET, LRANGE and HGETALL.
Transaction ==
    { Call("push", "EXEC", << >>,
           Tuple(<<Optional(Of("simple", "text")), Optional(Of("vector", "text")),
                   Optional(Of("map", "text"))>>)) }

LengthsUpTo2 == 0 .. 2
LengthsUpTo3 == 0 .. 3

\* No reply is an aggregate.
NoLengths == {}

\* A string is streamed as a whole reply only.
WholeReply == {0}

\* The adapters treat the two types of errors alike.
OneError == {"number", "null", "simple_error", "blob_string"}

\* One reply of up to five nodes, or two with three in all.
NodesByReplies == <<5, 3>>

\* Room for an element of each command.
NodesOfTransaction == <<7>>

\* Once the request is handed over only its number of responses matters.
AfterBuilding ==
    <<IF phase = "building" THEN request_vars ELSE <<expected_responses>>,
      parser_vars, response_vars>>
=============================================================================
