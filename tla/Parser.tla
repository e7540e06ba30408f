------------------------------- MODULE Parser -------------------------------
(***************************************************************************)
(* The RESP3 parser (resp3/parser.hpp, resp3/impl/parser.ipp): a stack of  *)
(* counters that finds the end of a message while it arrives.              *)
(*                                                                         *)
(* A step is one element of the message; what the element says is left     *)
(* out.  Between two steps the buffer may run out of data: parse returns   *)
(* and is called again with more, and all that is remembered is the state  *)
(* below.  The server sends parts of a string exactly while it streams one *)
(* (streaming, a variable of the server, like last), and begins one only   *)
(* where StreamLevels says.  The code has no such limit: a string that is  *)
(* streamed inside of max_embedded_depth aggregates takes depth_ out of    *)
(* sizes_.                                                                 *)
(***************************************************************************)
EXTENDS Naturals, FiniteSets, Resp3Type

CONSTANTS
    max_embedded_depth,  \* levels of nested structures, 5 in the code
    Lengths,             \* the lengths of aggregates
    StreamLevels,        \* the levels at which the server begins to stream a string
    Unlimited            \* the largest std::size_t; bounds the parts of a string

ASSUME ParserAssumption ==
    /\ max_embedded_depth \in Nat \ {0}
    /\ Lengths \subseteq Nat /\ StreamLevels \subseteq Nat
    /\ Unlimited \in Nat /\ Unlimited > 2

VARIABLES
    depth,      \* depth_
    sizes,      \* sizes_: elements missing at each open level
    bulk,       \* bulk_expected(): the header of a string has been read
    consumed,   \* consumed_ is not zero
    error,      \* the message has been given up
    streaming,  \* server: a streamed string has been begun
    last        \* server: the aggregate it has just announced, if any

vars == <<depth, sizes, bulk, consumed, error, streaming, last>>

NoAggregate == <<"none", 0>>

\* The indices of sizes_: max_embedded_depth levels and the sentinel.
Levels == 0 .. max_embedded_depth

\* With the word behind sizes_, which is bulk_length_, the next member.
Words == 0 .. max_embedded_depth + 1

\* Every variable has its type.  Whatever aggregates the server announces,
\* depth_ is an index of sizes_, and while a string is streamed too unless it
\* was begun at the deepest level.
TypeOK ==
    /\ depth \in Words /\ sizes \in [Words -> Nat]
    /\ depth \in Levels \/ (streaming /\ max_embedded_depth \in StreamLevels)
    /\ bulk \in BOOLEAN /\ consumed \in BOOLEAN /\ error \in BOOLEAN
    /\ streaming \in BOOLEAN /\ last \in (Types \X Lengths) \cup {NoAggregate}

\* sizes_ after reset(): "the sentinel must be more than 1".
reset_sizes == [i \in Words |-> IF i = 0 THEN 2 ELSE 0]

Init ==
    /\ depth = 0 /\ sizes = reset_sizes
    /\ bulk = FALSE /\ consumed = FALSE /\ error = FALSE
    /\ streaming = FALSE /\ last = NoAggregate

done == depth = 0 /\ ~bulk /\ consumed

\* parse calls consume: the message is not finished.
consuming == ~done /\ ~error

\* Variant: the loop of commit_elem is a single test.
commit_elem_once(sz) ==
    IF depth > 0 /\ sz[depth] = 1
    THEN /\ depth' = depth - 1
         /\ sizes' = [sz EXCEPT ![depth] = 0, ![depth - 1] = @ - 1]
    ELSE depth' = depth /\ sizes' = [sz EXCEPT ![depth] = @ - 1]

\* One element less at the current level.  A level that becomes empty is left,
\* which is one element less at the level below, and so on: the loop ends at
\* the innermost level with more than one element missing.
commit_elem(sz) ==
    \E d \in 0 .. depth :
        /\ sz[d] # 1 /\ \A i \in d + 1 .. depth : sz[i] = 1
        /\ depth' = d
        /\ sizes' = [i \in Words |-> IF i = d THEN sz[i] - 1
                                     ELSE IF d < i /\ i <= depth THEN 0
                                     ELSE sz[i]]

\* sizes_ as commit_elem finds it after a string.  Behind the array is the
\* length of the part that has just been read, any number but zero.
sizes_read == IF depth \in Levels THEN {sizes}
              ELSE {[sizes EXCEPT ![depth] = n] : n \in 1 .. Unlimited}

-----------------------------------------------------------------------------
(* consume and consume_impl, by the type of the element.                   *)

\* A number, a boolean, null, a simple string or a simple error.
consume_simple ==
    /\ consuming /\ ~bulk /\ ~streaming
    /\ consumed' = TRUE /\ last' = NoAggregate
    /\ commit_elem(sizes)
    /\ UNCHANGED <<bulk, error, streaming>>

\* The header of a blob, or of a part of a streamed string.
consume_bulk_header ==
    /\ consuming /\ ~bulk
    /\ streaming => sizes[depth] > 2   \* bound: parts of a string
    /\ consumed' = TRUE /\ bulk' = TRUE
    /\ UNCHANGED <<depth, sizes, error, streaming, last>>

\* The string that the header has announced.
consume_bulk ==
    /\ consuming /\ bulk
    /\ bulk' = FALSE /\ last' = NoAggregate
    /\ \E sz \in sizes_read : commit_elem(sz)
    /\ UNCHANGED <<consumed, error, streaming>>

\* A streamed string "is read as an aggregate of infinite length", without the
\* test of depth_ that aggregates have.
consume_streamed_string ==
    /\ consuming /\ ~bulk /\ ~streaming
    /\ depth \in StreamLevels   \* of the server
    /\ consumed' = TRUE /\ streaming' = TRUE /\ last' = NoAggregate
    /\ depth' = depth + 1
    /\ sizes' = [sizes EXCEPT ![depth + 1] = Unlimited]
    /\ UNCHANGED <<bulk, error>>

\* The part of length zero that ends a streamed string.
consume_last_part ==
    /\ consuming /\ ~bulk /\ streaming
    /\ consumed' = TRUE /\ streaming' = FALSE /\ last' = NoAggregate
    /\ commit_elem([sizes EXCEPT ![depth] = 1])
    /\ UNCHANGED <<bulk, error>>

\* Variant: the limit is tested after the fact.
too_deep_late == depth > max_embedded_depth
too_deep == depth = max_embedded_depth

\* An aggregate of l elements.
consume_aggregate(t, l) ==
    /\ consuming /\ ~bulk /\ ~streaming
    /\ IF l = 0
       THEN consumed' = TRUE /\ last' = <<t, l>> /\ commit_elem(sizes) /\ UNCHANGED error
       ELSE IF too_deep
       THEN error' = TRUE /\ UNCHANGED <<depth, sizes, consumed, last>>
       ELSE /\ consumed' = TRUE /\ last' = <<t, l>>
            /\ depth' = depth + 1
            /\ sizes' = [sizes EXCEPT ![depth + 1] = l * element_multiplicity(t)]
            /\ UNCHANGED error
    /\ UNCHANGED <<bulk, streaming>>

\* The header of the element makes no sense: a length that is not a number, an
\* empty number or boolean, an unexpected boolean or an unknown type.  (The
\* length of a blob must not be empty: elem.at(0) would throw in consume, which
\* is noexcept, and there is no next state.)
consume_invalid ==
    /\ consuming /\ ~bulk
    /\ error' = TRUE
    /\ UNCHANGED <<depth, sizes, bulk, consumed, streaming, last>>

\* The session ends in the middle of the message, even of a string; the
\* parser is left as it is until run_op of the next session resets it.
reader_op_exits ==
    /\ consuming
    /\ error' = TRUE
    /\ UNCHANGED <<depth, sizes, bulk, consumed, streaming, last>>

\* reset(), after a message (on_finish_parsing) or at the start of a session.
reset ==
    /\ ~consuming
    /\ depth' = 0 /\ sizes' = reset_sizes
    /\ bulk' = FALSE /\ consumed' = FALSE /\ error' = FALSE
    /\ streaming' = FALSE /\ last' = NoAggregate

Next ==
    \/ consume_simple
    \/ consume_bulk_header
    \/ consume_bulk
    \/ consume_streamed_string
    \/ consume_last_part
    \/ \E t \in Types, l \in Lengths : consume_aggregate(t, l)
    \/ consume_invalid
    \/ reader_op_exits
    \/ reset

Spec == Init /\ [][Next]_vars

-----------------------------------------------------------------------------
(* Properties.                                                             *)

\* The loop of commit_elem stops: every open level has elements missing, and
\* the sentinel, which is 1 exactly when the message is finished, is never
\* used up.
LevelsAreOpen ==
    /\ \A d \in 1 .. depth : sizes[d] > 0
    /\ sizes[0] \in {1, 2}
    /\ sizes[0] = 1 <=> done

\* "The parser supports up to 5 levels of nested structures" (parser.hpp:33):
\* whatever is at the fifth level, depth_ is an index of sizes_.
IndexInArray == depth \in Levels

\* The elements missing at level d; the sentinel is one too many.
missing(d) == IF d = 0 THEN sizes[0] - 1 ELSE sizes[d]

\* The values among them that have not arrived: one of the elements of a level
\* that is not the innermost one is the aggregate that has been opened, and a
\* string being streamed is one value, however many parts it has.
unread(d) == IF d < depth THEN missing(d) - 1 ELSE IF streaming THEN 1 ELSE missing(d)

places == UNION {{d} \X (1 .. unread(d)) : d \in 0 .. depth}
outstanding == Cardinality(places)

F == INSTANCE Framing WITH left <- outstanding, rejected <- error

\* The parser implements Framing: done() is true exactly when all the values
\* of the message have arrived, however they are nested, so that on_read takes
\* from the buffer one whole message and no more.
FindsEndOfMessage == F!FSpec
=============================================================================
