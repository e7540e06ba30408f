------------------------------ MODULE Request -------------------------------
(***************************************************************************)
(* How a user puts a request together (request.hpp, resp3/serialization).  *)
(*                                                                         *)
(* The payload is a sequence of headers and bulks.  A call is a record:    *)
(* the overload that is called (form), cmd, the arguments or the elements  *)
(* of the range in args, each a sequence of the bulks that it is written   *)
(* as, and what class of type they are (of): a value, a std::pair or a     *)
(* std::tuple.  key is used by one of the overloads.                       *)
(***************************************************************************)
EXTENDS Naturals, Sequences, SequencesExt

CONSTANTS
    Calls,                \* the calls of push and push_range
    MaxCommands,          \* bound: commands of a request
    hello_with_priority   \* of request::config

VARIABLES
    payload, commands, expected_responses, has_hello_priority,
    pushed                \* history: the calls since the last clear()

request_vars == <<payload, commands, expected_responses, has_hello_priority, pushed>>

RequestInit ==
    /\ payload = << >> /\ pushed = << >>
    /\ commands = 0 /\ expected_responses = 0
    /\ has_hello_priority = FALSE

add_header(p, n) == Append(p, [size |-> n, data |-> "none"])

is_header(token) == token.size > 0

\* add_bulk of a value, a pair or a tuple: one bulk for each component.
add_bulk(p, arg) == p \o [i \in DOMAIN arg |-> [size |-> 0, data |-> arg[i]]]

add_bulks(p, args) == FoldLeft(add_bulk, p, args)

\* Variant: there is no specialization for pairs.
bulk_counter_one(of) == 1
\* bulk_counter<value_type>::size.  There is none for tuples.
bulk_counter(of) == IF of = "pair" THEN 2 ELSE 1

\* The name has_response promises the opposite.
has_response(cmd) == cmd \in {"SUBSCRIBE", "PSUBSCRIBE", "UNSUBSCRIBE"}

check_cmd(cmd) ==
    /\ commands' = commands + 1
    /\ expected_responses' = expected_responses + (IF has_response(cmd) THEN 0 ELSE 1)
    /\ has_hello_priority' = IF cmd = "HELLO" THEN hello_with_priority
                             ELSE has_hello_priority

push(c) ==
    /\ c.form = "push"
    /\ payload' = add_bulks(add_bulk(add_header(payload, 1 + Len(c.args)), <<c.cmd>>), c.args)
    /\ check_cmd(c.cmd)
    /\ pushed' = Append(pushed, c)

\* An empty range adds no command.
push_range_key(c) ==
    /\ c.form = "push_range_key"
    /\ IF c.args = << >> THEN UNCHANGED request_vars
       ELSE /\ payload' = add_bulks(add_bulk(add_header(payload,
                              2 + bulk_counter(c.of) * Len(c.args)), <<c.cmd, c.key>>), c.args)
            /\ check_cmd(c.cmd)
            /\ pushed' = Append(pushed, c)

push_range(c) ==
    /\ c.form = "push_range"
    /\ IF c.args = << >> THEN UNCHANGED request_vars
       ELSE /\ payload' = add_bulks(add_bulk(add_header(payload,
                              1 + bulk_counter(c.of) * Len(c.args)), <<c.cmd>>), c.args)
            /\ check_cmd(c.cmd)
            /\ pushed' = Append(pushed, c)

\* Variant: the count of responses survives.
clear_payload ==
    /\ payload' = << >> /\ pushed' = << >>
    /\ commands' = 0 /\ has_hello_priority' = FALSE
    /\ UNCHANGED expected_responses

clear ==
    /\ payload' = << >> /\ pushed' = << >>
    /\ commands' = 0 /\ expected_responses' = 0
    /\ has_hello_priority' = FALSE

RequestNext ==
    \/ \E c \in Calls : Len(pushed) < MaxCommands /\ (push(c) \/ push_range_key(c) \/ push_range(c))
    \/ clear

-----------------------------------------------------------------------------
(* The server: what the payload means to whoever reads it.                 *)

\* The bulks of each command, in the order of their headers.
server_reads ==
    LET heads == SetToSortSeq({p \in DOMAIN payload : is_header(payload[p])}, <)
    IN  [k \in DOMAIN heads |->
            [i \in 1 .. payload[heads[k]].size |->
                IF heads[k] + i <= Len(payload) THEN payload[heads[k] + i].data ELSE "missing"]]

\* Every header announces exactly the bulks up to the next one.
well_framed ==
    \A p \in DOMAIN payload : is_header(payload[p]) =>
        LET next == p + payload[p].size + 1
        IN  /\ \A i \in p + 1 .. next - 1 : i \in DOMAIN payload /\ ~is_header(payload[i])
            /\ next = Len(payload) + 1 \/ is_header(payload[next])

\* The bulks that a call stands for.
bulks_of(c) ==
    (IF c.form = "push_range_key" THEN <<c.cmd, c.key>> ELSE <<c.cmd>>) \o FlattenSeq(c.args)

\* The server reads exactly the commands that were pushed, each with its own
\* arguments, whatever the order of calls: the number in a header of
\* push_range, which bulk_counter finds from the type of the elements, is that
\* of the bulks which add_bulk writes for them.  It is so for ranges of values
\* and of pairs, the ones that README.md shows; Calls has no range of tuples,
\* for which serialization.hpp:18 says that it is not.
PayloadIsRead ==
    /\ well_framed
    /\ server_reads = [k \in DOMAIN pushed |-> bulks_of(pushed[k])]

\* connection_base takes from the request one number: how many of its commands
\* are answered with a response, by the order of the payload and after clear()
\* too.  A HELLO gives priority if and only if the configuration says so.
CountsAreRight ==
    /\ commands = Len(server_reads)
    /\ expected_responses = Len(SelectSeq(server_reads, LAMBDA b : ~has_response(b[1])))
    /\ has_hello_priority <=>
          hello_with_priority /\ \E k \in DOMAIN server_reads : server_reads[k][1] = "HELLO"
=============================================================================
