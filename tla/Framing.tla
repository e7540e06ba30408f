------------------------------ MODULE Framing -------------------------------
(***************************************************************************)
(* What the RESP3 parser promises to its user, without a stack: a message  *)
(* is finished exactly when every value it has announced has arrived.      *)
(***************************************************************************)
EXTENDS Naturals

CONSTANTS Lengths   \* the lengths of aggregates

VARIABLES
    left,       \* values of the message that have not arrived
    last,       \* the aggregate that has just been announced, if any
    streaming,  \* one of them is a string that is arriving in parts
    rejected    \* the message has been given up

fvars == <<left, last, streaming, rejected>>

Aggregates == {"array", "push", "set", "map", "attribute"}
Paired     == {"map", "attribute"}   \* their length counts pairs
None       == <<"none", 0>>

FInit == left = 1 /\ last = None /\ streaming = FALSE /\ rejected = FALSE

Reading == left > 0 /\ ~rejected

\* A value that consists of nothing else, or the end of a streamed string.
Value ==
    /\ Reading
    /\ left' = left - 1 /\ last' = None /\ streaming' = FALSE
    /\ UNCHANGED rejected

\* An aggregate of type t announces n elements, or n pairs.
Aggregate(t, n) ==
    /\ Reading /\ ~streaming
    /\ last' = <<t, n>>
    /\ left' = (left - 1) + (IF t \in Paired THEN 2 * n ELSE n)
    /\ UNCHANGED <<streaming, rejected>>

StreamBegins ==
    /\ Reading /\ ~streaming
    /\ streaming' = TRUE /\ last' = None
    /\ UNCHANGED <<left, rejected>>

Reject == Reading /\ rejected' = TRUE /\ UNCHANGED <<left, last, streaming>>

\* The next message, after one that is finished or given up.
NextMessage ==
    /\ ~Reading
    /\ left' = 1 /\ last' = None /\ streaming' = FALSE /\ rejected' = FALSE

FNext ==
    \/ Value
    \/ \E t \in Aggregates, n \in Lengths : Aggregate(t, n)
    \/ StreamBegins
    \/ Reject
    \/ NextMessage

FSpec == FInit /\ [][FNext]_fvars
=============================================================================
