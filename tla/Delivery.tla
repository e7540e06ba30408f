------------------------------ MODULE Delivery ------------------------------
(***************************************************************************)
(* What async_exec promises to its callers, without queue, connections and *)
(* operations: a call is pending until it completes, once, with one        *)
(* result; its request is handed to the transport only while it is         *)
(* pending, and at most once unless the caller allows more                 *)
(* (cancel_if_unresponded = false); it succeeds only after its request has *)
(* been handed over and every response to it has been read.                *)
(***************************************************************************)
EXTENDS Naturals

CONSTANT Execs    \* the calls to async_exec

VARIABLES
    result,   \* of each call: "idle", "pending", or how it completed
    once,     \* calls whose request may be handed over once only
    sent,     \* how often the request has been handed over
    missing   \* how many responses have not been read

dvars == <<result, once, sent, missing>>

DInit ==
    /\ result = [e \in Execs |-> "idle"]
    /\ once = {}
    /\ sent = [e \in Execs |-> 0]
    /\ missing = [e \in Execs |-> 0]

Call(e) ==
    /\ result[e] = "idle"
    /\ result' = [result EXCEPT ![e] = "pending"]
    /\ once' \in {once, once \cup {e}}
    /\ missing'[e] \in Nat /\ missing' = [missing EXCEPT ![e] = missing'[e]]
    /\ UNCHANGED sent

Transmit(e) ==
    /\ result[e] = "pending"
    /\ e \in once => sent[e] = 0
    /\ sent' = [sent EXCEPT ![e] = @ + 1]
    /\ UNCHANGED <<result, once, missing>>

Answer(e) ==
    /\ result[e] = "pending" /\ sent[e] > 0 /\ missing[e] > 0
    /\ missing' = [missing EXCEPT ![e] = @ - 1]
    /\ UNCHANGED <<result, once, sent>>

Complete(e, r) ==
    /\ result[e] = "pending"
    /\ r = "ok" => sent[e] > 0 /\ missing[e] = 0
    /\ r = "not_connected" => sent[e] = 0
    /\ result' = [result EXCEPT ![e] = r]
    /\ UNCHANGED <<once, sent, missing>>

DNext ==
    \E e \in Execs :
        \/ Call(e)
        \/ Transmit(e)
        \/ Answer(e)
        \/ \E r \in {"ok", "aborted", "error", "not_connected"} : Complete(e, r)

DSpec == DInit /\ [][DNext]_dvars
=============================================================================
