---------------------------- MODULE MCConnection ----------------------------
(* Values for the constants of Connection.                                 *)
EXTENDS Connection, TLC

\* A request with the default configuration and the commands cmds.
Default(cmds) ==
    [cmds |-> cmds,
     cancel_on_connection_lost |-> TRUE,
     cancel_if_unresponded     |-> TRUE,
     cancel_if_not_connected   |-> FALSE,
     has_hello_priority        |-> FALSE]

\* A request that survives the loss of the connection.
Persistent(cmds) ==
    [Default(cmds) EXCEPT !.cancel_on_connection_lost = FALSE,
                          !.cancel_if_unresponded = FALSE]

\* A request that waits for a connection but is not written twice.
WriteOnce(cmds) == [Default(cmds) EXCEPT !.cancel_on_connection_lost = FALSE]

\* A request that does not wait for a connection.
Impatient == [Default(<<"resp">>) EXCEPT !.cancel_if_not_connected = TRUE]

WithHello(k) == [k EXCEPT !.has_hello_priority = TRUE]

Symmetry == Permutations(Execs)

KindsAny == {Default(<<"push">>), WithHello(Persistent(<<"resp">>)), Impatient}
KindsLoss == {WriteOnce(<<"resp", "push", "resp">>), Persistent(<<"resp">>),
              WithHello(Default(<<"resp">>))}
KindsServed == {Default(<<"resp", "push">>), WithHello(Default(<<"resp">>))}

KindsTwoCommands == {Persistent(<<"resp", "resp">>)}
KindsSubscribe == {Default(<<"push">>), Default(<<"resp">>)}
=============================================================================
