------------------------------ MODULE MCRunner ------------------------------
(* Values for the constants of Runner.                                     *)
EXTENDS Runner

\* Each choice, on and off.
TwoConfigs == {[use_ssl |-> TRUE,  health_check |-> TRUE,  reconnect |-> TRUE],
               [use_ssl |-> FALSE, health_check |-> FALSE, reconnect |-> FALSE]}

\* The default configuration.
DefaultConfig == {[use_ssl |-> FALSE, health_check |-> TRUE, reconnect |-> TRUE]}
=============================================================================
