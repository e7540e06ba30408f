CONSTANTS
    Execs = {e1}
    Kinds <- KindsTwoCommands
    Capacity = 1
    MaxRuns = 2
    MaxPushes = 0
    Env = {"peer_loss"}
SPECIFICATION Spec
INVARIANT ResponsesMatch
CHECK_DEADLOCK FALSE
