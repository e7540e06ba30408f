CONSTANTS
    Execs = {e1, e2}
    Kinds <- KindsLoss
    Capacity = 1
    MaxRuns = 2
    MaxPushes = 1
    Env = {"peer_loss", "split", "receive"}
SPECIFICATION Spec
SYMMETRY Symmetry
INVARIANT AtMostOnce
INVARIANT AllWaitingAtStart
INVARIANT HelloFirst
INVARIANT ResponsesMatch
PROPERTY OrderIsStable
PROPERTY Delivers
CHECK_DEADLOCK FALSE
