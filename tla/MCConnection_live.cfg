CONSTANTS
    Execs = {e1, e2}
    Kinds <- KindsServed
    Capacity = 1
    MaxRuns = 1
    MaxPushes = 0
    Env = {"peer_loss", "adapter_error", "cancel", "receive"}
SPECIFICATION FairSpec
INVARIANT QueuedAreLive
PROPERTY ExecsComplete
PROPERTY ClosedRunEnds
CHECK_DEADLOCK FALSE
