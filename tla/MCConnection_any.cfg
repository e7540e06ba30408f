CONSTANTS
    Execs = {e1, e2}
    Kinds <- KindsAny
    Capacity = 1
    MaxRuns = 2
    MaxPushes = 0
    Env = {"peer_loss", "adapter_error", "cancel", "cancel_exec_op", "cancel_run_op"}
SPECIFICATION Spec
SYMMETRY Symmetry
INVARIANT TypeOK
INVARIANT QueueOrder
INVARIANT SuspendedAreQueued
INVARIANT RemoveFindsRequest
INVARIANT NoLostWakeup
CHECK_DEADLOCK FALSE
