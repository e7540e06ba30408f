CONSTANTS
    Execs = {e1, e2}
    Kinds <- KindsSubscribe
    Capacity = 1
    MaxRuns = 1
    MaxPushes = 0
    Env = {}
SPECIFICATION Spec
SYMMETRY Symmetry
INVARIANT ResponsesMatch
CHECK_DEADLOCK FALSE
