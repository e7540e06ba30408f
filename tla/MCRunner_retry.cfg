CONSTANTS
    Configs <- DefaultConfig
    MaxAttempts = 2
    Env = {}
SPECIFICATION FairSpec
PROPERTY FailedAttemptEnds
CHECK_DEADLOCK FALSE
