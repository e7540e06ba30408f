CONSTANTS
    Configs <- TwoConfigs
    MaxAttempts = 3
    Env = {"loss", "cancel", "terminal", "error_reply"}
SPECIFICATION FairSpec
INVARIANT TypeOK
INVARIANT NothingLeftOver
INVARIANT EndsOnlyWhenAsked
PROPERTY LostSessionEnds
PROPERTY CancelledRunEnds
PROPERTY SilenceIsNoticed
PROPERTY StepsEnd
CHECK_DEADLOCK FALSE
