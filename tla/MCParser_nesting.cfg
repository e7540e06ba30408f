CONSTANTS
    max_embedded_depth = 5
    Lengths <- LengthsUpTo2
    StreamLevels <- BelowTheLimit
    Unlimited = 4
SPECIFICATION Spec
INVARIANT TypeOK
INVARIANT LevelsAreOpen
PROPERTY FindsEndOfMessage
CHECK_DEADLOCK FALSE
