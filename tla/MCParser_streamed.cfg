CONSTANTS
    max_embedded_depth = 5
    Lengths <- LengthsUpTo2
    StreamLevels <- UpToTheLimit
    Unlimited = 4
SPECIFICATION Spec
INVARIANT IndexInArray
CHECK_DEADLOCK FALSE
