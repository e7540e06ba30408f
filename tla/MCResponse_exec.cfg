CONSTANTS
    Calls <- AllCalls
    MaxCommands = 2
    hello_with_priority = TRUE
    max_embedded_depth = 3
    Lengths <- LengthsUpTo2
    StreamLevels <- WholeReply
    Unlimited = 4
    Leaves <- OneError
    MaxNodes <- NodesByReplies
    Pushes = 2
SPECIFICATION Spec
INVARIANT RepliesAreRead
INVARIANT RejectsMismatch
INVARIANT GenericIsInOrder
INVARIANT PayloadIsRead
INVARIANT CountsAreRight
VIEW AfterBuilding
CHECK_DEADLOCK FALSE
