CONSTANTS
    Calls <- AllCalls
    MaxCommands = 2
    hello_with_priority = TRUE
    max_embedded_depth = 3
    Lengths <- NoLengths
    StreamLevels <- WholeReply
    Unlimited = 4
    Leaves <- OneError
    MaxNodes <- NodesByReplies
    Pushes = 2
SPECIFICATION Spec
INVARIANT GenericWorksAlways
VIEW AfterBuilding
CHECK_DEADLOCK FALSE
