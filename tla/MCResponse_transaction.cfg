CONSTANTS
    Calls <- Transaction
    MaxCommands = 1
    hello_with_priority = TRUE
    max_embedded_depth = 3
    Lengths <- LengthsUpTo3
    StreamLevels <- WholeReply
    Unlimited = 4
    Leaves <- OneError
    MaxNodes <- NodesOfTransaction
    Pushes = 2
SPECIFICATION Spec
INVARIANT TransactionsAreRead
VIEW AfterBuilding
CHECK_DEADLOCK FALSE
