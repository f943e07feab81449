SPECIFICATION Spec
CONSTANTS
    MaxNodes = 2
    MaxOpen = 2
    MaxFds = 1
    NODE_CAPACITY = 2
    NPages = 1
    Paths <- MCPaths
    Trees <- MCTrees
    Bytes = {"y"}
    Texts <- MCTexts
    MaxFaults = 1
    MaxCalls = 3
    MaxCommands = 1
INVARIANTS OpenNodeAlive  
 
CHECK_DEADLOCK FALSE
