SPECIFICATION Spec
CONSTANTS
    Procs = {"p", "q"}
    First = "p"
    Image = {0}
    Slots = {1}
    NPages = 2
    NFrames = 3
    MaxReclaimed = 3
    MaxCow = 2
    NSwap = 1
    NDisk = 1
    GenMod = 2
    Modes <- MCModes
    Written = {1}
    NCache = 2
    NRequests = 1
    NCompletions = 2
    MaxCalls = 4
CONSTRAINT NoRace
CHECK_DEADLOCK FALSE
INVARIANTS FramesOwned PrivateKept FileCoherent SwapOwned  FaultAnswered
