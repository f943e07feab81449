SPECIFICATION PSpec
CONSTANTS
    Ids = {1, 2, 3}
    Payloads = {m1}
    NEndpoints = 2
    QueueDepth = 2
    MaxSends = 3
    Fds = {3, 4}
    NFiles = 2
    NTasks = 3
    NProcesses = 3
    Signals = {"TERM", "KILL"}
    MaxPid = 3
    MaxLeaks = 1
CONSTRAINT Load
INVARIANTS EndpointPerProcess RunsInItsSpace RefsExact FifoOnce
CHECK_DEADLOCK FALSE
