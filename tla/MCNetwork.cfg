SPECIFICATION Spec
CONSTANTS
    QSize = 2
    IdxMod = 4
    NRx = 2
    Procs = {p1, p2}
    NUser = 2
    NDns = 2
    Ports = {1}
    Ephemeral = {7, 8}
    Leases <- MCLeases
    Targets = {1}
    PingMod = 8
    Meta = 1
    MaxLoad = 6
INVARIANTS BuffersOwned SocketsOwned  LeaseTracked
CHECK_DEADLOCK FALSE
SYMMETRY Symmetry
CONSTRAINT Load
