SPECIFICATION ExitSpec
CONSTANTS
    Tasks = {t1, t2}
    Bytes = {0}
    Cap = 2
    MaxWaiters = 2
    MaxLive = 2
    MaxBuf = 2
    MaxFds = 3
INVARIANT EofWakesReaders
CHECK_DEADLOCK FALSE
