SPECIFICATION Spec
CONSTANTS
    Tasks = {t1, t2, t3}
    Bytes = {b0, b1}
    Cap = 2
    MaxWaiters = 3
    MaxLive = 3
    MaxBuf = 2
    MaxFds = 3
  
PROPERTY StreamSpec
SYMMETRY Symmetry
CHECK_DEADLOCK FALSE
