SPECIFICATION FairSpec
CONSTANTS
    Cpus = {c0, c1, c2}
    Bsp = c0
    MaxChanges = 3
INVARIANT NoStaleTranslation
PROPERTIES AckMonotone 
CHECK_DEADLOCK FALSE
