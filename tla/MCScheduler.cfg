SPECIFICATION Spec
CONSTANTS
    NSlots = 4
    NCpus = 2
    MaxId = 3
    MaxSleep = 1
    MaxKills = 1
    FileIo = TRUE
INVARIANTS StackOwned IInv
PROPERTY DeadStaysDead
