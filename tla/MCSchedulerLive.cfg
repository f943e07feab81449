SPECIFICATION FairSpec
CONSTANTS
    NSlots = 4
    NCpus = 1
    MaxId = 3
    MaxSleep = 1
    MaxKills = 1
    FileIo = FALSE
PROPERTIES ReadyRuns 
