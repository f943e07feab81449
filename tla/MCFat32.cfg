SPECIFICATION Spec
CONSTANTS
    NClusters = 4
    NFats = 2
    SlotsPerCluster = 2
    Upper <- MCUpper
    Paths <- MCPaths
    Contents <- MCContents
INVARIANTS
    VolumeSound
    

    
CONSTRAINT NotTorn
