SPECIFICATION FairSpec
CONSTANTS
    Install = {1}
    MaxOperations = 2
    MaxFaults = 1
    MaxLag = 2
    MaxReports = 2
PROPERTIES
    
    NeverBackInTime
    
CHECK_DEADLOCK FALSE
