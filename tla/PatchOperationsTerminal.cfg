SPECIFICATION Spec
CONSTANTS
    Install = {}
    MaxOperations = 1
    MaxFaults = 1
    MaxLag = 2
    MaxReports = 2
PROPERTY TerminalForGood
CHECK_DEADLOCK FALSE
