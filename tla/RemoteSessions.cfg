SPECIFICATION FairSpec
CONSTANTS
    Shell = {sh}
    File = {f}
    Desktop = {d}
    Registry = {r}
    Chat = {ch}
    NoParent = NoParent
    MaxConnections = 2
    MaxSessions = 2
INVARIANTS
    CleanupReachesAll
    
PROPERTIES
    PendingCleared
    UnattachedExpire
    SilentChatEnds
CHECK_DEADLOCK FALSE
