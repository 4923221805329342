SPECIFICATION FairSpec
CONSTANTS
    Socket = {1, 2}
    NoSocket = NoSocket
    MaxUnread = 2
INVARIANTS
    EntryIsServed
    OfflineIsReported
PROPERTIES
    Reconverges
CHECK_DEADLOCK FALSE
