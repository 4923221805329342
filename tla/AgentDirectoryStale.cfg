SPECIFICATION Spec
CONSTANTS
    Socket = {1, 2}
    NoSocket = NoSocket
    MaxUnread = 1
PROPERTIES
    StaleEndHarmless
CHECK_DEADLOCK FALSE
