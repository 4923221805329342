SPECIFICATION Spec
CONSTANTS
    c1 = c1
    c2 = c2
    k1 = k1
    a1 = a1
    o1 = o1
    generic = generic
    patch = patch
    x = x
    y = y
    CommandId = {c1, c2}
    DedupeKey = {k1}
    NoKey = NoKey
    Agent = {a1}
    Org = {o1}
    AnyOrg = AnyOrg
    DeviceOrg <- MCDeviceOrg
    Intent = {generic, patch}
    PatchIntent = patch
    StepIndex = {0, 1}
    Command = {x, y}
    NoCommand = NoCommand
    Policy <- MCPolicy
    Requests <- Republished
    MaxClaim = 10
    MaxConn = 2
    MaxFaults = 2
INVARIANTS
    TypeOK
    ExecutedOnce
    ExecutesStoredWork
    OutcomesAreTrue
    ReportsAcceptable
