SPECIFICATION JobsSpec
CONSTANTS
    c1 = c1
    c2 = c2
    k1 = k1
    a1 = a1
    a2 = a2
    o1 = o1
    o2 = o2
    generic = generic
    patch = patch
    x = x
    y = y
    p1 = p1
    p2 = p2
    CommandId = {c1}
    DedupeKey = {k1}
    NoKey = NoKey
    Agent = {a1, a2}
    Org = {o1, o2}
    AnyOrg = AnyOrg
    DeviceOrg <- MCDeviceOrg
    Intent = {generic, patch}
    PatchIntent = patch
    StepIndex = {0, 1}
    Command = {x, y}
    NoCommand = NoCommand
    Policy = {p1, p2}
    Requests <- GrownRequests
    MaxClaim = 2
PROPERTIES
    ImplementsLifecycle
