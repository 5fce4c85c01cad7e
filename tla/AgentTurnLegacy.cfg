CONSTANTS
    Owners = {alice, bob}
    Owner = alice
    Requests <- AskRequests
    Snapshots = {"none"}
    Shapes <- TerminalShapes
    ClientStatuses = {"succeeded", "cancelled"}
    RoundCap = 1
    MaxTools = 1
    MaxUses = 1
    SinkMayFail = FALSE
    ReuseIds = FALSE
SPECIFICATION Spec
PROPERTIES
    LegacyOnlySynthetic
