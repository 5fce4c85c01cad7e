CONSTANTS
    Owners = {alice, bob}
    Owner = alice
    Requests <- AskRequests
    Snapshots = {"none"}
    Shapes <- TerminalShapes
    ClientStatuses = {"succeeded", "cancelled"}
    RoundCap = 1
    MaxTools = 2
    MaxUses = 2
    SinkMayFail = FALSE
    ReuseIds = FALSE
SPECIFICATION Spec
PROPERTIES
    CancelStopsDispatch
