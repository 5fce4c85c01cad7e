CONSTANTS
    Owners = {alice, bob}
    Owner = alice
    Requests <- AskRequests
    Snapshots = {"none"}
    Shapes <- TerminalShapes
    ClientStatuses = {"succeeded", "cancelled"}
    RoundCap = 3
    MaxTools = 1
    MaxUses = 3
    SinkMayFail = FALSE
    ReuseIds = TRUE
SPECIFICATION Spec
INVARIANTS
    Consent
