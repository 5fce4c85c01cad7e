CONSTANTS
    Owners = {alice, bob}
    Owner = alice
    Requests <- AllRequests
    Snapshots = {"none", "active"}
    Shapes <- RoutingShapes
    ClientStatuses = {"succeeded"}
    RoundCap = 1
    MaxTools = 1
    MaxUses = 1
    SinkMayFail = TRUE
    ReuseIds = FALSE
SPECIFICATION FairSpec
INVARIANTS
    Paired
    ManualRunsNothing
    NoLeftoverEntry
PROPERTIES
    ImplementsContract
    CancelEnds
    TurnEnds
