CONSTANTS
    Owners = {alice, bob}
    Owner = alice
    Requests <- AskRequests
    Snapshots = {"none"}
    Shapes <- TerminalShapes
    ClientStatuses = {"succeeded", "cancelled"}
    RoundCap = 2
    MaxTools = 2
    MaxUses = 3
    SinkMayFail = FALSE
    ReuseIds = FALSE
SPECIFICATION Spec
INVARIANTS
    IndInv
    Consent
    HonestResult
    RoundBudget
PROPERTIES
    FinalSynthesisRunsNothing
    ResultsAreFinal
