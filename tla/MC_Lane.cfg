SPECIFICATION Spec
CONSTANTS
    None = None
    Processes = {p, q}
    Contracts <- MCContracts
    MaxPerTurn = 2
    TurnCosts <- MCTurnCosts
    NET_SANDBOX_AVAILABLE = FALSE
    MaxRuns = 2
INVARIANTS
    PathReusable
    Disposable
    OwnArtifact
    ChangesAreGranted
    CeilingsHold
PROPERTIES
    DispatchEnds
CHECK_DEADLOCK FALSE
