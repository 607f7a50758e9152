SPECIFICATION Spec
CONSTANTS
    None = None
    Verbs = {"dispatch", "race", "verify", "edit_policy"}
    Races <- BudgetRaces
    Lanes = {"WR", "W1"}
    Adapters = {"WR"}
    VALID_LANES = {"WR"}
    ContractIds = {0, 1, 2}
    Named = {}
    Outcomes <- JustDone
    Budgets <- TwoBudgets
    DefaultBudget <- Standard
    Costs <- SomeCosts
    Patches <- OnePatch
    Verifier = "none"
    HasPolicy = TRUE
    Limit <- MCLimit
    Amounts <- MCAmounts
    MAX_RETRIES_PER_CONTRACT = 3
    LANE_FAILURES_BEFORE_DRAIN = 3
    MaxEvents = 3
    MaxLog = 8
    MaxRuns = 1
INVARIANTS
    ReflexesStayBetweenWakes
    ThresholdsReachTheLog
    HardHaltStopsTheRun
CHECK_DEADLOCK FALSE
