SPECIFICATION FairSpec
CONSTANTS
    None = None
    Verbs <- AllVerbs
    Races <- AllRaces
    Lanes = {"WR", "W3"}
    Adapters = {"WR", "W3"}
    VALID_LANES = {"WR"}
    ContractIds = {0, 1, 2, 3, 4}
    Named = {0}
    Outcomes <- Fails
    Budgets <- JustStandard
    DefaultBudget <- Standard
    Costs <- NoCost
    Patches <- NoPatch
    Verifier = "tiered"
    HasPolicy = TRUE
    Limit <- Ample
    Amounts <- MCAmounts
    MAX_RETRIES_PER_CONTRACT = 1
    LANE_FAILURES_BEFORE_DRAIN = 2
    MaxEvents = 2
    MaxLog = 10
    MaxRuns = 1
INVARIANTS
    DrainedIffOutage
PROPERTIES
    RunTerminates
CHECK_DEADLOCK FALSE
