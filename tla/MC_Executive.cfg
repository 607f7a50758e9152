SPECIFICATION ExecutiveSpec
CONSTANTS
    None = None
    Garbled = Garbled
    Processes = {p, q}
    Types <- MCTypes
    TaskTypes <- MCTaskTypes
    Patches <- MCPatches
    Edits <- MCEdits
    Day = 2
    MaxClock = 2
    MaxAuthored = 2
    NoVerb = NoVerb
    Verbs <- MCVerbs
    CandidateVerbs <- MCCandidateVerbs
    MAX_INVALID_ATTEMPTS = 2
    TOKEN_CAP = 7
    Goal = 1
    RECENT_OUTCOMES_KEPT = 2
    CompactOutcomes = 1
    CompactPlan = 3
    CompactQuestions = 1
    PlanLengths <- MCPlanLengths
    MinEvents = 2
    Bar = 60
    MaxWakes = 3
CONSTRAINT ForgedMeetsOne
SYMMETRY Symmetry
INVARIANTS
    ReflexesPersist
    
    ShownCompressed
    ActsOnTheRecord
    PromotionEarned
PROPERTIES
    ExpiredNeverFires
    RulesDecide
CHECK_DEADLOCK FALSE
