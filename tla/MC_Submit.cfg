SPECIFICATION Spec
CONSTANTS
    None = None
    Shells = {p, q}
    TaskIds <- MCTaskIds
    Given = {}
    ContractIds = {c}
    Qualified <- MCQualified
    Lanes = {"WR", "W3"}
    VALID_LANES = {"WR"}
    FLEETS = {"WR", "W3"}
    Results = {"worker_done", "worker_failed"}
    Notes = {"budget_threshold"}
    MaxEvents = 3
    MaxLog <- MCMaxLog
CONSTRAINT NamesApart
SYMMETRY Symmetry
INVARIANTS
    HandledMeansRecorded
    LabelsHaveEvidence
CHECK_DEADLOCK FALSE
