SPECIFICATION CSpec
CONSTANTS
    Contracts = {c1, c2}
    Texts = {old, new}
    Absent = Absent
    Stamps = {september, october}
    FRACTION = 75
    None = None
    Outcomes <- MCOutcomes
    Missed <- MCMissed
    Sources = {c1}
    MaxRows = 3
INVARIANTS
    NeverTrainsOnWithheld
SYMMETRY Months
CHECK_DEADLOCK FALSE
