SPECIFICATION Spec
CONSTANTS
    Writers = {w1, w2}
    Bodies = {a, b}
    MaxRows = 4
    MaxRuns = 2
INVARIANTS
    ChainVerifies
    RunsNeverInterleave
SYMMETRY Symmetry
PROPERTIES
    AppendOnly
    ImplementsHistory
CHECK_DEADLOCK FALSE
