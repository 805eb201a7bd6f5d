SPECIFICATION Spec
CONSTANTS
    Writers = {w1}
    Events = {e1}
    Values = {v1, v2}
    MaxTime = 2
    MaxBatch = 1
INVARIANTS
    FilteredReadPicksLatest
