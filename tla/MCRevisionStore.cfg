SPECIFICATION Spec
CONSTANTS
    Writers = {w1, w2}
    Events = {e1, e2}
    Values = {v1, v2}
    MaxTime = 2
    MaxBatch = 2
SYMMETRY Symmetric
INVARIANTS
    TypeOK
    OneRowPerSlot
    RevisionsGapFree
PROPERTIES
    ReadsReproducible
    Refinement
