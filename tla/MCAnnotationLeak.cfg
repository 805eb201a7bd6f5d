SPECIFICATION ExtractionSpec
CONSTANTS
    Ticks = {}
    Snapshots = {k1, k2}
    Articles = {k1, k2}
    Outputs = {earnings}
    MaxResults = 3
    x = x
    y = y
    Values <- MCValues
    MaxTime = 3
    Writers = {w1}
    MaxBatch = 1
INVARIANTS
    NeverSeenBeforeProduced
