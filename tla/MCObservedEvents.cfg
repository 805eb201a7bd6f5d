SPECIFICATION MCSpec
CONSTANTS
    Ticks = {t1}
    Snapshots = {s1, a1}
    Articles = {a1}
    Outputs = {earnings}
    MaxResults = 3
    x = x
    y = y
    Values <- MCValues
    MaxTime = 3
    Writers = {w1, w2}
    MaxBatch = 2
SYMMETRY Symmetric
INVARIANTS
    AnnotationsAreWhole
PROPERTIES
    PresenceReproducible
    TicksAreFinal
