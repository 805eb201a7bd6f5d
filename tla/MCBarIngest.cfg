SPECIFICATION MCSpec
CONSTANTS
    w1 = w1
    w2 = w2
    b1 = b1
    b2 = b2
    v1 = v1
    v2 = v2
    i1 = i1
    i2 = i2
    Writers <- MCWriters
    Events <- MCEvents
    Values <- MCValues
    Instruments <- MCInstruments
    InstrumentOf <- MCInstrumentOf
    MaxTime = 3
    MaxBatch = 1
SYMMETRY Symmetric
INVARIANTS
    RevisionsFollowStamps
    
    
    ReportIsCoherent
PROPERTIES
    BarsCommitInOrder
