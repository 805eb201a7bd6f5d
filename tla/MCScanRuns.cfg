SPECIFICATION MCSpec
CONSTANTS
    Workers = {w1, w2}
    Instruments = {i1, i2}
    i1 = i1
    i2 = i2
    k1 = k1
    k2 = k2
    NoKey = NoKey
    order = order
    event = event
    Requests <- KeyPerVersion
    MaxCalls = 3
    Scripts <- OrdersAndEvents
    MaxRows = 4
INVARIANTS
    RecTypeOK
    SameKeySameRun
    NoHalfScan
    
    RecordedOnce
PROPERTIES
    CallsEnd
    OnlyUpdatesChange
    SessionsEnd
CHECK_DEADLOCK FALSE
