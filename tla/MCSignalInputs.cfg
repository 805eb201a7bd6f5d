SPECIFICATION MCSpec
CONSTANTS
    None = None
    Instruments <- MCInstruments
    Shapes <- MCShapes
    History <- MCHistory
    Dates <- MCDates
    Lookbacks <- MCLookbacks
    FeatureDays = 4
    LabelDays = 3
    Horizon = 1
    Threshold = 0
    Fractions <- MCFractions
    Start = 6
    MaxTime = 8
    MaxBars = 12
    Benchmark = "b"
    RegimeDays = 4
    ServingDays = 3
    TrendLookback = 2
    TrendUp = 10
    TrendDown <- MCTrendDown
    VolatilityLookback = 3
    HighVolatility = 25
    LowVolatility = 10
    Expanding = 60
    Contracting = 40
    Requests <- MCRequests
    MaxSignals = 1
    Scale = 4
    Bins = 2
    Decision = 2
    Groups = {"up", "down"}
    MaxScored = 3
CHECK_DEADLOCK FALSE
INVARIANTS
    
    SplitIsChronological
    
    
    TrendIsNeverGuessed
    
