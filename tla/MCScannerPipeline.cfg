SPECIFICATION Spec
CONSTANTS
    AnyMarket = AnyMarket
    Instruments <- MCInstruments
    Exchange <- MCExchange
    Flag <- MCFlag
    BarShapes <- MCBars
    BookShapes <- MCBooks
    UniverseFilters <- MCFilters
    EventScanners <- MCScanners
    RuleSets <- MCRules
    Lookback = 1
    Reobserved = FALSE
    MaxTime = 3
    MaxFacts = 3
INVARIANTS
    
    QualifiedOnEvidence
