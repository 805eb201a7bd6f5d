SPECIFICATION Spec
CONSTANTS
    AnyMarket = AnyMarket
    Instruments <- MCInstruments
    Exchange <- MCExchange
    Flag <- MCFlag
    BarShapes <- MCBars
    BookShapes <- MCBooks
    UniverseFilters <- MCFilters
    EventScanners <- OneMarket
    RuleSets <- MCRules
    Lookback = 1
    Reobserved = FALSE
    MaxTime = 2
    MaxFacts = 2
INVARIANTS
    NoEventNoStrategy
