------------------------- MODULE MCScannerPipeline -------------------------
(* A Korean and an American instrument, quiet and jumpy bars.  The Korean   *)
(* one has no scanner of its own market in OneMarket.                       *)
EXTENDS ScannerPipeline

MCInstruments == <<"kr", "us">>
MCExchange == [i \in {"kr", "us"} |-> IF i = "kr" THEN "KR" ELSE "US"]
MCFlag == [i \in {"kr", "us"} |-> IF i = "kr" THEN {} ELSE {"normal"}]

Quiet == [open |-> 10, high |-> 11, low |-> 10, close |-> 10, volume |-> 5]
Jumpy == [open |-> 12, high |-> 15, low |-> 10, close |-> 14, volume |-> 20]
MCBars == {Quiet, Jumpy}
MCBooks == {[bids |-> 3, asks |-> 1], [bids |-> 1, asks |-> 1]}

MCFilters ==
    {[kind |-> "liquidity", min |-> 50],
     [kind |-> "price_range", min |-> 5, max |-> 20],
     [kind |-> "raw_flag", fails |-> {"halted"}, unknownPasses |-> TRUE]}

Scanner(k, m, t) == [kind |-> k, market |-> m, threshold |-> t]
MCScanners ==
    {Scanner("price_gap", AnyMarket, 10), Scanner("abnormal_volume", "KR", 200),
     Scanner("news_occurrence", "US", 1), Scanner("disclosure_occurrence", "KR", 1),
     Scanner("orderbook_imbalance", AnyMarket, 50), Scanner("volatility_spike", "US", 30)}
OneMarket == {Scanner("news_occurrence", "US", 1)}

Condition(f, c, t) == [field |-> f, cmp |-> c, threshold |-> t]
MCRules == {{Condition("close_price", "gte", 1000), Condition("volume", "neq", 0)}}
=============================================================================
