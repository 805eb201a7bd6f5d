------------------------------ MODULE ScanRules ------------------------------
(***************************************************************************)
(* The rules of a scan, as functions of what was fetched for one           *)
(* instrument: the universe filters, the event scanners, the strategy      *)
(* conditions.  bars is a sequence by event_time; ratios are compared      *)
(* cross-multiplied, thresholds are percentages.                           *)
(***************************************************************************)
EXTENDS Integers, Sequences, FiniteSets, FiniteSetsExt

Bar  == [open : Nat, high : Nat, low : Nat, close : Nat, volume : Nat]
Book == [bids : Nat, asks : Nat]        \* total volumes of the two sides

Latest(bars) == bars[Len(bars)]
Previous(bars) == bars[Len(bars) - 1]

Distance(a, b) == IF a >= b THEN a - b ELSE b - a

-----------------------------------------------------------------------------
(* Universe filters.  flag is the set of the field's values in raw_payload: *)
(* empty when the field, or the payload, is not there.                      *)

Turnover(bars) == MapThenSumSet(LAMBDA i : bars[i].close * bars[i].volume, DOMAIN bars)

Passes(f, bars, flag) ==
    CASE f.kind = "liquidity" ->
            bars # <<>> /\ Turnover(bars) >= f.min * Len(bars)
      [] f.kind = "price_range" ->
            bars # <<>> /\ Latest(bars).close \in f.min..f.max
      [] f.kind = "raw_flag" ->
            IF flag = {} THEN f.unknownPasses ELSE flag \cap f.fails = {}

-----------------------------------------------------------------------------
(* Event scanners: the ratio num / den observed, <<>> when there is none.   *)

PriceGap(bars) ==
    IF Len(bars) < 2 \/ Previous(bars).close = 0 THEN <<>>
    ELSE <<Distance(Latest(bars).open, Previous(bars).close), Previous(bars).close>>

\* The latest volume over the average of the bars before it.
VolumeMultiple(bars) ==
    LET history == MapThenSumSet(LAMBDA i : bars[i].volume, 1..(Len(bars) - 1))
    IN  IF Len(bars) < 2 \/ history = 0 THEN <<>>
        ELSE <<Latest(bars).volume * (Len(bars) - 1), history>>

RangeRatio(bars) ==
    IF Len(bars) < 1 \/ Latest(bars).close = 0 THEN <<>>
    ELSE <<Latest(bars).high - Latest(bars).low, Latest(bars).close>>

Imbalance(books) ==
    IF \A b \in books : b.bids + b.asks = 0 THEN <<>>
    ELSE LET b == CHOOSE b \in books : TRUE
         IN  <<Distance(b.bids, b.asks), b.bids + b.asks>>

AtLeast(ratio, percent) == ratio # <<>> /\ 100 * ratio[1] >= percent * ratio[2]

\* in: [bars, news, disclosures, books], books empty or one snapshot.
RatioOf(kind, in) ==
    CASE kind = "price_gap"           -> PriceGap(in.bars)
      [] kind = "abnormal_volume"     -> VolumeMultiple(in.bars)
      [] kind = "volatility_spike"    -> RangeRatio(in.bars)
      [] kind = "orderbook_imbalance" -> Imbalance(in.books)
      [] OTHER                        -> <<>>      \* a count is no Decimal

Detects(s, in) ==
    CASE s.kind = "news_occurrence"       -> Cardinality(in.news) >= s.threshold
      [] s.kind = "disclosure_occurrence" -> Cardinality(in.disclosures) >= s.threshold
      [] OTHER                            -> AtLeast(RatioOf(s.kind, in), s.threshold)

-----------------------------------------------------------------------------
(* Strategy conditions over a FeatureSet: field -> ratio.                   *)

\* What _build_feature_set collects: the latest bar, and the Decimal observations.
FeatureSet(in, scanners) ==
    LET observed == {s.kind : s \in {t \in scanners : RatioOf(t.kind, in) # <<>>}}
        fromBars == IF in.bars = <<>> THEN {} ELSE {"close_price", "volume"}
    IN  [f \in observed \cup fromBars |->
            CASE f = "close_price" -> <<Latest(in.bars).close, 1>>
              [] f = "volume"      -> <<Latest(in.bars).volume, 1>>
              [] OTHER             -> RatioOf(f, in)]

Compare(cmp, ratio, percent) ==
    LET a == 100 * ratio[1]
        b == percent * ratio[2]
    IN  CASE cmp = "gt"  -> a > b
          [] cmp = "gte" -> a >= b
          [] cmp = "lt"  -> a < b
          [] cmp = "lte" -> a <= b
          [] cmp = "eq"  -> a = b
          [] cmp = "neq" -> a # b

\* A field that is missing fails.
Satisfied(c, features) ==
    c.field \in DOMAIN features /\ Compare(c.cmp, features[c.field], c.threshold)
=============================================================================
