---------------------------- MODULE SignalInputs ----------------------------
(***************************************************************************)
(* SignalEngine.build_signal_input (app/signals/engine.py): the market     *)
(* regime, from the benchmark's bars (app/regime), and the features the    *)
(* Quant Model is given, from the instrument's - two queries, while bars   *)
(* are committed and training sets are built from the same table.  The     *)
(* probability is a function of the features; the AI context is the        *)
(* caller's and passes through.                                            *)
(***************************************************************************)
EXTENDS TrainingSet

CONSTANTS
    Benchmark,              \* the instrument the regime is read from
    RegimeDays,             \* lookback_days of the regime provider
    ServingDays,            \* feature_lookback_days of the engine
    TrendLookback, TrendUp, TrendDown,      \* bars, and thresholds in percent
    VolatilityLookback, HighVolatility, LowVolatility,
    Expanding, Contracting,                 \* of the breadth, in percent
    Requests,               \* the signals that may be asked for
    MaxSignals              \* bound on the calls

\* counts: <<advancing, declining>>, or <<>> when they are not supplied.
Counts == {<<>>} \cup (Nat \X Nat)
Request == [inst : Instruments, asOf : 1..MaxTime, counts : Counts]

ASSUME SignalAssumption ==
    /\ Benchmark \in Instruments
    /\ {RegimeDays, ServingDays, TrendLookback, VolatilityLookback, MaxSignals} \subseteq Nat
    /\ {HighVolatility, LowVolatility, Expanding, Contracting} \subseteq Nat
    /\ {TrendUp, TrendDown} \subseteq Int
    /\ Requests \subseteq Request

VARIABLES
    call,       \* the call in progress: the query it is at, and what it has
    signals     \* the SignalInputs returned

signalVars == <<call, signals>>

States == {"unknown", "uptrend", "downtrend", "sideways", "low", "normal", "high",
           "expanding", "contracting", "neutral"}
Regime == [trend : States, volatility : States, breadth : States]
Unread == [trend |-> "unknown", volatility |-> "unknown", breadth |-> "unknown"]
NoCall == [at |-> "idle"]

SignalTypeOK ==
    /\ TypeOK
    /\ \/ call = NoCall
       \/ call \in [at : {"regime", "quant"}, inst : Instruments, asOf : 1..clock,
                    counts : Counts, past : BOOLEAN, regime : Regime]
    /\ \A s \in signals : s.regime \in Regime /\ s.quant \in Seq(Bars)
    /\ Cardinality(signals) <= MaxSignals

SignalInit == Init /\ call = NoCall /\ signals = {}

-----------------------------------------------------------------------------
(* RegimeClassifier.classify                                                *)

\* The last n bars, or all when there are fewer.
Window(seq, n) == IF Len(seq) <= n THEN seq ELSE LastBars(seq, n)

\* percent <= gain / base, for a base above zero.
AtLeast(gain, base, percent) == percent * base <= 100 * gain
AtMost(gain, base, percent)  == 100 * gain <= percent * base

\* Mutant: one bar too few is enough.
TrendOneShort(seq) ==
    LET window == Window(seq, TrendLookback + 1)
        first  == window[1].close
        gain   == window[Len(window)].close - first
    IN  IF Len(seq) < TrendLookback \/ first = 0 THEN "unknown"
        ELSE IF AtLeast(gain, first, TrendUp) THEN "uptrend"
        ELSE IF AtMost(gain, first, TrendDown) THEN "downtrend"
        ELSE "sideways"

Trend(seq) ==
    LET window == LastBars(seq, TrendLookback + 1)
        first  == window[1].close
        gain   == window[Len(window)].close - first
    IN  IF Len(seq) <= TrendLookback \/ first = 0 THEN "unknown"
        ELSE IF AtLeast(gain, first, TrendUp) THEN "uptrend"
        ELSE IF AtMost(gain, first, TrendDown) THEN "downtrend"
        ELSE "sideways"

\* The days with a return: the close before it is the base, and not zero.
ReturnDays(window) == {n \in 1..(Len(window) - 1) : window[n].close # 0}

\* The returns r are brought to a common denominator, the product of the bases.
Denominator(window) == FoldSet(LAMBDA n, p : window[n].close * p, 1, ReturnDays(window))

\* Times the square of the number of returns and of the denominator.
Variance(window) ==
    LET days == ReturnDays(window)
        r(n) == (window[n + 1].close - window[n].close)
                    * (Denominator(window) \div window[n].close)
        sum == MapThenSumSet(r, days)
    IN  Cardinality(days) * MapThenSumSet(LAMBDA n : r(n) * r(n), days) - sum * sum

\* The population standard deviation of the daily returns, compared by its square.
Volatility(seq) ==
    LET window == Window(seq, VolatilityLookback + 1)
        size == Cardinality(ReturnDays(window))
        limit(percent) == (percent * size * Denominator(window))
                            * (percent * size * Denominator(window))
    IN  IF size < 2 THEN "unknown"
        ELSE IF 10000 * Variance(window) >= limit(HighVolatility) THEN "high"
        ELSE IF 10000 * Variance(window) <= limit(LowVolatility) THEN "low"
        ELSE "normal"

Breadth(counts) ==
    IF counts = <<>> THEN "unknown"
    ELSE LET total == counts[1] + counts[2]
         IN  IF total = 0 THEN "unknown"
             ELSE IF AtLeast(counts[1], total, Expanding) THEN "expanding"
             ELSE IF AtMost(counts[1], total, Contracting) THEN "contracting"
             ELSE "neutral"

Classify(seq, counts) ==
    [trend |-> Trend(seq), volatility |-> Volatility(seq), breadth |-> Breadth(counts)]

RegimeBars(t) == BarsAsOf(Benchmark, t - RegimeDays, t, t)
ServingBars(i, t) == BarsAsOf(i, t - ServingDays, t, t)

-----------------------------------------------------------------------------
(* build_signal_input                                                       *)

\* asOf may be now; whether it was past is noted for the properties.
StartSignal(q) ==
    /\ call.at = "idle"
    /\ Cardinality(signals) < MaxSignals
    /\ q.asOf <= clock
    /\ call' = [at |-> "regime", inst |-> q.inst, asOf |-> q.asOf, counts |-> q.counts,
                past |-> q.asOf < clock, regime |-> Unread]
    /\ UNCHANGED signals

\* Mutant: the benchmark's bars are read as they are now.
FetchRegimeNow ==
    /\ call.at = "regime"
    /\ call' = [call EXCEPT !.at = "quant",
                    !.regime = Classify(BarsAsOf(Benchmark, call.asOf - RegimeDays, clock, clock),
                                        call.counts)]
    /\ UNCHANGED signals

FetchRegime ==
    /\ call.at = "regime"
    /\ call' = [call EXCEPT !.at = "quant",
                    !.regime = Classify(RegimeBars(call.asOf), call.counts)]
    /\ UNCHANGED signals

\* Mutant: the newest revisions of the right bars.
FetchQuantLatest ==
    /\ call.at = "quant"
    /\ LET found == Features(BarsAsOf(call.inst, call.asOf - ServingDays, call.asOf, clock))
       IN  signals' = signals \cup
              {[inst |-> call.inst, asOf |-> call.asOf, past |-> call.past,
                counts |-> call.counts, regime |-> call.regime, quant |-> found]}
    /\ call' = NoCall

\* Without a model, or without features, there is no probability.
FetchQuant ==
    /\ call.at = "quant"
    /\ \E found \in {Features(ServingBars(call.inst, call.asOf)), <<>>} :
          signals' = signals \cup
              {[inst |-> call.inst, asOf |-> call.asOf, past |-> call.past,
                counts |-> call.counts, regime |-> call.regime, quant |-> found]}
    /\ call' = NoCall

SignalNext ==
    \/ Next /\ UNCHANGED signalVars
    \/ /\ \/ \E q \in Requests : StartSignal(q)
          \/ FetchRegime
          \/ FetchQuant
       /\ UNCHANGED vars

SignalSpec == SignalInit /\ [][SignalNext]_<<vars, signalVars>>

-----------------------------------------------------------------------------
(***************************************************************************)
(* app/regime/__init__.py:13-18, app/signals/__init__.py:8-11: a signal    *)
(* input as of a past instant is what the same call gives at any later     *)
(* time, regime and features alike, whatever was committed before, between *)
(* or after its two queries.                                               *)
(***************************************************************************)
Reproducible(s) ==
    /\ s.regime = Classify(RegimeBars(s.asOf), s.counts)
    /\ s.quant \in {<<>>, Features(ServingBars(s.inst, s.asOf))}

SignalIsReproducible == \A s \in signals : s.past => Reproducible(s)

(***************************************************************************)
(* docs/architecture/0011-ai-context-quant-regime-signal-engine.md:193-194:*)
(* the model is served the features it was trained on: a signal and a      *)
(* training sample of one instrument and instant have the same features,   *)
(* although their windows are configured apart and their queries run at    *)
(* different times - or the signal has none.                               *)
(***************************************************************************)
ServedAsTrained ==
    \A s \in signals, n \in DOMAIN samples :
        s.inst = samples[n].inst /\ s.asOf = samples[n].asOf /\ s.past =>
            s.quant \in {<<>>, samples[n].features}

(***************************************************************************)
(* app/regime/classifier.py:106-111 and ADR 0011:81-82: too little history *)
(* never turns one trend into another, it makes it unknown: with any       *)
(* number of the latest bars the trend is that of all of them, or none.    *)
(* (Of the volatility this is not so: two returns are enough for it.)      *)
(***************************************************************************)
LatestBars(seq, n) == SubSeq(seq, Len(seq) - n + 1, Len(seq))

TrendIsNeverGuessed ==
    \A s \in signals :
        LET seq == RegimeBars(s.asOf)
        IN  \A n \in 0..Len(seq) : Trend(LatestBars(seq, n)) \in {"unknown", Trend(seq)}

VolatilityIsNeverGuessed ==
    \A s \in signals :
        LET seq == RegimeBars(s.asOf)
        IN  \A n \in 0..Len(seq) :
                Volatility(LatestBars(seq, n)) \in {"unknown", Volatility(seq)}

(***************************************************************************)
(* The same of signals as of now, which the code does not promise: what is *)
(* stamped now may be committed between the two queries, or after them.    *)
(***************************************************************************)
LiveSignalIsReproducible == \A s \in signals : Reproducible(s)
=============================================================================
