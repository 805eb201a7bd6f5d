----------------------------- MODULE DataQuality -----------------------------
(***************************************************************************)
(* compute_market_data_quality (app/db/quality.py) over the bars of one    *)
(* instrument and timeframe, as BarIngest writes them.  Events are the     *)
(* bars a fixed-interval timeframe has in [start, end].  A report takes    *)
(* two statements, and at READ COMMITTED ingestion commits between them.   *)
(***************************************************************************)
EXTENDS BarIngest

ASSUME SpanAssumption == IsFiniteSet(Events)

VARIABLE report     \* [inst, step, counted, latest]: how far the report has come

qualityVars == <<barVars, report>>

BarsOf(i) == {e \in Events : InstrumentOf[e] = i}

\* Mutant: both ends of the span and one more.
ExpectedCountTooMany(i) == Cardinality(BarsOf(i)) + 1

\* A bar per interval of the span, both ends included.
ExpectedCount(i) == Cardinality(BarsOf(i))

\* The count query ranges over rows: every revision of a bar is one.
RowsOf(i) == {r \in table : r.ev \in BarsOf(i)}

ActualCount(i) == Cardinality(RowsOf(i))

MissingCount(i) == Max({ExpectedCount(i) - ActualCount(i), 0})

\* max(ingested_at), which the ingestor set to available_at; 0 for NULL.
LatestIngested(i) == Max({r.avail : r \in RowsOf(i)} \cup {0})

-----------------------------------------------------------------------------
\* Mutant: the latencies are queried before the rows are counted.
ReadsSwapped == <<"latency", "count">>

\* The statements of a report, in order.
Reads == <<"count", "latency">>

QualityInit ==
    /\ BarInit
    /\ report \in [inst : Instruments, step : {1}, counted : {{}}, latest : {0}]

\* counted holds the rows behind actual_bar_count.
ReportStep ==
    /\ report.step <= Len(Reads)
    /\ report' = IF Reads[report.step] = "count"
                 THEN [report EXCEPT !.step = @ + 1, !.counted = RowsOf(report.inst)]
                 ELSE [report EXCEPT !.step = @ + 1, !.latest = LatestIngested(report.inst)]
    /\ UNCHANGED barVars

QualityNext == (BarNext /\ UNCHANGED report) \/ ReportStep

QualitySpec == QualityInit /\ [][QualityNext]_qualityVars

\* is_stale, for the report's `now` and stale_after_seconds.
IsStale(now, staleAfter) == report.latest = 0 \/ now - report.latest > staleAfter

(***************************************************************************)
(* What app/db/quality.py:56-58 calls accurate for a fixed-interval        *)
(* timeframe: missing_count is the number of bars nobody has stored until  *)
(* a bar is corrected, and from then on never more than that - it hides    *)
(* missing bars behind corrections, but reports none that is there.        *)
(***************************************************************************)
MissingCountHidesAtMost ==
    \A i \in Instruments :
        LET missing == {e \in BarsOf(i) : \A r \in table : r.ev # e}
        IN  /\ MissingCount(i) <= Cardinality(missing)
            /\ (\A r, s \in table : r.ev = s.ev /\ r.ev \in BarsOf(i) => r = s)
                   => MissingCount(i) = Cardinality(missing)

(***************************************************************************)
(* Although its two statements see different tables, a report never calls  *)
(* stale, for any threshold, an instrument it counted a bar of that is     *)
(* within the threshold: what is counted is in the latencies as well.      *)
(***************************************************************************)
ReportIsCoherent ==
    report.step > Len(Reads) =>
        \A r \in report.counted, now \in Times, staleAfter \in 0..MaxTime :
            now - r.avail <= staleAfter => ~IsStale(now, staleAfter)
=============================================================================
