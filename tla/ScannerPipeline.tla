--------------------------- MODULE ScannerPipeline ---------------------------
(***************************************************************************)
(* ScannerPipeline.scan(as_of) over the instruments, one query after the   *)
(* other at READ COMMITTED, while ingestors commit more rows: bars, news,  *)
(* disclosures and orderbook snapshots, each available from the moment it  *)
(* is committed (what happens between the two is RevisionStore's subject). *)
(***************************************************************************)
EXTENDS ScanRules, Functions

CONSTANTS
    Instruments,    \* in the order of list_all
    Exchange,       \* Exchange[i]
    Flag,           \* Flag[i]: the values of i's raw_payload field, or {}
    BarShapes,      \* the bars that may be observed
    BookShapes,     \* the orderbook snapshots that may be observed
    UniverseFilters,
    EventScanners,  \* [kind, market, threshold]
    AnyMarket,      \* market=None
    RuleSets,       \* {} or {the conditions of the strategy_rule_set}
    Lookback,       \* lookback_days, of bars, news and disclosures alike
    Reobserved,     \* whether a snapshot can be observed again, with other volumes
    MaxTime,        \* bound on the clock
    MaxFacts        \* bound on the rows committed

ASSUME PipelineAssumption ==
    /\ Instruments \in Seq(Range(Instruments)) /\ IsInjective(Instruments)
    /\ BarShapes \subseteq Bar /\ BookShapes \subseteq Book
    /\ Cardinality(RuleSets) <= 1
    /\ {Lookback, MaxFacts} \subseteq Nat /\ MaxTime \in Nat \ {0}
    /\ Reobserved \in BOOLEAN

VARIABLES
    clock,
    bars,       \* {[inst, ev, shape, avail]}: the revisions of bar (inst, ev)
    items,      \* {[kind, inst, ev, avail]}: news and disclosures
    books,      \* {[inst, ev, shape, avail]}, one per (inst, ev)
    at,         \* the query the scan is at, "idle" or "done"
    asOf,
    todo,       \* the instruments still to be scanned
    in,         \* what has been fetched for the first of them
    scanned     \* the candidates so far: instrument -> candidate

vars == <<clock, bars, items, books, at, asOf, todo, in, scanned>>

Insts == Range(Instruments)
Kinds == {"news", "disclosures"}
Nothing == [bars |-> <<>>, news |-> {}, disclosures |-> {}, books |-> {}]
ScannerKinds == {s.kind : s \in EventScanners}

Candidate == [universe : BOOLEAN, events : SUBSET ScannerKinds,
              strategy : SUBSET BOOLEAN, qualified : BOOLEAN]

TypeOK ==
    /\ clock \in 1..MaxTime
    /\ bars \subseteq [inst : Insts, ev : 1..clock, shape : BarShapes, avail : 1..clock]
    /\ items \subseteq [kind : Kinds, inst : Insts, ev : 1..clock, avail : 1..clock]
    /\ books \subseteq [inst : Insts, ev : 1..clock, shape : BookShapes, avail : 1..clock]
    /\ at \in {"idle", "bars", "news", "disclosures", "books", "done"}
    /\ asOf \in 0..clock - 1
    /\ \E n \in 0..Len(Instruments) :
          /\ todo = SubSeq(Instruments, n + 1, Len(Instruments))
          /\ DOMAIN scanned = IF at = "idle" THEN {} ELSE {Instruments[k] : k \in 1..n}
    /\ in.bars \in Seq(BarShapes) /\ in.news \cup in.disclosures \subseteq items
    /\ in.books \subseteq BookShapes
    /\ \A i \in DOMAIN scanned : scanned[i] \in Candidate

Init ==
    /\ clock = 1
    /\ bars = {}
    /\ items = {}
    /\ books = {}
    /\ at = "idle"
    /\ asOf = 0
    /\ todo = <<>>
    /\ in = Nothing
    /\ scanned = <<>>

-----------------------------------------------------------------------------
(* Ingestion.                                                               *)

Tick ==
    /\ clock < MaxTime
    /\ clock' = clock + 1
    /\ UNCHANGED <<bars, items, books, at, asOf, todo, in, scanned>>

Room == Cardinality(bars) + Cardinality(items) + Cardinality(books) < MaxFacts

\* append_revision_rows: a correction is a row of its own.
CommitBar(i, ev, shape) ==
    /\ Room
    /\ ~\E b \in bars : b.inst = i /\ b.ev = ev /\ b.avail = clock
    /\ bars' = bars \cup {[inst |-> i, ev |-> ev, shape |-> shape, avail |-> clock]}
    /\ UNCHANGED <<clock, items, books, at, asOf, todo, in, scanned>>

CommitItem(kind, i, ev) ==
    /\ Room
    /\ items' = items \cup {[kind |-> kind, inst |-> i, ev |-> ev, avail |-> clock]}
    /\ UNCHANGED <<clock, bars, books, at, asOf, todo, in, scanned>>

\* upsert_event_rows: a snapshot observed again keeps its available_at.
CommitBook(i, ev, shape) ==
    LET known == {b \in books : b.inst = i /\ b.ev = ev}
        new == IF known = {} THEN {[inst |-> i, ev |-> ev, shape |-> shape, avail |-> clock]}
               ELSE {[b EXCEPT !.shape = shape] : b \in known}
    IN  /\ IF known = {} THEN Room ELSE Reobserved
        /\ books' = (books \ known) \cup new
        /\ UNCHANGED <<clock, bars, items, at, asOf, todo, in, scanned>>

-----------------------------------------------------------------------------
(* The point-in-time reads.                                                 *)

\* Mutant: whatever is committed is read.
InWindowNow(r, i, t) == r.inst = i /\ r.ev \in (t - Lookback)..t

InWindow(r, i, t) == r.inst = i /\ r.ev \in (t - Lookback)..t /\ r.avail <= t

\* The rows in order: the n-th is the one that n - 1 others precede.
ByEvent(rows) ==
    [n \in 1..Cardinality(rows) |->
        CHOOSE a \in rows : Cardinality({b \in rows : b.ev < a.ev}) = n - 1]

\* get_bars_as_of: the latest revision of each bar, by event_time.
BarsAsOf(i, t) ==
    LET known  == {b \in bars : InWindow(b, i, t)}
        sorted == ByEvent({b \in known : \A c \in known : c.ev = b.ev => c.avail <= b.avail})
    IN  [n \in DOMAIN sorted |-> sorted[n].shape]

\* get_news_as_of and get_disclosures_as_of.
ItemsAsOf(kind, i, t) == {m \in items : m.kind = kind /\ InWindow(m, i, t)}

\* get_latest_as_of: of any age.
BookAsOf(i, t) ==
    LET known == {b \in books : b.inst = i /\ b.avail <= t}
    IN  {b.shape : b \in {c \in known : \A d \in known : d.ev <= c.ev}}

-----------------------------------------------------------------------------
(* The scan.                                                                *)

Applicable(i) == {s \in EventScanners : s.market \in {AnyMarket, Exchange[i]}}

Detected(i, data) == {s.kind : s \in {t \in Applicable(i) : Detects(t, data)}}

\* Mutant: the event gate is open.
HasTriggeringEventAlways(i, data) == TRUE

HasTriggeringEvent(i, data) ==
    IF Applicable(i) = {} THEN TRUE ELSE Detected(i, data) # {}

PassesUniverse(i, data) == \A f \in UniverseFilters : Passes(f, data.bars, Flag[i])

\* {} without a strategy_rule_set, otherwise whether every condition holds.
StrategyResult(i, data) ==
    {\A c \in rules : Satisfied(c, FeatureSet(data, Applicable(i))) : rules \in RuleSets}

StartScan(t) ==
    /\ at \in {"idle", "done"}
    /\ t < clock
    /\ asOf' = t
    /\ at' = IF Instruments = <<>> THEN "done" ELSE "bars"
    /\ todo' = Instruments
    /\ in' = Nothing
    /\ scanned' = <<>>
    /\ UNCHANGED <<clock, bars, items, books>>

\* The first instrument's Candidate is made.
Made(candidate) ==
    /\ scanned' = [i \in DOMAIN scanned \cup {Head(todo)} |->
                      IF i = Head(todo) THEN candidate ELSE scanned[i]]
    /\ todo' = Tail(todo)
    /\ in' = Nothing
    /\ at' = IF Tail(todo) = <<>> THEN "done" ELSE "bars"

\* The Universe Filter: nothing more is fetched for an instrument that fails.
ScanBars ==
    LET data == [Nothing EXCEPT !.bars = BarsAsOf(Head(todo), asOf)]
    IN  /\ at = "bars"
        /\ IF PassesUniverse(Head(todo), data)
           THEN in' = data /\ at' = "news" /\ UNCHANGED <<todo, scanned>>
           ELSE Made([universe |-> FALSE, events |-> {}, strategy |-> {}, qualified |-> FALSE])
        /\ UNCHANGED <<clock, bars, items, books, asOf>>

FetchNews ==
    /\ at = "news"
    /\ in' = [in EXCEPT !.news = ItemsAsOf("news", Head(todo), asOf)]
    /\ at' = "disclosures"
    /\ UNCHANGED <<clock, bars, items, books, asOf, todo, scanned>>

FetchDisclosures ==
    /\ at = "disclosures"
    /\ in' = [in EXCEPT !.disclosures = ItemsAsOf("disclosures", Head(todo), asOf)]
    /\ at' = "books"
    /\ UNCHANGED <<clock, bars, items, books, asOf, todo, scanned>>

\* The last query, the Event Scanners and, behind their gate, the Strategy Scanner.
ScanEvents ==
    LET i == Head(todo)
        data == [in EXCEPT !.books = BookAsOf(i, asOf)]
        result == IF HasTriggeringEvent(i, data) THEN StrategyResult(i, data) ELSE {}
    IN  /\ at = "books"
        /\ Made([universe  |-> TRUE,
                 events    |-> Detected(i, data),
                 strategy  |-> result,
                 qualified |-> HasTriggeringEvent(i, data) /\ FALSE \notin result])
        /\ UNCHANGED <<clock, bars, items, books, asOf>>

Ingest ==
    \E i \in Insts, ev \in 1..clock :
        \/ \E shape \in BarShapes : CommitBar(i, ev, shape)
        \/ \E kind \in Kinds : CommitItem(kind, i, ev)
        \/ \E shape \in BookShapes : CommitBook(i, ev, shape)

Next ==
    \/ Tick
    \/ Ingest
    \/ \E t \in 1..MaxTime : StartScan(t)
    \/ ScanBars \/ FetchNews \/ FetchDisclosures \/ ScanEvents

Spec == Init /\ [][Next]_vars

-----------------------------------------------------------------------------
(***************************************************************************)
(* docs/architecture/0010-scanner-pipeline.md:160-161: what a scan as of a *)
(* past instant says of an instrument is a function of what was available  *)
(* then: it is the same whatever was committed before it, between its      *)
(* queries, or since.  It holds unless orderbook snapshots are observed    *)
(* again.                                                                  *)
(***************************************************************************)
AsOf(i, t) ==
    [bars |-> BarsAsOf(i, t), news |-> ItemsAsOf("news", i, t),
     disclosures |-> ItemsAsOf("disclosures", i, t), books |-> BookAsOf(i, t)]

Expected(i, data) ==
    LET universe == PassesUniverse(i, data)
        gate == universe /\ HasTriggeringEvent(i, data)
    IN  [universe  |-> universe,
         events    |-> IF universe THEN Detected(i, data) ELSE {},
         strategy  |-> IF gate THEN StrategyResult(i, data) ELSE {},
         qualified |-> gate /\ StrategyResult(i, data) \subseteq {TRUE}]

ScanIsPointInTime == \A i \in DOMAIN scanned : scanned[i] = Expected(i, AsOf(i, asOf))

(***************************************************************************)
(* qualified is a summary of the evidence beside it: the filters passed,   *)
(* one of the scanners of the instrument's market, if it has any, saw an   *)
(* event, and every condition of the strategy, if there is one, held.      *)
(***************************************************************************)
QualifiedOnEvidence ==
    \A i \in DOMAIN scanned :
        scanned[i].qualified <=>
            /\ scanned[i].universe
            /\ Applicable(i) = {} \/ scanned[i].events # {}
            /\ RuleSets = {} \/ scanned[i].strategy = {TRUE}

(***************************************************************************)
(* app/scanners/pipeline.py:18-22: with at least one event scanner         *)
(* configured, the Strategy Scanner never runs without an event to react   *)
(* to.                                                                     *)
(***************************************************************************)
NoEventNoStrategy ==
    \A i \in DOMAIN scanned :
        EventScanners # {} /\ scanned[i].strategy # {} => scanned[i].events # {}
=============================================================================
