------------------------ MODULE ScannerPipelineProofs ------------------------
(***************************************************************************)
(* A scan as of a past instant is a function of what was available then,   *)
(* and what it calls qualified agrees with the evidence it reports: proofs *)
(* for any instruments, rules, scanners, windows and bounds.               *)
(***************************************************************************)
EXTENDS ScannerPipeline, FiniteSetTheorems, SequenceTheorems, TLAPS

\* What an instrument's data are when the scan has come to query q of it.
FetchedBy(q, i, t) ==
    [bars        |-> IF q = "bars" THEN <<>> ELSE BarsAsOf(i, t),
     news        |-> IF q \in {"bars", "news"} THEN {} ELSE ItemsAsOf("news", i, t),
     disclosures |-> IF q = "books" THEN ItemsAsOf("disclosures", i, t) ELSE {},
     books       |-> {}]

Queries == {"bars", "news", "disclosures", "books"}

(***************************************************************************)
(* The inductive invariant.  ClockInv: rows become available when they are *)
(* committed, and the scan is as of an instant before the present.         *)
(* FetchedInv: what the scan has in hand it would fetch again, and of an   *)
(* instrument that failed the universe filter it fetches no more.          *)
(***************************************************************************)
ClockInv ==
    /\ clock \in Nat
    /\ asOf \in Nat /\ asOf < clock
    /\ at \in Queries \cup {"idle", "done"}

FetchedInv ==
    at \in Queries =>
        /\ in = FetchedBy(at, Head(todo), asOf)
        /\ at # "bars" => PassesUniverse(Head(todo), in)

ScanInv == ClockInv /\ FetchedInv /\ ScanIsPointInTime

-----------------------------------------------------------------------------
(* What a past instant's queries read does not change.                      *)

Stable == \A i, kind :
    /\ BarsAsOf(i, asOf)' = BarsAsOf(i, asOf)
    /\ ItemsAsOf(kind, i, asOf)' = ItemsAsOf(kind, i, asOf)
    /\ BookAsOf(i, asOf)' = BookAsOf(i, asOf)

\* Rows that are only added, and available from now on.
Grows(old, new) == old \subseteq new /\ \A r \in new \ old : r.avail = clock

LEMMA QueriesAreStable ==
    ASSUME ClockInv, asOf' = asOf, Grows(bars, bars'), Grows(items, items'), Grows(books, books')
    PROVE  Stable
<1>1. asOf \in Int /\ clock \in Int /\ asOf < clock
  BY DEF ClockInv
<1>2. ASSUME NEW old, NEW new, Grows(old, new) PROVE \A r \in new : r.avail <= asOf => r \in old
  BY <1>1, <1>2 DEF Grows
<1> SUFFICES ASSUME NEW i, NEW kind
             PROVE  /\ BarsAsOf(i, asOf)' = BarsAsOf(i, asOf)
                    /\ ItemsAsOf(kind, i, asOf)' = ItemsAsOf(kind, i, asOf)
                    /\ BookAsOf(i, asOf)' = BookAsOf(i, asOf)
  BY DEF Stable
<1>3. {b \in bars' : InWindow(b, i, asOf)} = {b \in bars : InWindow(b, i, asOf)}
  BY <1>2 DEF Grows, InWindow
<1>4. {m \in items' : m.kind = kind /\ InWindow(m, i, asOf)}
        = {m \in items : m.kind = kind /\ InWindow(m, i, asOf)}
  BY <1>2 DEF Grows, InWindow
<1>5. {b \in books' : b.inst = i /\ b.avail <= asOf} = {b \in books : b.inst = i /\ b.avail <= asOf}
  BY <1>2 DEF Grows
<1> QED BY <1>3, <1>4, <1>5 DEF BarsAsOf, ItemsAsOf, BookAsOf

(***************************************************************************)
(* Whatever ingestion commits leaves what the scan has, and has said.      *)
(***************************************************************************)
LEMMA StableKeepsScan ==
    ASSUME ScanInv, Stable, clock' \in Nat, clock <= clock', UNCHANGED <<at, asOf, todo, in, scanned>>
    PROVE  ScanInv'
<1>1. ClockInv'
  <2>1. clock \in Nat /\ asOf \in Nat /\ asOf < clock
    BY DEF ScanInv, ClockInv
  <2>2. asOf < clock'
    BY <2>1
  <2> QED BY <2>1, <2>2 DEF ScanInv, ClockInv
<1>2. FetchedInv'
  <2>1. \A i : FetchedBy(at, i, asOf)' = FetchedBy(at, i, asOf)
    BY DEF Stable, FetchedBy
  <2>2. \A i : PassesUniverse(i, in)' <=> PassesUniverse(i, in)
    BY DEF PassesUniverse
  <2> QED BY <2>1, <2>2 DEF ScanInv, FetchedInv
<1>3. ScanIsPointInTime'
  <2>1. \A i : AsOf(i, asOf)' = AsOf(i, asOf)
    BY DEF Stable, AsOf
  <2> QED BY <2>1 DEF ScanInv, ScanIsPointInTime
<1> QED BY <1>1, <1>2, <1>3 DEF ScanInv

LEMMA TickKeepsScan == ASSUME ScanInv, Tick PROVE ScanInv'
<1>1. Stable
  BY QueriesAreStable DEF ScanInv, Tick, Grows
<1>2. clock' \in Nat /\ clock <= clock'
  BY DEF ScanInv, ClockInv, Tick
<1> QED BY <1>1, <1>2, StableKeepsScan DEF Tick

LEMMA IngestKeepsScan == ASSUME ScanInv, ~Reobserved, Ingest PROVE ScanInv'
<1>1. PICK i \in Insts, ev \in 1..clock :
        \/ \E shape \in BarShapes : CommitBar(i, ev, shape)
        \/ \E kind \in Kinds : CommitItem(kind, i, ev)
        \/ \E shape \in BookShapes : CommitBook(i, ev, shape)
  BY DEF Ingest
<1>2. clock' = clock /\ UNCHANGED <<at, asOf, todo, in, scanned>>
  BY <1>1 DEF CommitBar, CommitItem, CommitBook
<1>3. Grows(bars, bars')
  BY <1>1 DEF CommitBar, CommitItem, CommitBook, Grows
<1>4. Grows(items, items')
  BY <1>1 DEF CommitBar, CommitItem, CommitBook, Grows
<1>5. Grows(books, books')
  <2>1. ASSUME NEW shape, CommitBook(i, ev, shape) PROVE Grows(books, books')
    <3> DEFINE known == {b \in books : b.inst = i /\ b.ev = ev}
    <3>1. known = {}
      BY <2>1 DEF CommitBook
    <3>2. books' = books \cup {[inst |-> i, ev |-> ev, shape |-> shape, avail |-> clock]}
      BY <2>1, <3>1 DEF CommitBook
    <3> QED BY <3>2 DEF Grows
  <2> QED BY <1>1, <2>1 DEF CommitBar, CommitItem, Grows
<1>6. Stable
  BY <1>2, <1>3, <1>4, <1>5, QueriesAreStable DEF ScanInv
<1>7. clock' \in Nat /\ clock <= clock'
  BY <1>2 DEF ScanInv, ClockInv
<1> QED BY <1>2, <1>6, <1>7, StableKeepsScan

-----------------------------------------------------------------------------
(* The scan's own steps.                                                    *)

LEMMA ScanReadsOnly ==
    ASSUME ScanBars \/ FetchNews \/ FetchDisclosures \/ ScanEvents
    PROVE  UNCHANGED <<clock, bars, items, books, asOf>>
  BY DEF ScanBars, FetchNews, FetchDisclosures, ScanEvents

LEMMA UnchangedQueries ==
    ASSUME UNCHANGED <<clock, bars, items, books, asOf>>
    PROVE  /\ Stable
           /\ \A i : AsOf(i, asOf)' = AsOf(i, asOf)
           /\ ClockInv /\ at' \in Queries \cup {"idle", "done"} => ClockInv'
<1>1. Stable
  BY DEF Stable, BarsAsOf, ItemsAsOf, BookAsOf, InWindow
<1> QED BY <1>1 DEF Stable, AsOf, ClockInv

(***************************************************************************)
(* The scan goes on to the next instrument with nothing in hand.           *)
(***************************************************************************)
LEMMA MadeKeepsScan ==
    ASSUME ScanInv, UNCHANGED <<clock, bars, items, books, asOf>>,
           NEW c, Made(c), c = Expected(Head(todo), AsOf(Head(todo), asOf))
    PROVE  ScanInv'
<1>1. at' \in {"bars", "done"} /\ in' = Nothing
  BY DEF Made
<1>2. FetchedInv'
  BY <1>1 DEF FetchedInv, FetchedBy, Nothing, Queries
<1>3. ScanIsPointInTime'
  <2> SUFFICES ASSUME NEW i \in DOMAIN scanned'
               PROVE  scanned'[i] = Expected(i, AsOf(i, asOf)')
    BY DEF ScanIsPointInTime
  <2>1. AsOf(i, asOf)' = AsOf(i, asOf)
    BY UnchangedQueries
  <2>2. scanned'[i] = IF i = Head(todo) THEN c ELSE scanned[i]
    BY DEF Made
  <2>3. i # Head(todo) => i \in DOMAIN scanned
    BY DEF Made
  <2> QED BY <2>1, <2>2, <2>3 DEF ScanInv, ScanIsPointInTime
<1>4. ClockInv'
  BY <1>1, UnchangedQueries DEF ScanInv, Queries
<1> QED BY <1>2, <1>3, <1>4 DEF ScanInv

\* The universe filter looks at the bars only.
LEMMA UniverseOfBars ==
    ASSUME NEW i, NEW d, NEW e, d.bars = e.bars
    PROVE  PassesUniverse(i, d) = PassesUniverse(i, e) /\ PassesUniverse(i, d) \in BOOLEAN
  BY DEF PassesUniverse

LEMMA GoesOn ==
    ASSUME ScanInv, UNCHANGED <<clock, bars, items, books, asOf, todo, scanned>>,
           NEW q \in Queries, at' = q, in' = FetchedBy(q, Head(todo), asOf),
           PassesUniverse(Head(todo), in')
    PROVE  ScanInv'
<1>1. /\ \A i : AsOf(i, asOf)' = AsOf(i, asOf)
      /\ ClockInv'
  BY UnchangedQueries DEF ScanInv
<1>2. ScanIsPointInTime'
  BY <1>1 DEF ScanInv, ScanIsPointInTime
<1>3. \A i : FetchedBy(q, i, asOf)' = FetchedBy(q, i, asOf)
  BY UnchangedQueries DEF Stable, FetchedBy
<1>4. PassesUniverse(Head(todo), in)'
  BY DEF PassesUniverse
<1>5. FetchedInv'
  BY <1>3, <1>4 DEF FetchedInv
<1> QED BY <1>1, <1>2, <1>5 DEF ScanInv

LEMMA WithBars ==
    ASSUME NEW x
    PROVE  [Nothing EXCEPT !.bars = x]
             = [bars |-> x, news |-> {}, disclosures |-> {}, books |-> {}]
<1>1. PICK b, n : b = <<>> /\ n = {}
  OBVIOUS
<1>2. Nothing = [bars |-> b, news |-> n, disclosures |-> n, books |-> n]
  BY <1>1 DEF Nothing
<1>3. [Nothing EXCEPT !.bars = x] = [bars |-> x, news |-> n, disclosures |-> n, books |-> n]
  BY <1>2
<1> QED BY <1>1, <1>3

LEMMA ScanBarsKeepsScan == ASSUME ScanInv, ScanBars PROVE ScanInv'
<1> DEFINE i == Head(todo)
           data == [Nothing EXCEPT !.bars = BarsAsOf(i, asOf)]
<1>1. at = "bars" /\ UNCHANGED <<clock, bars, items, books, asOf>>
  BY DEF ScanBars
<1>2. data = FetchedBy("news", i, asOf)
  <2>1. data = [bars |-> BarsAsOf(i, asOf), news |-> {}, disclosures |-> {}, books |-> {}]
    BY WithBars
  <2> QED BY <2>1 DEF FetchedBy
<1>3. data.bars = AsOf(i, asOf).bars
  BY DEF Nothing, AsOf
<1>4. CASE PassesUniverse(i, data)
  <2>1. in' = data /\ at' = "news" /\ UNCHANGED <<todo, scanned>>
    BY <1>4 DEF ScanBars
  <2> HIDE DEF data
  <2> QED BY <1>1, <1>2, <1>4, <2>1, GoesOn DEF Queries
<1>5. CASE ~PassesUniverse(i, data)
  <2> DEFINE c == [universe |-> FALSE, events |-> {}, strategy |-> {}, qualified |-> FALSE]
  <2>1. Made(c)
    BY <1>5 DEF ScanBars
  <2>2. PassesUniverse(i, AsOf(i, asOf)) = FALSE
    BY <1>3, <1>5, UniverseOfBars
  <2>3. c = Expected(i, AsOf(i, asOf))
    BY <2>2 DEF Expected
  <2> HIDE DEF c
  <2> QED BY <1>1, <2>1, <2>3, MadeKeepsScan
<1> QED BY <1>4, <1>5

LEMMA FetchKeepsScan == ASSUME ScanInv, FetchNews \/ FetchDisclosures PROVE ScanInv'
<1>1. /\ in = FetchedBy(at, Head(todo), asOf)
      /\ PassesUniverse(Head(todo), in)
      /\ UNCHANGED <<clock, bars, items, books, asOf, todo, scanned>>
  BY DEF ScanInv, FetchedInv, FetchNews, FetchDisclosures, Queries
<1>2. PICK q \in Queries : at' = q /\ in' = FetchedBy(q, Head(todo), asOf)
  BY <1>1 DEF FetchNews, FetchDisclosures, FetchedBy, Queries
<1>3. in'.bars = in.bars
  BY <1>1, <1>2 DEF FetchNews, FetchDisclosures, FetchedBy
<1>4. PassesUniverse(Head(todo), in')
  BY <1>1, <1>3, UniverseOfBars
<1> QED BY <1>1, <1>2, <1>4, GoesOn
(***************************************************************************)
(* What the event gate and the strategy say.                               *)
(***************************************************************************)
LEMMA ResultsAreBoolean ==
    ASSUME NEW i, NEW d
    PROVE  /\ StrategyResult(i, d) \subseteq BOOLEAN
           /\ StrategyResult(i, d) = {} <=> RuleSets = {}
           /\ HasTriggeringEvent(i, d) = (Applicable(i) = {} \/ Detected(i, d) # {})
  BY DEF StrategyResult, HasTriggeringEvent

\* The candidate that ScanEvents makes of the data d.
Judged(i, d) ==
    LET result == IF HasTriggeringEvent(i, d) THEN StrategyResult(i, d) ELSE {}
    IN  [universe  |-> TRUE,
         events    |-> Detected(i, d),
         strategy  |-> result,
         qualified |-> HasTriggeringEvent(i, d) /\ FALSE \notin result]

LEMMA JudgedAsExpected ==
    ASSUME NEW i, NEW d, PassesUniverse(i, d) PROVE Judged(i, d) = Expected(i, d)
<1>1. PassesUniverse(i, d) = TRUE
  BY UniverseOfBars
<1>2. FALSE \notin StrategyResult(i, d) <=> StrategyResult(i, d) \subseteq {TRUE}
  BY ResultsAreBoolean
<1>3. CASE HasTriggeringEvent(i, d)
  BY <1>1, <1>2, <1>3 DEF Judged, Expected
<1>4. CASE ~HasTriggeringEvent(i, d)
  BY <1>1, <1>2, <1>4 DEF Judged, Expected
<1> QED BY <1>3, <1>4

LEMMA ScanEventsKeepsScan == ASSUME ScanInv, ScanEvents PROVE ScanInv'
<1> DEFINE i == Head(todo)
           data == [in EXCEPT !.books = BookAsOf(i, asOf)]
<1>1. /\ at = "books" /\ UNCHANGED <<clock, bars, items, books, asOf>>
      /\ Made(Judged(i, data))
  BY DEF ScanEvents, Judged
<1>2. in = FetchedBy("books", i, asOf) /\ PassesUniverse(i, in)
  BY <1>1 DEF ScanInv, FetchedInv, Queries
<1>3. data = AsOf(i, asOf)
  BY <1>2 DEF FetchedBy, AsOf
<1>4. data.bars = in.bars
  BY <1>2, <1>3 DEF FetchedBy, AsOf
<1>5. PassesUniverse(i, data)
  BY <1>2, <1>4, UniverseOfBars
<1> HIDE DEF data
<1>6. Judged(i, data) = Expected(i, AsOf(i, asOf))
  BY <1>3, <1>5, JudgedAsExpected
<1> QED BY <1>1, <1>6, MadeKeepsScan

LEMMA StartKeepsScan ==
    ASSUME ScanInv, NEW t \in 1..MaxTime, StartScan(t) PROVE ScanInv'
<1>1. /\ clock' = clock /\ asOf' = t /\ t < clock /\ in' = Nothing /\ scanned' = <<>>
      /\ at' \in {"bars", "done"}
  BY DEF StartScan
<1>2. ClockInv'
  BY <1>1 DEF ScanInv, ClockInv, Queries
<1>3. FetchedInv'
  BY <1>1 DEF FetchedInv, FetchedBy, Nothing, Queries
<1>4. ScanIsPointInTime'
  BY <1>1 DEF ScanIsPointInTime
<1> QED BY <1>2, <1>3, <1>4 DEF ScanInv

LEMMA InitScan == Init => ScanInv
<1> SUFFICES ASSUME Init PROVE ScanInv
  OBVIOUS
<1>1. ClockInv
  BY DEF Init, ClockInv
<1>2. FetchedInv
  BY DEF Init, FetchedInv, Queries
<1>3. ScanIsPointInTime
  BY DEF Init, ScanIsPointInTime
<1> QED BY <1>1, <1>2, <1>3 DEF ScanInv

(***************************************************************************)
(* docs/architecture/0010-scanner-pipeline.md:160-161: what a scan as of a *)
(* past instant says is a function of what was available then, whatever is *)
(* committed before it, between its queries, or since.  The hypothesis is  *)
(* that an order book is not observed again with other volumes: the table  *)
(* would overwrite it in place.                                            *)
(***************************************************************************)
THEOREM ScansArePointInTime ==
    ASSUME ~Reobserved
    PROVE  Spec => []ScanIsPointInTime
<1>1. ScanInv /\ [Next]_vars => ScanInv'
  <2> SUFFICES ASSUME ScanInv, [Next]_vars PROVE ScanInv'
    OBVIOUS
  <2>1. CASE Tick
    BY <2>1, TickKeepsScan
  <2>2. CASE Ingest
    BY <2>2, IngestKeepsScan
  <2>3. CASE \E t \in 1..MaxTime : StartScan(t)
    BY <2>3, StartKeepsScan
  <2>4. CASE ScanBars
    BY <2>4, ScanBarsKeepsScan
  <2>5. CASE FetchNews \/ FetchDisclosures
    BY <2>5, FetchKeepsScan
  <2>6. CASE ScanEvents
    BY <2>6, ScanEventsKeepsScan
  <2>7. CASE UNCHANGED vars
    <3>1. UNCHANGED <<clock, bars, items, books, at, asOf, todo, in, scanned>>
      BY <2>7 DEF vars
    <3>2. Stable
      BY <3>1, UnchangedQueries
    <3>3. clock' \in Nat /\ clock <= clock'
      BY <3>1 DEF ScanInv, ClockInv
    <3> QED BY <3>1, <3>2, <3>3, StableKeepsScan
  <2> QED BY <2>1, <2>2, <2>3, <2>4, <2>5, <2>6, <2>7 DEF Next
<1>2. ScanInv => ScanIsPointInTime
  BY DEF ScanInv
<1> QED BY <1>1, <1>2, InitScan, PTL DEF Spec

-----------------------------------------------------------------------------
(* The evidence.                                                            *)

\* A candidate whose qualified is what the evidence beside it amounts to.
AgreesWithEvidence(i, c) ==
    c.qualified <=>
        /\ c.universe
        /\ Applicable(i) = {} \/ c.events # {}
        /\ RuleSets = {} \/ c.strategy = {TRUE}

LEMMA JudgedOnEvidence ==
    ASSUME NEW i, NEW d PROVE AgreesWithEvidence(i, Judged(i, d))
<1> DEFINE c == Judged(i, d)
           gate == HasTriggeringEvent(i, d)
<1>1. /\ c.universe = TRUE
      /\ c.events = Detected(i, d)
      /\ c.strategy = IF gate THEN StrategyResult(i, d) ELSE {}
      /\ c.qualified = (gate /\ FALSE \notin c.strategy)
  BY DEF Judged
<1>2. gate <=> Applicable(i) = {} \/ c.events # {}
  BY <1>1, ResultsAreBoolean
<1>3. gate => (FALSE \notin c.strategy <=> RuleSets = {} \/ c.strategy = {TRUE})
  BY <1>1, ResultsAreBoolean
<1> QED BY <1>1, <1>2, <1>3 DEF AgreesWithEvidence

LEMMA MadeKeepsEvidence ==
    ASSUME QualifiedOnEvidence, NEW c, Made(c), AgreesWithEvidence(Head(todo), c)
    PROVE  QualifiedOnEvidence'
<1> SUFFICES ASSUME NEW i \in DOMAIN scanned' PROVE AgreesWithEvidence(i, scanned'[i])
  BY DEF QualifiedOnEvidence, AgreesWithEvidence, Applicable
<1>1. scanned'[i] = IF i = Head(todo) THEN c ELSE scanned[i]
  BY DEF Made
<1>2. i # Head(todo) => i \in DOMAIN scanned
  BY DEF Made
<1> QED BY <1>1, <1>2 DEF QualifiedOnEvidence, AgreesWithEvidence

(***************************************************************************)
(* qualified is a summary of the evidence beside it, whatever the scanners *)
(* of the instrument's market saw and whatever the strategy said, with or  *)
(* without a strategy.                                                     *)
(***************************************************************************)
THEOREM QualifiedAgreesWithEvidence == Spec => []QualifiedOnEvidence
<1>1. Init => QualifiedOnEvidence
  BY DEF Init, QualifiedOnEvidence
<1>2. QualifiedOnEvidence /\ [Next]_vars => QualifiedOnEvidence'
  <2> SUFFICES ASSUME QualifiedOnEvidence, [Next]_vars PROVE QualifiedOnEvidence'
    OBVIOUS
  <2>1. CASE scanned' = scanned
    BY <2>1 DEF QualifiedOnEvidence, Applicable
  <2>2. CASE \E t \in 1..MaxTime : StartScan(t)
    BY <2>2 DEF StartScan, QualifiedOnEvidence
  <2>3. CASE ScanBars
    <3> DEFINE failed == [universe |-> FALSE, events |-> {}, strategy |-> {}, qualified |-> FALSE]
    <3>1. scanned' = scanned \/ Made(failed)
      BY <2>3 DEF ScanBars
    <3>2. AgreesWithEvidence(Head(todo), failed)
      BY DEF AgreesWithEvidence
    <3> HIDE DEF failed
    <3> QED BY <2>1, <3>1, <3>2, MadeKeepsEvidence
  <2>4. CASE ScanEvents
    <3>1. PICK d : Made(Judged(Head(todo), d))
      BY <2>4 DEF ScanEvents, Judged
    <3> QED BY <3>1, JudgedOnEvidence, MadeKeepsEvidence
  <2>5. CASE Tick \/ Ingest \/ FetchNews \/ FetchDisclosures \/ UNCHANGED vars
    <3>1. scanned' = scanned
      BY <2>5 DEF Tick, Ingest, CommitBar, CommitItem, CommitBook,
                  FetchNews, FetchDisclosures, vars
    <3> QED BY <2>1, <3>1
  <2> QED BY <2>2, <2>3, <2>4, <2>5 DEF Next
<1> QED BY <1>1, <1>2, PTL DEF Spec

-----------------------------------------------------------------------------
(***************************************************************************)
(* Types.  That a query for bars returns a sequence needs more than the    *)
(* types of the rows: the latest rows of the bars of an instrument are     *)
(* finitely many, and in a strict order by event_time since no bar has two *)
(* rows with one available_at.                                             *)
(***************************************************************************)
BarRow == [inst : Insts, ev : 1..clock, shape : BarShapes, avail : 1..clock]
BookRow == [inst : Insts, ev : 1..clock, shape : BookShapes, avail : 1..clock]

RowsInv ==
    /\ clock \in 1..MaxTime
    /\ bars \subseteq BarRow /\ IsFiniteSet(bars)
    /\ \A a, b \in bars : a.inst = b.inst /\ a.ev = b.ev /\ a.avail = b.avail => a = b
    /\ items \subseteq [kind : Kinds, inst : Insts, ev : 1..clock, avail : 1..clock]
    /\ books \subseteq BookRow

\* What is still to be scanned follows what has been; a query is about its first.
PlaceInv ==
    /\ at \in Queries \cup {"idle", "done"}
    /\ asOf \in Nat /\ asOf < clock
    /\ at \in Queries => todo # <<>>
    /\ \E n \in 0..Len(Instruments) :
          /\ todo = SubSeq(Instruments, n + 1, Len(Instruments))
          /\ DOMAIN scanned = IF at = "idle" THEN {} ELSE {Instruments[k] : k \in 1..n}

HandInv ==
    /\ in.bars \in Seq(BarShapes) /\ in.news \cup in.disclosures \subseteq items
    /\ in.books \subseteq BookShapes
    /\ \A i \in DOMAIN scanned : scanned[i] \in Candidate

TypesInv == RowsInv /\ PlaceInv /\ HandInv

LEMMA ClockRange == ASSUME clock \in 1..MaxTime PROVE clock \in Nat /\ MaxTime \in Nat
  BY PipelineAssumption

-----------------------------------------------------------------------------
(* A finite set of rows of different event_time is put in a sequence.       *)

Earlier(rows, a) == {b \in rows : b.ev < a.ev}

Distinct(rows) ==
    /\ IsFiniteSet(rows)
    /\ \A a \in rows : a.ev \in Nat
    /\ \A a, b \in rows : a.ev = b.ev => a = b

LEMMA EarlierCounts ==
    ASSUME NEW rows, Distinct(rows), NEW a \in rows
    PROVE  /\ Cardinality(rows) \in Nat
           /\ Cardinality(Earlier(rows, a)) \in 0..(Cardinality(rows) - 1)
<1>1. Earlier(rows, a) \in SUBSET rows /\ Earlier(rows, a) # rows
  <2>1. a \notin Earlier(rows, a)
    BY DEF Earlier, Distinct
  <2> QED BY <2>1 DEF Earlier
<1>2. /\ IsFiniteSet(Earlier(rows, a))
      /\ Cardinality(Earlier(rows, a)) <= Cardinality(rows)
      /\ Cardinality(rows) # Cardinality(Earlier(rows, a))
  BY <1>1, FS_Subset DEF Distinct
<1>3. Cardinality(rows) \in Nat /\ Cardinality(Earlier(rows, a)) \in Nat
  BY <1>2, FS_CardinalityType DEF Distinct
<1> QED BY <1>2, <1>3

LEMMA EarlierGrows ==
    ASSUME NEW rows, Distinct(rows), NEW a \in rows, NEW b \in rows, a.ev < b.ev
    PROVE  Cardinality(Earlier(rows, a)) < Cardinality(Earlier(rows, b))
<1>1. /\ Earlier(rows, a) \in SUBSET Earlier(rows, b)
      /\ a \in Earlier(rows, b) /\ a \notin Earlier(rows, a)
      /\ Earlier(rows, b) \in SUBSET rows
  <2>1. \A c \in rows : c.ev \in Nat
    BY DEF Distinct
  <2> QED BY <2>1 DEF Earlier
<1>2. IsFiniteSet(Earlier(rows, b))
  BY <1>1, FS_Subset DEF Distinct
<1>3. /\ Cardinality(Earlier(rows, a)) <= Cardinality(Earlier(rows, b))
      /\ Cardinality(Earlier(rows, a)) # Cardinality(Earlier(rows, b))
  BY <1>1, <1>2, FS_Subset
<1>4. Cardinality(Earlier(rows, a)) \in Nat /\ Cardinality(Earlier(rows, b)) \in Nat
  BY EarlierCounts
<1> QED BY <1>3, <1>4

LEMMA PlacesAreTaken ==
    ASSUME NEW rows, Distinct(rows), NEW n \in 1..Cardinality(rows)
    PROVE  \E a \in rows : Cardinality(Earlier(rows, a)) = n - 1
<1> DEFINE N == Cardinality(rows)
           place == [a \in rows |-> Cardinality(Earlier(rows, a)) + 1]
<1>1. N \in Nat
  BY FS_CardinalityType DEF Distinct
<1>2. IsFiniteSet(1..N) /\ Cardinality(1..N) = N
  <2>1. 1 \in Int /\ N \in Int
    BY <1>1
  <2>2. IsFiniteSet(1..N) /\ Cardinality(1..N) = IF 1 > N THEN 0 ELSE N - 1 + 1
    BY <2>1, FS_Interval
  <2> QED BY <1>1, <2>2
<1>3. \A a \in rows : Cardinality(Earlier(rows, a)) \in 0..(N - 1)
  BY EarlierCounts
<1>4. place \in [rows -> 1..N]
  BY <1>1, <1>3
<1>5. \A a, b \in rows : place[a] = place[b] => a = b
  <2> SUFFICES ASSUME NEW a \in rows, NEW b \in rows, place[a] = place[b] PROVE a = b
    OBVIOUS
  <2>1. Cardinality(Earlier(rows, a)) = Cardinality(Earlier(rows, b))
    BY <1>3
  <2>2. ~ (a.ev < b.ev) /\ ~ (b.ev < a.ev)
    BY <1>3, <2>1, EarlierGrows
  <2>3. a.ev = b.ev
    BY <2>2 DEF Distinct
  <2> QED BY <2>3 DEF Distinct
<1>6. place \in Injection(rows, 1..N)
  BY <1>4, <1>5 DEF Injection, IsInjective
<1>7. place \in Surjection(rows, 1..N)
  BY <1>2, <1>6, FS_Injection DEF Distinct
<1>8. PICK a \in rows : place[a] = n
  BY <1>7 DEF Surjection
<1> QED BY <1>1, <1>3, <1>8

LEMMA ByEventIsSequence ==
    ASSUME NEW rows, Distinct(rows)
    PROVE  ByEvent(rows) \in Seq(rows)
<1> DEFINE N == Cardinality(rows)
           nth(n) == CHOOSE a \in rows : Cardinality(Earlier(rows, a)) = n - 1
<1>1. N \in Nat
  BY FS_CardinalityType DEF Distinct
<1>2. \A n \in 1..N : nth(n) \in rows
  BY PlacesAreTaken
<1>3. ByEvent(rows) = [n \in 1..N |-> nth(n)]
  BY DEF ByEvent, Earlier
<1> HIDE DEF N, nth
<1> QED BY <1>1, <1>2, <1>3

(***************************************************************************)
(* What the queries return.                                                *)
(***************************************************************************)
LEMMA BarsAsOfIsSequence ==
    ASSUME RowsInv, NEW i, NEW t PROVE BarsAsOf(i, t) \in Seq(BarShapes)
<1> DEFINE known == {b \in bars : InWindow(b, i, t)}
           latest == {b \in known : \A c \in known : c.ev = b.ev => c.avail <= b.avail}
           sorted == ByEvent(latest)
<1>1. latest \in SUBSET bars
  OBVIOUS
<1>2. \A b \in bars : b \in BarRow /\ b.ev \in Nat /\ b.avail \in Nat
  BY ClockRange DEF RowsInv, BarRow
<1>3. Distinct(latest)
  <2>1. IsFiniteSet(latest)
    BY <1>1, FS_Subset DEF RowsInv
  <2>2. ASSUME NEW a \in latest, NEW b \in latest, a.ev = b.ev PROVE a = b
    <3>1. a.avail <= b.avail /\ b.avail <= a.avail /\ a.inst = b.inst
      BY <2>2 DEF InWindow
    <3>2. a.avail = b.avail
      BY <1>2, <3>1
    <3> QED BY <2>2, <3>1, <3>2 DEF RowsInv
  <2> HIDE DEF latest
  <2> QED BY <1>1, <1>2, <2>1, <2>2 DEF Distinct
<1>4. sorted \in Seq(latest)
  <2> HIDE DEF latest
  <2> QED BY <1>3, ByEventIsSequence
<1>5. BarsAsOf(i, t) = [n \in DOMAIN sorted |-> sorted[n].shape]
  BY DEF BarsAsOf
<1>6. \A b \in latest : b.shape \in BarShapes
  BY <1>2 DEF BarRow
<1> HIDE DEF sorted, latest
<1>7. DOMAIN sorted = 1..Len(sorted) /\ Len(sorted) \in Nat /\ \A n \in 1..Len(sorted) : sorted[n] \in latest
  BY <1>4
<1> QED BY <1>5, <1>6, <1>7

LEMMA QueriesAreTyped ==
    ASSUME RowsInv, NEW i, NEW t
    PROVE  /\ \A kind : ItemsAsOf(kind, i, t) \subseteq items
           /\ BookAsOf(i, t) \subseteq BookShapes
  BY DEF RowsInv, BookRow, ItemsAsOf, BookAsOf

(***************************************************************************)
(* Ingestion leaves the scan alone and keeps the rows' types.              *)
(***************************************************************************)
LEMMA CommitBarKeepsRows ==
    ASSUME RowsInv, NEW i \in Insts, NEW ev \in 1..clock, NEW shape \in BarShapes,
           CommitBar(i, ev, shape)
    PROVE  RowsInv'
<1> DEFINE row == [inst |-> i, ev |-> ev, shape |-> shape, avail |-> clock]
<1>1. /\ bars' = bars \cup {row} /\ UNCHANGED <<clock, items, books>>
      /\ \A b \in bars : ~ (b.inst = i /\ b.ev = ev /\ b.avail = clock)
  BY DEF CommitBar
<1>2. row \in BarRow
  BY ClockRange DEF RowsInv, BarRow
<1>3. bars' \subseteq BarRow' /\ books' \subseteq BookRow'
  BY <1>1, <1>2 DEF RowsInv, BarRow, BookRow
<1>4. IsFiniteSet(bars')
  BY <1>1, FS_AddElement DEF RowsInv
<1>5. row.inst = i /\ row.ev = ev /\ row.avail = clock
  OBVIOUS
<1> HIDE DEF row
<1>6. \A a, b \in bars' : a.inst = b.inst /\ a.ev = b.ev /\ a.avail = b.avail => a = b
  BY <1>1, <1>5 DEF RowsInv
<1> QED BY <1>1, <1>3, <1>4, <1>6 DEF RowsInv

LEMMA CommitItemKeepsRows ==
    ASSUME RowsInv, NEW i \in Insts, NEW ev \in 1..clock, NEW kind \in Kinds,
           CommitItem(kind, i, ev)
    PROVE  RowsInv'
<1> DEFINE row == [kind |-> kind, inst |-> i, ev |-> ev, avail |-> clock]
<1>1. items' = items \cup {row} /\ UNCHANGED <<clock, bars, books>>
  BY DEF CommitItem
<1>2. row \in [kind : Kinds, inst : Insts, ev : 1..clock, avail : 1..clock]
  BY ClockRange DEF RowsInv
<1> HIDE DEF row
<1> QED BY <1>1, <1>2 DEF RowsInv, BarRow, BookRow

LEMMA CommitBookKeepsRows ==
    ASSUME RowsInv, NEW i \in Insts, NEW ev \in 1..clock, NEW shape \in BookShapes,
           CommitBook(i, ev, shape)
    PROVE  RowsInv'
<1> DEFINE row == [inst |-> i, ev |-> ev, shape |-> shape, avail |-> clock]
           known == {b \in books : b.inst = i /\ b.ev = ev}
           again == {[b EXCEPT !.shape = shape] : b \in known}
<1>1. /\ books' = (books \ known) \cup (IF known = {} THEN {row} ELSE again)
      /\ UNCHANGED <<clock, bars, items>>
  BY DEF CommitBook
<1>2. row \in BookRow
  BY ClockRange DEF RowsInv, BookRow
<1>3. again \subseteq BookRow
  BY DEF RowsInv, BookRow
<1> HIDE DEF row, again, known
<1>4. books' \subseteq BookRow
  BY <1>1, <1>2, <1>3 DEF RowsInv
<1> QED BY <1>1, <1>4 DEF RowsInv, BarRow, BookRow

LEMMA TickKeepsRows == ASSUME RowsInv, Tick PROVE RowsInv'
<1>1. /\ clock \in Nat /\ MaxTime \in Nat /\ clock < MaxTime /\ clock' = clock + 1
      /\ UNCHANGED <<bars, items, books>>
  BY ClockRange DEF RowsInv, Tick
<1>2. clock' \in 1..MaxTime /\ 1..clock \subseteq 1..clock'
  BY <1>1 DEF RowsInv
<1> QED BY <1>1, <1>2 DEF RowsInv, BarRow, BookRow

LEMMA CommitsKeepRows == ASSUME RowsInv, Ingest PROVE RowsInv'
  BY CommitBarKeepsRows, CommitItemKeepsRows, CommitBookKeepsRows DEF Ingest

\* Nothing the scan has in hand is lost, and the past stays the past.
LEMMA ScanKeptTyped ==
    ASSUME TypesInv, RowsInv', UNCHANGED <<at, asOf, todo, in, scanned>>,
           clock <= clock', items \subseteq items'
    PROVE  TypesInv'
<1>1. asOf' \in Nat /\ asOf' < clock'
  <2>1. clock \in Nat /\ clock' \in Nat
    <3>1. MaxTime \in Nat /\ clock \in 1..MaxTime /\ clock' \in 1..MaxTime
      BY PipelineAssumption DEF TypesInv, RowsInv
    <3> QED BY <3>1
  <2>2. asOf \in Nat /\ asOf < clock
    BY DEF TypesInv, PlaceInv
  <2> QED BY <2>1, <2>2
<1>2. PlaceInv'
  BY <1>1 DEF TypesInv, PlaceInv
<1>3. HandInv'
  BY DEF TypesInv, HandInv
<1> QED BY <1>2, <1>3 DEF TypesInv

LEMMA IngestKeepsTypes == ASSUME TypesInv, Tick \/ Ingest PROVE TypesInv'
<1>1. /\ UNCHANGED <<at, asOf, todo, in, scanned>> /\ items \subseteq items'
      /\ clock' = clock \/ Tick
  BY DEF Tick, Ingest, CommitBar, CommitItem, CommitBook
<1>2. clock <= clock'
  BY <1>1, ClockRange DEF TypesInv, RowsInv, Tick
<1>3. RowsInv'
  BY TickKeepsRows, CommitsKeepRows DEF TypesInv
<1> QED BY <1>1, <1>2, <1>3, ScanKeptTyped

(***************************************************************************)
(* The scan takes one instrument after the other.                          *)
(***************************************************************************)
LEMMA TailOfRest ==
    ASSUME NEW s, NEW T, s \in Seq(T), NEW n \in 0..Len(s), SubSeq(s, n + 1, Len(s)) # <<>>
    PROVE  /\ n + 1 \in 1..Len(s)
           /\ Head(SubSeq(s, n + 1, Len(s))) = s[n + 1]
           /\ Tail(SubSeq(s, n + 1, Len(s))) = SubSeq(s, n + 2, Len(s))
<1>1. Len(s) \in Nat /\ n \in Nat
  OBVIOUS
<1>2. n + 1 \in 1..Len(s)
  BY <1>1
<1>3. \A m \in 1..Len(s) : s[m] \in T
  OBVIOUS
<1> DEFINE r == SubSeq(s, n + 1, Len(s))
           q == SubSeq(s, n + 2, Len(s))
<1>4. /\ r \in Seq(T) /\ Len(r) = Len(s) - n
      /\ \A k \in 1..(Len(s) - n) : r[k] = s[n + k]
  BY <1>1, <1>2
<1>5. /\ q \in Seq(T) /\ Len(q) = Len(s) - n - 1
      /\ \A k \in 1..(Len(s) - n - 1) : q[k] = s[n + 1 + k]
  BY <1>1, <1>2
<1> HIDE DEF r, q
<1>6. Head(r) = s[n + 1]
  BY <1>1, <1>2, <1>4
<1>7. Tail(r) = q
  <2>1. Tail(r) \in Seq(T) /\ Len(Tail(r)) = Len(r) - 1
        /\ \A k \in 1..(Len(r) - 1) : Tail(r)[k] = r[k + 1]
    BY <1>1, <1>2, <1>4
  <2>2. \A k \in 1..(Len(r) - 1) : Tail(r)[k] = q[k]
    <3> SUFFICES ASSUME NEW k \in 1..(Len(r) - 1) PROVE Tail(r)[k] = q[k]
      OBVIOUS
    <3>1. k \in 1..(Len(s) - n - 1) /\ k + 1 \in 1..(Len(s) - n) /\ n + (k + 1) = n + 1 + k
      BY <1>1, <1>2, <1>4
    <3>2. r[k + 1] = s[n + (k + 1)] /\ q[k] = s[n + 1 + k]
      BY <1>4, <1>5, <3>1
    <3> QED BY <2>1, <3>1, <3>2
  <2> QED BY <1>1, <1>4, <1>5, <2>1, <2>2
<1> QED BY <1>2, <1>6, <1>7 DEF r, q

LEMMA MadeKeepsTypes ==
    ASSUME TypesInv, at \in Queries, NEW c \in Candidate, Made(c),
           UNCHANGED <<clock, bars, items, books, asOf>>
    PROVE  TypesInv'
<1>1. PICK n \in 0..Len(Instruments) :
        /\ todo = SubSeq(Instruments, n + 1, Len(Instruments))
        /\ DOMAIN scanned = {Instruments[k] : k \in 1..n}
        /\ todo # <<>>
  BY DEF TypesInv, PlaceInv, Queries
<1>2. /\ n + 1 \in 1..Len(Instruments) /\ Len(Instruments) \in Nat
      /\ Head(todo) = Instruments[n + 1]
      /\ Tail(todo) = SubSeq(Instruments, n + 2, Len(Instruments))
  BY <1>1, PipelineAssumption, TailOfRest
<1>3. /\ todo' = Tail(todo) /\ in' = Nothing
      /\ at' = IF Tail(todo) = <<>> THEN "done" ELSE "bars"
      /\ DOMAIN scanned' = DOMAIN scanned \cup {Head(todo)}
      /\ \A i \in DOMAIN scanned' : scanned'[i] = IF i = Head(todo) THEN c ELSE scanned[i]
  BY DEF Made
<1>4. n + 1 \in 0..Len(Instruments) /\ (n + 1) + 1 = n + 2 /\ 1..(n + 1) = (1..n) \cup {n + 1}
  BY <1>2
<1>5. DOMAIN scanned' = {Instruments[k] : k \in 1..(n + 1)}
  BY <1>1, <1>2, <1>3, <1>4
<1>6. at' \in Queries \cup {"idle", "done"} /\ at' # "idle" /\ (at' \in Queries => todo' # <<>>)
  BY <1>3 DEF Queries
<1>7. PlaceInv'
  <2>1. asOf' \in Nat /\ asOf' < clock'
    BY DEF TypesInv, PlaceInv
  <2>2. todo' = SubSeq(Instruments, (n + 1) + 1, Len(Instruments))
    BY <1>2, <1>3, <1>4
  <2> QED BY <1>4, <1>5, <1>6, <2>1, <2>2 DEF PlaceInv
<1>8. HandInv'
  <2>1. in'.bars = <<>> /\ in'.news = {} /\ in'.disclosures = {} /\ in'.books = {}
    BY <1>3 DEF Nothing
  <2>2. in'.bars \in Seq(BarShapes)
    BY <2>1
  <2>3. \A i \in DOMAIN scanned' : scanned'[i] \in Candidate
    BY <1>3 DEF TypesInv, HandInv
  <2> QED BY <2>1, <2>2, <2>3 DEF HandInv
<1>9. RowsInv'
  BY DEF TypesInv, RowsInv, BarRow, BookRow
<1> QED BY <1>7, <1>8, <1>9 DEF TypesInv

\* A query is answered, and the next one is about the same instrument.
LEMMA QueryKeepsTypes ==
    ASSUME TypesInv, UNCHANGED <<clock, bars, items, books, asOf, todo, scanned>>,
           at \in Queries, at' \in Queries,
           in'.bars \in Seq(BarShapes), in'.news \cup in'.disclosures \subseteq items,
           in'.books \subseteq BookShapes
    PROVE  TypesInv'
<1>1. RowsInv'
  BY DEF TypesInv, RowsInv, BarRow, BookRow
<1>2. PlaceInv'
  BY DEF TypesInv, PlaceInv, Queries
<1>3. HandInv'
  BY DEF TypesInv, HandInv
<1> QED BY <1>1, <1>2, <1>3 DEF TypesInv

LEMMA ScanBarsKeepsTypes == ASSUME TypesInv, ScanBars PROVE TypesInv'
<1> DEFINE i == Head(todo)
           data == [Nothing EXCEPT !.bars = BarsAsOf(i, asOf)]
<1>1. at = "bars" /\ UNCHANGED <<clock, bars, items, books, asOf>>
  BY DEF ScanBars
<1>2. CASE PassesUniverse(i, data)
  <2>1. in' = data /\ at' = "news" /\ UNCHANGED <<todo, scanned>>
    BY <1>2 DEF ScanBars
  <2>2. data = [bars |-> BarsAsOf(i, asOf), news |-> {}, disclosures |-> {}, books |-> {}]
    BY WithBars
  <2>3. BarsAsOf(i, asOf) \in Seq(BarShapes)
    BY BarsAsOfIsSequence DEF TypesInv
  <2> QED BY <1>1, <2>1, <2>2, <2>3, QueryKeepsTypes DEF Queries
<1>3. CASE ~PassesUniverse(i, data)
  <2> DEFINE c == [universe |-> FALSE, events |-> {}, strategy |-> {}, qualified |-> FALSE]
  <2>1. Made(c)
    BY <1>3 DEF ScanBars
  <2>2. c \in Candidate
    BY DEF Candidate
  <2> HIDE DEF c
  <2> QED BY <1>1, <2>1, <2>2, MadeKeepsTypes DEF Queries
<1> QED BY <1>2, <1>3

LEMMA FetchKeepsTypes == ASSUME TypesInv, FetchNews \/ FetchDisclosures PROVE TypesInv'
<1>1. /\ UNCHANGED <<clock, bars, items, books, asOf, todo, scanned>>
      /\ at \in Queries /\ at' \in Queries
  BY DEF FetchNews, FetchDisclosures, Queries
<1>2. PICK kind, field : /\ kind \in Kinds /\ field \in {"news", "disclosures"}
                         /\ in' = [in EXCEPT ![field] = ItemsAsOf(kind, Head(todo), asOf)]
  BY DEF FetchNews, FetchDisclosures, Kinds
<1>3. ItemsAsOf(kind, Head(todo), asOf) \subseteq items
  BY QueriesAreTyped DEF TypesInv
<1>4. /\ in'.bars \in Seq(BarShapes) /\ in'.books \subseteq BookShapes
      /\ in'.news \cup in'.disclosures \subseteq items
  BY <1>2, <1>3 DEF TypesInv, HandInv
<1> QED BY <1>1, <1>4, QueryKeepsTypes

LEMMA JudgedIsCandidate == ASSUME NEW i, NEW d PROVE Judged(i, d) \in Candidate
<1>1. Detected(i, d) \in SUBSET ScannerKinds
  BY DEF Detected, Applicable, ScannerKinds
<1>2. StrategyResult(i, d) \in SUBSET BOOLEAN
  BY ResultsAreBoolean
<1>3. (IF HasTriggeringEvent(i, d) THEN StrategyResult(i, d) ELSE {}) \in SUBSET BOOLEAN
  BY <1>2
<1> QED BY <1>1, <1>3 DEF Judged, Candidate

LEMMA ScanEventsKeepsTypes == ASSUME TypesInv, ScanEvents PROVE TypesInv'
<1>1. PICK d : Made(Judged(Head(todo), d))
  BY DEF ScanEvents, Judged
<1>2. at \in Queries /\ UNCHANGED <<clock, bars, items, books, asOf>>
  BY DEF ScanEvents, Queries
<1> QED BY <1>1, <1>2, JudgedIsCandidate, MadeKeepsTypes

LEMMA StartKeepsTypes ==
    ASSUME TypesInv, NEW t \in 1..MaxTime, StartScan(t) PROVE TypesInv'
<1>1. /\ UNCHANGED <<clock, bars, items, books>> /\ asOf' = t /\ t < clock
      /\ at' = IF Instruments = <<>> THEN "done" ELSE "bars"
      /\ todo' = Instruments /\ in' = Nothing /\ scanned' = <<>>
  BY DEF StartScan
<1>2. RowsInv'
  BY <1>1 DEF TypesInv, RowsInv, BarRow, BookRow
<1>3. PlaceInv'
  <2>1. asOf' \in Nat /\ asOf' < clock'
    <3>1. MaxTime \in Nat
      BY PipelineAssumption
    <3> QED BY <1>1, <3>1
  <2>2. Instruments \in Seq(Range(Instruments)) /\ Len(Instruments) \in Nat
    BY PipelineAssumption
  <2>3. SubSeq(Instruments, 0 + 1, Len(Instruments)) = Instruments
    BY <2>2
  <2>4. DOMAIN scanned' = {Instruments[k] : k \in 1..0}
    BY <1>1
  <2>5. at' \in {"bars", "done"} /\ (at' \in Queries => todo' # <<>>) /\ 0 \in 0..Len(Instruments)
    BY <1>1, <2>2 DEF Queries
  <2> QED BY <1>1, <2>1, <2>3, <2>4, <2>5 DEF PlaceInv, Queries
<1>4. HandInv'
  <2>1. in'.bars = <<>> /\ in'.news = {} /\ in'.disclosures = {} /\ in'.books = {}
    BY <1>1 DEF Nothing
  <2>2. in'.bars \in Seq(BarShapes) /\ DOMAIN scanned' = {}
    BY <1>1, <2>1
  <2> QED BY <2>1, <2>2 DEF HandInv
<1> QED BY <1>2, <1>3, <1>4 DEF TypesInv

LEMMA InitTypes == Init => TypesInv
<1> SUFFICES ASSUME Init PROVE TypesInv
  OBVIOUS
<1>1. RowsInv
  <2>1. 1 \in 1..MaxTime /\ IsFiniteSet(bars)
    BY PipelineAssumption, FS_EmptySet DEF Init
  <2> QED BY <2>1 DEF Init, RowsInv
<1>2. PlaceInv
  <2>1. Instruments \in Seq(Range(Instruments)) /\ Len(Instruments) \in Nat
    BY PipelineAssumption
  <2>2. SubSeq(Instruments, Len(Instruments) + 1, Len(Instruments)) = <<>>
    BY <2>1
  <2>3. DOMAIN scanned = {} /\ Len(Instruments) \in 0..Len(Instruments)
    BY <2>1 DEF Init
  <2> QED BY <2>2, <2>3 DEF Init, PlaceInv, Queries
<1>3. HandInv
  <2>1. in.bars = <<>> /\ in.news = {} /\ in.disclosures = {} /\ in.books = {}
    BY DEF Init, Nothing
  <2>2. in.bars \in Seq(BarShapes) /\ DOMAIN scanned = {}
    BY <2>1 DEF Init
  <2> QED BY <2>1, <2>2 DEF HandInv
<1> QED BY <1>1, <1>2, <1>3 DEF TypesInv

LEMMA InvariantTypes == Spec => []TypesInv
<1>1. TypesInv /\ [Next]_vars => TypesInv'
  <2> SUFFICES ASSUME TypesInv, [Next]_vars PROVE TypesInv'
    OBVIOUS
  <2>1. CASE Tick \/ Ingest
    BY <2>1, IngestKeepsTypes
  <2>2. CASE \E t \in 1..MaxTime : StartScan(t)
    BY <2>2, StartKeepsTypes
  <2>3. CASE ScanBars
    BY <2>3, ScanBarsKeepsTypes
  <2>4. CASE FetchNews \/ FetchDisclosures
    BY <2>4, FetchKeepsTypes
  <2>5. CASE ScanEvents
    BY <2>5, ScanEventsKeepsTypes
  <2>6. CASE UNCHANGED vars
    BY <2>6 DEF vars, TypesInv, RowsInv, PlaceInv, HandInv, BarRow, BookRow
  <2> QED BY <2>1, <2>2, <2>3, <2>4, <2>5, <2>6 DEF Next
<1> QED BY <1>1, InitTypes, PTL DEF Spec

(***************************************************************************)
(* The scan always has what its next step needs, and a Candidate for each  *)
(* instrument it is done with (ScannerPipeline.scan), whatever is          *)
(* committed meanwhile and however often it is called.                     *)
(***************************************************************************)
THEOREM ScansAreTyped == Spec => []TypeOK
<1>1. TypesInv => TypeOK
  <2>1. TypesInv => asOf \in 0..(clock - 1)
    BY ClockRange DEF TypesInv, RowsInv, PlaceInv
  <2> QED BY <2>1 DEF TypesInv, RowsInv, PlaceInv, HandInv, BarRow, BookRow, Queries, TypeOK
<1> QED BY <1>1, InvariantTypes, PTL

-----------------------------------------------------------------------------
(* The event gate.                                                          *)

\* A strategy was evaluated on an event, or for want of a scanner of the market.
Gated(i, c) == c.strategy # {} => Applicable(i) = {} \/ c.events # {}
GateInv == \A i \in DOMAIN scanned : Gated(i, scanned[i])

LEMMA JudgedIsGated == ASSUME NEW i, NEW d PROVE Gated(i, Judged(i, d))
<1>1. /\ Judged(i, d).events = Detected(i, d)
      /\ Judged(i, d).strategy = IF HasTriggeringEvent(i, d) THEN StrategyResult(i, d) ELSE {}
  BY DEF Judged
<1> QED BY <1>1, ResultsAreBoolean DEF Gated

LEMMA MadeKeepsGate ==
    ASSUME GateInv, NEW c, Made(c), Gated(Head(todo), c) PROVE GateInv'
<1> SUFFICES ASSUME NEW i \in DOMAIN scanned' PROVE Gated(i, scanned'[i])
  BY DEF GateInv, Gated, Applicable
<1>1. scanned'[i] = IF i = Head(todo) THEN c ELSE scanned[i]
  BY DEF Made
<1>2. i # Head(todo) => i \in DOMAIN scanned
  BY DEF Made
<1> QED BY <1>1, <1>2 DEF GateInv

LEMMA GateIsKept == ASSUME GateInv, [Next]_vars PROVE GateInv'
<1>1. CASE scanned' = scanned
  BY <1>1 DEF GateInv, Gated, Applicable
<1>2. CASE \E t \in 1..MaxTime : StartScan(t)
  BY <1>2 DEF StartScan, GateInv
<1>3. CASE ScanBars
  <2> DEFINE failed == [universe |-> FALSE, events |-> {}, strategy |-> {}, qualified |-> FALSE]
  <2>1. scanned' = scanned \/ Made(failed)
    BY <1>3 DEF ScanBars
  <2>2. Gated(Head(todo), failed)
    BY DEF Gated
  <2> HIDE DEF failed
  <2> QED BY <1>1, <2>1, <2>2, MadeKeepsGate
<1>4. CASE ScanEvents
  <2>1. PICK d : Made(Judged(Head(todo), d))
    BY <1>4 DEF ScanEvents, Judged
  <2> QED BY <2>1, JudgedIsGated, MadeKeepsGate
<1>5. CASE Tick \/ Ingest \/ FetchNews \/ FetchDisclosures \/ UNCHANGED vars
  <2>1. scanned' = scanned
    BY <1>5 DEF Tick, Ingest, CommitBar, CommitItem, CommitBook,
                FetchNews, FetchDisclosures, vars
  <2> QED BY <1>1, <2>1
<1> QED BY <1>2, <1>3, <1>4, <1>5 DEF Next

(***************************************************************************)
(* When app/scanners/pipeline.py:18-22 is right that no strategy is        *)
(* evaluated without an event: if a scanner is configured, there must be   *)
(* one for the market of every instrument.  scan_one_market shows that     *)
(* some is not enough.                                                     *)
(***************************************************************************)
THEOREM EventsGateStrategies ==
    ASSUME EventScanners # {} => \A i \in Insts : Applicable(i) # {}
    PROVE  Spec => []NoEventNoStrategy
<1>1. Init => GateInv
  BY DEF Init, GateInv
<1>2. TypesInv => DOMAIN scanned \subseteq Insts
  <2> SUFFICES ASSUME TypesInv PROVE DOMAIN scanned \subseteq Insts
    OBVIOUS
  <2>1. Len(Instruments) \in Nat /\ \A k \in 1..Len(Instruments) : Instruments[k] \in Insts
    BY PipelineAssumption DEF Insts
  <2>2. PICK n \in 0..Len(Instruments) : DOMAIN scanned \subseteq {Instruments[k] : k \in 1..n}
    BY DEF TypesInv, PlaceInv
  <2> QED BY <2>1, <2>2
<1>3. GateInv /\ TypesInv => NoEventNoStrategy
  BY <1>2 DEF GateInv, Gated, NoEventNoStrategy
<1>4. GateInv /\ [Next]_vars => GateInv'
  BY GateIsKept
<1> QED BY <1>1, <1>3, <1>4, InvariantTypes, PTL DEF Spec

-----------------------------------------------------------------------------
(***************************************************************************)
(* The bars a scan reads are a timeline, in which every instant before the *)
(* present is settled: what the revision store promises of a table is all  *)
(* the pipeline assumes of it, and all it needs.                           *)
(***************************************************************************)
Past == {t \in 1..MaxTime : t < clock}
BarFacts == {[ev |-> <<b.inst, b.ev>>, val |-> b.shape, at |-> b.avail] : b \in bars}

History == INSTANCE Timeline WITH
    Events <- Insts \X (1..MaxTime), Values <- BarShapes, Times <- 1..MaxTime,
    facts <- BarFacts, settled <- Past

FactsInv ==
    /\ BarFacts \subseteq History!Fact
    /\ History!Functional(BarFacts)

LEMMA BarsAreFacts == RowsInv => FactsInv
<1> SUFFICES ASSUME RowsInv PROVE FactsInv
  OBVIOUS
<1>1. clock \in Nat /\ MaxTime \in Nat /\ clock <= MaxTime
  BY ClockRange DEF RowsInv
<1>2. \A b \in bars : b.inst \in Insts /\ b.ev \in 1..MaxTime /\ b.shape \in BarShapes /\ b.avail \in 1..MaxTime
  BY <1>1 DEF RowsInv, BarRow
<1>3. BarFacts \subseteq History!Fact
  BY <1>2 DEF BarFacts, History!Fact
<1>4. History!Functional(BarFacts)
  <2> SUFFICES ASSUME NEW f \in BarFacts, NEW g \in BarFacts, f.ev = g.ev, f.at = g.at
               PROVE  f = g
    BY DEF History!Functional
  <2>1. PICK a \in bars : f = [ev |-> <<a.inst, a.ev>>, val |-> a.shape, at |-> a.avail]
    BY DEF BarFacts
  <2>2. PICK b \in bars : g = [ev |-> <<b.inst, b.ev>>, val |-> b.shape, at |-> b.avail]
    BY DEF BarFacts
  <2>3. a.inst = b.inst /\ a.ev = b.ev /\ a.avail = b.avail
    BY <2>1, <2>2
  <2>4. a = b
    BY <2>3 DEF RowsInv
  <2> QED BY <2>1, <2>2, <2>4
<1> QED BY <1>1, <1>3, <1>4 DEF FactsInv

LEMMA RowsExtendHistory ==
    ASSUME RowsInv, RowsInv', FactsInv', clock <= clock', Grows(bars, bars')
    PROVE  History!TNext
<1>1. BarFacts' \subseteq History!Fact /\ History!Functional(BarFacts')
  BY DEF FactsInv, History!Fact, History!Functional
<1>2. clock \in Nat /\ clock' \in Nat
  BY PipelineAssumption DEF RowsInv
<1>3. BarFacts \subseteq BarFacts'
  BY DEF Grows, BarFacts
<1>4. ASSUME NEW f \in BarFacts' \ BarFacts, NEW t \in Past PROVE t < f.at
  <2>1. PICK b \in bars' : f = [ev |-> <<b.inst, b.ev>>, val |-> b.shape, at |-> b.avail]
    BY DEF BarFacts
  <2>2. b \notin bars
    BY <1>4, <2>1 DEF BarFacts
  <2>3. f.at = clock
    BY <2>1, <2>2 DEF Grows
  <2> QED BY <1>2, <2>3 DEF Past
<1>5. Past \subseteq Past' /\ Past' \subseteq 1..MaxTime
  BY <1>2 DEF Past
<1> QED BY <1>1, <1>3, <1>4, <1>5 DEF History!TNext

(***************************************************************************)
(* Every step of the pipeline and of the ingestors beside it extends the   *)
(* history of the bars after every instant already settled, or leaves it.  *)
(***************************************************************************)
THEOREM ScannedBarsAreATimeline == Spec => History!TSpec
<1>1. Init => History!TInit
  <2> SUFFICES ASSUME Init PROVE BarFacts = {} /\ Past = {}
    BY DEF History!TInit
  <2> QED BY DEF Init, BarFacts, Past
<1>2. TypesInv /\ TypesInv' /\ FactsInv' /\ [Next]_vars => [History!TNext]_(History!tvars)
  <2> SUFFICES ASSUME TypesInv, TypesInv', FactsInv', [Next]_vars
               PROVE  History!TNext \/ UNCHANGED <<BarFacts, Past>>
    BY DEF History!tvars
  <2>1. CASE Tick
    <3>1. clock <= clock' /\ Grows(bars, bars')
      BY <2>1, ClockRange DEF TypesInv, RowsInv, Tick, Grows
    <3> QED BY <3>1, RowsExtendHistory DEF TypesInv
  <2>2. CASE Ingest
    <3>1. clock' = clock /\ Grows(bars, bars')
      BY <2>2 DEF Ingest, CommitBar, CommitItem, CommitBook, Grows
    <3>2. clock <= clock'
      BY <3>1, ClockRange DEF TypesInv, RowsInv
    <3> QED BY <3>1, <3>2, RowsExtendHistory DEF TypesInv
  <2>3. CASE \/ \E t \in 1..MaxTime : StartScan(t)
             \/ ScanBars \/ FetchNews \/ FetchDisclosures \/ ScanEvents \/ UNCHANGED vars
    <3>1. UNCHANGED <<clock, bars>>
      BY <2>3, ScanReadsOnly DEF StartScan, vars
    <3> QED BY <3>1 DEF BarFacts, Past
  <2> QED BY <2>1, <2>2, <2>3 DEF Next
<1>3. TypesInv => FactsInv
  BY BarsAreFacts DEF TypesInv
<1> QED BY <1>1, <1>2, <1>3, InvariantTypes, PTL DEF Spec, History!TSpec

=============================================================================
