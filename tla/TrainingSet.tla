----------------------------- MODULE TrainingSet -----------------------------
(***************************************************************************)
(* Building a training set (app/models): DatasetBuilder.build for one      *)
(* instrument after the other, two queries per sample, while ingestion     *)
(* goes on and corrects bars; then time_ordered_split over the samples.    *)
(* The seven features are functions of the last bars of the window, and    *)
(* are represented by them.                                                *)
(***************************************************************************)
EXTENDS Integers, Sequences, FiniteSets, FiniteSetsExt, Functions

CONSTANTS
    Instruments,
    None,           \* no instrument
    Shapes,         \* [close, volume]: what may still be observed
    History,        \* the bars committed before the builds begin
    Dates,          \* the sequences as_of_dates may be
    Lookbacks,      \* of the returns: {1, 5, 10, 20}
    FeatureDays,    \* feature_lookback_days
    LabelDays,      \* label_lookback_days
    Horizon,        \* horizon_days
    Threshold,      \* return_threshold, in percent
    Fractions,      \* <<p, q>>: the validation fractions p / q
    Start, MaxTime, \* bounds on the clock
    MaxBars         \* bound on the rows of market_bars

Shape == [close : Nat, volume : Nat]
BarRow(n) == [inst : Instruments, ev : 1..n, shape : Shape, avail : 1..n]

\* The unique key of market_bars.
OneRowPerRevision(rows) ==
    \A b, c \in rows : b.inst = c.inst /\ b.ev = c.ev /\ b.avail = c.avail => b = c

ASSUME TrainingAssumption ==
    /\ Shapes \subseteq Shape
    /\ MaxTime \in Nat /\ Start \in 1..MaxTime
    /\ History \subseteq BarRow(Start) /\ IsFiniteSet(History) /\ OneRowPerRevision(History)
    /\ Dates \subseteq Seq(1..MaxTime)
    /\ Lookbacks \subseteq Nat \ {0} /\ Lookbacks # {} /\ IsFiniteSet(Lookbacks)
    /\ {FeatureDays, LabelDays, Horizon, MaxBars} \subseteq Nat
    /\ Threshold \in Int
    /\ Fractions \subseteq (Nat \ {0}) \X Nat /\ \A f \in Fractions : f[1] < f[2]

VARIABLES
    clock,
    bars,       \* the committed revisions
    at,         \* "idle", or the query build is at: "features" or "label"
    inst,       \* the instrument being built, or None
    dataAsOf,   \* dataAsOf[i]: data_as_of of i's build, 0 before it
    todo,       \* the dates still to be built
    features,   \* the feature vector of the first of them
    samples,    \* of every build so far, as their caller collects them
    skipped,    \* likewise: [inst, asOf, why]
    split       \* <<train, validation>>, <<>> before it

vars == <<clock, bars, at, inst, dataAsOf, todo, features, samples, skipped, split>>

Bars == [ev : 1..MaxTime, close : Nat, volume : Nat]
Sample == [inst : Instruments, asOf : 1..MaxTime, features : Seq(Bars),
           label : {0, 1}, return : Int \X Nat]
Skipped == [inst : Instruments, asOf : 1..MaxTime, why : {"features", "label"}]

TypeOK ==
    /\ clock \in Start..MaxTime
    /\ bars \subseteq BarRow(clock)
    /\ at \in {"idle", "features", "label"}
    /\ inst \in Instruments \cup {None}
    /\ at # "idle" => inst \in Instruments /\ todo # <<>>
    /\ dataAsOf \in [Instruments -> 0..(clock - 1)]
    /\ todo \in Seq(1..MaxTime)
    /\ features \in Seq(Bars)
    /\ samples \in Seq(Sample)
    /\ skipped \in Seq(Skipped)
    /\ split \in {<<>>} \cup (Seq(Sample) \X Seq(Sample))

Init ==
    /\ clock = Start
    /\ bars = History
    /\ at = "idle"
    /\ inst = None
    /\ dataAsOf = [i \in Instruments |-> 0]
    /\ todo = <<>>
    /\ features = <<>>
    /\ samples = <<>>
    /\ skipped = <<>>
    /\ split = <<>>

Tick ==
    /\ clock < MaxTime
    /\ clock' = clock + 1
    /\ UNCHANGED <<bars, at, inst, dataAsOf, todo, features, samples, skipped, split>>

\* A late bar, or a correction: a revision of its own (RevisionStore).
CommitBar(i, ev, shape) ==
    /\ Cardinality(bars) < MaxBars
    /\ ~\E b \in bars : b.inst = i /\ b.ev = ev /\ b.avail = clock
    /\ bars' = bars \cup {[inst |-> i, ev |-> ev, shape |-> shape, avail |-> clock]}
    /\ UNCHANGED <<clock, at, inst, dataAsOf, todo, features, samples, skipped, split>>

-----------------------------------------------------------------------------
(* get_bars_as_of: the latest revision of each bar, by event_time.          *)

\* The members of set in the order before: the n-th is the one that n - 1 others precede.
Ranked(set, before) ==
    [n \in 1..Cardinality(set) |->
        CHOOSE x \in set : Cardinality({y \in set : <<y, x>> \in before}) = n - 1]

ByEvent(rows) == Ranked(rows, {p \in rows \X rows : p[1].ev < p[2].ev})

\* Mutant: whatever is committed is read.
KnownEver(b, t) == TRUE

Known(b, t) == b.avail <= t

BarsAsOf(i, first, last, t) ==
    LET known  == {b \in bars : b.inst = i /\ b.ev \in first..last /\ Known(b, t)}
        sorted == ByEvent({b \in known : \A c \in known : c.ev = b.ev => c.avail <= b.avail})
    IN  [n \in DOMAIN sorted |->
            [ev |-> sorted[n].ev, close |-> sorted[n].shape.close,
             volume |-> sorted[n].shape.volume]]

FeatureBars(i, d) == BarsAsOf(i, d - FeatureDays, d, d)
LabelBars(i, d, t) == BarsAsOf(i, d, d + LabelDays, t)

\* compute_features: <<>> without the history, or with a zero price or volume
\* where it divides by one.
LastBars(seq, n) == SubSeq(seq, Len(seq) - n + 1, Len(seq))

Longest == Max(Lookbacks)

Computable(seq) ==
    LET window == LastBars(seq, Longest)
        priced == {n \in 1..(Longest - 1) : window[n].close # 0}
    IN  /\ \A b \in Lookbacks : seq[Len(seq) - b].close # 0
        /\ Cardinality(priced) >= 2
        /\ MapThenSumSet(LAMBDA n : window[n].volume, DOMAIN window) # 0
        /\ MapThenSumSet(LAMBDA n : window[n].close, DOMAIN window) # 0

Features(seq) ==
    IF Len(seq) > Longest /\ Computable(seq) THEN LastBars(seq, Longest + 1) ELSE <<>>

\* compute_forward_return_label: {} or {[label, return]}.
Label(seq) ==
    IF Len(seq) <= Horizon THEN {}
    ELSE IF seq[1].close = 0 THEN {}
    ELSE LET gain == seq[Horizon + 1].close - seq[1].close
         IN  {[label |-> IF 100 * gain > Threshold * seq[1].close THEN 1 ELSE 0,
               return |-> <<gain, seq[1].close>>]}

-----------------------------------------------------------------------------
(* DatasetBuilder.build                                                     *)

StartBuild(i, dates, t) ==
    /\ at = "idle" /\ split = <<>>
    /\ dataAsOf[i] = 0
    /\ t < clock
    /\ \A n \in DOMAIN dates : dates[n] <= t
    /\ inst' = i
    /\ todo' = dates
    /\ dataAsOf' = [dataAsOf EXCEPT ![i] = t]
    /\ at' = IF dates = <<>> THEN "idle" ELSE "features"
    /\ UNCHANGED <<clock, bars, features, samples, skipped, split>>

\* On to the next date.
Advance ==
    /\ todo' = Tail(todo)
    /\ at' = IF Tail(todo) = <<>> THEN "idle" ELSE "features"
    /\ features' = <<>>
    /\ UNCHANGED <<clock, bars, inst, dataAsOf, split>>

Skip(why) ==
    /\ skipped' = Append(skipped, [inst |-> inst, asOf |-> Head(todo), why |-> why])
    /\ UNCHANGED samples

FetchFeatures ==
    LET found == Features(FeatureBars(inst, Head(todo)))
    IN  /\ at = "features"
        /\ IF found = <<>> THEN Skip("features") /\ Advance
           ELSE /\ at' = "label"
                /\ features' = found
                /\ UNCHANGED <<clock, bars, inst, dataAsOf, todo, samples, skipped, split>>

FetchLabel ==
    LET found == Label(LabelBars(inst, Head(todo), dataAsOf[inst]))
    IN  /\ at = "label"
        /\ IF found = {} THEN Skip("label")
           ELSE /\ \E l \in found :
                      samples' = Append(samples, [inst |-> inst, asOf |-> Head(todo),
                          features |-> features, label |-> l.label, return |-> l.return])
                /\ UNCHANGED skipped
        /\ Advance

-----------------------------------------------------------------------------
(* time_ordered_split                                                       *)

\* Mutant: the samples are split in the order they were collected.
OrderedAsCollected(all) == all

\* sorted(key=as_of) is stable.
Earlier(all) ==
    {p \in (DOMAIN all) \X (DOMAIN all) :
        \/ all[p[1]].asOf < all[p[2]].asOf
        \/ all[p[1]].asOf = all[p[2]].asOf /\ p[1] < p[2]}

Ordered(all) ==
    LET order == Ranked(DOMAIN all, Earlier(all))
    IN  [n \in DOMAIN all |-> all[order[n]]]

\* Python's round: a half goes to the even neighbour.
Rounded(a, b) ==
    CASE 2 * (a % b) < b -> a \div b
      [] 2 * (a % b) > b -> (a \div b) + 1
      [] OTHER           -> (a \div b) + ((a \div b) % 2)

SplitIndex(size, f) ==
    LET index == Rounded(size * (f[2] - f[1]), f[2])
    IN  Min({Max({index, 1}), size - 1})

\* It raises, and nothing changes, with fewer than two samples.
Split(f) ==
    LET ordered == Ordered(samples)
        index == SplitIndex(Len(samples), f)
    IN  /\ at = "idle" /\ split = <<>>
        /\ Len(samples) >= 2
        /\ split' = <<SubSeq(ordered, 1, index), SubSeq(ordered, index + 1, Len(ordered))>>
        /\ UNCHANGED <<clock, bars, at, inst, dataAsOf, todo, features, samples, skipped>>

Next ==
    \/ Tick
    \/ \E i \in Instruments, ev \in 1..clock, shape \in Shapes : CommitBar(i, ev, shape)
    \/ \E i \in Instruments, dates \in Dates, t \in 1..MaxTime : StartBuild(i, dates, t)
    \/ FetchFeatures
    \/ FetchLabel
    \/ \E f \in Fractions : Split(f)

Spec == Init /\ [][Next]_vars

-----------------------------------------------------------------------------
(***************************************************************************)
(* app/models/dataset.py:13-18: every sample is what the same build would  *)
(* give at any later time: its features were known at its as_of, its label *)
(* at data_as_of, whatever was corrected between the two queries or since, *)
(* and a date was skipped only if it would still be.                       *)
(***************************************************************************)
DatasetIsReproducible ==
    /\ \A n \in DOMAIN samples :
        LET s == samples[n]
        IN  /\ s.features = Features(FeatureBars(s.inst, s.asOf))
            /\ [label |-> s.label, return |-> s.return]
                    \in Label(LabelBars(s.inst, s.asOf, dataAsOf[s.inst]))
    /\ \A n \in DOMAIN skipped :
        LET s == skipped[n]
        IN  IF s.why = "features" THEN Features(FeatureBars(s.inst, s.asOf)) = <<>>
            ELSE Label(LabelBars(s.inst, s.asOf, dataAsOf[s.inst])) = {}

(***************************************************************************)
(* Both sides of a split have a sample, together they have every sample    *)
(* once, and no training sample is later than a validation sample.         *)
(***************************************************************************)
SplitIsChronological ==
    split # <<>> =>
        LET train == split[1]
            validation == split[2]
        IN  /\ train # <<>> /\ validation # <<>>
            /\ Len(train) + Len(validation) = Len(samples)
            /\ Range(train) \cup Range(validation) = Range(samples)
            /\ \A m \in DOMAIN train, n \in DOMAIN validation :
                    train[m].asOf <= validation[n].asOf

(***************************************************************************)
(* docs/architecture/0011-ai-context-quant-regime-signal-engine.md:136-138:*)
(* every train sample's as_of precedes every validation sample's.          *)
(***************************************************************************)
TrainPrecedesValidation ==
    split # <<>> =>
        \A m \in DOMAIN split[1], n \in DOMAIN split[2] : split[1][m].asOf < split[2][n].asOf

(***************************************************************************)
(* No document promises this: what the model is trained on was known when  *)
(* the validation begins.  The label of a training sample takes bars up to *)
(* LabelDays after its as_of, which may lie among the validation samples.  *)
(***************************************************************************)
LabelsPrecedeValidation ==
    split # <<>> =>
        LET splitAsOf == Head(split[2]).asOf
        IN  \A n \in DOMAIN split[1] :
                LET s == split[1][n]
                IN  Label(LabelBars(s.inst, s.asOf, splitAsOf)) # {}

(***************************************************************************)
(* app/models/labels.py:41-44: the bars of a label start at the as_of bar  *)
(* itself, whose price is the entry price of the return.                   *)
(***************************************************************************)
EntryIsTheAsOfBar ==
    \A n \in DOMAIN samples :
        LET s == samples[n]
        IN  \E b \in bars : /\ b.inst = s.inst /\ b.ev = s.asOf
                            /\ b.shape.close = s.return[2]
=============================================================================
