------------------------------ MODULE Evaluation ------------------------------
(***************************************************************************)
(* app/models/evaluation.py: the metrics of the samples a model has        *)
(* scored, as a whole and by group.  Probabilities are multiples of 1 /    *)
(* Scale, and what the code divides by the number of samples is kept       *)
(* undivided: what it calls nan for no samples is 0 over 0 here.  AUC,      *)
(* PR-AUC and the Brier score are left to the library.                     *)
(***************************************************************************)
EXTENDS Integers, Sequences, FiniteSets, Functions

CONSTANTS
    Scale,          \* a predicted probability is one of 0..Scale, over Scale
    Bins,           \* n_bins of expected_calibration_error
    Decision,       \* decision_threshold, over Scale
    Groups,         \* the group keys
    MaxScored       \* bound on the samples of an evaluation

ASSUME EvaluationAssumption ==
    /\ {Scale, Bins} \subseteq Nat \ {0}
    /\ Decision \in 0..Scale
    /\ MaxScored \in Nat

VARIABLE scored     \* y_true, y_prob and the samples' groups, index by index

Scored == [prob : 0..Scale, label : {0, 1}, group : Groups]

EvaluationInit == scored = <<>>

Score ==
    /\ Len(scored) < MaxScored
    /\ \E x \in Scored : scored' = Append(scored, x)

EvaluationSpec == EvaluationInit /\ [][Score]_scored

Abs(n) == IF n < 0 THEN -n ELSE n

\* Mutant: the last bin is half-open like the others.
InBinHalfOpen(x, b) == b * Scale <= x.prob * Bins /\ x.prob * Bins < (b + 1) * Scale

\* Bin b, counted from 0: half-open, but for the last one.
InBin(x, b) ==
    /\ b * Scale <= x.prob * Bins
    /\ \/ x.prob * Bins < (b + 1) * Scale
       \/ b = Bins - 1 /\ x.prob = Scale

\* In what follows, N are the indices of the samples evaluated.  A bin of n samples weighs
\* n / total, and its gap is the difference of two means over these n: this is
\* expected_calibration_error times Scale times the number of samples.
BinError(s, N, b) ==
    LET mask   == {n \in N : InBin(s[n], b)}
        probs  == [n \in DOMAIN s |-> s[n].prob]
        labels == [n \in DOMAIN s |-> s[n].label]
    IN  Abs(SumFunctionOnSet(probs, mask) - Scale * SumFunctionOnSet(labels, mask))

CalibrationError(s, N) == SumFunction([b \in 0..(Bins - 1) |-> BinError(s, N, b)])

\* compute_classification_metrics; precision and recall are quotients of the counts, 0 for
\* 0 / 0, and AUC is there only if both classes are.
Metrics(s, N) ==
    LET positive == {n \in N : s[n].label = 1}
        predicted == {n \in N : s[n].prob >= Decision}
    IN  [sample_count |-> Cardinality(N),
         positives    |-> Cardinality(positive),
         predicted    |-> Cardinality(predicted),
         confirmed    |-> Cardinality(positive \cap predicted),
         has_auc      |-> Cardinality({s[n].label : n \in N}) > 1,
         ece          |-> CalibrationError(s, N)]

Group(s, g) == {n \in DOMAIN s : s[n].group = g}

\* compute_metrics_by_group
MetricsByGroup(s) == [g \in {s[n].group : n \in DOMAIN s} |-> Metrics(s, Group(s, g))]

-----------------------------------------------------------------------------
\* A probability's bin, as a reliability curve has it: [0, 1/n), ..., [(n-1)/n, 1].
BinOf(x) == IF x.prob = Scale THEN Bins - 1 ELSE (x.prob * Bins) \div Scale

ReferenceError(s) ==
    LET gaps == [n \in DOMAIN s |-> s[n].prob - Scale * s[n].label]
    IN  SumFunction([b \in {BinOf(s[n]) : n \in DOMAIN s} |->
                        Abs(SumFunctionOnSet(gaps, {n \in DOMAIN s : BinOf(s[n]) = b}))])

(***************************************************************************)
(* The calibration error is the reliability curve's, at probabilities on   *)
(* the edges too, every sample is counted in exactly one group, and what   *)
(* app/models/evaluation.py:1-6 wants groups for: the groups of a report   *)
(* hide no miscalibration - the whole is no worse than they are together - *)
(* while the whole may hide theirs.                                        *)
(***************************************************************************)
AddsUp(s) ==
    LET whole == Metrics(s, DOMAIN s)
        groups == MetricsByGroup(s)
        sum(f) == SumFunction([g \in DOMAIN groups |-> groups[g][f]])
    IN  /\ whole.ece = ReferenceError(s)
        /\ \A f \in {"sample_count", "positives", "predicted", "confirmed"} : sum(f) = whole[f]
        /\ whole.ece <= sum("ece")
        /\ \A g \in DOMAIN groups : groups[g].has_auc => whole.has_auc

EvaluationAddsUp == AddsUp(scored)
=============================================================================
