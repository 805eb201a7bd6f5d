--------------------------- MODULE MCSignalInputs ---------------------------
(* b, without a bar on day 5, is the benchmark as well.                     *)
EXTENDS SignalInputs, MCTrainingSet, Evaluation

Ask(i, t, c) == [inst |-> i, asOf |-> t, counts |-> c]
MCRequests == {Ask("a", 5, <<>>), Ask("b", 6, <<0, 2>>)}
MCTrendDown == -10

\* An evaluation reads no table: a behaviour that builds, asks and evaluates shows nothing
\* that one does not that evaluates alone.
MCInit == SignalInit /\ EvaluationInit

Evaluate == SignalInit /\ Score /\ UNCHANGED <<vars, signalVars>>

MCNext ==
    \/ SignalNext /\ scored = <<>> /\ UNCHANGED scored
    \/ Evaluate

MCSpec == MCInit /\ [][MCNext]_<<vars, signalVars, scored>>
=============================================================================
