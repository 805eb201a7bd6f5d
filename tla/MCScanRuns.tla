----------------------------- MODULE MCScanRuns -----------------------------
(* Two workers; calls of one strategy version under one key, of another    *)
(* version under its own key or the same one, and calls without a key;     *)
(* submissions, status updates and logged outcomes in either order.        *)
EXTENDS RecordKeeping

CONSTANTS i1, i2, k1, k2, order, event

Req(k, v, c) == [key |-> k, ver |-> v, cands |-> c]

KeyPerVersion ==
    {Req(k1, 1, {i1, i2}), Req(k1, 1, {i1}), Req(k2, 2, {i1}), Req(NoKey, 1, {i2})}

SharedKey == {Req(k1, 1, {i1}), Req(k1, 2, {i1})}

OrdersAndEvents ==
    {<<RecordSubmission(order, "submitted"), LogEvent(event, "INFO")>>,
     <<LogEvent(event, "ERROR"), RecordSubmission(order, "again")>>,
     <<UpdateOrderStatus(order, "filled"), LogEvent(NoKey, "INFO")>>}

SubmitThenFill == {<<RecordSubmission(order, "submitted")>>, <<UpdateOrderStatus(order, "filled")>>}

FailThenRetry == {<<LogEvent(event, "ERROR")>>, <<LogEvent(event, "INFO")>>}

TwoTrainings == {PersistTrainingRun(k2, v) : v \in {"first", "second"}}

Backtests == {<<StartBacktest(k2)>>} \cup {<<FinishBacktest(k2, s)>> : s \in {"completed", "failed"}}

Losses == SubmitThenFill \cup FailThenRetry \cup TwoTrainings \cup Backtests

\* Scans and records share neither rows nor locks: a behaviour with both shows nothing
\* that one with either does not.
ScansUntouched == nextId = 1 /\ \A w \in Workers : pc[w] = "idle"
RecordsUntouched == nextRow = 1 /\ rows = <<>> /\ \A w \in Workers : ~Busy(w)

MCNext ==
    \/ ScanNext /\ RecordsUntouched
    \/ RecordNext /\ ScansUntouched

MCSpec == RecInit /\ [][MCNext]_allVars /\ RecFairness
=============================================================================
