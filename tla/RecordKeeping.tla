---------------------------- MODULE RecordKeeping ----------------------------
(***************************************************************************)
(* The tables whose rows are found by a key of the caller - paper_orders,  *)
(* broker_orders, system_events, backtest_runs, and model_runs as          *)
(* persist_training_run writes it - beside the scans of ScanRuns.  A       *)
(* transaction is a script of its caller: get_or_insert calls ("record")   *)
(* and UPDATEs of a status ("update"), made one after the other.           *)
(*                                                                         *)
(* The tables differ in their columns only, so one table of rows stands    *)
(* for them: what the INSERT said, and the status, which both write.       *)
(***************************************************************************)
EXTENDS ScanRuns, Sequences, FiniteSetsExt, Relation

CONSTANTS
    Scripts,    \* the transactions: sequences of [op, key, val]
    MaxRows     \* bound on the ids drawn

\* get_or_insert of a row, and UPDATE of its status and what comes with it.
Recorded(key, val) == [op |-> "record", key |-> key, val |-> val]
Updated(key, val)  == [op |-> "update", key |-> key, val |-> val]

RecordSubmission(id, status)     == Recorded(id, status)
UpdateOrderStatus(id, status)    == Updated(id, status)
RecordBrokerOrder(id, status)    == Recorded(id, status)
LogEvent(dedupKey, severity)     == Recorded(dedupKey, severity)
StartBacktest(key)               == Recorded(key, "running")
FinishBacktest(key, status)      == Updated(key, status)
PersistTrainingRun(key, fitted)  == <<Recorded(key, fitted), Updated(key, fitted)>>

Calls == UNION {{s[i] : i \in DOMAIN s} : s \in Scripts}
RowKeys == {c.key : c \in Calls} \ {NoKey}

ASSUME RecordAssumption ==
    /\ MaxRows \in Nat
    /\ Scripts \subseteq Seq(Calls) \ {<<>>}
    /\ \A c \in Calls : DOMAIN c = {"op", "key", "val"} /\ c.op \in {"record", "update"}

VARIABLES
    rows,       \* committed rows: id -> [key, first, status]
    nextRow,    \* the id sequence
    script,     \* script[w]: the transaction w executes, <<>> when none
    at,         \* at[w]: the call of the script it is at
    step,       \* step[w]: where in that call: "call", "insert" or "reselect"
    ownRows,    \* ownRows[w]: rows its transaction has inserted or updated
    told,       \* told[w]: what its get_or_insert calls have returned: [key, id, created]
    answers,    \* <<key, id>> returned to transactions that committed
    creations   \* creations[k]: how many of those were told created=True

recVars == <<rows, nextRow, script, at, step, ownRows, told, answers, creations>>
allVars == <<vars, recVars>>

RowIds == Nat \ {0}
KeyedRow == [key : RowKeys \cup {NoKey}, first : {c.val : c \in Calls},
             status : {c.val : c \in Calls}]
Answer == [key : RowKeys, id : RowIds, created : BOOLEAN]

IsTable(t) == IsPartial(t, RowIds, KeyedRow)

RecTypeOK ==
    /\ TypeOK
    /\ IsTable(rows)
    /\ nextRow \in RowIds
    /\ script \in [Workers -> Scripts \cup {<<>>}]
    /\ DOMAIN at = Workers /\ \A w \in Workers : at[w] \in 1..(Len(script[w]) + 1)
    /\ step \in [Workers -> {"call", "insert", "reselect"}]
    /\ DOMAIN ownRows = Workers /\ DOMAIN told = Workers
    /\ \A w \in Workers : IsTable(ownRows[w]) /\ told[w] \subseteq Answer
    /\ answers \subseteq RowKeys \X RowIds
    /\ creations \in [RowKeys -> Nat]

RecInit ==
    /\ Init
    /\ rows = <<>>
    /\ nextRow = 1
    /\ script = [w \in Workers |-> <<>>]
    /\ at = [w \in Workers |-> 1]
    /\ step = [w \in Workers |-> "call"]
    /\ ownRows = [w \in Workers |-> <<>>]
    /\ told = [w \in Workers |-> {}]
    /\ answers = {}
    /\ creations = [k \in RowKeys |-> 0]

Busy(w) == script[w] # <<>>
Done(w) == Busy(w) /\ at[w] > Len(script[w])
Current(w) == script[w][at[w]]

\* w is in the given place of a call of the given kind.
Doing(w, op, where) == Busy(w) /\ ~Done(w) /\ Current(w).op = op /\ step[w] = where

VisibleRows(w) == Overlaid(ownRows[w], rows)

-----------------------------------------------------------------------------
Records(s) == {i \in DOMAIN s : s[i].op = "record"}

\* The bound: every call under way, and every new one without a row yet, can draw an id.
RowsLeft(s) ==
    nextRow + Cardinality({i \in Records(s) : Conflicts(rows, s[i].key) = {}})
            + MapThenSumSet(LAMBDA v : Cardinality(Records(script[v])), Workers) <= MaxRows + 1

\* session_scope: a session begins with its first statement.
Open(w, s) ==
    /\ pc[w] = "idle"
    /\ ~Busy(w)
    /\ RowsLeft(s)
    /\ script' = [script EXCEPT ![w] = s]
    /\ UNCHANGED <<rows, nextRow, at, step, ownRows, told, answers, creations>>

\* The call returns; the caller goes on to the next one.
Advance(w) == at' = [at EXCEPT ![w] = @ + 1] /\ step' = [step EXCEPT ![w] = "call"]

Tell(w, id, created) ==
    told' = [told EXCEPT ![w] =
               @ \cup IF Current(w).key = NoKey THEN {}
                      ELSE {[key |-> Current(w).key, id |-> id, created |-> created]}]

\* Mutant: the values are applied to a row that is already there.
FindOverwrites(w) ==
    /\ Doing(w, "record", "call") \/ Doing(w, "record", "reselect")
    /\ Current(w).key # NoKey
    /\ \E r \in RunsWithKey(VisibleRows(w), Current(w).key) :
          /\ \A v \in Workers \ {w} : r \notin DOMAIN ownRows[v]
          /\ ownRows' = [ownRows EXCEPT ![w] =
                Overlaid([x \in {r} |-> [VisibleRows(w)[x] EXCEPT !.status = Current(w).val]], @)]
          /\ Tell(w, r, FALSE)
    /\ Advance(w)
    /\ UNCHANGED <<rows, nextRow, script, answers, creations>>

\* Mutant: the row found after an IntegrityError is reported as created.
FindCreates(w) ==
    /\ Doing(w, "record", "call") \/ Doing(w, "record", "reselect")
    /\ Current(w).key # NoKey
    /\ \E r \in RunsWithKey(VisibleRows(w), Current(w).key) : Tell(w, r, step[w] = "reselect")
    /\ Advance(w)
    /\ UNCHANGED <<rows, nextRow, script, ownRows, answers, creations>>

\* get_or_insert's SELECT, before the INSERT or after its IntegrityError, finds the row:
\* its id is returned, the values of the call are dropped.
Find(w) ==
    /\ Doing(w, "record", "call") \/ Doing(w, "record", "reselect")
    /\ Current(w).key # NoKey
    /\ \E r \in RunsWithKey(VisibleRows(w), Current(w).key) : Tell(w, r, FALSE)
    /\ Advance(w)
    /\ UNCHANGED <<rows, nextRow, script, ownRows, answers, creations>>

\* The first SELECT finds nothing, or there is no key to look up.
Miss(w) ==
    /\ Doing(w, "record", "call")
    /\ Conflicts(VisibleRows(w), Current(w).key) = {}
    /\ step' = [step EXCEPT ![w] = "insert"]
    /\ UNCHANGED <<rows, nextRow, script, at, ownRows, told, answers, creations>>

Inserted(c) == [key |-> c.key, first |-> c.val, status |-> c.val]

\* The INSERT in its savepoint: waits for an uncommitted row with the key, and fails if
\* that was committed.  Either way an id is drawn.
InsertRow(w) ==
    /\ Doing(w, "record", "insert")
    /\ \A v \in Workers \ {w} : Conflicts(ownRows[v], Current(w).key) \ DOMAIN rows = {}
    /\ nextRow' = nextRow + 1
    /\ IF Conflicts(rows, Current(w).key) = {}
       THEN /\ ownRows' = [ownRows EXCEPT ![w] =
                             Overlaid([r \in {nextRow} |-> Inserted(Current(w))], @)]
            /\ Tell(w, nextRow, TRUE)
            /\ Advance(w)
       ELSE step' = [step EXCEPT ![w] = "reselect"] /\ UNCHANGED <<at, ownRows, told>>
    /\ UNCHANGED <<rows, script, answers, creations>>

\* The rows an UPDATE of w would write: those it sees, so none that is uncommitted elsewhere.
Targets(w) == RunsWithKey(VisibleRows(w), Current(w).key)

\* update_status, finish_backtest, finish_run: whatever the status was, and without
\* an error when there is no such row.
UpdateStatus(w) ==
    /\ Doing(w, "update", "call")
    /\ \A v \in Workers \ {w} : Targets(w) \cap DOMAIN ownRows[v] = {}
    /\ ownRows' = [ownRows EXCEPT ![w] =
                     Overlaid([r \in Targets(w) |->
                                 [VisibleRows(w)[r] EXCEPT !.status = Current(w).val]], @)]
    /\ Advance(w)
    /\ UNCHANGED <<rows, nextRow, script, told, answers, creations>>

-----------------------------------------------------------------------------
\* Mutant: the session is given back with its transaction still open.
CloseSessionLeaks(w) ==
    /\ script' = [script EXCEPT ![w] = <<>>]
    /\ at' = [at EXCEPT ![w] = 1]
    /\ step' = [step EXCEPT ![w] = "call"]
    /\ told' = [told EXCEPT ![w] = {}]
    /\ UNCHANGED <<nextRow, ownRows>>

CloseSession(w) ==
    /\ script' = [script EXCEPT ![w] = <<>>]
    /\ at' = [at EXCEPT ![w] = 1]
    /\ step' = [step EXCEPT ![w] = "call"]
    /\ ownRows' = [ownRows EXCEPT ![w] = <<>>]
    /\ told' = [told EXCEPT ![w] = {}]
    /\ UNCHANGED nextRow

CommitSession(w) ==
    /\ Done(w)
    /\ rows' = VisibleRows(w)
    /\ answers' = answers \cup {<<t.key, t.id>> : t \in told[w]}
    /\ creations' = [k \in RowKeys |->
                       creations[k] + Cardinality({t \in told[w] : t.key = k /\ t.created})]
    /\ CloseSession(w)

\* An exception or a crash anywhere before the commit; the caller may try again.
AbortSession(w) ==
    /\ Busy(w)
    /\ CloseSession(w)
    /\ UNCHANGED <<rows, answers, creations>>

\* w waits for a row that v's transaction holds.
WaitsFor(w, v) ==
    \/ Doing(w, "record", "insert") /\ Conflicts(ownRows[v], Current(w).key) \ DOMAIN rows # {}
    \/ Doing(w, "update", "call") /\ Targets(w) \cap DOMAIN ownRows[v] # {}

InCircle(w) == TransitiveClosure([x, y \in Workers |-> x # y /\ WaitsFor(x, y)], Workers)[w, w]

\* A script's order is its caller's, so transactions can wait in a circle: PostgreSQL
\* raises in one of them, and nothing on the way to session_scope catches that.
DeadlockVictim(w) ==
    /\ InCircle(w)
    /\ AbortSession(w)

RecStep(w) == Find(w) \/ Miss(w) \/ InsertRow(w) \/ UpdateStatus(w) \/ CommitSession(w)

ScanNext ==
    \E w \in Workers :
        /\ ~Busy(w)
        /\ (\E q \in Requests : Call(w, q)) \/ Step(w) \/ Rollback(w)
        /\ UNCHANGED recVars

RecordNext ==
    /\ \E w \in Workers :
          (\E s \in Scripts : Open(w, s)) \/ RecStep(w) \/ AbortSession(w) \/ DeadlockVictim(w)
    /\ UNCHANGED vars

RecNext == ScanNext \/ RecordNext

RecFairness ==
    /\ Fairness
    /\ \A w \in Workers : SF_recVars(RecStep(w))
    /\ WF_recVars(\E w \in Workers : DeadlockVictim(w))

RecSpec == RecInit /\ [][RecNext]_allVars /\ RecFairness

-----------------------------------------------------------------------------
(***************************************************************************)
(* _idempotent_insert.py:8-11: a call repeated with its key returns the    *)
(* same row.  Across races, deadlocks, failures and retries: a key has one *)
(* row, every committed caller was given its id, and exactly one of them   *)
(* was told that it created it.                                            *)
(***************************************************************************)
RecordedOnce ==
    /\ \A a, b \in answers : a[1] = b[1] => a[2] = b[2]
    /\ \A a \in answers : RunsWithKey(rows, a[1]) = {a[2]}
    /\ \A k \in RowKeys : creations[k] = Cardinality(RunsWithKey(rows, k))

(***************************************************************************)
(* A submission that is retried after its order has moved on takes nothing *)
(* back: a committed row changes in its status only, and only to what the  *)
(* last update of the transaction that commits has set.                    *)
(***************************************************************************)
UpdatesOf(w, k) == {i \in DOMAIN script[w] : script[w][i].op = "update" /\ script[w][i].key = k}

OnlyUpdatesChange ==
    [][\A r \in DOMAIN rows : rows'[r] # rows[r] =>
          /\ rows'[r] = [rows[r] EXCEPT !.status = rows'[r].status]
          /\ \E w \in Workers :
                /\ Done(w) /\ script'[w] = <<>>
                /\ UpdatesOf(w, rows[r].key) # {}
                /\ rows'[r].status = script[w][Max(UpdatesOf(w, rows[r].key))].val]_allVars

(***************************************************************************)
(* Transactions that write the same rows in opposite orders deadlock; with *)
(* one of them raised out of it, every transaction still ends.             *)
(***************************************************************************)
SessionsEnd == \A w \in Workers : Busy(w) ~> ~Busy(w)

(***************************************************************************)
(* An update finds its order.  It does not when it overtakes the commit of *)
(* the submission: it then changes no row and reports no error.            *)
(***************************************************************************)
Returned(w) == {script[w][i] : i \in 1..(at[w] - 1)}

UpdatesLand ==
    \A w \in Workers : \A c \in Returned(w) :
        c.op = "update" => RunsWithKey(VisibleRows(w), c.key) # {}

(***************************************************************************)
(* system_events.py:1-3: the log of ingestion outcomes - the outcome that  *)
(* was logged last is the one in the log.  A retry that succeeds is        *)
(* deduplicated against its failed predecessor: the ERROR stays.           *)
(***************************************************************************)
OutcomeIsLogged ==
    \A w \in Workers : \A c \in Returned(w) :
        c.op = "record" /\ c.key # NoKey =>
            \A r \in RunsWithKey(VisibleRows(w), c.key) : VisibleRows(w)[r].first = c.val

(***************************************************************************)
(* app/models/artifact.py:70-74: a model_runs row is for one completed     *)
(* training run.  A second training under the key of the first finishes    *)
(* the first's row: its parameters, the other's metrics.                   *)
(***************************************************************************)
RunIsOfOneTraining == \A r \in DOMAIN rows : rows[r].status = rows[r].first

(***************************************************************************)
(* runs.py:1-7: a job that is restarted resumes the same run - and a run   *)
(* that has finished stays as it finished.  A finish that comes late, of   *)
(* the attempt the restart has replaced, is written over it.               *)
(***************************************************************************)
FinishedStaysFinished ==
    [][\A r \in DOMAIN rows :
          rows[r].status # "running" => rows'[r].status = rows[r].status]_allVars
=============================================================================
