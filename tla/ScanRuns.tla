------------------------------ MODULE ScanRuns ------------------------------
(***************************************************************************)
(* persist_scan_results: a scan is stored as a model_runs row, found or    *)
(* inserted by its idempotency key (get_or_insert), one signals row per    *)
(* candidate, and the run's final status and metrics - several workers at  *)
(* READ COMMITTED, each call in a transaction of its caller that commits,  *)
(* or is lost by an exception or a crash and then repeated.                *)
(*                                                                         *)
(* Signals carry the strategy version of the call that wrote their values. *)
(* All calls with one key scan one as_of, so event_time is left out of the *)
(* signals' key.                                                           *)
(***************************************************************************)
EXTENDS Naturals, FiniteSets

CONSTANTS
    Workers,
    Instruments,
    Requests,   \* the calls: [key, ver, cands], cands the scanned candidates
    NoKey,      \* idempotency_key=None
    MaxCalls    \* bound on the ids drawn

ASSUME ScanAssumption ==
    /\ MaxCalls \in Nat
    /\ Requests # {}
    /\ \A q \in Requests : /\ q = [key |-> q.key, ver |-> q.ver, cands |-> q.cands]
                            /\ q.cands \subseteq Instruments /\ IsFiniteSet(q.cands)

VARIABLES
    runs,       \* committed model_runs: id -> [key, ver, status, count]
    signals,    \* committed signals: <<run id, instrument>> -> version that wrote it
    nextId,     \* the id sequence; ids of rolled-back rows are not reused
    pc,         \* pc[w]: where w's call is
    req,        \* req[w]: its request
    run,        \* run[w]: the run id it works with, 0 before it has one
    ownRuns,    \* ownRuns[w]: model_runs rows its transaction has inserted or updated
    ownSignals, \* ownSignals[w]: signals rows its transaction has inserted or updated
    returned    \* the calls that committed: [key, ver, id]

vars == <<runs, signals, nextId, pc, req, run, ownRuns, ownSignals, returned>>

Ids == Nat \ {0}
Keys == {q.key : q \in Requests}
Versions == {q.ver : q \in Requests}
RunRow == [key : Keys, ver : Versions, status : {"running", "completed"},
           count : {0} \cup {Cardinality(q.cands) : q \in Requests}]

\* t has entries of T under some of the keys K.
IsPartial(t, K, T) == DOMAIN t \subseteq K /\ \A k \in DOMAIN t : t[k] \in T

TypeOK ==
    /\ IsPartial(runs, Ids, RunRow)
    /\ IsPartial(signals, Ids \X Instruments, Versions)
    /\ nextId \in Ids
    /\ pc \in [Workers -> {"idle", "lookup", "insert", "reselect", "upsert", "finish", "done"}]
    /\ req \in [Workers -> Requests]
    /\ run \in [Workers -> Nat]
    /\ DOMAIN ownRuns = Workers /\ DOMAIN ownSignals = Workers
    /\ \A w \in Workers : /\ IsPartial(ownRuns[w], {run[w]} \ {0}, RunRow)
                          /\ IsPartial(ownSignals[w], ({run[w]} \ {0}) \X Instruments, Versions)
    /\ returned \subseteq [key : Keys, ver : Versions, id : Ids]

Init ==
    /\ runs = <<>>
    /\ signals = <<>>
    /\ nextId = 1
    /\ pc = [w \in Workers |-> "idle"]
    /\ req \in [Workers -> {CHOOSE q \in Requests : TRUE}]
    /\ run = [w \in Workers |-> 0]
    /\ ownRuns = [w \in Workers |-> <<>>]
    /\ ownSignals = [w \in Workers |-> <<>>]
    /\ returned = {}

\* Where both have a row, the new one hides the old one.
Overlaid(new, old) ==
    [k \in DOMAIN new \cup DOMAIN old |-> IF k \in DOMAIN new THEN new[k] ELSE old[k]]

VisibleRuns(w) == Overlaid(ownRuns[w], runs)

\* Mutant: the lookup is by strategy_id, so any run of the strategy is found.
RunsWithAnyKey(rows, key) == DOMAIN rows

\* The runs a statement of w finds under a key; the unique index allows one.
RunsWithKey(rows, key) == {r \in DOMAIN rows : rows[r].key = key}

\* Another open transaction has written one of these rows.
LockedRuns(w) == UNION {DOMAIN ownRuns[v] : v \in Workers \ {w}}
LockedSignals(w) == UNION {DOMAIN ownSignals[v] : v \in Workers \ {w}}

-----------------------------------------------------------------------------
\* The bound: every call under way can still draw an id.
IdsLeft == nextId + Cardinality({v \in Workers : pc[v] \in {"lookup", "insert"}}) <= MaxCalls

Call(w, q) ==
    /\ pc[w] = "idle"
    /\ IdsLeft \/ (q.key # NoKey /\ RunsWithKey(runs, q.key) # {})
    /\ pc' = [pc EXCEPT ![w] = IF q.key = NoKey THEN "insert" ELSE "lookup"]
    /\ req' = [req EXCEPT ![w] = q]
    /\ UNCHANGED <<runs, signals, nextId, run, ownRuns, ownSignals, returned>>

\* The SELECT of get_or_insert, and the one after an IntegrityError.
Select(w) ==
    /\ pc[w] \in {"lookup", "reselect"}
    /\ \/ \E r \in RunsWithKey(VisibleRuns(w), req[w].key) :
             /\ run' = [run EXCEPT ![w] = r]
             /\ pc' = [pc EXCEPT ![w] = "upsert"]
       \/ /\ RunsWithKey(VisibleRuns(w), req[w].key) = {}
          /\ pc[w] = "lookup"
          /\ pc' = [pc EXCEPT ![w] = "insert"]
          /\ UNCHANGED run
    /\ UNCHANGED <<runs, signals, nextId, req, ownRuns, ownSignals, returned>>

\* Mutant: no unique index.
ConflictsNever(rows, key) == {}

\* The unique index on idempotency_key: NULLs never conflict.
Conflicts(rows, key) == IF key = NoKey THEN {} ELSE RunsWithKey(rows, key)

NewRow(q) == [key |-> q.key, ver |-> q.ver, status |-> "running", count |-> 0]

\* The INSERT in a savepoint: it waits for an uncommitted row with the key, then
\* fails if that was committed.  Either way an id is drawn.
Insert(w) ==
    /\ pc[w] = "insert"
    /\ \A v \in Workers \ {w} : Conflicts(ownRuns[v], req[w].key) \ DOMAIN runs = {}
    /\ nextId' = nextId + 1
    /\ IF Conflicts(runs, req[w].key) = {}
       THEN /\ run' = [run EXCEPT ![w] = nextId]
            /\ ownRuns' = [ownRuns EXCEPT ![w] = [r \in {nextId} |-> NewRow(req[w])]]
            /\ pc' = [pc EXCEPT ![w] = "upsert"]
       ELSE /\ pc' = [pc EXCEPT ![w] = "reselect"]
            /\ UNCHANGED <<run, ownRuns>>
    /\ UNCHANGED <<runs, signals, req, ownSignals, returned>>

\* upsert_signals: one bulk INSERT ... ON CONFLICT DO UPDATE.
UpsertSignals(w) ==
    LET rows == {run[w]} \X req[w].cands
    IN  /\ pc[w] = "upsert"
        /\ rows \cap LockedSignals(w) = {}
        /\ ownSignals' = [ownSignals EXCEPT ![w] = [s \in rows |-> req[w].ver]]
        /\ pc' = [pc EXCEPT ![w] = "finish"]
        /\ UNCHANGED <<runs, signals, nextId, req, run, ownRuns, returned>>

\* finish_run: an unconditional UPDATE of the run's status and metrics.
FinishRun(w) ==
    /\ pc[w] = "finish"
    /\ run[w] \notin LockedRuns(w)
    /\ ownRuns' = [ownRuns EXCEPT ![w] =
                     [r \in {run[w]} |-> [VisibleRuns(w)[r] EXCEPT
                        !.status = "completed", !.count = Cardinality(req[w].cands)]]]
    /\ pc' = [pc EXCEPT ![w] = "done"]
    /\ UNCHANGED <<runs, signals, nextId, req, run, ownSignals, returned>>

\* Mutant: the session keeps the rows, and the locks, of the finished call.
CloseKeepsLocks(w) ==
    /\ pc' = [pc EXCEPT ![w] = "idle"]
    /\ UNCHANGED <<run, ownRuns, ownSignals, nextId, req>>

Close(w) ==
    /\ pc' = [pc EXCEPT ![w] = "idle"]
    /\ run' = [run EXCEPT ![w] = 0]
    /\ ownRuns' = [ownRuns EXCEPT ![w] = <<>>]
    /\ ownSignals' = [ownSignals EXCEPT ![w] = <<>>]
    /\ UNCHANGED <<nextId, req>>

\* Mutant: the run is committed when it is created, its signals with the rest.
CommitEarly(w) ==
    /\ pc[w] \in {"upsert", "done"}
    /\ runs' = VisibleRuns(w)
    /\ signals' = Overlaid(ownSignals[w], signals)
    /\ returned' = returned \cup {[key |-> req[w].key, ver |-> req[w].ver, id |-> run[w]]}
    /\ Close(w)

Commit(w) ==
    /\ pc[w] = "done"
    /\ runs' = VisibleRuns(w)
    /\ signals' = Overlaid(ownSignals[w], signals)
    /\ returned' = returned \cup {[key |-> req[w].key, ver |-> req[w].ver, id |-> run[w]]}
    /\ Close(w)

\* An exception or a crash anywhere before the commit; the caller may call again.
Rollback(w) ==
    /\ pc[w] # "idle"
    /\ Close(w)
    /\ UNCHANGED <<runs, signals, returned>>

Step(w) == Select(w) \/ Insert(w) \/ UpsertSignals(w) \/ FinishRun(w) \/ Commit(w)

Next == \E w \in Workers : (\E q \in Requests : Call(w, q)) \/ Step(w) \/ Rollback(w)

\* PostgreSQL grants a lock to its waiters in order: one that comes free again and
\* again is granted in the end.
Fairness == \A w \in Workers : SF_vars(Step(w))

Spec == Init /\ [][Next]_vars /\ Fairness

-----------------------------------------------------------------------------
(***************************************************************************)
(* Idempotency across races, failures and restarts: calls that committed   *)
(* under one key were given one run, and no key has two runs.              *)
(***************************************************************************)
SameKeySameRun ==
    /\ \A a, b \in returned : a.key = b.key /\ a.key # NoKey => a.id = b.id
    /\ \A r, s \in DOMAIN runs : runs[r].key = runs[s].key /\ runs[r].key # NoKey => r = s

(***************************************************************************)
(* A reader never sees half a scan: every visible run is completed and has *)
(* at least the signals its metrics count; every signal has its run.       *)
(***************************************************************************)
SignalsOf(r) == {s \in DOMAIN signals : s[1] = r}

NoHalfScan ==
    /\ \A r \in DOMAIN runs : /\ runs[r].status = "completed"
                              /\ runs[r].count <= Cardinality(SignalsOf(r))
    /\ \A s \in DOMAIN signals : s[1] \in DOMAIN runs

(***************************************************************************)
(* docs/architecture/0010-scanner-pipeline.md:120-124 and                  *)
(* app/scanners/persistence.py:5-9: results of different strategy versions *)
(* are stored separately - a run's signals are those of its own version.   *)
(* It holds when the caller puts the version into the idempotency key, and *)
(* is not enforced otherwise: the lookup is by idempotency_key alone.      *)
(***************************************************************************)
VersionsSegregated ==
    /\ \A s \in DOMAIN signals : signals[s] = runs[s[1]].ver
    /\ \A a, b \in returned : a.id = b.id => a.ver = b.ver

(***************************************************************************)
(* Workers wait for each other's keys and rows, never in a circle: every   *)
(* call comes to its end.                                                  *)
(***************************************************************************)
CallsEnd == \A w \in Workers : pc[w] # "idle" ~> pc[w] = "idle"
=============================================================================
