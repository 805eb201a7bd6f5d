------------------------- MODULE RecordKeepingProofs -------------------------
(***************************************************************************)
(* Proofs about scans and their runs, and about the rows found by a key of *)
(* the caller, for any workers, requests, transactions and bounds.         *)
(***************************************************************************)
EXTENDS RecordKeeping, FiniteSetTheorems, TLAPS

(***************************************************************************)
(* The inductive invariant of persist_scan_results.                        *)
(*                                                                         *)
(* PlaceInv: what a call has in hand at each place.                        *)
(* IdInv: ids of rows, committed or not, have been drawn.                  *)
(* LockInv: a row written in an open transaction is held by it alone, and  *)
(*   what it hides of a committed row has the same key and version.        *)
(* KeyInv: a key has one run, among those any of two workers see.          *)
(* ReturnedInv: the run a call was given has the call's key.               *)
(***************************************************************************)
Holds(w) == pc[w] \in {"upsert", "finish", "done"}

Placed(w) ==
    /\ ~Holds(w) => ownRuns[w] = <<>>
    /\ pc[w] \notin {"finish", "done"} => ownSignals[w] = <<>>
    /\ pc[w] \in {"lookup", "reselect"} => req[w].key # NoKey
    /\ Holds(w) => /\ run[w] \in DOMAIN VisibleRuns(w)
                   /\ VisibleRuns(w)[run[w]].key = req[w].key
    /\ pc[w] \in {"finish", "done"} =>
          ownSignals[w] = [s \in {run[w]} \X req[w].cands |-> req[w].ver]
    /\ pc[w] = "done" => /\ run[w] \in DOMAIN ownRuns[w]
                         /\ ownRuns[w][run[w]].status = "completed"
                         /\ ownRuns[w][run[w]].count = Cardinality(req[w].cands)

PlaceInv == \A w \in Workers : Placed(w)

IdInv ==
    /\ \A r \in DOMAIN runs : r < nextId
    /\ \A w \in Workers : \A r \in DOMAIN ownRuns[w] : r < nextId

LockInv ==
    /\ \A v, w \in Workers : v # w => DOMAIN ownRuns[v] \cap DOMAIN ownRuns[w] = {}
    /\ \A w \in Workers : \A r \in DOMAIN ownRuns[w] \cap DOMAIN runs :
          ownRuns[w][r].key = runs[r].key /\ ownRuns[w][r].ver = runs[r].ver

KeysApart(t, u) ==
    \A r \in DOMAIN t, s \in DOMAIN u : t[r].key = u[s].key /\ t[r].key # NoKey => r = s

KeyInv ==
    /\ KeysApart(runs, runs)
    /\ \A w \in Workers : KeysApart(ownRuns[w], runs)
    /\ \A v, w \in Workers : KeysApart(ownRuns[v], ownRuns[w])

ReturnedInv == \A a \in returned : a.id \in DOMAIN runs /\ runs[a.id].key = a.key

RunsInv == TypeOK /\ PlaceInv /\ IdInv /\ LockInv /\ KeyInv /\ ReturnedInv

\* The signals of each run can be counted.
FiniteInv == \A r \in DOMAIN runs : IsFiniteSet(SignalsOf(r))

\* Where a key stands for one version, rows, calls and signals agree on it.
OneVersionPerKey == \A p, q \in Requests : p.key = q.key /\ p.key # NoKey => p.ver = q.ver

OfRequest(row) == \E q \in Requests : row.key = q.key /\ row.ver = q.ver

VersionInv ==
    /\ \A r \in DOMAIN runs : OfRequest(runs[r])
    /\ \A w \in Workers : \A r \in DOMAIN ownRuns[w] : OfRequest(ownRuns[w][r])
    /\ \A w \in Workers : Holds(w) => VisibleRuns(w)[run[w]].ver = req[w].ver
    /\ \A s \in DOMAIN signals : s[1] \in DOMAIN runs /\ signals[s] = runs[s[1]].ver
    /\ \A a \in returned : a.ver = runs[a.id].ver

(***************************************************************************)
(* The inductive invariant of the keyed rows: RowsInv is for them what     *)
(* RunsInv is for the runs.                                                *)
(*                                                                         *)
(* ToldHand: what get_or_insert has returned is in the table its caller    *)
(*   sees, and it said "created" of the new rows of the transaction and of *)
(*   no others.                                                            *)
(* ChangeHand: what an open transaction has made of a committed row is the *)
(*   row with the status of its last update.                               *)
(***************************************************************************)
RowIdInv ==
    /\ \A r \in DOMAIN rows : r < nextRow
    /\ \A w \in Workers : \A r \in DOMAIN ownRows[w] : r < nextRow

RowLockInv == \A v, w \in Workers : v # w => DOMAIN ownRows[v] \cap DOMAIN ownRows[w] = {}

RowKeyInv ==
    /\ KeysApart(rows, rows)
    /\ \A w \in Workers : KeysApart(ownRows[w], rows)
    /\ \A v, w \in Workers : KeysApart(ownRows[v], ownRows[w])

RowsType ==
    /\ IsTable(rows)
    /\ nextRow \in RowIds
    /\ script \in [Workers -> Scripts \cup {<<>>}]
    /\ step \in [Workers -> {"call", "insert", "reselect"}]
    /\ DOMAIN at = Workers /\ DOMAIN ownRows = Workers /\ DOMAIN told = Workers
    /\ answers \subseteq RowKeys \X RowIds
    /\ creations \in [RowKeys -> Nat]

HandType(w) ==
    /\ at[w] \in 1..(Len(script[w]) + 1)
    /\ IsTable(ownRows[w])
    /\ told[w] \subseteq Answer

PlaceHand(w) ==
    /\ ~Busy(w) => ownRows[w] = <<>> /\ told[w] = {} /\ at[w] = 1 /\ step[w] = "call"
    /\ step[w] = "insert" => Conflicts(ownRows[w], Current(w).key) = {}

ToldHand(w) ==
    /\ \A t \in told[w] : t.id \in DOMAIN VisibleRows(w) /\ VisibleRows(w)[t.id].key = t.key
    /\ \A t \in told[w] : t.created => t.id \in DOMAIN ownRows[w] /\ t.id \notin DOMAIN rows
    /\ \A r \in DOMAIN ownRows[w] :
          r \notin DOMAIN rows /\ ownRows[w][r].key # NoKey =>
              [key |-> ownRows[w][r].key, id |-> r, created |-> TRUE] \in told[w]

UpdatesDone(w, k) == {i \in UpdatesOf(w, k) : i < at[w]}

ChangeHand(w) ==
    \A r \in DOMAIN ownRows[w] : r \in DOMAIN rows =>
        /\ ownRows[w][r] = [rows[r] EXCEPT !.status = ownRows[w][r].status]
        /\ UpdatesDone(w, rows[r].key) # {}
        /\ ownRows[w][r].status = script[w][Max(UpdatesDone(w, rows[r].key))].val

HandInv ==
    \A w \in Workers : HandType(w) /\ PlaceHand(w) /\ ToldHand(w) /\ ChangeHand(w)

RowsInv == RowsType /\ HandInv /\ RowIdInv /\ RowLockInv /\ RowKeyInv /\ RecordedOnce

-----------------------------------------------------------------------------
(***************************************************************************)
(* Lemmas about the operators.                                             *)
(***************************************************************************)
LEMMA OverlaidRows ==
    ASSUME NEW new, NEW old
    PROVE  /\ DOMAIN Overlaid(new, old) = DOMAIN new \cup DOMAIN old
           /\ \A k \in DOMAIN new : Overlaid(new, old)[k] = new[k]
           /\ \A k \in DOMAIN old \ DOMAIN new : Overlaid(new, old)[k] = old[k]
  BY DEF Overlaid

LEMMA OverlaidAt ==
    ASSUME NEW new, NEW old, NEW k
    PROVE  /\ k \in DOMAIN Overlaid(new, old) <=> k \in DOMAIN new \/ k \in DOMAIN old
           /\ k \in DOMAIN new => Overlaid(new, old)[k] = new[k]
           /\ k \in DOMAIN old /\ k \notin DOMAIN new => Overlaid(new, old)[k] = old[k]
  BY DEF Overlaid

LEMMA VisibleRunAt ==
    ASSUME NEW w \in Workers, NEW r
    PROVE  /\ r \in DOMAIN VisibleRuns(w) <=> r \in DOMAIN ownRuns[w] \/ r \in DOMAIN runs
           /\ r \in DOMAIN ownRuns[w] => VisibleRuns(w)[r] = ownRuns[w][r]
           /\ r \in DOMAIN runs /\ r \notin DOMAIN ownRuns[w] => VisibleRuns(w)[r] = runs[r]
  BY OverlaidAt DEF VisibleRuns

LEMMA VisibleRunsAre ==
    ASSUME NEW w \in Workers
    PROVE  /\ DOMAIN VisibleRuns(w) = DOMAIN ownRuns[w] \cup DOMAIN runs
           /\ \A r \in DOMAIN ownRuns[w] : VisibleRuns(w)[r] = ownRuns[w][r]
           /\ \A r \in DOMAIN runs \ DOMAIN ownRuns[w] : VisibleRuns(w)[r] = runs[r]
  BY OverlaidRows DEF VisibleRuns

LEMMA OverlaidType ==
    ASSUME NEW new, NEW old, NEW K, NEW T, IsPartial(new, K, T), IsPartial(old, K, T)
    PROVE  IsPartial(Overlaid(new, old), K, T)
<1>1. DOMAIN Overlaid(new, old) = DOMAIN new \cup DOMAIN old
  BY OverlaidRows
<1>2. \A k \in DOMAIN new : Overlaid(new, old)[k] = new[k]
  BY OverlaidRows
<1>3. \A k \in DOMAIN old \ DOMAIN new : Overlaid(new, old)[k] = old[k]
  BY OverlaidRows
<1> QED BY <1>1, <1>2, <1>3 DEF IsPartial

\* Adding rows whose keys are apart keeps the keys apart.
LEMMA KeysStayApart ==
    ASSUME NEW new, NEW old, NEW t, KeysApart(new, t), KeysApart(old, t)
    PROVE  KeysApart(Overlaid(new, old), t) /\ KeysApart(t, Overlaid(new, old))
<1>1. DOMAIN Overlaid(new, old) = DOMAIN new \cup DOMAIN old
  BY OverlaidRows
<1>2. \A k \in DOMAIN new : Overlaid(new, old)[k] = new[k]
  BY OverlaidRows
<1>3. \A k \in DOMAIN old \ DOMAIN new : Overlaid(new, old)[k] = old[k]
  BY OverlaidRows
<1>4. KeysApart(Overlaid(new, old), t)
  BY <1>1, <1>2, <1>3 DEF KeysApart
<1> QED BY <1>4 DEF KeysApart

\* A reader finds one row under a key.
LEMMA OneRowPerKey ==
    ASSUME NEW t, KeysApart(t, t), NEW k, k # NoKey, NEW r \in RunsWithKey(t, k)
    PROVE  RunsWithKey(t, k) = {r}
  BY DEF KeysApart, RunsWithKey

LEMMA EmptyTable == DOMAIN <<>> = {}
  OBVIOUS

LEMMA EmptyType == ASSUME NEW K, NEW T PROVE IsPartial(<<>>, K, T)
  BY EmptyTable DEF IsPartial

LEMMA EmptyApart == ASSUME NEW t PROVE KeysApart(<<>>, t) /\ KeysApart(t, <<>>)
  BY EmptyTable DEF KeysApart

(***************************************************************************)
(* A scan's steps keep its invariant.                                      *)
(***************************************************************************)
\* What a worker does leaves the others where they are, as long as the table stays.
LEMMA OthersStayPlaced ==
    ASSUME RunsInv, NEW w \in Workers, UNCHANGED runs,
           \A v \in Workers \ {w} : UNCHANGED <<pc[v], run[v], req[v], ownRuns[v], ownSignals[v]>>,
           Placed(w)'
    PROVE  PlaceInv'
<1>1. ASSUME NEW v \in Workers \ {w} PROVE Placed(v)'
  <2>1. Placed(v)
    BY DEF RunsInv, PlaceInv
  <2>2. UNCHANGED <<runs, pc[v], run[v], req[v], ownRuns[v], ownSignals[v]>>
    OBVIOUS
  <2> QED BY <2>1, <2>2 DEF Placed, Holds, VisibleRuns
<1> QED BY <1>1 DEF PlaceInv

LEMMA InitRuns == Init => RunsInv
<1> SUFFICES ASSUME Init PROVE RunsInv
  OBVIOUS
<1> USE DEF Init
<1>1. TypeOK
  <2>1. (CHOOSE q \in Requests : TRUE) \in Requests
    BY ScanAssumption
  <2>2. DOMAIN ownRuns = Workers /\ DOMAIN ownSignals = Workers
    OBVIOUS
  <2>3. \A w \in Workers : ownRuns[w] = <<>> /\ ownSignals[w] = <<>>
    OBVIOUS
  <2>4. req \in [Workers -> Requests]
    BY <2>1
  <2>5. pc \in [Workers -> {"idle", "lookup", "insert", "reselect", "upsert", "finish", "done"}]
    OBVIOUS
  <2> QED BY <2>2, <2>3, <2>4, <2>5, EmptyType, EmptyTable DEF TypeOK, Ids
<1>2. PlaceInv
  BY DEF PlaceInv, Placed, Holds
<1>3. IdInv /\ LockInv
  BY EmptyTable DEF IdInv, LockInv
<1>4. KeyInv /\ ReturnedInv
  BY EmptyApart, EmptyTable DEF KeyInv, ReturnedInv
<1> QED BY <1>1, <1>2, <1>3, <1>4 DEF RunsInv

LEMMA CallRuns ==
    ASSUME RunsInv, NEW w \in Workers, NEW q \in Requests, Call(w, q)
    PROVE  RunsInv'
<1>1. TypeOK'
  BY DEF RunsInv, Call, TypeOK
<1>2. PlaceInv'
  <2>1. \A v \in Workers \ {w} : UNCHANGED <<pc[v], run[v], req[v], ownRuns[v], ownSignals[v]>>
    BY DEF RunsInv, TypeOK, Call
  <2>2. pc'[w] \in {"insert", "lookup"} /\ (pc'[w] = "lookup" => req'[w].key # NoKey)
    BY DEF RunsInv, TypeOK, Call
  <2>3. ownRuns'[w] = <<>> /\ ownSignals'[w] = <<>>
    BY DEF RunsInv, PlaceInv, Placed, Holds, Call
  <2>4. Placed(w)'
    BY <2>2, <2>3 DEF Placed, Holds
  <2> QED BY <2>1, <2>4, OthersStayPlaced DEF Call
<1>3. IdInv' /\ LockInv' /\ KeyInv' /\ ReturnedInv'
  BY DEF RunsInv, Call, IdInv, LockInv, KeyInv, ReturnedInv
<1> QED BY <1>1, <1>2, <1>3 DEF RunsInv

LEMMA SelectRuns ==
    ASSUME RunsInv, NEW w \in Workers, Select(w)
    PROVE  RunsInv'
<1>1. UNCHANGED <<runs, signals, nextId, req, ownRuns, ownSignals, returned>>
  BY DEF Select
<1>2. ownRuns[w] = <<>> /\ ownSignals[w] = <<>> /\ req[w].key # NoKey
  BY DEF RunsInv, Select, PlaceInv, Placed, Holds
<1>3. IdInv' /\ LockInv' /\ KeyInv' /\ ReturnedInv'
  BY <1>1 DEF RunsInv, IdInv, LockInv, KeyInv, ReturnedInv
<1>4. CASE \E r \in RunsWithKey(VisibleRuns(w), req[w].key) :
             /\ run' = [run EXCEPT ![w] = r]
             /\ pc' = [pc EXCEPT ![w] = "upsert"]
  <2>1. PICK r \in RunsWithKey(VisibleRuns(w), req[w].key) :
             /\ run' = [run EXCEPT ![w] = r]
             /\ pc' = [pc EXCEPT ![w] = "upsert"]
    BY <1>4
  <2>2. r \in DOMAIN VisibleRuns(w) /\ VisibleRuns(w)[r].key = req[w].key
    BY <2>1 DEF RunsWithKey
  <2>3. r \in Nat
    <3>1. r \in DOMAIN runs
      BY <2>2, <1>2, VisibleRunsAre, EmptyTable
    <3>2. DOMAIN runs \subseteq Ids
      BY DEF RunsInv, TypeOK, IsPartial
    <3> QED BY <3>1, <3>2 DEF Ids
  <2>4. \A v \in Workers \ {w} : UNCHANGED <<pc[v], run[v], req[v], ownRuns[v], ownSignals[v]>>
    BY <1>1, <2>1 DEF RunsInv, TypeOK
  <2>5. pc'[w] = "upsert" /\ run'[w] = r
    BY <2>1 DEF RunsInv, TypeOK
  <2>6. TypeOK'
    <3>1. run' \in [Workers -> Nat]
      BY <2>1, <2>3 DEF RunsInv, TypeOK
    <3>2. pc' \in [Workers -> {"idle", "lookup", "insert", "reselect", "upsert", "finish", "done"}]
      BY <2>1 DEF RunsInv, TypeOK
    <3>3. IsPartial(<<>>, {run'[w]} \ {0}, RunRow)
      BY EmptyType
    <3>4. IsPartial(<<>>, ({run'[w]} \ {0}) \X Instruments, Versions)
      BY EmptyType
    <3>5. \A v \in Workers : /\ IsPartial(ownRuns'[v], {run'[v]} \ {0}, RunRow)
                             /\ IsPartial(ownSignals'[v], ({run'[v]} \ {0}) \X Instruments, Versions)
      BY <1>1, <1>2, <2>4, <3>3, <3>4 DEF RunsInv, TypeOK
    <3> QED BY <1>1, <3>1, <3>2, <3>5 DEF RunsInv, TypeOK
  <2>7. Placed(w)'
    BY <1>1, <1>2, <2>2, <2>5 DEF Placed, Holds, VisibleRuns
  <2> QED BY <1>1, <1>3, <2>4, <2>6, <2>7, OthersStayPlaced DEF RunsInv
<1>5. CASE /\ pc[w] = "lookup"
           /\ pc' = [pc EXCEPT ![w] = "insert"]
           /\ UNCHANGED run
  <2>1. TypeOK'
    BY <1>1, <1>5 DEF RunsInv, TypeOK
  <2>2. \A v \in Workers \ {w} : UNCHANGED <<pc[v], run[v], req[v], ownRuns[v], ownSignals[v]>>
    BY <1>1, <1>5 DEF RunsInv, TypeOK
  <2>3. Placed(w)'
    BY <1>1, <1>2, <1>5 DEF Placed, Holds, RunsInv, TypeOK
  <2> QED BY <1>1, <1>3, <2>1, <2>2, <2>3, OthersStayPlaced DEF RunsInv
<1> QED BY <1>4, <1>5 DEF Select

LEMMA InsertRuns ==
    ASSUME RunsInv, NEW w \in Workers, Insert(w)
    PROVE  RunsInv'
<1> DEFINE new == [r \in {nextId} |-> NewRow(req[w])]
<1>1. UNCHANGED <<runs, signals, req, ownSignals, returned>> /\ nextId' = nextId + 1
  BY DEF Insert
<1>2. ownRuns[w] = <<>> /\ ownSignals[w] = <<>>
  BY DEF RunsInv, Insert, PlaceInv, Placed, Holds
<1>3. nextId \in Nat \ {0} /\ nextId' \in Ids
  BY <1>1 DEF RunsInv, TypeOK, Ids
<1>4. req[w] \in Requests /\ req[w].key \in Keys /\ req[w].ver \in Versions
  BY DEF RunsInv, TypeOK, Keys, Versions
<1>5. CASE /\ Conflicts(runs, req[w].key) = {}
           /\ run' = [run EXCEPT ![w] = nextId]
           /\ ownRuns' = [ownRuns EXCEPT ![w] = new]
           /\ pc' = [pc EXCEPT ![w] = "upsert"]
  <2>1. \A v \in Workers \ {w} : UNCHANGED <<pc[v], run[v], req[v], ownRuns[v], ownSignals[v]>>
    BY <1>1, <1>5 DEF RunsInv, TypeOK
  <2>2. pc'[w] = "upsert" /\ run'[w] = nextId /\ ownRuns'[w] = new
    BY <1>5 DEF RunsInv, TypeOK
  <2>3. DOMAIN new = {nextId} /\ new[nextId] = NewRow(req[w])
    OBVIOUS
  <2>4. new[nextId].key = req[w].key /\ new[nextId] \in RunRow
    BY <2>3, <1>4 DEF NewRow, RunRow
  <2>5. IsPartial(new, {nextId} \ {0}, RunRow)
    BY <2>3, <2>4, <1>3 DEF IsPartial
  <2> HIDE DEF new
  <2>6. TypeOK'
    <3>1. run' \in [Workers -> Nat] /\ DOMAIN ownRuns' = Workers
      BY <1>5, <1>3 DEF RunsInv, TypeOK
    <3>2. pc' \in [Workers -> {"idle", "lookup", "insert", "reselect", "upsert", "finish", "done"}]
      BY <1>5 DEF RunsInv, TypeOK
    <3>3. IsPartial(<<>>, ({run'[w]} \ {0}) \X Instruments, Versions)
      BY EmptyType
    <3>4. \A v \in Workers : /\ IsPartial(ownRuns'[v], {run'[v]} \ {0}, RunRow)
                             /\ IsPartial(ownSignals'[v], ({run'[v]} \ {0}) \X Instruments, Versions)
      BY <1>1, <1>2, <2>1, <2>2, <2>5, <3>3 DEF RunsInv, TypeOK
    <3> QED BY <1>1, <1>3, <3>1, <3>2, <3>4 DEF RunsInv, TypeOK
  <2>7. Placed(w)'
    <3>1. nextId \in DOMAIN Overlaid(new, runs) /\ Overlaid(new, runs)[nextId].key = req[w].key
      BY <2>3, <2>4, OverlaidAt
    <3>2. VisibleRuns(w)' = Overlaid(new, runs)
      BY <1>1, <2>2 DEF VisibleRuns
    <3> QED BY <1>1, <1>2, <2>2, <3>1, <3>2 DEF Placed, Holds
  <2>8. PlaceInv'
    BY <1>1, <2>1, <2>7, OthersStayPlaced
  <2>9. IdInv'
    BY <1>1, <1>3, <2>1, <2>2, <2>3 DEF RunsInv, TypeOK, IsPartial, Ids, IdInv
  <2>10. nextId \notin DOMAIN runs /\ \A v \in Workers : nextId \notin DOMAIN ownRuns[v]
    BY <1>3 DEF RunsInv, IdInv
  <2>11. LockInv'
    BY <1>1, <2>1, <2>2, <2>3, <2>10 DEF RunsInv, LockInv
  <2>12. KeysApart(new, runs) /\ KeysApart(new, new)
    BY <1>5, <2>3, <2>4 DEF Conflicts, RunsWithKey, KeysApart
  <2>13. ASSUME NEW v \in Workers \ {w} PROVE KeysApart(new, ownRuns[v])
    <3>1. Conflicts(ownRuns[v], req[w].key) \ DOMAIN runs = {}
      BY DEF Insert
    <3>2. \A r \in DOMAIN ownRuns[v] \cap DOMAIN runs : ownRuns[v][r].key = runs[r].key
      BY DEF RunsInv, LockInv
    <3>3. req[w].key # NoKey => \A r \in DOMAIN ownRuns[v] : ownRuns[v][r].key # req[w].key
      BY <1>5, <3>1, <3>2 DEF Conflicts, RunsWithKey
    <3> QED BY <2>3, <2>4, <3>3 DEF KeysApart
  <2>14. KeyInv'
    <3>1. \A v \in Workers \ {w} : KeysApart(ownRuns[v], new)
      BY <2>13 DEF KeysApart
    <3> QED BY <1>1, <2>1, <2>2, <2>12, <2>13, <3>1 DEF RunsInv, KeyInv
  <2>15. ReturnedInv'
    BY <1>1 DEF RunsInv, ReturnedInv
  <2> QED BY <2>6, <2>8, <2>9, <2>11, <2>14, <2>15 DEF RunsInv
<1>6. CASE /\ Conflicts(runs, req[w].key) # {}
           /\ pc' = [pc EXCEPT ![w] = "reselect"]
           /\ UNCHANGED <<run, ownRuns>>
  <2>1. TypeOK'
    BY <1>1, <1>3, <1>6 DEF RunsInv, TypeOK
  <2>2. \A v \in Workers \ {w} : UNCHANGED <<pc[v], run[v], req[v], ownRuns[v], ownSignals[v]>>
    BY <1>1, <1>6 DEF RunsInv, TypeOK
  <2>3. pc'[w] = "reselect" /\ req'[w].key # NoKey
    BY <1>1, <1>6 DEF RunsInv, TypeOK, Conflicts
  <2>4. Placed(w)'
    BY <1>1, <1>2, <1>6, <2>3 DEF Placed, Holds
  <2>5. PlaceInv'
    BY <1>1, <2>2, <2>4, OthersStayPlaced
  <2>6. IdInv'
    BY <1>1, <1>3, <1>6 DEF RunsInv, TypeOK, IsPartial, Ids, IdInv
  <2>7. LockInv' /\ KeyInv' /\ ReturnedInv'
    BY <1>1, <1>6 DEF RunsInv, LockInv, KeyInv, ReturnedInv
  <2> QED BY <2>1, <2>5, <2>6, <2>7 DEF RunsInv
<1> QED BY <1>5, <1>6 DEF Insert

LEMMA UpsertSignalsRuns ==
    ASSUME RunsInv, NEW w \in Workers, UpsertSignals(w)
    PROVE  RunsInv'
<1> DEFINE new == [s \in {run[w]} \X req[w].cands |-> req[w].ver]
<1>1. UNCHANGED <<runs, signals, nextId, req, run, ownRuns, returned>>
  BY DEF UpsertSignals
<1>2. /\ pc[w] = "upsert"
      /\ pc' = [pc EXCEPT ![w] = "finish"] /\ ownSignals' = [ownSignals EXCEPT ![w] = new]
  BY DEF UpsertSignals
<1>3. \A v \in Workers \ {w} : UNCHANGED <<pc[v], run[v], req[v], ownRuns[v], ownSignals[v]>>
  BY <1>1, <1>2 DEF RunsInv, TypeOK
<1>4. pc'[w] = "finish" /\ ownSignals'[w] = new /\ ownRuns'[w] = ownRuns[w]
  BY <1>1, <1>2 DEF RunsInv, TypeOK
<1>5. run[w] \in DOMAIN VisibleRuns(w) /\ VisibleRuns(w)[run[w]].key = req[w].key
  BY <1>2 DEF RunsInv, PlaceInv, Placed, Holds
<1>6. run[w] # 0
  BY <1>5, VisibleRunsAre DEF RunsInv, TypeOK, IsPartial, Ids
<1>7. TypeOK'
  <2>1. req[w] \in Requests /\ req[w].cands \subseteq Instruments /\ req[w].ver \in Versions
    BY ScanAssumption DEF RunsInv, TypeOK, Versions
  <2>2. IsPartial(new, ({run[w]} \ {0}) \X Instruments, Versions)
    BY <1>6, <2>1 DEF IsPartial
  <2>3. pc' \in [Workers -> {"idle", "lookup", "insert", "reselect", "upsert", "finish", "done"}]
    BY <1>2 DEF RunsInv, TypeOK
  <2>4. \A v \in Workers : /\ IsPartial(ownRuns'[v], {run'[v]} \ {0}, RunRow)
                           /\ IsPartial(ownSignals'[v], ({run'[v]} \ {0}) \X Instruments, Versions)
    BY <1>1, <1>3, <1>4, <2>2 DEF RunsInv, TypeOK
  <2> QED BY <1>1, <1>2, <2>3, <2>4 DEF RunsInv, TypeOK
<1>8. Placed(w)'
  BY <1>1, <1>4, <1>5 DEF Placed, Holds, VisibleRuns
<1>9. PlaceInv'
  BY <1>1, <1>3, <1>8, OthersStayPlaced
<1>10. IdInv' /\ LockInv' /\ KeyInv' /\ ReturnedInv'
  BY <1>1 DEF RunsInv, IdInv, LockInv, KeyInv, ReturnedInv
<1> QED BY <1>7, <1>9, <1>10 DEF RunsInv

\* The row FinishRun writes is the one w sees, with another status and count.
LEMMA FinishedRow ==
    ASSUME TypeOK, NEW w \in Workers, run[w] \in DOMAIN VisibleRuns(w),
           NEW row, row = [VisibleRuns(w)[run[w]] EXCEPT
                             !.status = "completed", !.count = Cardinality(req[w].cands)]
    PROVE  /\ row \in RunRow
           /\ row.key = VisibleRuns(w)[run[w]].key /\ row.ver = VisibleRuns(w)[run[w]].ver
           /\ row.status = "completed" /\ row.count = Cardinality(req[w].cands)
<1>1. VisibleRuns(w)[run[w]] \in RunRow
  BY VisibleRunsAre DEF TypeOK, IsPartial
<1>2. Cardinality(req[w].cands) \in {0} \cup {Cardinality(q.cands) : q \in Requests}
  BY DEF TypeOK
<1> QED BY <1>1, <1>2 DEF RunRow

LEMMA FinishRunRuns ==
    ASSUME RunsInv, NEW w \in Workers, FinishRun(w)
    PROVE  RunsInv'
<1> DEFINE new == [r \in {run[w]} |-> [VisibleRuns(w)[r] EXCEPT
                     !.status = "completed", !.count = Cardinality(req[w].cands)]]
<1>1. UNCHANGED <<runs, signals, nextId, req, run, ownSignals, returned>>
  BY DEF FinishRun
<1>2. /\ pc[w] = "finish" /\ run[w] \notin LockedRuns(w)
      /\ pc' = [pc EXCEPT ![w] = "done"] /\ ownRuns' = [ownRuns EXCEPT ![w] = new]
  BY DEF FinishRun
<1>3. \A v \in Workers \ {w} : UNCHANGED <<pc[v], run[v], req[v], ownRuns[v], ownSignals[v]>>
  BY <1>1, <1>2 DEF RunsInv, TypeOK
<1>4. pc'[w] = "done" /\ ownRuns'[w] = new /\ ownSignals'[w] = ownSignals[w]
  BY <1>1, <1>2 DEF RunsInv, TypeOK
<1>5. run[w] \in DOMAIN VisibleRuns(w) /\ VisibleRuns(w)[run[w]].key = req[w].key
  BY <1>2 DEF RunsInv, PlaceInv, Placed, Holds
<1>6. ownSignals[w] = [s \in {run[w]} \X req[w].cands |-> req[w].ver]
  BY <1>2 DEF RunsInv, PlaceInv, Placed
<1>7. run[w] \in Ids /\ run[w] < nextId
  <2>1. run[w] \in DOMAIN runs \/ run[w] \in DOMAIN ownRuns[w]
    BY <1>5, VisibleRunAt
  <2>2. DOMAIN runs \subseteq Ids /\ DOMAIN ownRuns[w] \subseteq Ids
    BY DEF RunsInv, TypeOK, IsPartial, Ids
  <2> QED BY <2>1, <2>2 DEF RunsInv, IdInv
<1>8. DOMAIN new = {run[w]} /\ new[run[w]] = [VisibleRuns(w)[run[w]] EXCEPT
                     !.status = "completed", !.count = Cardinality(req[w].cands)]
  OBVIOUS
<1> HIDE DEF new
<1>9. /\ new[run[w]] \in RunRow
      /\ new[run[w]].key = VisibleRuns(w)[run[w]].key /\ new[run[w]].ver = VisibleRuns(w)[run[w]].ver
      /\ new[run[w]].status = "completed" /\ new[run[w]].count = Cardinality(req[w].cands)
  BY <1>5, <1>8, FinishedRow DEF RunsInv
<1>10. TypeOK'
  <2>1. IsPartial(new, {run[w]} \ {0}, RunRow)
    BY <1>7, <1>8, <1>9 DEF IsPartial, Ids
  <2>2. pc' \in [Workers -> {"idle", "lookup", "insert", "reselect", "upsert", "finish", "done"}]
    BY <1>2 DEF RunsInv, TypeOK
  <2>3. \A v \in Workers : /\ IsPartial(ownRuns'[v], {run'[v]} \ {0}, RunRow)
                           /\ IsPartial(ownSignals'[v], ({run'[v]} \ {0}) \X Instruments, Versions)
    BY <1>1, <1>3, <1>4, <2>1 DEF RunsInv, TypeOK
  <2> QED BY <1>1, <1>2, <2>2, <2>3 DEF RunsInv, TypeOK
<1>11. PlaceInv'
  <2>1. run[w] \in DOMAIN Overlaid(new, runs) /\ Overlaid(new, runs)[run[w]].key = req[w].key
    <3>1. run[w] \in DOMAIN new
      BY <1>8
    <3>2. run[w] \in DOMAIN Overlaid(new, runs) /\ Overlaid(new, runs)[run[w]] = new[run[w]]
      BY <3>1, OverlaidAt
    <3> QED BY <1>5, <1>9, <3>2
  <2>2. VisibleRuns(w)' = Overlaid(new, runs)
    BY <1>1, <1>4 DEF VisibleRuns
  <2>3. Placed(w)'
    BY <1>1, <1>4, <1>6, <1>8, <1>9, <2>1, <2>2 DEF Placed, Holds
  <2> QED BY <1>1, <1>3, <2>3, OthersStayPlaced
<1>12. IdInv'
  BY <1>1, <1>3, <1>4, <1>7, <1>8 DEF RunsInv, IdInv
<1>13. LockInv'
  <2>1. \A v \in Workers \ {w} : run[w] \notin DOMAIN ownRuns[v]
    BY <1>2 DEF LockedRuns
  <2>2. run[w] \in DOMAIN runs => /\ new[run[w]].key = runs[run[w]].key
                                 /\ new[run[w]].ver = runs[run[w]].ver
    BY <1>9, VisibleRunAt DEF RunsInv, LockInv
  <2>3. ASSUME NEW u \in Workers, NEW v \in Workers, u # v
        PROVE  DOMAIN ownRuns'[u] \cap DOMAIN ownRuns'[v] = {}
    BY <1>3, <1>4, <1>8, <2>1, <2>3 DEF RunsInv, LockInv
  <2>4. ASSUME NEW v \in Workers, NEW r \in DOMAIN ownRuns'[v] \cap DOMAIN runs
        PROVE  ownRuns'[v][r].key = runs[r].key /\ ownRuns'[v][r].ver = runs[r].ver
    <3>1. CASE v = w
      BY <1>4, <1>8, <2>2, <3>1
    <3>2. CASE v # w
      BY <1>3, <3>2 DEF RunsInv, LockInv
    <3> QED BY <3>1, <3>2
  <2> QED BY <1>1, <2>3, <2>4 DEF LockInv
<1>14. KeyInv'
  <2>1. ASSUME NEW t, KeysApart(VisibleRuns(w), t) PROVE KeysApart(new, t)
    BY <1>5, <1>8, <1>9, <2>1 DEF KeysApart
  <2>2. KeysApart(VisibleRuns(w), runs)
    BY KeysStayApart DEF RunsInv, KeyInv, VisibleRuns
  <2>3. ASSUME NEW v \in Workers PROVE KeysApart(VisibleRuns(w), ownRuns[v])
    <3>1. KeysApart(runs, ownRuns[v])
      BY DEF RunsInv, KeyInv, KeysApart
    <3> QED BY <3>1, KeysStayApart DEF RunsInv, KeyInv, VisibleRuns
  <2>4. KeysApart(new, runs) /\ KeysApart(new, new)
    BY <1>8, <2>1, <2>2 DEF KeysApart
  <2>5. \A v \in Workers : KeysApart(new, ownRuns[v]) /\ KeysApart(ownRuns[v], new)
    BY <2>1, <2>3 DEF KeysApart
  <2> QED BY <1>1, <1>3, <1>4, <2>4, <2>5 DEF RunsInv, KeyInv
<1>15. ReturnedInv'
  BY <1>1 DEF RunsInv, ReturnedInv
<1> QED BY <1>10, <1>11, <1>12, <1>13, <1>14, <1>15 DEF RunsInv

LEMMA ClosedHand ==
    ASSUME TypeOK, NEW w \in Workers, Close(w)
    PROVE  /\ \A v \in Workers \ {w} :
                UNCHANGED <<pc[v], run[v], req[v], ownRuns[v], ownSignals[v]>>
           /\ pc'[w] = "idle" /\ ownRuns'[w] = <<>> /\ ownSignals'[w] = <<>>
           /\ UNCHANGED <<nextId, req>>
           /\ pc' \in [Workers -> {"idle", "lookup", "insert", "reselect", "upsert", "finish", "done"}]
           /\ run' \in [Workers -> Nat]
           /\ DOMAIN ownRuns' = Workers /\ DOMAIN ownSignals' = Workers
           /\ \A v \in Workers :
                /\ IsPartial(ownRuns'[v], {run'[v]} \ {0}, RunRow)
                /\ IsPartial(ownSignals'[v], ({run'[v]} \ {0}) \X Instruments, Versions)
<1>1. \A v \in Workers \ {w} : UNCHANGED <<pc[v], run[v], req[v], ownRuns[v], ownSignals[v]>>
  BY DEF TypeOK, Close
<1>2. pc'[w] = "idle" /\ run'[w] = 0 /\ ownRuns'[w] = <<>> /\ ownSignals'[w] = <<>>
  BY DEF TypeOK, Close
<1>3. IsPartial(<<>>, {0} \ {0}, RunRow) /\ IsPartial(<<>>, ({0} \ {0}) \X Instruments, Versions)
  BY EmptyType
<1>4. \A v \in Workers :
         /\ IsPartial(ownRuns'[v], {run'[v]} \ {0}, RunRow)
         /\ IsPartial(ownSignals'[v], ({run'[v]} \ {0}) \X Instruments, Versions)
  BY <1>1, <1>2, <1>3 DEF TypeOK
<1>5. pc' \in [Workers -> {"idle", "lookup", "insert", "reselect", "upsert", "finish", "done"}]
  BY DEF TypeOK, Close
<1>6. run' \in [Workers -> Nat] /\ DOMAIN ownRuns' = Workers /\ DOMAIN ownSignals' = Workers
  BY DEF TypeOK, Close
<1> QED BY <1>1, <1>2, <1>4, <1>5, <1>6 DEF Close

LEMMA RollbackRuns ==
    ASSUME RunsInv, NEW w \in Workers, Rollback(w)
    PROVE  RunsInv'
<1>1. Close(w) /\ UNCHANGED <<runs, signals, returned>>
  BY DEF Rollback
<1>2. TypeOK
  BY DEF RunsInv
<1>3. TypeOK'
  BY <1>1, <1>2, ClosedHand DEF TypeOK
<1>4. /\ \A v \in Workers \ {w} : UNCHANGED <<pc[v], run[v], req[v], ownRuns[v], ownSignals[v]>>
      /\ pc'[w] = "idle" /\ ownRuns'[w] = <<>> /\ ownSignals'[w] = <<>> /\ UNCHANGED nextId
  BY <1>1, <1>2, ClosedHand
<1>5. PlaceInv'
  <2>1. Placed(w)'
    BY <1>4 DEF Placed, Holds
  <2> QED BY <1>1, <1>4, <2>1, OthersStayPlaced
<1>6. IdInv'
  BY <1>1, <1>4, EmptyTable DEF RunsInv, IdInv
<1>7. LockInv'
  BY <1>1, <1>4, EmptyTable DEF RunsInv, LockInv
<1>8. KeyInv'
  BY <1>1, <1>4, EmptyApart DEF RunsInv, KeyInv
<1>9. ReturnedInv'
  BY <1>1 DEF RunsInv, ReturnedInv
<1> QED BY <1>3, <1>5, <1>6, <1>7, <1>8, <1>9 DEF RunsInv

LEMMA CommitRuns ==
    ASSUME RunsInv, NEW w \in Workers, Commit(w)
    PROVE  RunsInv'
<1>1. /\ Close(w) /\ pc[w] = "done"
      /\ runs' = VisibleRuns(w) /\ signals' = Overlaid(ownSignals[w], signals)
      /\ returned' = returned \cup {[key |-> req[w].key, ver |-> req[w].ver, id |-> run[w]]}
  BY DEF Commit
<1>2. TypeOK
  BY DEF RunsInv
<1>3. /\ \A v \in Workers \ {w} : UNCHANGED <<pc[v], run[v], req[v], ownRuns[v], ownSignals[v]>>
      /\ pc'[w] = "idle" /\ ownRuns'[w] = <<>> /\ ownSignals'[w] = <<>> /\ UNCHANGED nextId
  BY <1>1, <1>2, ClosedHand
<1>4. run[w] \in DOMAIN VisibleRuns(w) /\ VisibleRuns(w)[run[w]].key = req[w].key
  BY <1>1 DEF RunsInv, PlaceInv, Placed, Holds
<1>5. /\ DOMAIN runs' = DOMAIN ownRuns[w] \cup DOMAIN runs
      /\ \A r \in DOMAIN ownRuns[w] : runs'[r] = ownRuns[w][r]
      /\ \A r \in DOMAIN runs \ DOMAIN ownRuns[w] : runs'[r] = runs[r]
  BY <1>1, VisibleRunsAre
<1>6. \A r \in DOMAIN runs : runs'[r].key = runs[r].key
  BY <1>5 DEF RunsInv, LockInv
<1>7. TypeOK'
  <2>1. IsPartial(ownRuns[w], Ids, RunRow)
    BY <1>2 DEF TypeOK, IsPartial, Ids
  <2>2. IsPartial(runs', Ids, RunRow)
    BY <1>1, <1>2, <2>1, OverlaidType DEF TypeOK, VisibleRuns
  <2>3. IsPartial(ownSignals[w], Ids \X Instruments, Versions)
    <3>1. run[w] \in Nat /\ IsPartial(ownSignals[w], ({run[w]} \ {0}) \X Instruments, Versions)
      BY <1>2 DEF TypeOK
    <3>2. ({run[w]} \ {0}) \X Instruments \subseteq Ids \X Instruments
      BY <3>1 DEF Ids
    <3> QED BY <3>1, <3>2 DEF IsPartial
  <2>4. IsPartial(signals', Ids \X Instruments, Versions)
    BY <1>1, <1>2, <2>3, OverlaidType DEF TypeOK
  <2>5. [key |-> req[w].key, ver |-> req[w].ver, id |-> run[w]] \in [key : Keys, ver : Versions, id : Ids]
    <3>1. run[w] \in Ids
      BY <1>4, <1>5, <2>1, <1>1, <1>2 DEF TypeOK, IsPartial
    <3>2. req[w].key \in Keys /\ req[w].ver \in Versions
      BY <1>2 DEF TypeOK, Keys, Versions
    <3> QED BY <3>1, <3>2
  <2>6. returned' \subseteq [key : Keys, ver : Versions, id : Ids]
    BY <1>1, <1>2, <2>5 DEF TypeOK
  <2> QED BY <1>1, <1>2, <2>2, <2>4, <2>6, ClosedHand DEF TypeOK
<1>8. PlaceInv'
  <2>1. Placed(w)'
    BY <1>3 DEF Placed, Holds
  <2>2. ASSUME NEW v \in Workers \ {w} PROVE Placed(v)'
    <3>1. Placed(v) /\ UNCHANGED <<pc[v], run[v], req[v], ownRuns[v], ownSignals[v]>>
      BY <1>3 DEF RunsInv, PlaceInv
    <3>2. VisibleRuns(v)' = Overlaid(ownRuns[v], runs')
      BY <3>1 DEF VisibleRuns
    <3>3. ASSUME NEW r \in DOMAIN VisibleRuns(v)
          PROVE  r \in DOMAIN VisibleRuns(v)' /\ VisibleRuns(v)'[r].key = VisibleRuns(v)[r].key
      <4>1. CASE r \in DOMAIN ownRuns[v]
        BY <3>2, <4>1, VisibleRunAt, OverlaidAt
      <4>2. CASE r \notin DOMAIN ownRuns[v]
        <5>1. r \in DOMAIN runs /\ VisibleRuns(v)[r] = runs[r]
          BY <4>2, VisibleRunAt
        <5>2. r \in DOMAIN runs' /\ runs'[r].key = runs[r].key
          BY <5>1, <1>5, <1>6
        <5> QED BY <3>2, <4>2, <5>1, <5>2, OverlaidAt
      <4> QED BY <4>1, <4>2
    <3>4. Holds(v) => /\ run[v] \in DOMAIN VisibleRuns(v)'
                      /\ VisibleRuns(v)'[run[v]].key = req[v].key
      BY <3>1, <3>3 DEF Placed
    <3> QED BY <3>1, <3>4 DEF Placed, Holds
  <2> QED BY <2>1, <2>2 DEF PlaceInv
<1>9. IdInv'
  BY <1>3, <1>5, EmptyTable DEF RunsInv, IdInv
<1>10. LockInv'
  BY <1>3, <1>5, EmptyTable DEF RunsInv, LockInv
<1>11. KeyInv'
  <2>1. KeysApart(VisibleRuns(w), runs)
    BY KeysStayApart DEF RunsInv, KeyInv, VisibleRuns
  <2>2. ASSUME NEW v \in Workers PROVE KeysApart(VisibleRuns(w), ownRuns[v])
    <3>1. KeysApart(runs, ownRuns[v])
      BY DEF RunsInv, KeyInv, KeysApart
    <3> QED BY <3>1, KeysStayApart DEF RunsInv, KeyInv, VisibleRuns
  <2>3. KeysApart(runs, VisibleRuns(w)) /\ KeysApart(ownRuns[w], VisibleRuns(w))
    BY <2>1, <2>2 DEF KeysApart
  <2>4. KeysApart(runs', runs')
    BY <1>1, <2>3, KeysStayApart DEF VisibleRuns
  <2>5. \A v \in Workers \ {w} : KeysApart(ownRuns'[v], runs')
    BY <1>1, <1>3, <2>2 DEF KeysApart
  <2> QED BY <1>3, <2>4, <2>5, EmptyApart DEF RunsInv, KeyInv
<1>12. ReturnedInv'
  BY <1>1, <1>4, <1>5, <1>6 DEF RunsInv, ReturnedInv
<1> QED BY <1>7, <1>8, <1>9, <1>10, <1>11, <1>12 DEF RunsInv

LEMMA StepRuns == RunsInv /\ [Next]_vars => RunsInv'
<1> SUFFICES ASSUME RunsInv, [Next]_vars PROVE RunsInv'
  OBVIOUS
<1>1. CASE Next
  BY <1>1, CallRuns, SelectRuns, InsertRuns, UpsertSignalsRuns, FinishRunRuns, CommitRuns,
     RollbackRuns DEF Next, Step
<1>2. CASE UNCHANGED vars
  <2>1. TypeOK'
    BY <1>2 DEF vars, RunsInv, TypeOK
  <2>2. PlaceInv'
    BY <1>2 DEF vars, RunsInv, PlaceInv, Placed, Holds, VisibleRuns
  <2>3. IdInv' /\ LockInv' /\ KeyInv' /\ ReturnedInv'
    BY <1>2 DEF vars, RunsInv, IdInv, LockInv, KeyInv, ReturnedInv
  <2> QED BY <2>1, <2>2, <2>3 DEF RunsInv
<1> QED BY <1>1, <1>2

(***************************************************************************)
(* The invariant of persist_scan_results: what workers have in hand, whose *)
(* rows are whose, and that a key has one run.                             *)
(***************************************************************************)
THEOREM RunsInvariant == Spec => []RunsInv
<1>1. Init => RunsInv
  BY InitRuns
<1>2. RunsInv /\ [Next]_vars => RunsInv'
  BY StepRuns
<1> QED BY <1>1, <1>2, PTL DEF Spec

(***************************************************************************)
(* However many workers scan, race and fail: calls that committed under    *)
(* one key were given one run, and no key has two.                         *)
(***************************************************************************)
THEOREM OneRunPerKey == Spec => []SameKeySameRun
<1>1. RunsInv => SameKeySameRun
  <2> SUFFICES ASSUME RunsInv PROVE SameKeySameRun
    OBVIOUS
  <2>1. ASSUME NEW a \in returned, NEW b \in returned, a.key = b.key, a.key # NoKey
        PROVE  a.id = b.id
    BY <2>1 DEF RunsInv, ReturnedInv, KeyInv, KeysApart
  <2>2. ASSUME NEW r \in DOMAIN runs, NEW s \in DOMAIN runs,
               runs[r].key = runs[s].key, runs[r].key # NoKey
        PROVE  r = s
    BY <2>2 DEF RunsInv, KeyInv, KeysApart
  <2> QED BY <2>1, <2>2 DEF SameKeySameRun
<1> QED BY <1>1, RunsInvariant, PTL

(***************************************************************************)
(* What a reader sees of scans.                                            *)
(***************************************************************************)
WholeInv == NoHalfScan /\ FiniteInv

LEMMA CommitWhole ==
    ASSUME RunsInv, WholeInv, NEW w \in Workers, Commit(w)
    PROVE  WholeInv'
<1> DEFINE mine == {run[w]} \X req[w].cands
<1>1. /\ pc[w] = "done"
      /\ runs' = VisibleRuns(w) /\ signals' = Overlaid(ownSignals[w], signals)
  BY DEF Commit
<1>2. /\ DOMAIN ownRuns[w] = {run[w]} /\ DOMAIN ownSignals[w] = mine
      /\ ownRuns[w][run[w]].status = "completed"
      /\ ownRuns[w][run[w]].count = Cardinality(req[w].cands)
  BY <1>1 DEF RunsInv, PlaceInv, Placed, TypeOK, IsPartial
<1>3. /\ DOMAIN runs' = {run[w]} \cup DOMAIN runs
      /\ runs'[run[w]] = ownRuns[w][run[w]]
      /\ \A r \in DOMAIN runs : r # run[w] => runs'[r] = runs[r]
  BY <1>1, <1>2, VisibleRunAt
<1>4. DOMAIN signals' = mine \cup DOMAIN signals
  BY <1>1, <1>2, OverlaidAt
<1>5. ASSUME NEW r, r # run[w] PROVE SignalsOf(r)' = SignalsOf(r)
  BY <1>4, <1>5 DEF SignalsOf
<1>6. ASSUME NEW r, r = run[w] PROVE SignalsOf(r)' = SignalsOf(r) \cup mine
  BY <1>4, <1>6 DEF SignalsOf
<1>7. IsFiniteSet(mine) /\ Cardinality(mine) = Cardinality(req[w].cands)
  <2>1. IsFiniteSet(req[w].cands)
    BY ScanAssumption DEF RunsInv, TypeOK
  <2>2. IsFiniteSet({run[w]}) /\ Cardinality({run[w]}) = 1
    BY FS_Singleton
  <2>3. IsFiniteSet(mine) /\ Cardinality(mine) = Cardinality({run[w]}) * Cardinality(req[w].cands)
    BY <2>1, <2>2, FS_Product
  <2>4. Cardinality(req[w].cands) \in Nat
    BY <2>1, FS_CardinalityType
  <2> QED BY <2>2, <2>3, <2>4
<1>8. IsFiniteSet(SignalsOf(run[w]))
  <2>1. CASE run[w] \in DOMAIN runs
    BY <2>1 DEF WholeInv, FiniteInv
  <2>2. CASE run[w] \notin DOMAIN runs
    BY <2>2, FS_EmptySet DEF WholeInv, NoHalfScan, SignalsOf
  <2> QED BY <2>1, <2>2
<1>9. IsFiniteSet(SignalsOf(run[w]) \cup mine)
  BY <1>7, <1>8, FS_Union
<1>10. Cardinality(mine) <= Cardinality(SignalsOf(run[w]) \cup mine)
  BY <1>9, FS_Subset
<1>11. FiniteInv'
  <2> SUFFICES ASSUME NEW r \in DOMAIN runs' PROVE IsFiniteSet(SignalsOf(r)')
    BY DEF FiniteInv
  <2>1. CASE r = run[w]
    BY <2>1, <1>6, <1>9
  <2>2. CASE r # run[w]
    BY <2>2, <1>3, <1>5 DEF WholeInv, FiniteInv
  <2> QED BY <2>1, <2>2
<1>12. ASSUME NEW r \in DOMAIN runs'
       PROVE  runs'[r].status = "completed" /\ runs'[r].count <= Cardinality(SignalsOf(r)')
  <2>1. CASE r = run[w]
    BY <2>1, <1>2, <1>3, <1>6, <1>7, <1>10
  <2>2. CASE r # run[w]
    BY <2>2, <1>3, <1>5 DEF WholeInv, NoHalfScan
  <2> QED BY <2>1, <2>2
<1>13. \A s \in DOMAIN signals' : s[1] \in DOMAIN runs'
  BY <1>3, <1>4 DEF WholeInv, NoHalfScan
<1> QED BY <1>11, <1>12, <1>13 DEF WholeInv, NoHalfScan

(***************************************************************************)
(* A reader never sees half a scan: every visible run is completed, with   *)
(* the signals its metrics count.                                          *)
(***************************************************************************)
THEOREM ScansAreWhole == Spec => []NoHalfScan
<1>1. Init => WholeInv
  BY EmptyTable DEF Init, WholeInv, NoHalfScan, FiniteInv
<1>2. RunsInv /\ WholeInv /\ [Next]_vars => WholeInv'
  <2> SUFFICES ASSUME RunsInv, WholeInv, [Next]_vars PROVE WholeInv'
    OBVIOUS
  <2>1. ASSUME UNCHANGED <<runs, signals>> PROVE WholeInv'
    BY <2>1 DEF WholeInv, NoHalfScan, FiniteInv, SignalsOf
  <2>2. CASE UNCHANGED vars
    BY <2>1, <2>2 DEF vars
  <2>3. CASE Next
    <3>1. PICK w \in Workers : (\E q \in Requests : Call(w, q)) \/ Step(w) \/ Rollback(w)
      BY <2>3 DEF Next
    <3>2. CASE Commit(w)
      BY <3>2, CommitWhole
    <3>3. CASE ~ Commit(w)
      <4>1. UNCHANGED <<runs, signals>>
        BY <3>1, <3>3 DEF Step, Call, Select, Insert, UpsertSignals, FinishRun, Rollback
      <4> QED BY <4>1, <2>1
    <3> QED BY <3>2, <3>3
  <2> QED BY <2>2, <2>3
<1>3. WholeInv => NoHalfScan
  BY DEF WholeInv
<1> QED BY <1>1, <1>2, <1>3, RunsInvariant, PTL DEF Spec

(***************************************************************************)
(* Versions, where a key stands for one of them.                           *)
(***************************************************************************)
LEMMA SelectVersions ==
    ASSUME OneVersionPerKey, RunsInv, VersionInv, NEW w \in Workers, Select(w)
    PROVE  VersionInv'
<1>1. UNCHANGED <<runs, signals, req, ownRuns, returned>>
  BY DEF Select
<1>2. ASSUME NEW v \in Workers, Holds(v)' PROVE VisibleRuns(v)'[run'[v]].ver = req'[v].ver
  <2>1. CASE v # w
    <3>1. UNCHANGED <<pc[v], run[v], req[v], ownRuns[v], runs>>
      BY <1>1, <2>1 DEF Select, RunsInv, TypeOK
    <3> QED BY <1>2, <3>1 DEF VersionInv, Holds, VisibleRuns
  <2>2. CASE v = w
    <3>1. PICK r \in RunsWithKey(VisibleRuns(w), req[w].key) : run' = [run EXCEPT ![w] = r]
      BY <1>2, <2>2 DEF Select, Holds, RunsInv, TypeOK
    <3>2. run'[w] = r /\ r \in DOMAIN VisibleRuns(w) /\ VisibleRuns(w)[r].key = req[w].key
      BY <3>1 DEF RunsWithKey, RunsInv, TypeOK
    <3>3. OfRequest(VisibleRuns(w)[r])
      BY <3>2, VisibleRunAt DEF VersionInv
    <3>4. req[w] \in Requests /\ req[w].key # NoKey
      BY DEF Select, RunsInv, TypeOK, PlaceInv, Placed
    <3>5. VisibleRuns(w)[r].ver = req[w].ver
      BY <3>2, <3>3, <3>4 DEF OfRequest, OneVersionPerKey
    <3>6. VisibleRuns(w)' = VisibleRuns(w)
      BY <1>1 DEF VisibleRuns
    <3> QED BY <1>1, <2>2, <3>2, <3>5, <3>6
  <2> QED BY <2>1, <2>2
<1> QED BY <1>1, <1>2 DEF VersionInv

LEMMA InsertVersions ==
    ASSUME RunsInv, VersionInv, NEW w \in Workers, Insert(w)
    PROVE  VersionInv'
<1>1. UNCHANGED <<runs, signals, req, returned>> /\ req[w] \in Requests
  BY DEF Insert, RunsInv, TypeOK
<1>2. \A v \in Workers \ {w} : UNCHANGED <<pc[v], run[v], req[v], ownRuns[v], runs>>
  BY DEF Insert, RunsInv, TypeOK
<1>3. CASE Conflicts(runs, req[w].key) = {}
  <2> DEFINE new == [r \in {nextId} |-> NewRow(req[w])]
  <2>1. ownRuns'[w] = new /\ run'[w] = nextId
    BY <1>3 DEF Insert, RunsInv, TypeOK
  <2>2. DOMAIN new = {nextId} /\ new[nextId].key = req[w].key /\ new[nextId].ver = req[w].ver
    BY DEF NewRow
  <2>3. OfRequest(new[nextId])
    BY <1>1, <2>2 DEF OfRequest
  <2> HIDE DEF new
  <2>4. \A v \in Workers : \A r \in DOMAIN ownRuns'[v] : OfRequest(ownRuns'[v][r])
    BY <1>2, <2>1, <2>2, <2>3 DEF VersionInv
  <2>5. nextId \in DOMAIN new /\ Overlaid(new, runs)[nextId] = new[nextId]
    BY <2>2, OverlaidAt
  <2>6. VisibleRuns(w)'[run'[w]].ver = req'[w].ver
    BY <1>1, <2>1, <2>2, <2>5 DEF VisibleRuns
  <2>7. \A v \in Workers : Holds(v)' => VisibleRuns(v)'[run'[v]].ver = req'[v].ver
    BY <1>2, <2>6 DEF VersionInv, Holds, VisibleRuns
  <2> QED BY <1>1, <2>4, <2>7 DEF VersionInv
<1>4. CASE Conflicts(runs, req[w].key) # {}
  <2>1. ~ Holds(w)' /\ UNCHANGED ownRuns
    BY <1>4 DEF Insert, Holds, RunsInv, TypeOK
  <2> QED BY <1>1, <1>2, <2>1 DEF VersionInv, Holds, VisibleRuns
<1> QED BY <1>3, <1>4

LEMMA FinishRunVersions ==
    ASSUME RunsInv, VersionInv, NEW w \in Workers, FinishRun(w)
    PROVE  VersionInv'
<1> DEFINE new == [r \in {run[w]} |-> [VisibleRuns(w)[r] EXCEPT
                     !.status = "completed", !.count = Cardinality(req[w].cands)]]
<1>1. UNCHANGED <<runs, signals, req, run, returned>>
  BY DEF FinishRun
<1>2. \A v \in Workers \ {w} : UNCHANGED <<pc[v], run[v], req[v], ownRuns[v], runs>>
  BY DEF FinishRun, RunsInv, TypeOK
<1>3. ownRuns'[w] = new
  BY DEF FinishRun, RunsInv, TypeOK
<1>4. Holds(w) /\ run[w] \in DOMAIN VisibleRuns(w)
  BY DEF FinishRun, Holds, RunsInv, PlaceInv, Placed
<1>5. DOMAIN new = {run[w]} /\ new[run[w]] = [VisibleRuns(w)[run[w]] EXCEPT
                     !.status = "completed", !.count = Cardinality(req[w].cands)]
  OBVIOUS
<1> HIDE DEF new
<1>6. /\ new[run[w]].key = VisibleRuns(w)[run[w]].key
      /\ new[run[w]].ver = VisibleRuns(w)[run[w]].ver
  BY <1>4, <1>5, FinishedRow DEF RunsInv
<1>7. OfRequest(new[run[w]])
  <2>1. OfRequest(VisibleRuns(w)[run[w]])
    BY <1>4, VisibleRunAt DEF VersionInv
  <2> QED BY <1>6, <2>1 DEF OfRequest
<1>8. \A v \in Workers : \A r \in DOMAIN ownRuns'[v] : OfRequest(ownRuns'[v][r])
  BY <1>2, <1>3, <1>5, <1>7 DEF VersionInv
<1>9. run[w] \in DOMAIN new /\ Overlaid(new, runs)[run[w]] = new[run[w]]
  BY <1>5, OverlaidAt
<1>10. VisibleRuns(w)'[run'[w]].ver = req'[w].ver
  <2>1. VisibleRuns(w)[run[w]].ver = req[w].ver
    BY <1>4 DEF VersionInv
  <2>2. VisibleRuns(w)' = Overlaid(new, runs)
    BY <1>1, <1>3 DEF VisibleRuns
  <2> QED BY <1>1, <1>6, <1>9, <2>1, <2>2
<1>11. \A v \in Workers : Holds(v)' => VisibleRuns(v)'[run'[v]].ver = req'[v].ver
  BY <1>2, <1>10 DEF VersionInv, Holds, VisibleRuns
<1> QED BY <1>1, <1>8, <1>11 DEF VersionInv

LEMMA CommitVersions ==
    ASSUME RunsInv, VersionInv, NEW w \in Workers, Commit(w)
    PROVE  VersionInv'
<1>1. /\ Close(w) /\ pc[w] = "done"
      /\ runs' = VisibleRuns(w) /\ signals' = Overlaid(ownSignals[w], signals)
      /\ returned' = returned \cup {[key |-> req[w].key, ver |-> req[w].ver, id |-> run[w]]}
  BY DEF Commit
<1>2. TypeOK
  BY DEF RunsInv
<1>3. /\ \A v \in Workers \ {w} : UNCHANGED <<pc[v], run[v], req[v], ownRuns[v]>>
      /\ pc'[w] = "idle" /\ ownRuns'[w] = <<>>
  BY <1>1, <1>2, ClosedHand
<1>4. /\ run[w] \in DOMAIN VisibleRuns(w) /\ VisibleRuns(w)[run[w]].ver = req[w].ver
      /\ ownSignals[w] = [s \in {run[w]} \X req[w].cands |-> req[w].ver]
  BY <1>1 DEF RunsInv, PlaceInv, Placed, Holds, VersionInv
<1>5. /\ \A r \in DOMAIN runs' : OfRequest(runs'[r])
      /\ \A r \in DOMAIN runs : r \in DOMAIN runs' /\ runs'[r].ver = runs[r].ver
  <2>1. \A r \in DOMAIN runs' : OfRequest(runs'[r])
    BY <1>1, VisibleRunAt DEF VersionInv
  <2>2. ASSUME NEW r \in DOMAIN runs PROVE r \in DOMAIN runs' /\ runs'[r].ver = runs[r].ver
    <3>1. CASE r \in DOMAIN ownRuns[w]
      <4>1. ownRuns[w][r].ver = runs[r].ver
        BY <3>1 DEF RunsInv, LockInv
      <4> QED BY <1>1, <3>1, <4>1, VisibleRunAt
    <3>2. CASE r \notin DOMAIN ownRuns[w]
      BY <1>1, <3>2, VisibleRunAt
    <3> QED BY <3>1, <3>2
  <2> QED BY <2>1, <2>2
<1>6. \A v \in Workers : \A r \in DOMAIN ownRuns'[v] : OfRequest(ownRuns'[v][r])
  BY <1>3, EmptyTable DEF VersionInv
<1>7. ASSUME NEW v \in Workers, Holds(v)' PROVE VisibleRuns(v)'[run'[v]].ver = req'[v].ver
  <2>1. v # w
    BY <1>3, <1>7 DEF Holds
  <2>2. UNCHANGED <<pc[v], run[v], req[v], ownRuns[v]>>
    BY <1>3, <2>1
  <2>3. Holds(v) /\ run[v] \in DOMAIN VisibleRuns(v) /\ VisibleRuns(v)[run[v]].ver = req[v].ver
    BY <1>7, <2>2 DEF Holds, RunsInv, PlaceInv, Placed, VersionInv
  <2>4. VisibleRuns(v)' = Overlaid(ownRuns[v], runs')
    BY <2>2 DEF VisibleRuns
  <2>5. CASE run[v] \in DOMAIN ownRuns[v]
    <3>1. VisibleRuns(v)'[run[v]] = ownRuns[v][run[v]]
      BY <2>4, <2>5, OverlaidAt
    <3>2. VisibleRuns(v)[run[v]] = ownRuns[v][run[v]]
      BY <2>5, VisibleRunAt
    <3> QED BY <2>2, <2>3, <3>1, <3>2
  <2>6. CASE run[v] \notin DOMAIN ownRuns[v]
    <3>1. run[v] \in DOMAIN runs /\ VisibleRuns(v)[run[v]] = runs[run[v]]
      BY <2>3, <2>6, VisibleRunAt
    <3>2. VisibleRuns(v)'[run[v]] = runs'[run[v]] /\ runs'[run[v]].ver = runs[run[v]].ver
      BY <1>5, <2>4, <2>6, <3>1, OverlaidAt
    <3> QED BY <2>2, <2>3, <3>1, <3>2
  <2> QED BY <2>5, <2>6
<1>8. ASSUME NEW s \in DOMAIN signals'
      PROVE  s[1] \in DOMAIN runs' /\ signals'[s] = runs'[s[1]].ver
  <2>1. CASE s \in DOMAIN ownSignals[w]
    <3>1. s[1] = run[w] /\ ownSignals[w][s] = req[w].ver
      BY <1>4, <2>1
    <3>2. signals'[s] = ownSignals[w][s]
      BY <1>1, <2>1, OverlaidAt
    <3> QED BY <1>1, <1>4, <3>1, <3>2
  <2>2. CASE s \notin DOMAIN ownSignals[w]
    <3>1. s \in DOMAIN signals /\ signals'[s] = signals[s]
      BY <1>1, <2>2, OverlaidAt
    <3> QED BY <1>5, <3>1 DEF VersionInv
  <2> QED BY <2>1, <2>2
<1>9. \A a \in returned' : a.ver = runs'[a.id].ver
  BY <1>1, <1>4, <1>5 DEF VersionInv, RunsInv, ReturnedInv
<1> QED BY <1>5, <1>6, <1>7, <1>8, <1>9 DEF VersionInv

(***************************************************************************)
(* Results of different strategy versions are stored apart, provided that  *)
(* a key is used for one version: the code looks a run up by its key       *)
(* alone, so nothing but its callers establishes the hypothesis.           *)
(***************************************************************************)
THEOREM VersionsStayApart ==
    ASSUME OneVersionPerKey
    PROVE  Spec => []VersionsSegregated
<1>1. Init => VersionInv
  BY EmptyTable DEF Init, VersionInv, Holds
<1>2. RunsInv /\ VersionInv /\ [Next]_vars => VersionInv'
  <2> SUFFICES ASSUME RunsInv, VersionInv, [Next]_vars PROVE VersionInv'
    OBVIOUS
  <2>1. CASE UNCHANGED vars
    BY <2>1 DEF vars, VersionInv, Holds, VisibleRuns
  <2>2. ASSUME NEW w \in Workers, NEW q \in Requests, Call(w, q) PROVE VersionInv'
    <3>1. UNCHANGED <<runs, signals, run, ownRuns, returned>>
      BY <2>2 DEF Call
    <3>2. \A v \in Workers : Holds(v)' => Holds(v) /\ req'[v] = req[v]
      BY <2>2 DEF Call, Holds, RunsInv, TypeOK
    <3> QED BY <3>1, <3>2 DEF VersionInv, VisibleRuns
  <2>3. ASSUME NEW w \in Workers, UpsertSignals(w) PROVE VersionInv'
    <3>1. UNCHANGED <<runs, signals, run, req, ownRuns, returned>>
      BY <2>3 DEF UpsertSignals
    <3>2. \A v \in Workers : Holds(v)' => Holds(v)
      BY <2>3 DEF UpsertSignals, Holds, RunsInv, TypeOK
    <3> QED BY <3>1, <3>2 DEF VersionInv, VisibleRuns
  <2>4. ASSUME NEW w \in Workers, Rollback(w) PROVE VersionInv'
    <3>1. UNCHANGED <<runs, signals, returned>> /\ Close(w) /\ TypeOK
      BY <2>4 DEF Rollback, RunsInv
    <3>2. /\ \A v \in Workers \ {w} : UNCHANGED <<pc[v], run[v], req[v], ownRuns[v]>>
          /\ pc'[w] = "idle" /\ ownRuns'[w] = <<>>
      BY <3>1, ClosedHand
    <3> QED BY <3>1, <3>2, EmptyTable DEF VersionInv, VisibleRuns, Holds
  <2> QED BY <2>1, <2>2, <2>3, <2>4, SelectVersions, InsertVersions, FinishRunVersions,
             CommitVersions DEF Next, Step
<1>3. RunsInv /\ VersionInv => VersionsSegregated
  BY DEF RunsInv, VersionInv, VersionsSegregated
<1> QED BY <1>1, <1>2, <1>3, RunsInvariant, PTL DEF Spec

-----------------------------------------------------------------------------
(***************************************************************************)
(* The keyed rows.                                                         *)
(***************************************************************************)
LEMMA VisibleRowAt ==
    ASSUME NEW w \in Workers, NEW r
    PROVE  /\ r \in DOMAIN VisibleRows(w) <=> r \in DOMAIN ownRows[w] \/ r \in DOMAIN rows
           /\ r \in DOMAIN ownRows[w] => VisibleRows(w)[r] = ownRows[w][r]
           /\ r \in DOMAIN rows /\ r \notin DOMAIN ownRows[w] => VisibleRows(w)[r] = rows[r]
  BY OverlaidAt DEF VisibleRows

LEMMA ScriptsAreSequences ==
    ASSUME NEW s \in Scripts \cup {<<>>}
    PROVE  /\ Len(s) \in Nat /\ DOMAIN s = 1..Len(s)
           /\ \A i \in DOMAIN s : s[i] \in Calls
<1>1. CASE s = <<>>
  BY <1>1
<1>2. CASE s \in Scripts
  <2>1. s \in Seq(Calls)
    BY <1>2, RecordAssumption
  <2> QED BY <2>1
<1> QED BY <1>1, <1>2

LEMMA CurrentIsCall ==
    ASSUME RowsType, HandInv, NEW w \in Workers, Busy(w), ~Done(w)
    PROVE  /\ at[w] \in DOMAIN script[w] /\ at[w] \in Nat
           /\ at[w] + 1 \in 1..(Len(script[w]) + 1)
           /\ Current(w).key \in RowKeys \cup {NoKey}
           /\ Current(w).val \in {c.val : c \in Calls}
<1>1. script[w] \in Scripts \cup {<<>>} /\ at[w] \in 1..(Len(script[w]) + 1)
  BY DEF RowsType, HandInv, HandType
<1>2. Len(script[w]) \in Nat /\ DOMAIN script[w] = 1..Len(script[w])
  BY <1>1, ScriptsAreSequences
<1>3. at[w] \in 1..Len(script[w])
  BY <1>1, <1>2 DEF Busy, Done
<1>4. Current(w) \in Calls
  BY <1>1, <1>2, <1>3, ScriptsAreSequences DEF Current
<1> QED BY <1>2, <1>3, <1>4 DEF RowKeys

\* What one session does leaves the others' hands alone, as long as the table stays.
LEMMA OtherHandsStay ==
    ASSUME HandInv, NEW w \in Workers, UNCHANGED rows,
           \A v \in Workers \ {w} : UNCHANGED <<script[v], at[v], step[v], ownRows[v], told[v]>>,
           HandType(w)', PlaceHand(w)', ToldHand(w)', ChangeHand(w)'
    PROVE  HandInv'
<1>1. ASSUME NEW v \in Workers \ {w}
      PROVE  HandType(v)' /\ PlaceHand(v)' /\ ToldHand(v)' /\ ChangeHand(v)'
  <2>1. UNCHANGED <<rows, script[v], at[v], step[v], ownRows[v], told[v]>>
    OBVIOUS
  <2>2. HandType(v) /\ PlaceHand(v) /\ ToldHand(v) /\ ChangeHand(v)
    BY DEF HandInv
  <2>3. HandType(v)' /\ PlaceHand(v)'
    BY <2>1, <2>2 DEF HandType, PlaceHand, Busy, Current
  <2>4. ToldHand(v)'
    BY <2>1, <2>2 DEF ToldHand, VisibleRows
  <2>5. ChangeHand(v)'
    <3>1. \A k : UpdatesDone(v, k)' = UpdatesDone(v, k)
      BY <2>1 DEF UpdatesDone, UpdatesOf
    <3> QED BY <2>1, <2>2, <3>1 DEF ChangeHand
  <2> QED BY <2>3, <2>4, <2>5
<1> QED BY <1>1 DEF HandInv

\* A call that is no update leaves the updates done as they are.
LEMMA NoUpdateDone ==
    ASSUME RowsType, HandInv, NEW w \in Workers, Busy(w), ~Done(w), Current(w).op # "update",
           UNCHANGED script, at'[w] = at[w] + 1
    PROVE  \A k : UpdatesDone(w, k)' = UpdatesDone(w, k)
<1>1. at[w] \in Nat /\ \A k : UpdatesOf(w, k) \subseteq 1..Len(script[w])
  <2>1. script[w] \in Scripts \cup {<<>>}
    BY DEF RowsType
  <2> QED BY <2>1, CurrentIsCall, ScriptsAreSequences DEF UpdatesOf
<1>2. \A k : UpdatesOf(w, k)' = UpdatesOf(w, k) /\ at[w] \notin UpdatesOf(w, k)
  BY DEF UpdatesOf, Current
<1>3. ASSUME NEW k PROVE UpdatesDone(w, k)' = UpdatesDone(w, k)
  BY <1>1, <1>2 DEF UpdatesDone
<1> QED BY <1>3

LEMMA InitRows == RecInit => RowsInv
<1> SUFFICES ASSUME RecInit PROVE RowsInv
  OBVIOUS
<1>1. /\ rows = <<>> /\ nextRow = 1 /\ answers = {} /\ creations = [k \in RowKeys |-> 0]
      /\ \A w \in Workers : /\ script[w] = <<>> /\ at[w] = 1 /\ step[w] = "call"
                            /\ ownRows[w] = <<>> /\ told[w] = {}
  BY DEF RecInit
<1>2. RowsType
  BY <1>1, EmptyType DEF RecInit, RowsType, IsTable, RowIds
<1>3. HandInv
  <2> SUFFICES ASSUME NEW w \in Workers
               PROVE  HandType(w) /\ PlaceHand(w) /\ ToldHand(w) /\ ChangeHand(w)
    BY DEF HandInv
  <2>1. HandType(w)
    BY <1>1, EmptyType DEF HandType, IsTable
  <2> QED BY <1>1, <2>1, EmptyTable DEF PlaceHand, ToldHand, ChangeHand
<1>4. RowIdInv /\ RowLockInv
  BY <1>1, EmptyTable DEF RowIdInv, RowLockInv
<1>5. RowKeyInv
  BY <1>1, EmptyApart DEF RowKeyInv
<1>6. RecordedOnce
  <2>1. \A k : RunsWithKey(rows, k) = {}
    BY <1>1, EmptyTable DEF RunsWithKey
  <2> QED BY <1>1, <2>1, FS_EmptySet DEF RecordedOnce
<1> QED BY <1>2, <1>3, <1>4, <1>5, <1>6 DEF RowsInv

LEMMA OpenRows ==
    ASSUME RowsInv, NEW w \in Workers, NEW s \in Scripts, Open(w, s)
    PROVE  RowsInv'
<1>1. /\ ~Busy(w) /\ script' = [script EXCEPT ![w] = s]
      /\ UNCHANGED <<rows, nextRow, at, step, ownRows, told, answers, creations>>
  BY DEF Open
<1>2. script'[w] = s /\ \A v \in Workers \ {w} : script'[v] = script[v]
  BY <1>1 DEF RowsInv, RowsType
<1>3. RowsType'
  BY <1>1 DEF RowsInv, RowsType
<1>4. HandInv'
  <2>1. ownRows[w] = <<>> /\ told[w] = {} /\ at[w] = 1
    BY <1>1 DEF RowsInv, HandInv, PlaceHand
  <2>2. HandType(w)'
    BY <1>1, <1>2, <2>1, ScriptsAreSequences DEF RowsInv, HandInv, HandType
  <2>3. PlaceHand(w)'
    BY <1>1, <2>1, EmptyTable DEF RowsInv, HandInv, PlaceHand, Conflicts, RunsWithKey
  <2>4. ToldHand(w)' /\ ChangeHand(w)'
    BY <1>1, <2>1, EmptyTable DEF ToldHand, ChangeHand
  <2> QED BY <1>1, <1>2, <2>2, <2>3, <2>4, OtherHandsStay DEF RowsInv
<1>5. RowIdInv' /\ RowLockInv' /\ RowKeyInv' /\ RecordedOnce'
  BY <1>1 DEF RowsInv, RowIdInv, RowLockInv, RowKeyInv, RecordedOnce
<1> QED BY <1>3, <1>4, <1>5 DEF RowsInv

LEMMA FindRows ==
    ASSUME RowsInv, NEW w \in Workers, Find(w)
    PROVE  RowsInv'
<1>1. PICK r \in RunsWithKey(VisibleRows(w), Current(w).key) : Tell(w, r, FALSE)
  BY DEF Find
<1>2. /\ Busy(w) /\ ~Done(w) /\ Current(w).op = "record" /\ Current(w).key # NoKey
      /\ at' = [at EXCEPT ![w] = @ + 1] /\ step' = [step EXCEPT ![w] = "call"]
      /\ UNCHANGED <<rows, nextRow, script, ownRows, answers, creations>>
  BY DEF Find, Doing, Advance
<1> DEFINE answer == [key |-> Current(w).key, id |-> r, created |-> FALSE]
<1>3. /\ told'[w] = told[w] \cup {answer} /\ at'[w] = at[w] + 1 /\ step'[w] = "call"
      /\ DOMAIN told' = Workers
      /\ \A v \in Workers \ {w} : UNCHANGED <<script[v], at[v], step[v], ownRows[v], told[v]>>
  BY <1>1, <1>2 DEF Tell, RowsInv, RowsType
<1>4. r \in DOMAIN VisibleRows(w) /\ VisibleRows(w)[r].key = Current(w).key
  BY <1>1 DEF RunsWithKey
<1>5. RowsType'
  BY <1>2, <1>3 DEF RowsInv, RowsType
<1>6. HandType(w)'
  <2>1. r \in RowIds
    <3>1. DOMAIN rows \subseteq RowIds /\ DOMAIN ownRows[w] \subseteq RowIds
      BY DEF RowsInv, RowsType, HandInv, HandType, IsTable, IsPartial
    <3> QED BY <1>4, <3>1, VisibleRowAt
  <2>2. Current(w).key \in RowKeys /\ at[w] + 1 \in 1..(Len(script[w]) + 1)
    BY <1>2, CurrentIsCall DEF RowsInv
  <2>3. answer \in Answer
    BY <2>1, <2>2 DEF Answer
  <2> QED BY <1>2, <1>3, <2>2, <2>3 DEF RowsInv, HandInv, HandType
<1>7. PlaceHand(w)'
  BY <1>2, <1>3 DEF PlaceHand, Busy
<1>8. ToldHand(w)'
  <2>1. VisibleRows(w)' = VisibleRows(w)
    BY <1>2 DEF VisibleRows
  <2>2. ToldHand(w)
    BY DEF RowsInv, HandInv
  <2> QED BY <1>2, <1>3, <1>4, <2>1, <2>2 DEF ToldHand
<1>9. ChangeHand(w)'
  <2>1. \A k : UpdatesDone(w, k)' = UpdatesDone(w, k)
    BY <1>2, <1>3, NoUpdateDone DEF RowsInv
  <2> QED BY <1>2, <2>1 DEF RowsInv, HandInv, ChangeHand
<1>10. HandInv'
  BY <1>2, <1>3, <1>6, <1>7, <1>8, <1>9, OtherHandsStay DEF RowsInv
<1>11. RowIdInv' /\ RowLockInv' /\ RowKeyInv' /\ RecordedOnce'
  BY <1>2 DEF RowsInv, RowIdInv, RowLockInv, RowKeyInv, RecordedOnce
<1> QED BY <1>5, <1>10, <1>11 DEF RowsInv

LEMMA MissRows ==
    ASSUME RowsInv, NEW w \in Workers, Miss(w)
    PROVE  RowsInv'
<1>1. /\ step' = [step EXCEPT ![w] = "insert"]
      /\ UNCHANGED <<rows, nextRow, script, at, ownRows, told, answers, creations>>
  BY DEF Miss
<1>2. RowsType'
  BY <1>1 DEF RowsInv, RowsType
<1>3. HandInv'
  <2> SUFFICES ASSUME NEW v \in Workers
               PROVE  HandType(v)' /\ PlaceHand(v)' /\ ToldHand(v)' /\ ChangeHand(v)'
    BY DEF HandInv
  <2>1. \A k : UpdatesDone(v, k)' = UpdatesDone(v, k)
    BY <1>1 DEF UpdatesDone, UpdatesOf
  <2>2. HandType(v)' /\ ToldHand(v)'
    BY <1>1 DEF RowsInv, HandInv, HandType, ToldHand, VisibleRows
  <2>3. ChangeHand(v)'
    BY <1>1, <2>1 DEF RowsInv, HandInv, ChangeHand
  <2>4. PlaceHand(v)'
    <3>1. CASE v = w
      <4>1. Busy(w) /\ Conflicts(VisibleRows(w), Current(w).key) = {}
        BY DEF Miss, Doing
      <4>2. Conflicts(ownRows[w], Current(w).key) = {}
        BY <4>1, VisibleRowAt DEF Conflicts, RunsWithKey
      <4> QED BY <1>1, <3>1, <4>1, <4>2 DEF PlaceHand, Busy, Current
    <3>2. CASE v # w
      BY <1>1, <3>2 DEF RowsInv, RowsType, HandInv, PlaceHand, Busy, Current
    <3> QED BY <3>1, <3>2
  <2> QED BY <2>2, <2>3, <2>4
<1>4. RowIdInv' /\ RowLockInv' /\ RowKeyInv' /\ RecordedOnce'
  BY <1>1 DEF RowsInv, RowIdInv, RowLockInv, RowKeyInv, RecordedOnce
<1> QED BY <1>2, <1>3, <1>4 DEF RowsInv

\* Writing rows whose keys are apart from all others keeps the keys apart.
LEMMA RowKeysStay ==
    ASSUME RowKeyInv, NEW w \in Workers, NEW new,
           KeysApart(new, rows), KeysApart(new, new),
           \A v \in Workers : KeysApart(new, ownRows[v]),
           UNCHANGED rows, ownRows'[w] = Overlaid(new, ownRows[w]),
           \A v \in Workers \ {w} : ownRows'[v] = ownRows[v]
    PROVE  RowKeyInv'
<1>1. KeysApart(ownRows'[w], rows)
  BY KeysStayApart DEF RowKeyInv
<1>2. ASSUME NEW v \in Workers
      PROVE  KeysApart(ownRows'[w], ownRows[v]) /\ KeysApart(ownRows[v], ownRows'[w])
  BY KeysStayApart DEF RowKeyInv
<1>3. KeysApart(ownRows'[w], ownRows'[w])
  <2>1. KeysApart(ownRows[w], new)
    BY DEF KeysApart
  <2>2. KeysApart(ownRows[w], ownRows'[w]) /\ KeysApart(ownRows'[w], new)
    BY <1>2, <2>1, KeysStayApart
  <2>3. KeysApart(new, ownRows'[w])
    BY <2>2 DEF KeysApart
  <2> QED BY <2>2, <2>3, KeysStayApart
<1>4. ASSUME NEW u \in Workers, NEW v \in Workers PROVE KeysApart(ownRows'[u], ownRows'[v])
  <2>1. CASE u # w /\ v # w
    BY <2>1 DEF RowKeyInv
  <2>2. CASE u = w \/ v = w
    BY <1>2, <1>3, <2>2
  <2> QED BY <2>1, <2>2
<1>5. ASSUME NEW v \in Workers PROVE KeysApart(ownRows'[v], rows')
  BY <1>1 DEF RowKeyInv
<1> QED BY <1>4, <1>5 DEF RowKeyInv

LEMMA InsertRowRows ==
    ASSUME RowsInv, NEW w \in Workers, InsertRow(w)
    PROVE  RowsInv'
<1> DEFINE c == Current(w)
           new == [r \in {nextRow} |-> Inserted(c)]
<1>1. /\ Busy(w) /\ ~Done(w) /\ c.op = "record" /\ step[w] = "insert"
      /\ nextRow' = nextRow + 1 /\ nextRow \in Nat \ {0} /\ nextRow' \in RowIds
      /\ UNCHANGED <<rows, script, answers, creations>>
  BY DEF InsertRow, Doing, RowsInv, RowsType, RowIds
<1>2. c.key \in RowKeys \cup {NoKey} /\ c.val \in {d.val : d \in Calls}
  BY <1>1, CurrentIsCall DEF RowsInv
<1>3. RecordedOnce'
  BY <1>1 DEF RowsInv, RecordedOnce
<1>4. CASE Conflicts(rows, c.key) = {}
  <2> DEFINE answer == [key |-> c.key, id |-> nextRow, created |-> TRUE]
  <2>1. /\ ownRows' = [ownRows EXCEPT ![w] = Overlaid(new, @)] /\ Tell(w, nextRow, TRUE)
        /\ at' = [at EXCEPT ![w] = @ + 1] /\ step' = [step EXCEPT ![w] = "call"]
    BY <1>4 DEF InsertRow, Advance
  <2>2. DOMAIN new = {nextRow} /\ new[nextRow] = Inserted(c)
    OBVIOUS
  <2>3. new[nextRow].key = c.key /\ new[nextRow] \in KeyedRow
    BY <2>2, <1>2 DEF Inserted, KeyedRow
  <2> HIDE DEF new
  <2>4. /\ ownRows'[w] = Overlaid(new, ownRows[w]) /\ at'[w] = at[w] + 1 /\ step'[w] = "call"
        /\ told'[w] = told[w] \cup (IF c.key = NoKey THEN {} ELSE {answer})
        /\ DOMAIN told' = Workers
        /\ \A v \in Workers \ {w} : UNCHANGED <<script[v], at[v], step[v], ownRows[v], told[v]>>
    BY <1>1, <2>1 DEF Tell, RowsInv, RowsType
  <2>5. RowsType'
    BY <1>1, <2>1, <2>4 DEF RowsInv, RowsType
  <2>6. nextRow \notin DOMAIN rows /\ \A v \in Workers : nextRow \notin DOMAIN ownRows[v]
    BY <1>1 DEF RowsInv, RowIdInv
  <2>7. /\ nextRow \in DOMAIN ownRows'[w] /\ ownRows'[w][nextRow] = new[nextRow]
        /\ \A r : r \in DOMAIN ownRows'[w] /\ r # nextRow =>
                r \in DOMAIN ownRows[w] /\ ownRows'[w][r] = ownRows[w][r]
        /\ \A r \in DOMAIN ownRows[w] : r \in DOMAIN ownRows'[w] /\ r # nextRow
    BY <2>2, <2>4, <2>6, OverlaidAt
  <2>8. HandType(w)'
    <3>1. IsPartial(new, RowIds, KeyedRow)
      BY <1>1, <2>2, <2>3 DEF IsPartial, RowIds
    <3>2. IsPartial(ownRows'[w], RowIds, KeyedRow)
      BY <2>4, <3>1, OverlaidType DEF RowsInv, HandInv, HandType, IsTable
    <3>3. c.key # NoKey => answer \in Answer
      BY <1>1, <1>2 DEF Answer, RowIds
    <3>4. told'[w] \subseteq Answer
      BY <2>4, <3>3 DEF RowsInv, HandInv, HandType
    <3>5. at'[w] \in 1..(Len(script[w]) + 1)
      BY <1>1, <2>4, CurrentIsCall DEF RowsInv
    <3> QED BY <1>1, <3>2, <3>4, <3>5 DEF HandType, IsTable
  <2>9. PlaceHand(w)'
    BY <1>1, <2>4 DEF PlaceHand, Busy
  <2>10. ToldHand(w)
    BY DEF RowsInv, HandInv
  <2>11. ASSUME NEW t \in told'[w]
         PROVE  /\ t.id \in DOMAIN VisibleRows(w)' /\ VisibleRows(w)'[t.id].key = t.key
                /\ t.created => t.id \in DOMAIN ownRows'[w] /\ t.id \notin DOMAIN rows'
    <3>1. VisibleRows(w)' = Overlaid(ownRows'[w], rows)
      BY <1>1 DEF VisibleRows
    <3>2. CASE t \in told[w]
      <4>1. t.id \in DOMAIN VisibleRows(w) /\ VisibleRows(w)[t.id].key = t.key
        BY <2>10, <3>2 DEF ToldHand
      <4>2. t.created => t.id \in DOMAIN ownRows[w] /\ t.id \notin DOMAIN rows
        BY <2>10, <3>2 DEF ToldHand
      <4>3. CASE t.id \in DOMAIN ownRows[w]
        BY <1>1, <2>7, <3>1, <4>1, <4>2, <4>3, VisibleRowAt, OverlaidAt
      <4>4. CASE t.id \notin DOMAIN ownRows[w]
        <5>1. t.id \in DOMAIN rows /\ VisibleRows(w)[t.id] = rows[t.id]
          BY <4>1, <4>4, VisibleRowAt
        <5>2. t.id \notin DOMAIN ownRows'[w]
          BY <2>6, <2>7, <4>4, <5>1
        <5> QED BY <1>1, <3>1, <4>1, <4>2, <4>4, <5>1, <5>2, OverlaidAt
      <4> QED BY <4>3, <4>4
    <3>3. CASE c.key # NoKey /\ t = answer
      <4>1. t.id = nextRow /\ t.key = c.key
        BY <3>3
      <4>2. VisibleRows(w)'[nextRow] = new[nextRow] /\ nextRow \in DOMAIN VisibleRows(w)'
        BY <2>7, <3>1, OverlaidAt
      <4> QED BY <1>1, <2>3, <2>6, <2>7, <4>1, <4>2
    <3> QED BY <2>4, <3>2, <3>3
  <2>12. ASSUME NEW r \in DOMAIN ownRows'[w], r \notin DOMAIN rows', ownRows'[w][r].key # NoKey
         PROVE  [key |-> ownRows'[w][r].key, id |-> r, created |-> TRUE] \in told'[w]
    <3>1. CASE r = nextRow
      BY <2>3, <2>4, <2>7, <2>12, <3>1
    <3>2. CASE r # nextRow
      BY <1>1, <2>4, <2>7, <2>10, <2>12, <3>2 DEF ToldHand
    <3> QED BY <3>1, <3>2
  <2>13. ToldHand(w)'
    BY <2>11, <2>12 DEF ToldHand
  <2>14. ChangeHand(w)'
    <3>1. \A k : UpdatesDone(w, k)' = UpdatesDone(w, k)
      BY <1>1, <2>4, NoUpdateDone DEF RowsInv
    <3>2. ChangeHand(w)
      BY DEF RowsInv, HandInv
    <3> QED BY <1>1, <2>6, <2>7, <3>1, <3>2 DEF ChangeHand
  <2>15. HandInv'
    BY <1>1, <2>4, <2>8, <2>9, <2>13, <2>14, OtherHandsStay DEF RowsInv
  <2>16. RowIdInv'
    BY <1>1, <2>4, <2>7 DEF RowsInv, RowIdInv, RowsType, HandInv, HandType, IsTable, IsPartial, RowIds
  <2>17. RowLockInv'
    BY <2>4, <2>6, <2>7 DEF RowsInv, RowLockInv
  <2>18. KeysApart(new, rows) /\ KeysApart(new, new)
    BY <1>4, <2>2, <2>3 DEF Conflicts, RunsWithKey, KeysApart
  <2>19. ASSUME NEW v \in Workers PROVE KeysApart(new, ownRows[v])
    <3>1. c.key # NoKey => \A r \in DOMAIN rows : rows[r].key # c.key
      BY <1>4 DEF Conflicts, RunsWithKey
    <3>2. \A r \in DOMAIN ownRows[v] : r \in DOMAIN rows => ownRows[v][r].key = rows[r].key
      <4>1. ChangeHand(v) /\ \A r \in DOMAIN rows : rows[r] \in KeyedRow
        BY DEF RowsInv, RowsType, HandInv, IsTable, IsPartial
      <4> QED BY <4>1 DEF ChangeHand, KeyedRow
    <3>3. c.key # NoKey => \A r \in DOMAIN ownRows[v] : ownRows[v][r].key # c.key
      <4>1. CASE v = w
        BY <1>1, <4>1 DEF RowsInv, HandInv, PlaceHand, Conflicts, RunsWithKey
      <4>2. CASE v # w
        <5>1. Conflicts(ownRows[v], c.key) \ DOMAIN rows = {}
          BY <4>2 DEF InsertRow
        <5> QED BY <3>1, <3>2, <5>1 DEF Conflicts, RunsWithKey
      <4> QED BY <4>1, <4>2
    <3> QED BY <2>2, <2>3, <3>3 DEF KeysApart
  <2>20. RowKeyInv'
    BY <1>1, <2>4, <2>18, <2>19, RowKeysStay DEF RowsInv
  <2> QED BY <1>3, <2>5, <2>15, <2>16, <2>17, <2>20 DEF RowsInv
<1>5. CASE Conflicts(rows, c.key) # {}
  <2>1. step' = [step EXCEPT ![w] = "reselect"] /\ UNCHANGED <<at, ownRows, told>>
    BY <1>5 DEF InsertRow
  <2>2. \A v \in Workers \ {w} : UNCHANGED <<script[v], at[v], step[v], ownRows[v], told[v]>>
    BY <1>1, <2>1 DEF RowsInv, RowsType
  <2>3. RowsType'
    BY <1>1, <2>1 DEF RowsInv, RowsType
  <2>4. HandType(w)' /\ ToldHand(w)'
    BY <1>1, <2>1 DEF RowsInv, HandInv, HandType, ToldHand, VisibleRows
  <2>5. PlaceHand(w)'
    BY <1>1, <2>1 DEF RowsInv, RowsType, PlaceHand, Busy
  <2>6. ChangeHand(w)'
    <3>1. \A k : UpdatesDone(w, k)' = UpdatesDone(w, k)
      BY <1>1, <2>1 DEF UpdatesDone, UpdatesOf
    <3> QED BY <1>1, <2>1, <3>1 DEF RowsInv, HandInv, ChangeHand
  <2>7. HandInv'
    BY <1>1, <2>2, <2>4, <2>5, <2>6, OtherHandsStay DEF RowsInv
  <2>8. RowIdInv'
    BY <1>1, <2>1 DEF RowsInv, RowIdInv, RowsType, HandInv, HandType, IsTable, IsPartial, RowIds
  <2>9. RowLockInv' /\ RowKeyInv'
    BY <1>1, <2>1 DEF RowsInv, RowLockInv, RowKeyInv
  <2> QED BY <1>3, <2>3, <2>7, <2>8, <2>9 DEF RowsInv
<1> QED BY <1>4, <1>5

LEMMA LastOfMax ==
    ASSUME NEW S, NEW n \in S, S \subseteq Nat, \A i \in S : i <= n
    PROVE  Max(S) = n
<1>1. Max(S) = CHOOSE x \in S : \A y \in S : x >= y
  BY DEF Max
<1>2. n \in Nat /\ \A y \in S : n >= y
  OBVIOUS
<1>3. \A x \in S : (\A y \in S : x >= y) => x = n
  BY <1>2
<1> QED BY <1>1, <1>2, <1>3

LEMMA UpdateStatusRows ==
    ASSUME RowsInv, NEW w \in Workers, UpdateStatus(w)
    PROVE  RowsInv'
<1> DEFINE c == Current(w)
           new == [r \in Targets(w) |-> [VisibleRows(w)[r] EXCEPT !.status = c.val]]
<1>1. /\ Busy(w) /\ ~Done(w) /\ c.op = "update"
      /\ ownRows' = [ownRows EXCEPT ![w] = Overlaid(new, @)]
      /\ at' = [at EXCEPT ![w] = @ + 1] /\ step' = [step EXCEPT ![w] = "call"]
      /\ UNCHANGED <<rows, nextRow, script, told, answers, creations>>
  BY DEF UpdateStatus, Doing, Advance
<1>2. /\ ownRows'[w] = Overlaid(new, ownRows[w]) /\ at'[w] = at[w] + 1 /\ step'[w] = "call"
      /\ \A v \in Workers \ {w} : UNCHANGED <<script[v], at[v], step[v], ownRows[v], told[v]>>
  BY <1>1 DEF RowsInv, RowsType
<1>3. RowsType'
  BY <1>1 DEF RowsInv, RowsType
<1>4. c.key \in RowKeys \cup {NoKey} /\ c.val \in {d.val : d \in Calls}
  BY <1>1, CurrentIsCall DEF RowsInv
<1>5. DOMAIN new = Targets(w)
      /\ \A r \in Targets(w) : new[r] = [VisibleRows(w)[r] EXCEPT !.status = c.val]
  OBVIOUS
<1> HIDE DEF new
<1>6. /\ IsPartial(rows, RowIds, KeyedRow) /\ IsPartial(ownRows[w], RowIds, KeyedRow)
      /\ ToldHand(w) /\ ChangeHand(w)
  BY DEF RowsInv, RowsType, HandInv, HandType, IsTable
<1>7. ASSUME NEW r \in Targets(w)
      PROVE  /\ r \in DOMAIN VisibleRows(w) /\ VisibleRows(w)[r].key = c.key
             /\ VisibleRows(w)[r] \in KeyedRow /\ r \in RowIds
             /\ r \in DOMAIN ownRows[w] \/ r \in DOMAIN rows
  <2>1. r \in DOMAIN VisibleRows(w) /\ VisibleRows(w)[r].key = c.key
    BY DEF Targets, RunsWithKey
  <2>2. r \in DOMAIN ownRows[w] \/ r \in DOMAIN rows
    BY <2>1, VisibleRowAt
  <2> QED BY <1>6, <2>1, <2>2, VisibleRowAt DEF IsPartial
<1>8. ASSUME NEW r \in Targets(w)
      PROVE  new[r].key = VisibleRows(w)[r].key /\ new[r] \in KeyedRow /\ new[r].status = c.val
  BY <1>4, <1>5, <1>7 DEF KeyedRow
<1>9. \A r : /\ r \in DOMAIN ownRows'[w] <=> r \in Targets(w) \/ r \in DOMAIN ownRows[w]
             /\ r \in Targets(w) => ownRows'[w][r] = new[r]
             /\ r \notin Targets(w) /\ r \in DOMAIN ownRows[w] => ownRows'[w][r] = ownRows[w][r]
  BY <1>2, <1>5, OverlaidAt
<1>10. HandType(w)'
  <2>1. IsPartial(new, RowIds, KeyedRow)
    BY <1>5, <1>7, <1>8 DEF IsPartial
  <2>2. IsPartial(ownRows'[w], RowIds, KeyedRow)
    BY <1>2, <1>6, <2>1, OverlaidType
  <2>3. at'[w] \in 1..(Len(script[w]) + 1)
    BY <1>1, <1>2, CurrentIsCall DEF RowsInv
  <2> QED BY <1>1, <2>2, <2>3 DEF RowsInv, HandInv, HandType, IsTable
<1>11. PlaceHand(w)'
  BY <1>1, <1>2 DEF PlaceHand, Busy
<1>12. ASSUME NEW r \in DOMAIN VisibleRows(w)
       PROVE  r \in DOMAIN VisibleRows(w)' /\ VisibleRows(w)'[r].key = VisibleRows(w)[r].key
  <2>1. VisibleRows(w)' = Overlaid(ownRows'[w], rows)
    BY <1>1 DEF VisibleRows
  <2>2. CASE r \in Targets(w)
    BY <1>8, <1>9, <2>1, <2>2, OverlaidAt
  <2>3. CASE r \notin Targets(w) /\ r \in DOMAIN ownRows[w]
    BY <1>9, <2>1, <2>3, OverlaidAt, VisibleRowAt
  <2>4. CASE r \notin Targets(w) /\ r \notin DOMAIN ownRows[w]
    <3>1. r \in DOMAIN rows /\ VisibleRows(w)[r] = rows[r]
      BY <2>4, VisibleRowAt
    <3>2. r \notin DOMAIN ownRows'[w]
      BY <1>9, <2>4
    <3> QED BY <2>1, <3>1, <3>2, OverlaidAt
  <2> QED BY <2>2, <2>3, <2>4
<1>13. ToldHand(w)'
  <2>1. ASSUME NEW t \in told'[w]
        PROVE  /\ t.id \in DOMAIN VisibleRows(w)' /\ VisibleRows(w)'[t.id].key = t.key
               /\ t.created => t.id \in DOMAIN ownRows'[w] /\ t.id \notin DOMAIN rows'
    BY <1>1, <1>6, <1>9, <1>12 DEF ToldHand
  <2>2. ASSUME NEW r \in DOMAIN ownRows'[w], r \notin DOMAIN rows', ownRows'[w][r].key # NoKey
        PROVE  [key |-> ownRows'[w][r].key, id |-> r, created |-> TRUE] \in told'[w]
    <3>1. r \in DOMAIN ownRows[w] /\ r \notin DOMAIN rows
      BY <1>1, <1>7, <1>9, <2>2
    <3>2. ownRows'[w][r].key = ownRows[w][r].key
      BY <1>8, <1>9, <3>1, VisibleRowAt
    <3> QED BY <1>1, <1>6, <2>2, <3>1, <3>2 DEF ToldHand
  <2> QED BY <2>1, <2>2 DEF ToldHand
<1>14. /\ at[w] \in Nat /\ \A k : UpdatesOf(w, k) \subseteq Nat
       /\ \A k : UpdatesOf(w, k)' = UpdatesOf(w, k)
       /\ \A k : at[w] \in UpdatesOf(w, k) <=> k = c.key
  <2>1. script[w] \in Scripts \cup {<<>>}
    BY DEF RowsInv, RowsType
  <2>2. at[w] \in Nat /\ at[w] \in DOMAIN script[w] /\ DOMAIN script[w] = 1..Len(script[w])
    BY <1>1, <2>1, CurrentIsCall, ScriptsAreSequences DEF RowsInv
  <2> QED BY <1>1, <2>2 DEF UpdatesOf, Current
<1>15. ASSUME NEW r \in DOMAIN ownRows'[w], r \in DOMAIN rows
       PROVE  /\ ownRows'[w][r] = [rows[r] EXCEPT !.status = ownRows'[w][r].status]
              /\ UpdatesDone(w, rows[r].key)' # {}
              /\ ownRows'[w][r].status = script[w][Max(UpdatesDone(w, rows[r].key)')].val
  <2>1. rows[r] \in KeyedRow
    BY <1>6, <1>15 DEF IsPartial
  <2>2. r \in DOMAIN ownRows[w] =>
          /\ ownRows[w][r] = [rows[r] EXCEPT !.status = ownRows[w][r].status]
          /\ ownRows[w][r].key = rows[r].key
    BY <1>6, <1>15, <2>1 DEF ChangeHand, KeyedRow
  <2>3. CASE r \in Targets(w)
    <3>1. rows[r].key = c.key
      BY <1>7, <1>15, <2>2, <2>3, VisibleRowAt
    <3>2. ownRows'[w][r] = [VisibleRows(w)[r] EXCEPT !.status = c.val]
      BY <1>5, <1>9, <2>3
    <3>3. ownRows'[w][r] = [rows[r] EXCEPT !.status = c.val]
      <4>1. CASE r \in DOMAIN ownRows[w]
        BY <2>1, <2>2, <3>2, <4>1, VisibleRowAt DEF KeyedRow
      <4>2. CASE r \notin DOMAIN ownRows[w]
        BY <1>15, <3>2, <4>2, VisibleRowAt
      <4> QED BY <4>1, <4>2
    <3>4. ownRows'[w][r].status = c.val
      BY <2>1, <3>3 DEF KeyedRow
    <3>5. at[w] \in UpdatesDone(w, rows[r].key)'
      BY <1>2, <1>14, <3>1, <1>1 DEF UpdatesDone
    <3>6. Max(UpdatesDone(w, rows[r].key)') = at[w]
      <4>1. UpdatesDone(w, rows[r].key)' \subseteq Nat
        BY <1>1, <1>14 DEF UpdatesDone
      <4>2. \A i \in UpdatesDone(w, rows[r].key)' : i <= at[w]
        BY <1>1, <1>2, <1>14 DEF UpdatesDone
      <4> QED BY <3>5, <4>1, <4>2, LastOfMax
    <3> QED BY <3>3, <3>4, <3>5, <3>6 DEF Current
  <2>4. CASE r \notin Targets(w)
    <3>1. r \in DOMAIN ownRows[w] /\ ownRows'[w][r] = ownRows[w][r]
      BY <1>9, <1>15, <2>4
    <3>2. rows[r].key # c.key
      BY <2>2, <2>4, <3>1, VisibleRowAt DEF Targets, RunsWithKey
    <3>3. UpdatesDone(w, rows[r].key)' = UpdatesDone(w, rows[r].key)
      BY <1>1, <1>2, <1>14, <3>2 DEF UpdatesDone
    <3> QED BY <1>6, <1>15, <3>1, <3>3 DEF ChangeHand
  <2> QED BY <2>3, <2>4
<1>16. ChangeHand(w)'
  BY <1>1, <1>15 DEF ChangeHand
<1>17. HandInv'
  BY <1>1, <1>2, <1>10, <1>11, <1>13, <1>16, OtherHandsStay DEF RowsInv
<1>18. RowIdInv'
  BY <1>1, <1>2, <1>7, <1>9 DEF RowsInv, RowIdInv
<1>19. RowLockInv'
  <2>1. \A v \in Workers \ {w} : Targets(w) \cap DOMAIN ownRows[v] = {}
    BY DEF UpdateStatus
  <2> QED BY <1>2, <1>9, <2>1 DEF RowsInv, RowLockInv
<1>20. RowKeyInv'
  <2>1. ASSUME NEW t, KeysApart(VisibleRows(w), t) PROVE KeysApart(new, t)
    BY <1>5, <1>7, <1>8, <2>1 DEF KeysApart
  <2>2. KeysApart(VisibleRows(w), rows)
    BY KeysStayApart DEF RowsInv, RowKeyInv, VisibleRows
  <2>3. ASSUME NEW v \in Workers PROVE KeysApart(VisibleRows(w), ownRows[v])
    <3>1. KeysApart(rows, ownRows[v])
      BY DEF RowsInv, RowKeyInv, KeysApart
    <3> QED BY <3>1, KeysStayApart DEF RowsInv, RowKeyInv, VisibleRows
  <2>4. KeysApart(new, new)
    <3>1. KeysApart(VisibleRows(w), VisibleRows(w))
      <4>1. KeysApart(ownRows[w], VisibleRows(w)) /\ KeysApart(rows, VisibleRows(w))
        BY <2>2, <2>3 DEF KeysApart
      <4> QED BY <4>1, KeysStayApart DEF VisibleRows
    <3>2. KeysApart(VisibleRows(w), new)
      BY <2>1, <3>1 DEF KeysApart
    <3> QED BY <2>1, <3>2
  <2> QED BY <1>1, <1>2, <2>1, <2>2, <2>3, <2>4, RowKeysStay DEF RowsInv
<1>21. RecordedOnce'
  BY <1>1 DEF RowsInv, RecordedOnce
<1> QED BY <1>3, <1>17, <1>18, <1>19, <1>20, <1>21 DEF RowsInv

LEMMA ClosedSession ==
    ASSUME RowsInv, NEW w \in Workers, CloseSession(w)
    PROVE  /\ \A v \in Workers \ {w} :
                UNCHANGED <<script[v], at[v], step[v], ownRows[v], told[v]>>
           /\ script'[w] = <<>> /\ at'[w] = 1 /\ step'[w] = "call"
           /\ ownRows'[w] = <<>> /\ told'[w] = {} /\ UNCHANGED nextRow
           /\ script' \in [Workers -> Scripts \cup {<<>>}]
           /\ step' \in [Workers -> {"call", "insert", "reselect"}]
           /\ DOMAIN at' = Workers /\ DOMAIN ownRows' = Workers /\ DOMAIN told' = Workers
           /\ HandType(w)' /\ PlaceHand(w)' /\ ToldHand(w)' /\ ChangeHand(w)'
<1>1. /\ script' = [script EXCEPT ![w] = <<>>] /\ at' = [at EXCEPT ![w] = 1]
      /\ step' = [step EXCEPT ![w] = "call"] /\ ownRows' = [ownRows EXCEPT ![w] = <<>>]
      /\ told' = [told EXCEPT ![w] = {}] /\ UNCHANGED nextRow
  BY DEF CloseSession
<1>2. /\ script' \in [Workers -> Scripts \cup {<<>>}]
      /\ step' \in [Workers -> {"call", "insert", "reselect"}]
      /\ DOMAIN at' = Workers /\ DOMAIN ownRows' = Workers /\ DOMAIN told' = Workers
  BY <1>1 DEF RowsInv, RowsType
<1>3. /\ script'[w] = <<>> /\ at'[w] = 1 /\ step'[w] = "call"
      /\ ownRows'[w] = <<>> /\ told'[w] = {}
  BY <1>1 DEF RowsInv, RowsType
<1>4. \A v \in Workers \ {w} : UNCHANGED <<script[v], at[v], step[v], ownRows[v], told[v]>>
  BY <1>1 DEF RowsInv, RowsType
<1>5. HandType(w)'
  BY <1>3, EmptyType DEF HandType, IsTable
<1>6. PlaceHand(w)' /\ ToldHand(w)' /\ ChangeHand(w)'
  BY <1>3, EmptyTable DEF PlaceHand, ToldHand, ChangeHand
<1> QED BY <1>1, <1>2, <1>3, <1>4, <1>5, <1>6

LEMMA AbortSessionRows ==
    ASSUME RowsInv, NEW w \in Workers, AbortSession(w)
    PROVE  RowsInv'
<1>1. CloseSession(w) /\ UNCHANGED <<rows, answers, creations>>
  BY DEF AbortSession
<1>2. /\ \A v \in Workers \ {w} : UNCHANGED <<script[v], at[v], step[v], ownRows[v], told[v]>>
      /\ ownRows'[w] = <<>> /\ UNCHANGED nextRow
  BY <1>1, ClosedSession
<1>3. RowsType'
  BY <1>1, ClosedSession DEF RowsInv, RowsType
<1>4. HandInv'
  <2>1. HandType(w)' /\ PlaceHand(w)' /\ ToldHand(w)' /\ ChangeHand(w)'
    BY <1>1, ClosedSession
  <2> QED BY <1>1, <1>2, <2>1, OtherHandsStay DEF RowsInv
<1>5. RowIdInv' /\ RowLockInv'
  BY <1>1, <1>2, EmptyTable DEF RowsInv, RowIdInv, RowLockInv
<1>6. RowKeyInv'
  BY <1>1, <1>2, EmptyApart DEF RowsInv, RowKeyInv
<1>7. RecordedOnce'
  BY <1>1 DEF RowsInv, RecordedOnce
<1> QED BY <1>3, <1>4, <1>5, <1>6, <1>7 DEF RowsInv

\* A commit adds the session's new rows, and changes no row's key.
LEMMA CommittedRows ==
    ASSUME RowsInv, NEW w \in Workers, rows' = VisibleRows(w)
    PROVE  /\ \A r : r \in DOMAIN rows' <=> r \in DOMAIN ownRows[w] \/ r \in DOMAIN rows
           /\ \A r \in DOMAIN ownRows[w] : rows'[r] = ownRows[w][r]
           /\ \A r \in DOMAIN rows : r \notin DOMAIN ownRows[w] => rows'[r] = rows[r]
           /\ \A r \in DOMAIN rows : r \in DOMAIN rows' /\ rows'[r].key = rows[r].key
<1>1. /\ \A r : r \in DOMAIN rows' <=> r \in DOMAIN ownRows[w] \/ r \in DOMAIN rows
      /\ \A r \in DOMAIN ownRows[w] : rows'[r] = ownRows[w][r]
      /\ \A r \in DOMAIN rows : r \notin DOMAIN ownRows[w] => rows'[r] = rows[r]
  BY VisibleRowAt
<1>2. ASSUME NEW r \in DOMAIN rows PROVE r \in DOMAIN rows' /\ rows'[r].key = rows[r].key
  <2>1. CASE r \in DOMAIN ownRows[w]
    <3>1. ownRows[w][r] = [rows[r] EXCEPT !.status = ownRows[w][r].status] /\ rows[r] \in KeyedRow
      BY <2>1 DEF RowsInv, RowsType, IsTable, IsPartial, HandInv, ChangeHand
    <3>2. ownRows[w][r].key = rows[r].key
      BY <3>1 DEF KeyedRow
    <3> QED BY <1>1, <2>1, <3>2
  <2>2. CASE r \notin DOMAIN ownRows[w]
    BY <1>1, <2>2
  <2> QED BY <2>1, <2>2
<1> QED BY <1>1, <1>2

\* The others' hands at a commit: the rows committed are not theirs.
LEMMA OtherHandsAtCommit ==
    ASSUME RowsInv, NEW w \in Workers, NEW v \in Workers \ {w}, rows' = VisibleRows(w),
           UNCHANGED <<script[v], at[v], step[v], ownRows[v], told[v]>>
    PROVE  HandType(v)' /\ PlaceHand(v)' /\ ToldHand(v)' /\ ChangeHand(v)'
<1>1. HandType(v) /\ PlaceHand(v) /\ ToldHand(v) /\ ChangeHand(v)
  BY DEF RowsInv, HandInv
<1>2. \A r \in DOMAIN ownRows[v] : r \notin DOMAIN ownRows[w]
  BY DEF RowsInv, RowLockInv
<1>3. HandType(v)' /\ PlaceHand(v)'
  BY <1>1 DEF HandType, PlaceHand, Busy, Current
<1>4. \A r \in DOMAIN ownRows[v] : /\ r \in DOMAIN rows' <=> r \in DOMAIN rows
                                   /\ r \in DOMAIN rows => rows'[r] = rows[r]
  BY <1>2, CommittedRows
<1>5. ToldHand(v)'
  <2>1. ASSUME NEW t \in told[v]
        PROVE  t.id \in DOMAIN VisibleRows(v)' /\ VisibleRows(v)'[t.id].key = t.key
    <3>1. t.id \in DOMAIN VisibleRows(v) /\ VisibleRows(v)[t.id].key = t.key
      BY <1>1 DEF ToldHand
    <3>2. VisibleRows(v)' = Overlaid(ownRows[v], rows')
      BY DEF VisibleRows
    <3>3. CASE t.id \in DOMAIN ownRows[v]
      BY <3>1, <3>2, <3>3, OverlaidAt, VisibleRowAt
    <3>4. CASE t.id \notin DOMAIN ownRows[v]
      <4>1. t.id \in DOMAIN rows /\ VisibleRows(v)[t.id] = rows[t.id]
        BY <3>1, <3>4, VisibleRowAt
      <4>2. t.id \in DOMAIN rows' /\ rows'[t.id].key = rows[t.id].key
        BY <4>1, CommittedRows
      <4> QED BY <3>1, <3>2, <3>4, <4>1, <4>2, OverlaidAt
    <3> QED BY <3>3, <3>4
  <2>2. \A t \in told[v] : t.created => t.id \in DOMAIN ownRows[v] /\ t.id \notin DOMAIN rows'
    BY <1>1, <1>4 DEF ToldHand
  <2>3. \A r \in DOMAIN ownRows[v] : r \notin DOMAIN rows' /\ ownRows[v][r].key # NoKey =>
            [key |-> ownRows[v][r].key, id |-> r, created |-> TRUE] \in told[v]
    BY <1>1, <1>4 DEF ToldHand
  <2> QED BY <2>1, <2>2, <2>3 DEF ToldHand
<1>6. ChangeHand(v)'
  <2>1. \A k : UpdatesDone(v, k)' = UpdatesDone(v, k)
    BY DEF UpdatesDone, UpdatesOf
  <2>2. \A r \in DOMAIN ownRows[v] : r \in DOMAIN rows' =>
            /\ ownRows[v][r] = [rows'[r] EXCEPT !.status = ownRows[v][r].status]
            /\ UpdatesDone(v, rows'[r].key) # {}
            /\ ownRows[v][r].status = script[v][Max(UpdatesDone(v, rows'[r].key))].val
    BY <1>1, <1>4 DEF ChangeHand
  <2> QED BY <2>1, <2>2 DEF ChangeHand
<1> QED BY <1>3, <1>5, <1>6

\* What a commit makes of RecordedOnce, the keys of the committed rows being apart.
LEMMA CommitRecordsOnce ==
    ASSUME RowsInv, NEW w \in Workers, rows' = VisibleRows(w), KeysApart(rows', rows'),
           answers' = answers \cup {<<t.key, t.id>> : t \in told[w]},
           creations' = [k \in RowKeys |->
                           creations[k] + Cardinality({t \in told[w] : t.key = k /\ t.created})]
    PROVE  RecordedOnce'
<1>1. ToldHand(w) /\ told[w] \subseteq Answer
  BY DEF RowsInv, HandInv, HandType
<1>2. \A k \in RowKeys : k # NoKey
  BY DEF RowKeys
<1>3. ASSUME NEW t \in told[w]
      PROVE  t.key \in RowKeys /\ RunsWithKey(rows', t.key) = {t.id}
  <2>1. t.key \in RowKeys /\ t.id \in RunsWithKey(rows', t.key)
    BY <1>1 DEF ToldHand, RunsWithKey, Answer
  <2> QED BY <1>2, <2>1, OneRowPerKey
<1>4. ASSUME NEW a \in answers'
      PROVE  RunsWithKey(rows', a[1]) = {a[2]}
  <2>1. CASE a \in answers
    <3>1. a[1] \in RowKeys /\ RunsWithKey(rows, a[1]) = {a[2]}
      BY <2>1 DEF RowsInv, RowsType, RecordedOnce
    <3>2. a[2] \in DOMAIN rows /\ rows[a[2]].key = a[1]
      BY <3>1 DEF RunsWithKey
    <3>3. a[2] \in RunsWithKey(rows', a[1])
      BY <3>2, CommittedRows DEF RunsWithKey
    <3> QED BY <1>2, <3>1, <3>3, OneRowPerKey
  <2>2. CASE \E t \in told[w] : a = <<t.key, t.id>>
    BY <1>3, <2>2
  <2> QED BY <2>1, <2>2
<1>5. \A a, b \in answers' : a[1] = b[1] => a[2] = b[2]
  BY <1>4
<1>6. ASSUME NEW k \in RowKeys
      PROVE  creations'[k] = Cardinality(RunsWithKey(rows', k))
  <2> DEFINE made == {t \in told[w] : t.key = k /\ t.created}
  <2>1. /\ creations'[k] = creations[k] + Cardinality(made)
        /\ creations[k] = Cardinality(RunsWithKey(rows, k)) /\ k # NoKey
    BY <1>2 DEF RowsInv, RecordedOnce
  <2>2. \A t \in made : /\ t.id \in DOMAIN ownRows[w] /\ t.id \notin DOMAIN rows
                        /\ t.id \in RunsWithKey(rows', k)
    BY <1>1 DEF ToldHand, RunsWithKey
  <2>3. CASE RunsWithKey(rows, k) # {}
    <3>1. PICK r \in RunsWithKey(rows, k) : TRUE
      BY <2>3
    <3>2. r \in DOMAIN rows /\ r \in RunsWithKey(rows', k)
      BY <3>1, CommittedRows DEF RunsWithKey
    <3>3. RunsWithKey(rows', k) = {r}
      BY <2>1, <3>2, OneRowPerKey
    <3>4. RunsWithKey(rows, k) = {r}
      BY <2>1, <3>1, OneRowPerKey DEF RowsInv, RowKeyInv
    <3>5. made = {}
      BY <2>2, <3>2, <3>3
    <3> HIDE DEF made
    <3>6. Cardinality(made) = 0
      BY <3>5, FS_EmptySet
    <3>7. Cardinality({r}) = 1
      BY FS_Singleton
    <3> QED BY <2>1, <3>3, <3>4, <3>6, <3>7
  <2>4. CASE RunsWithKey(rows, k) = {}
    <3>1. creations[k] = 0
      BY <2>1, <2>4, FS_EmptySet
    <3>2. \A r \in RunsWithKey(rows', k) :
             r \in DOMAIN ownRows[w] /\ r \notin DOMAIN rows /\ ownRows[w][r].key = k
      BY <2>4, CommittedRows DEF RunsWithKey
    <3>3. CASE RunsWithKey(rows', k) = {}
      <4>1. made = {}
        BY <2>2, <3>3
      <4> HIDE DEF made
      <4> QED BY <2>1, <3>1, <3>3, <4>1, FS_EmptySet
    <3>4. CASE RunsWithKey(rows', k) # {}
      <4>1. PICK r \in RunsWithKey(rows', k) : TRUE
        BY <3>4
      <4>2. RunsWithKey(rows', k) = {r}
        BY <2>1, <4>1, OneRowPerKey
      <4>3. [key |-> k, id |-> r, created |-> TRUE] \in made
        BY <1>1, <2>1, <3>2, <4>1 DEF ToldHand
      <4>4. \A t \in made : t = [key |-> k, id |-> r, created |-> TRUE]
        BY <1>1, <2>2, <4>2 DEF Answer
      <4>5. made = {[key |-> k, id |-> r, created |-> TRUE]}
        BY <4>3, <4>4
      <4>6. Cardinality(made) = 1
        BY <4>5, FS_Singleton
      <4>7. Cardinality(RunsWithKey(rows', k)) = 1
        BY <4>2, FS_Singleton
      <4> HIDE DEF made
      <4> QED BY <2>1, <3>1, <4>6, <4>7
    <3> QED BY <3>3, <3>4
  <2> QED BY <2>3, <2>4
<1> QED BY <1>4, <1>5, <1>6 DEF RecordedOnce

LEMMA CommitSessionRows ==
    ASSUME RowsInv, NEW w \in Workers, CommitSession(w)
    PROVE  RowsInv'
<1>1. /\ CloseSession(w) /\ rows' = VisibleRows(w)
      /\ answers' = answers \cup {<<t.key, t.id>> : t \in told[w]}
      /\ creations' = [k \in RowKeys |->
                         creations[k] + Cardinality({t \in told[w] : t.key = k /\ t.created})]
  BY DEF CommitSession
<1>2. /\ \A v \in Workers \ {w} : UNCHANGED <<script[v], at[v], step[v], ownRows[v], told[v]>>
      /\ ownRows'[w] = <<>> /\ UNCHANGED nextRow
  BY <1>1, ClosedSession
<1>3. KeysApart(VisibleRows(w), rows) /\ \A v \in Workers : KeysApart(VisibleRows(w), ownRows[v])
  <2>1. KeysApart(VisibleRows(w), rows)
    BY KeysStayApart DEF RowsInv, RowKeyInv, VisibleRows
  <2>2. ASSUME NEW v \in Workers PROVE KeysApart(VisibleRows(w), ownRows[v])
    <3>1. KeysApart(rows, ownRows[v])
      BY DEF RowsInv, RowKeyInv, KeysApart
    <3> QED BY <3>1, KeysStayApart DEF RowsInv, RowKeyInv, VisibleRows
  <2> QED BY <2>1, <2>2
<1>4. KeysApart(rows', rows')
  <2>1. KeysApart(ownRows[w], VisibleRows(w)) /\ KeysApart(rows, VisibleRows(w))
    BY <1>3 DEF KeysApart
  <2> QED BY <1>1, <2>1, KeysStayApart DEF VisibleRows
<1>5. RowKeyInv'
  <2>1. \A v \in Workers \ {w} : KeysApart(ownRows'[v], rows')
    BY <1>1, <1>2, <1>3 DEF KeysApart
  <2> QED BY <1>2, <1>4, <2>1, EmptyApart DEF RowsInv, RowKeyInv
<1>6. HandInv'
  <2>1. HandType(w)' /\ PlaceHand(w)' /\ ToldHand(w)' /\ ChangeHand(w)'
    BY <1>1, ClosedSession
  <2>2. \A v \in Workers \ {w} : HandType(v)' /\ PlaceHand(v)' /\ ToldHand(v)' /\ ChangeHand(v)'
    BY <1>1, <1>2, OtherHandsAtCommit
  <2> QED BY <2>1, <2>2 DEF HandInv
<1>7. RowIdInv'
  BY <1>1, <1>2, CommittedRows, EmptyTable DEF RowsInv, RowIdInv
<1>8. RowLockInv'
  BY <1>2, EmptyTable DEF RowsInv, RowLockInv
<1>9. RecordedOnce'
  BY <1>1, <1>4, CommitRecordsOnce
<1>10. RowsType'
  <2>1. IsTable(rows')
    BY <1>1, OverlaidType DEF RowsInv, RowsType, HandInv, HandType, IsTable, VisibleRows
  <2>2. answers' \subseteq RowKeys \X RowIds
    <3>1. \A t \in told[w] : t.key \in RowKeys /\ t.id \in RowIds
      BY DEF RowsInv, HandInv, HandType, Answer
    <3> QED BY <1>1, <3>1 DEF RowsInv, RowsType
  <2>3. creations' \in [RowKeys -> Nat]
    <3>1. ASSUME NEW k \in RowKeys PROVE creations'[k] \in Nat
      <4>1. creations'[k] = Cardinality(RunsWithKey(rows', k)) /\ k # NoKey
        BY <1>9 DEF RecordedOnce, RowKeys
      <4>2. CASE RunsWithKey(rows', k) = {}
        BY <4>1, <4>2, FS_EmptySet
      <4>3. CASE RunsWithKey(rows', k) # {}
        <5>1. PICK r \in RunsWithKey(rows', k) : TRUE
          BY <4>3
        <5>2. RunsWithKey(rows', k) = {r}
          BY <1>4, <4>1, <5>1, OneRowPerKey
        <5>3. Cardinality({r}) = 1
          BY FS_Singleton
        <5> QED BY <4>1, <5>2, <5>3
      <4> QED BY <4>2, <4>3
    <3> QED BY <1>1, <3>1
  <2> QED BY <1>1, <1>2, <2>1, <2>2, <2>3, ClosedSession DEF RowsInv, RowsType
<1> QED BY <1>5, <1>6, <1>7, <1>8, <1>9, <1>10 DEF RowsInv

LEMMA StepRows == RowsInv /\ [RecNext]_allVars => RowsInv'
<1> SUFFICES ASSUME RowsInv, [RecNext]_allVars PROVE RowsInv'
  OBVIOUS
<1>1. CASE UNCHANGED recVars
  <2>1. UNCHANGED <<rows, nextRow, script, at, step, ownRows, told, answers, creations>>
    BY <1>1 DEF recVars
  <2>2. RowsType'
    BY <2>1 DEF RowsInv, RowsType
  <2>3. HandInv'
    <3> SUFFICES ASSUME NEW v \in Workers
                 PROVE  HandType(v)' /\ PlaceHand(v)' /\ ToldHand(v)' /\ ChangeHand(v)'
      BY DEF HandInv
    <3>1. \A k : UpdatesDone(v, k)' = UpdatesDone(v, k)
      BY <2>1 DEF UpdatesDone, UpdatesOf
    <3>2. HandType(v)' /\ PlaceHand(v)'
      BY <2>1 DEF RowsInv, HandInv, HandType, PlaceHand, Busy, Current
    <3>3. ToldHand(v)'
      BY <2>1 DEF RowsInv, HandInv, ToldHand, VisibleRows
    <3>4. ChangeHand(v)'
      BY <2>1, <3>1 DEF RowsInv, HandInv, ChangeHand
    <3> QED BY <3>2, <3>3, <3>4
  <2>4. RowIdInv' /\ RowLockInv' /\ RowKeyInv' /\ RecordedOnce'
    BY <2>1 DEF RowsInv, RowIdInv, RowLockInv, RowKeyInv, RecordedOnce
  <2> QED BY <2>2, <2>3, <2>4 DEF RowsInv
<1>2. CASE RecordNext
  <2>1. PICK w \in Workers :
          (\E s \in Scripts : Open(w, s)) \/ RecStep(w) \/ AbortSession(w) \/ DeadlockVictim(w)
    BY <1>2 DEF RecordNext
  <2>2. CASE \E s \in Scripts : Open(w, s)
    BY <2>2, OpenRows
  <2>3. CASE RecStep(w)
    BY <2>3, FindRows, MissRows, InsertRowRows, UpdateStatusRows, CommitSessionRows DEF RecStep
  <2>4. CASE AbortSession(w) \/ DeadlockVictim(w)
    <3>1. AbortSession(w)
      BY <2>4 DEF DeadlockVictim
    <3> QED BY <3>1, AbortSessionRows
  <2> QED BY <2>1, <2>2, <2>3, <2>4
<1>3. UNCHANGED recVars \/ RecordNext
  BY DEF RecNext, ScanNext, allVars
<1> QED BY <1>1, <1>2, <1>3

(***************************************************************************)
(* Orders, events and trainings beside the scans leave the scans what they *)
(* are: all that is proved of Spec holds of RecSpec.                       *)
(***************************************************************************)
THEOREM RecordsLeaveScansAlone == RecSpec => Spec
<1>1. RecInit => Init
  BY DEF RecInit
<1>2. [RecNext]_allVars => [Next]_vars
  <2> SUFFICES ASSUME [RecNext]_allVars PROVE [Next]_vars
    OBVIOUS
  <2>1. CASE ScanNext
    BY <2>1 DEF ScanNext, Next
  <2>2. CASE RecordNext
    BY <2>2 DEF RecordNext
  <2>3. CASE UNCHANGED allVars
    BY <2>3 DEF allVars
  <2> QED BY <2>1, <2>2, <2>3 DEF RecNext
<1>3. RecFairness => Fairness
  BY PTL DEF RecFairness
<1> QED BY <1>1, <1>2, <1>3, PTL DEF RecSpec, Spec

(***************************************************************************)
(* The invariant of the tables found by a key of the caller.               *)
(***************************************************************************)
THEOREM RowsInvariant == RecSpec => []RowsInv
<1>1. RecInit => RowsInv
  BY InitRows
<1>2. RowsInv /\ [RecNext]_allVars => RowsInv'
  BY StepRows
<1> QED BY <1>1, <1>2, PTL DEF RecSpec

(***************************************************************************)
(* Every variable of scans and records stays in its type.                  *)
(***************************************************************************)
THEOREM RecordTypes == RecSpec => []RecTypeOK
<1>1. RunsInv /\ RowsInv => RecTypeOK
  BY DEF RunsInv, RowsInv, RowsType, HandInv, HandType, RecTypeOK
<1> QED BY <1>1, RunsInvariant, RecordsLeaveScansAlone, RowsInvariant, PTL

(***************************************************************************)
(* _idempotent_insert.py:8-11, across races, deadlocks, failures and       *)
(* retries: a key has one row, every committed caller was given its id,    *)
(* and exactly one of them was told that it created it.                    *)
(***************************************************************************)
THEOREM KeysAreRecordedOnce == RecSpec => []RecordedOnce
<1>1. RowsInv => RecordedOnce
  BY DEF RowsInv
<1> QED BY <1>1, RowsInvariant, PTL

(***************************************************************************)
(* Retried submissions take nothing back: a committed row changes in its   *)
(* status only, to what the last update of the committing transaction says.*)
(***************************************************************************)
THEOREM RowsChangeByUpdatesOnly == RecSpec => OnlyUpdatesChange
<1> DEFINE Changed(r) ==
      /\ rows'[r] = [rows[r] EXCEPT !.status = rows'[r].status]
      /\ \E w \in Workers :
            /\ Done(w) /\ script'[w] = <<>>
            /\ UpdatesOf(w, rows[r].key) # {}
            /\ rows'[r].status = script[w][Max(UpdatesOf(w, rows[r].key))].val
<1>1. ASSUME RowsInv, [RecNext]_allVars, NEW r \in DOMAIN rows, rows'[r] # rows[r]
      PROVE  Changed(r)
  <2>1. PICK w \in Workers : CommitSession(w)
    <3>1. ~ UNCHANGED recVars
      BY <1>1 DEF recVars
    <3>2. RecordNext
      BY <1>1, <3>1 DEF RecNext, ScanNext, allVars
    <3>3. PICK w \in Workers :
            (\E s \in Scripts : Open(w, s)) \/ RecStep(w) \/ AbortSession(w) \/ DeadlockVictim(w)
      BY <3>2 DEF RecordNext
    <3>4. \A s \in Scripts : Open(w, s) => UNCHANGED rows
      BY DEF Open
    <3>5. Find(w) \/ Miss(w) \/ InsertRow(w) \/ UpdateStatus(w) => UNCHANGED rows
      BY DEF Find, Miss, InsertRow, UpdateStatus
    <3>6. AbortSession(w) \/ DeadlockVictim(w) => UNCHANGED rows
      BY DEF AbortSession, DeadlockVictim
    <3> QED BY <1>1, <3>3, <3>4, <3>5, <3>6 DEF RecStep
  <2>2. Done(w) /\ CloseSession(w) /\ rows' = VisibleRows(w)
    BY <2>1 DEF CommitSession
  <2>3. r \in DOMAIN ownRows[w] /\ rows'[r] = ownRows[w][r]
    BY <1>1, <2>2, VisibleRowAt
  <2>4. /\ ownRows[w][r] = [rows[r] EXCEPT !.status = ownRows[w][r].status]
        /\ UpdatesDone(w, rows[r].key) # {}
        /\ ownRows[w][r].status = script[w][Max(UpdatesDone(w, rows[r].key))].val
    BY <1>1, <2>3 DEF RowsInv, HandInv, ChangeHand
  <2>5. UpdatesDone(w, rows[r].key) = UpdatesOf(w, rows[r].key)
    <3>1. script[w] \in Scripts \cup {<<>>} /\ at[w] \in 1..(Len(script[w]) + 1)
      BY <1>1 DEF RowsInv, RowsType, HandInv, HandType
    <3>2. Len(script[w]) \in Nat /\ DOMAIN script[w] = 1..Len(script[w])
      BY <3>1, ScriptsAreSequences
    <3>3. at[w] \in Nat /\ at[w] > Len(script[w])
      BY <2>2, <3>1, <3>2 DEF Done
    <3> QED BY <3>2, <3>3 DEF UpdatesDone, UpdatesOf
  <2>6. script'[w] = <<>>
    BY <1>1, <2>2, ClosedSession
  <2> QED BY <2>2, <2>3, <2>4, <2>5, <2>6
<1>2. RowsInv /\ [RecNext]_allVars =>
        [\A r \in DOMAIN rows : rows'[r] # rows[r] => Changed(r)]_allVars
  BY <1>1
<1> QED BY <1>2, RowsInvariant, PTL DEF RecSpec, OnlyUpdatesChange
=============================================================================
