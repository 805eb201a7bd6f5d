---------------------------- MODULE RevisionStore ----------------------------
(***************************************************************************)
(* The append-only revision tables (market_bars, news_events,              *)
(* disclosure_events) as PostgreSQL sessions at READ COMMITTED use them:   *)
(* ingestor runs that read the clock, then append one revision per row     *)
(* (app/db/upsert.py), commit or roll back as a unit (app/db/engine.py),   *)
(* and point-in-time reads (app/db/repositories/_revisions.py).            *)
(*                                                                         *)
(* ingested_at is left out: every ingestor gives it the value of           *)
(* available_at, and an exact resubmission rewrites it with the same value. *)
(***************************************************************************)
EXTENDS Naturals, Sequences, FiniteSets, FiniteSetsExt

CONSTANTS
    Writers,    \* sessions that ingest
    Events,     \* logical keys
    Values,     \* the other columns of a row
    MaxTime,    \* bound on the clock
    MaxBatch    \* bound on the rows of one ingestor run

ASSUME BoundsAssumption == MaxTime \in Nat \ {0} /\ MaxBatch \in Nat

VARIABLES
    clock,      \* wall-clock time, in units the columns distinguish
    table,      \* committed rows
    own,        \* own[w]: rows written by w's open transaction
    phase,      \* "idle", "open" (in a transaction) or "append" (rows to write)
    stamp,      \* stamp[w]: the run's `now`, 0 before it is read
    todo,       \* todo[w]: the rows of the run still to be written
    pending     \* pending[w]: the revision of the statement in progress, 0 if none

vars == <<clock, table, own, phase, stamp, todo, pending>>

Times == 1..MaxTime
Item  == [ev : Events, val : Values]
Row   == [ev : Events, val : Values, avail : Times, rev : Nat \ {0}]

Batches == UNION {[1..n -> Item] : n \in 0..MaxBatch}

TypeOK ==
    /\ clock \in Times
    /\ table \subseteq Row
    /\ own \in [Writers -> SUBSET Row]
    /\ phase \in [Writers -> {"idle", "open", "append"}]
    /\ stamp \in [Writers -> 0..MaxTime]
    /\ todo \in [Writers -> Seq(Item)]
    /\ pending \in [Writers -> Nat]

\* The rows a statement of w sees: those committed, and its own.
Visible(w) == table \cup own[w]

-----------------------------------------------------------------------------
(* The read: filter, then DISTINCT ON the logical key.                      *)

Matching(rows, keys, vals, asOf) ==
    {r \in rows : r.ev \in keys /\ r.val \in vals /\ r.avail <= asOf}

Outranks(r, s) == r.avail > s.avail \/ (r.avail = s.avail /\ r.rev >= s.rev)

LatestPerEvent(rows) == {r \in rows : \A s \in rows : s.ev = r.ev => Outranks(r, s)}

SelectAsOf(rows, keys, vals, asOf) == LatestPerEvent(Matching(rows, keys, vals, asOf))

-----------------------------------------------------------------------------
(* append_revision_rows                                                     *)

Revisions(rows, e) == {r.rev : r \in {s \in rows : s.ev = e}}

\* Mutant: the subquery is not restricted to the row's key.
NextRevisionOfAny(rows, e) == Max({r.rev : r \in rows} \cup {0}) + 1

\* coalesce(max(revision), 0) + 1
NextRevision(rows, e) == Max(Revisions(rows, e) \cup {0}) + 1

SameSlot(r, e, t) == r.ev = e /\ r.avail = t

Init ==
    /\ clock = 1
    /\ table = {}
    /\ own = [w \in Writers |-> {}]
    /\ phase = [w \in Writers |-> "idle"]
    /\ stamp = [w \in Writers |-> 0]
    /\ todo = [w \in Writers |-> <<>>]
    /\ pending = [w \in Writers |-> 0]

Tick ==
    /\ clock < MaxTime
    /\ clock' = clock + 1
    /\ UNCHANGED <<table, own, phase, stamp, todo, pending>>

Begin(w) ==
    /\ phase[w] = "idle"
    /\ phase' = [phase EXCEPT ![w] = "open"]
    /\ UNCHANGED <<clock, table, own, stamp, todo, pending>>

\* Mutant: rows are stamped ahead of the clock that was read.
FetchStampsAhead(w, batch) ==
    /\ phase[w] = "open"
    /\ phase' = [phase EXCEPT ![w] = "append"]
    /\ stamp' = [stamp EXCEPT ![w] = clock + 1]
    /\ todo' = [todo EXCEPT ![w] = batch]
    /\ UNCHANGED <<clock, table, own, pending>>

\* Mutant: rows are stamped with the time of the event instead of now.
FetchStampsEventTime(w, batch) ==
    /\ phase[w] = "open"
    /\ phase' = [phase EXCEPT ![w] = "append"]
    /\ stamp' = [stamp EXCEPT ![w] = 1]
    /\ todo' = [todo EXCEPT ![w] = batch]
    /\ UNCHANGED <<clock, table, own, pending>>

\* An ingestor run: the provider has answered, the clock is read once for all rows.
Fetch(w, batch) ==
    /\ phase[w] = "open"
    /\ phase' = [phase EXCEPT ![w] = "append"]
    /\ stamp' = [stamp EXCEPT ![w] = clock]
    /\ todo' = [todo EXCEPT ![w] = batch]
    /\ UNCHANGED <<clock, table, own, pending>>

\* The statement takes its snapshot: the subquery's revision is fixed here.
StartInsert(w) ==
    /\ phase[w] = "append"
    /\ todo[w] # <<>>
    /\ pending[w] = 0
    /\ pending' = [pending EXCEPT ![w] = NextRevision(Visible(w), Head(todo[w]).ev)]
    /\ UNCHANGED <<clock, table, own, phase, stamp, todo>>

\* Mutant: no ON CONFLICT clause over (key, available_at).
FinishInsertDuplicates(w) ==
    LET item == Head(todo[w])
        row  == [ev |-> item.ev, val |-> item.val, avail |-> stamp[w], rev |-> pending[w]]
    IN  /\ pending[w] # 0
        /\ own' = [own EXCEPT ![w] = @ \cup {row}]
        /\ todo' = [todo EXCEPT ![w] = Tail(@)]
        /\ pending' = [pending EXCEPT ![w] = 0]
        /\ UNCHANGED <<clock, table, phase, stamp>>

\* It waits for another transaction holding the same (key, available_at), then
\* inserts, or finds the row there and leaves its values alone.
FinishInsert(w) ==
    LET item == Head(todo[w])
        row  == [ev |-> item.ev, val |-> item.val, avail |-> stamp[w], rev |-> pending[w]]
    IN  /\ pending[w] # 0
        /\ \A v \in Writers \ {w} : \A r \in own[v] : ~SameSlot(r, item.ev, stamp[w])
        /\ own' = [own EXCEPT ![w] =
                     IF \E r \in Visible(w) : SameSlot(r, item.ev, stamp[w])
                     THEN @ ELSE @ \cup {row}]
        /\ todo' = [todo EXCEPT ![w] = Tail(@)]
        /\ pending' = [pending EXCEPT ![w] = 0]
        /\ UNCHANGED <<clock, table, phase, stamp>>

\* The run returns its IngestResult; the session may be used for another run.
Return(w) ==
    /\ phase[w] = "append"
    /\ todo[w] = <<>>
    /\ phase' = [phase EXCEPT ![w] = "open"]
    /\ stamp' = [stamp EXCEPT ![w] = 0]
    /\ UNCHANGED <<clock, table, own, todo, pending>>

Close(w) ==
    /\ own' = [own EXCEPT ![w] = {}]
    /\ phase' = [phase EXCEPT ![w] = "idle"]
    /\ stamp' = [stamp EXCEPT ![w] = 0]
    /\ todo' = [todo EXCEPT ![w] = <<>>]
    /\ pending' = [pending EXCEPT ![w] = 0]
    /\ UNCHANGED clock

\* Mutant: a correction replaces the event's earlier revisions.
CommitReplaces(w) ==
    /\ phase[w] = "open"
    /\ table' = {r \in table : \A s \in own[w] : s.ev # r.ev} \cup own[w]
    /\ Close(w)

Commit(w) ==
    /\ phase[w] = "open"
    /\ table' = table \cup own[w]
    /\ Close(w)

\* An exception in the block, a deadlock victim, a lost connection or a crash.
Rollback(w) ==
    /\ phase[w] # "idle"
    /\ Close(w)
    /\ UNCHANGED table

Next ==
    \/ Tick
    \/ \E w \in Writers :
        \/ Begin(w)
        \/ \E batch \in Batches : Fetch(w, batch)
        \/ StartInsert(w)
        \/ FinishInsert(w)
        \/ Return(w)
        \/ Commit(w)
        \/ Rollback(w)

Spec == Init /\ [][Next]_vars

-----------------------------------------------------------------------------
AllRows == table \cup UNION {own[w] : w \in Writers}

(***************************************************************************)
(* An event never has two rows with one available_at, committed or not, so *)
(* DISTINCT ON ... ORDER BY available_at has one answer: a read never      *)
(* depends on the revision numbers, which concurrent appends may share.    *)
(***************************************************************************)
OneRowPerSlot ==
    \A r, s \in AllRows : r.ev = s.ev /\ r.avail = s.avail => r = s

(***************************************************************************)
(* The committed revisions of an event, and what a writer sees of them,    *)
(* are numbered 1..n without a gap, through rollbacks and concurrent       *)
(* appends that take the same number.                                      *)
(***************************************************************************)
GapFree(rows) ==
    \A r \in rows : \A n \in 1..r.rev : \E s \in rows : s.ev = r.ev /\ s.rev = n

RevisionsGapFree == GapFree(table) /\ \A w \in Writers : GapFree(Visible(w))

(***************************************************************************)
(* t is settled when the clock has passed it and every open transaction's  *)
(* stamps lie after it.                                                    *)
(***************************************************************************)
Settled ==
    {t \in Times :
        /\ t < clock
        /\ \A w \in Writers : (stamp[w] # 0 => t < stamp[w]) /\ \A r \in own[w] : t < r.avail}

(***************************************************************************)
(* A query as of a settled instant returns the same rows for ever, for any *)
(* filters: corrections, rollbacks and late commits never reach back.      *)
(***************************************************************************)
ReadsReproducible ==
    [][\A t \in Settled, keys \in SUBSET Events, vals \in SUBSET Values :
          SelectAsOf(table', keys, vals, t) = SelectAsOf(table, keys, vals, t)]_vars

(***************************************************************************)
(* The tables implement the abstract timeline: what is committed is the    *)
(* published history, and Settled is what is settled.                      *)
(***************************************************************************)
PublishedFacts == {[ev |-> r.ev, val |-> r.val, at |-> r.avail] : r \in table}

TL == INSTANCE Timeline WITH facts <- PublishedFacts, settled <- Settled

Refinement == TL!TSpec

(***************************************************************************)
(* app/db/repositories/_revisions.py:5-6: a read picks, per logical event, *)
(* the revision with the greatest available_at <= as_of - here for filters *)
(* on columns that are not part of the logical key, as get_news_as_of      *)
(* (related_symbols, event_time) and get_disclosures_as_of use.            *)
(***************************************************************************)
FilteredReadPicksLatest ==
    \A t \in Times, vals \in SUBSET Values :
        SelectAsOf(table, Events, vals, t) \subseteq SelectAsOf(table, Events, Values, t)

(***************************************************************************)
(* docs/architecture/0008-data-platform.md:9-10: re-ingesting the same     *)
(* event twice never creates a duplicate row.  A run of an ingestor stamps *)
(* whatever the provider returns with its own `now`, so a poll that gets   *)
(* the same item again appends it again.                                   *)
(***************************************************************************)
ReingestingAddsNoRow ==
    \A r, s \in table : r.ev = s.ev /\ s.rev = r.rev + 1 => r.val # s.val
=============================================================================
