------------------------------ MODULE BarIngest ------------------------------
(***************************************************************************)
(* MarketBarIngestor.ingest_candles over the revision store: each run first *)
(* does InstrumentRepository.get_or_create, whose ON CONFLICT DO UPDATE    *)
(* locks the instrument's row until the caller's transaction ends, and only *)
(* then fetches, reads the clock and appends.  Nothing in the ingestor says *)
(* so, but this lock is what makes one writer per instrument: what         *)
(* append_revision_rows assumes of its callers, the bars' path enforces.   *)
(***************************************************************************)
EXTENDS RevisionStore

CONSTANTS
    Instruments,    \* (exchange, symbol) pairs
    InstrumentOf    \* the instrument each bar belongs to

ASSUME InstrumentOfAssumption == InstrumentOf \in [Events -> Instruments]

VARIABLES
    instruments,    \* committed rows of the instruments table
    locked,         \* locked[w]: instrument rows w's transaction has inserted or updated
    current         \* current[w]: {the instrument of the run in progress}, or {}

barVars == <<clock, table, own, phase, stamp, todo, pending, instruments, locked, current>>

ingestVars == <<instruments, locked, current>>

BarTypeOK ==
    /\ TypeOK
    /\ instruments \subseteq Instruments
    /\ locked \in [Writers -> SUBSET Instruments]
    /\ current \in [Writers -> {{}} \cup {{i} : i \in Instruments}]

BarInit ==
    /\ Init
    /\ instruments = {}
    /\ locked = [w \in Writers |-> {}]
    /\ current = [w \in Writers |-> {}]

\* Mutant: the instrument is looked up without locking its row.
GetOrCreateUnlocked(w, i) ==
    /\ phase[w] = "open"
    /\ current[w] = {}
    /\ locked' = [locked EXCEPT ![w] = @ \cup {i}]
    /\ current' = [current EXCEPT ![w] = {i}]
    /\ UNCHANGED <<vars, instruments>>

\* Inserts the instrument or touches updated_at; waits while another transaction holds it.
GetOrCreate(w, i) ==
    /\ phase[w] = "open"
    /\ current[w] = {}
    /\ \A v \in Writers \ {w} : i \notin locked[v]
    /\ locked' = [locked EXCEPT ![w] = @ \cup {i}]
    /\ current' = [current EXCEPT ![w] = {i}]
    /\ UNCHANGED <<vars, instruments>>

GetCandles(w, batch) ==
    /\ current[w] # {}
    /\ \A k \in DOMAIN batch : InstrumentOf[batch[k].ev] \in current[w]
    /\ Fetch(w, batch)
    /\ UNCHANGED ingestVars

\* Mutant: the run forgets the instrument it created, and its lock, when it returns.
BarReturnReleases(w) ==
    /\ Return(w)
    /\ current' = [current EXCEPT ![w] = {}]
    /\ locked' = [locked EXCEPT ![w] = {}]
    /\ UNCHANGED instruments

BarReturn(w) ==
    /\ Return(w)
    /\ current' = [current EXCEPT ![w] = {}]
    /\ UNCHANGED <<instruments, locked>>

Release(w) ==
    /\ locked' = [locked EXCEPT ![w] = {}]
    /\ current' = [current EXCEPT ![w] = {}]

BarCommit(w) ==
    /\ current[w] = {}
    /\ Commit(w)
    /\ instruments' = instruments \cup locked[w]
    /\ Release(w)

BarRollback(w) ==
    /\ Rollback(w)
    /\ Release(w)
    /\ UNCHANGED instruments

BarNext ==
    \/ Tick /\ UNCHANGED ingestVars
    \/ \E w \in Writers :
        \/ Begin(w) /\ UNCHANGED ingestVars
        \/ \E i \in Instruments : GetOrCreate(w, i)
        \/ \E batch \in Batches : GetCandles(w, batch)
        \/ StartInsert(w) /\ UNCHANGED ingestVars
        \/ FinishInsert(w) /\ UNCHANGED ingestVars
        \/ BarReturn(w)
        \/ BarCommit(w)
        \/ BarRollback(w)

BarSpec == BarInit /\ [][BarNext]_barVars

-----------------------------------------------------------------------------
(***************************************************************************)
(* app/db/upsert.py:94-96 assumes one writer per logical event and nothing *)
(* there enforces it.  For bars it holds: among all rows, committed or not, *)
(* the revisions of a bar are distinct and ordered like their stamps, so   *)
(* "revision" and "available_at" never disagree on which one is newer.     *)
(***************************************************************************)
RevisionsFollowStamps ==
    \A r, s \in AllRows : r.ev = s.ev /\ r.avail < s.avail => r.rev < s.rev

(***************************************************************************)
(* A commit only adds revisions newer than every committed revision of     *)
(* their bar: what was committed last is what a current reader gets, even  *)
(* though the clock is read long before the commit.                        *)
(***************************************************************************)
BarsCommitInOrder ==
    [][\A r \in table' \ table, s \in table :
          r.ev = s.ev => s.avail < r.avail /\ s.rev < r.rev]_barVars

(***************************************************************************)
(* Every visible bar belongs to an instrument that exists for the reader,  *)
(* whichever transaction created it and however the others ended.          *)
(***************************************************************************)
BarsHaveInstruments ==
    /\ \A r \in table : InstrumentOf[r.ev] \in instruments
    /\ \A w \in Writers : \A r \in own[w] : InstrumentOf[r.ev] \in instruments \cup locked[w]

=============================================================================
