--------------------------- MODULE ObservedEvents ---------------------------
(***************************************************************************)
(* The tables written by upsert_event_rows: one row per natural key.  In   *)
(* "update" mode (orderbook_snapshots, signals, positions,                 *)
(* account_snapshots, ai_context_annotations) a later observation          *)
(* overwrites the row in place, but for its available_at; in "nothing"     *)
(* mode (trade_ticks) a later observation is dropped.                      *)
(*                                                                         *)
(* A bulk statement waits until no other open transaction holds a row of   *)
(* its keys; taking its locks one by one would add only deadlocks, which   *)
(* PostgreSQL ends by rolling one transaction back.                        *)
(***************************************************************************)
EXTENDS Naturals, Sequences, FiniteSets

CONSTANTS
    Writers,    \* sessions that write observations
    Ticks,      \* natural keys of the table in "nothing" mode
    Snapshots,  \* natural keys of a table in "update" mode
    Values,     \* the value columns of a row: records
    MaxTime,    \* bound on the clock
    MaxBatch    \* bound on the rows of one call

ASSUME ObservedAssumption ==
    /\ Ticks \cap Snapshots = {}
    /\ MaxTime \in Nat \ {0}
    /\ MaxBatch \in Nat

VARIABLES
    clock,
    table,      \* committed rows: key -> row, for the keys that have one
    own,        \* own[w]: the rows w's open transaction has inserted or updated
    phase,      \* "idle", "open" or "write" (observed, not yet written)
    stamp,      \* stamp[w]: available_at of the observations in hand, 0 if none
    batch       \* batch[w]: the observations in hand

vars == <<clock, table, own, phase, stamp, batch>>

Keys  == Ticks \cup Snapshots
Times == 1..MaxTime
Item  == [key : Keys, val : Values, ing : Times]

\* val may mix the columns of several observations.
Row(r) == DOMAIN r = {"val", "avail", "ing"} /\ {r.avail, r.ing} \subseteq Times

Rows(t) == DOMAIN t \subseteq Keys /\ \A k \in DOMAIN t : Row(t[k])

\* One call writes one table, and what it writes has just been observed.
ItemsOf(keys, t) == UNION {[1..n -> [key : keys, val : Values, ing : {t}]] : n \in 0..MaxBatch}
Batches(t) == ItemsOf(Ticks, t) \cup ItemsOf(Snapshots, t)

KeysOf(b) == {b[i].key : i \in DOMAIN b}

TypeOK ==
    /\ clock \in Times
    /\ Rows(table)
    /\ DOMAIN own = Writers /\ DOMAIN batch = Writers
    /\ \A w \in Writers : Rows(own[w])
    /\ phase \in [Writers -> {"idle", "open", "write"}]
    /\ stamp \in [Writers -> 0..MaxTime]
    /\ \A w \in Writers : KeysOf(batch[w]) \subseteq Keys /\ Len(batch[w]) <= MaxBatch

\* Where both have a row, the new one hides the old one.
Overlaid(new, old) ==
    [k \in DOMAIN new \cup DOMAIN old |-> IF k \in DOMAIN new THEN new[k] ELSE old[k]]

Visible(w) == Overlaid(own[w], table)

HasDuplicates(b) == Cardinality(KeysOf(b)) # Len(b)

\* The observation of k that a statement proposes first.
Proposed(b, k) == b[CHOOSE i \in DOMAIN b : b[i].key = k /\ \A j \in 1..(i - 1) : b[j].key # k]

\* The columns the repositories pass as update_columns: a table's own, or an annotation's.
\* Of the tables with a raw_payload, only account_snapshots lists it.
UpdateColumns == {"values", "status", "output", "parse_error"}

-----------------------------------------------------------------------------
Init ==
    /\ clock = 1
    /\ table = <<>>
    /\ own = [w \in Writers |-> <<>>]
    /\ phase = [w \in Writers |-> "idle"]
    /\ stamp = [w \in Writers |-> 0]
    /\ batch = [w \in Writers |-> <<>>]

Tick ==
    /\ clock < MaxTime
    /\ clock' = clock + 1
    /\ UNCHANGED <<table, own, phase, stamp, batch>>

Begin(w) ==
    /\ phase[w] = "idle"
    /\ phase' = [phase EXCEPT ![w] = "open"]
    /\ UNCHANGED <<clock, table, own, stamp, batch>>

\* available_at and ingested_at are both the moment of observation.
Observe(w, b) ==
    /\ phase[w] = "open"
    /\ phase' = [phase EXCEPT ![w] = "write"]
    /\ stamp' = [stamp EXCEPT ![w] = clock]
    /\ batch' = [batch EXCEPT ![w] = b]
    /\ UNCHANGED <<clock, table, own>>

\* Mutant: the errors of an annotation are left as they were.
OverwrittenButError(old, new) ==
    [c \in DOMAIN new |-> IF c \in UpdateColumns \ {"parse_error"} THEN new[c] ELSE old[c]]

\* DO UPDATE SET writes the listed columns.
Overwritten(old, new) ==
    [c \in DOMAIN new |-> IF c \in UpdateColumns THEN new[c] ELSE old[c]]

\* Mutant: available_at is overwritten with the rest of the row.
MergedRestamps(w, k) ==
    LET it == Proposed(batch[w], k)
    IN  [val |-> it.val, avail |-> stamp[w], ing |-> it.ing]

\* The row key k ends up with: ON CONFLICT sets ingested_at but keeps available_at.
Merged(w, k) ==
    LET it == Proposed(batch[w], k)
    IN  IF k \in DOMAIN Visible(w)
        THEN [Visible(w)[k] EXCEPT !.val = Overwritten(@, it.val), !.ing = it.ing]
        ELSE [val |-> it.val, avail |-> stamp[w], ing |-> it.ing]

\* Mutant: DO NOTHING is lost, existing rows are written too.
WrittenAlways(w) == KeysOf(batch[w])

\* The rows a statement inserts or updates: no tick that is already there.
Written(w) == KeysOf(batch[w]) \ (Ticks \cap DOMAIN Visible(w))

\* upsert_event_rows: DO UPDATE cannot touch a row twice in one statement.
Upsert(w) ==
    /\ phase[w] = "write"
    /\ HasDuplicates(batch[w]) => KeysOf(batch[w]) \subseteq Ticks
    /\ \A v \in Writers \ {w} : KeysOf(batch[w]) \cap DOMAIN own[v] = {}
    /\ own' = [own EXCEPT ![w] = Overlaid([k \in Written(w) |-> Merged(w, k)], @)]
    /\ phase' = [phase EXCEPT ![w] = "open"]
    /\ stamp' = [stamp EXCEPT ![w] = 0]
    /\ batch' = [batch EXCEPT ![w] = <<>>]
    /\ UNCHANGED <<clock, table>>

Close(w) ==
    /\ own' = [own EXCEPT ![w] = <<>>]
    /\ phase' = [phase EXCEPT ![w] = "idle"]
    /\ stamp' = [stamp EXCEPT ![w] = 0]
    /\ batch' = [batch EXCEPT ![w] = <<>>]
    /\ UNCHANGED clock

Commit(w) ==
    /\ phase[w] = "open"
    /\ table' = Visible(w)
    /\ Close(w)

\* An exception (the duplicate above is one), a deadlock victim or a crash.
Rollback(w) ==
    /\ phase[w] # "idle"
    /\ Close(w)
    /\ UNCHANGED table

Next ==
    \/ Tick
    \/ \E w \in Writers :
        \/ Begin(w)
        \/ \E b \in Batches(clock) : Observe(w, b)
        \/ Upsert(w)
        \/ Commit(w)
        \/ Rollback(w)

Spec == Init /\ [][Next]_vars

-----------------------------------------------------------------------------
(* Point-in-time reads: get_ticks_as_of, get_signals_as_of and the like.    *)

SelectAsOf(rows, asOf) == {k \in DOMAIN rows : rows[k].avail <= asOf}

Settled ==
    {t \in Times :
        /\ t < clock
        /\ \A w \in Writers :
              /\ stamp[w] # 0 => t < stamp[w]
              /\ \A k \in DOMAIN own[w] : k \in DOMAIN table \/ t < own[w][k].avail}

(***************************************************************************)
(* No document promises this: the raw_payload of an order book or a        *)
(* position is what its other columns were read from.                      *)
(***************************************************************************)
PayloadsMatch ==
    \A k \in DOMAIN table :
        "raw_payload" \in DOMAIN table[k].val => table[k].val.raw_payload = table[k].val.values

(***************************************************************************)
(* In both modes, which keys a query as of a settled instant returns never *)
(* changes: an update neither adds a row to the past nor takes one away.   *)
(***************************************************************************)
PresenceReproducible ==
    [][\A t \in Settled : SelectAsOf(table', t) = SelectAsOf(table, t)]_vars

(***************************************************************************)
(* The ticks implement the abstract timeline: not only which ticks         *)
(* existed, also what they said, is final.                                 *)
(***************************************************************************)
TL == INSTANCE Timeline WITH
          Events <- Ticks,
          facts <- {[ev |-> k, val |-> table[k].val, at |-> table[k].avail] :
                       k \in Ticks \cap DOMAIN table},
          settled <- Settled

TicksAreFinal == TL!TSpec
=============================================================================
