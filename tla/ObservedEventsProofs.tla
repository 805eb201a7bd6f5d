------------------------- MODULE ObservedEventsProofs -------------------------
(***************************************************************************)
(* Proofs about the tables written by upsert_event_rows, and about the     *)
(* annotations kept in one of them, for any writers, keys, values, articles *)
(* and bounds.                                                             *)
(***************************************************************************)
EXTENDS ContextExtraction, WellFoundedInduction, TLAPS

(***************************************************************************)
(* Lemmas about the operators.                                             *)
(***************************************************************************)
LEMMA LeastExists ==
    ASSUME NEW S, S \subseteq Nat, S # {}
    PROVE  \E i \in S : \A j \in S : i <= j
<1>1. PICK i \in S : \A j \in S : ~ (<<j, i>> \in OpToRel(<, Nat))
  BY WFMin, NatLessThanWellFounded
<1>2. \A j \in S : ~ (j < i)
  BY <1>1, Zenon DEF OpToRel
<1> QED BY <1>2

\* A batch is a sequence of observations, of known keys and at known times.
IsBatch(b) ==
    /\ Len(b) \in Nat /\ DOMAIN b = 1..Len(b) /\ Len(b) <= MaxBatch
    /\ \A i \in DOMAIN b :
          b[i].key \in Keys /\ b[i].ing \in Times /\ (b[i].key \in Ticks => b[i].val \in Values)

LEMMA ProposedIsInBatch ==
    ASSUME NEW b, IsBatch(b), NEW k \in KeysOf(b)
    PROVE  \E i \in DOMAIN b : Proposed(b, k) = b[i] /\ b[i].key = k
<1> DEFINE S == {i \in DOMAIN b : b[i].key = k}
<1>1. S \subseteq Nat /\ S # {}
  BY DEF IsBatch, KeysOf
<1>2. PICK i \in S : \A j \in S : i <= j
  BY <1>1, LeastExists
<1>3. \A j \in 1..(i - 1) : b[j].key # k
  <2> SUFFICES ASSUME NEW j \in 1..(i - 1), b[j].key = k PROVE FALSE
    OBVIOUS
  <2>1. i \in 1..Len(b) /\ Len(b) \in Nat
    BY DEF IsBatch
  <2>2. j \in DOMAIN b /\ j < i
    BY <2>1 DEF IsBatch
  <2> QED BY <1>2, <2>1, <2>2
<1>4. \E m \in DOMAIN b : b[m].key = k /\ \A j \in 1..(m - 1) : b[j].key # k
  BY <1>3
<1> QED BY <1>4 DEF Proposed

LEMMA BatchesAreBatches == ASSUME NEW t \in Times, NEW b \in Batches(t) PROVE IsBatch(b)
<1>1. PICK n \in 0..MaxBatch, keys \in {Ticks, Snapshots} :
         b \in [1..n -> [key : keys, val : Values, ing : {t}]]
  BY DEF Batches, ItemsOf
<1>2. n \in Nat /\ n <= MaxBatch
  BY ObservedAssumption
<1>3. Len(b) = n
  BY <1>1, <1>2
<1> QED BY <1>1, <1>2, <1>3 DEF IsBatch, Keys

(***************************************************************************)
(* The inductive invariant of the tables.  A row in a transaction's own    *)
(* writes is held by that transaction only (LockInv), and, where it hides a *)
(* committed row, it is not a tick and has the committed available_at      *)
(* (KeepInv).                                                              *)
(***************************************************************************)
WriteInv ==
    \A w \in Writers : IsBatch(batch[w]) /\ (phase[w] = "write" => stamp[w] \in Times)

LockInv == \A v, w \in Writers : v # w => DOMAIN own[v] \cap DOMAIN own[w] = {}

KeepInv ==
    \A w \in Writers : \A k \in DOMAIN own[w] \cap DOMAIN table :
        k \notin Ticks /\ own[w][k].avail = table[k].avail

TableInv == TypeOK /\ WriteInv /\ LockInv /\ KeepInv

LEMMA OverlaidRows ==
    ASSUME NEW new, NEW old
    PROVE  /\ DOMAIN Overlaid(new, old) = DOMAIN new \cup DOMAIN old
           /\ \A k \in DOMAIN new : Overlaid(new, old)[k] = new[k]
           /\ \A k \in DOMAIN old \ DOMAIN new : Overlaid(new, old)[k] = old[k]
           /\ Rows(new) /\ Rows(old) => Rows(Overlaid(new, old))
<1>1. DOMAIN Overlaid(new, old) = DOMAIN new \cup DOMAIN old
  BY DEF Overlaid
<1>2. \A k \in DOMAIN new : Overlaid(new, old)[k] = new[k]
  BY DEF Overlaid
<1>3. \A k \in DOMAIN old \ DOMAIN new : Overlaid(new, old)[k] = old[k]
  BY DEF Overlaid
<1>4. ASSUME Rows(new), Rows(old) PROVE Rows(Overlaid(new, old))
  BY <1>1, <1>2, <1>3, <1>4 DEF Rows
<1> QED BY <1>1, <1>2, <1>3, <1>4

LEMMA EmptyIsBatch == IsBatch(<<>>)
  BY ObservedAssumption DEF IsBatch

LEMMA InitTable == Init => TableInv
<1> SUFFICES ASSUME Init PROVE TableInv
  OBVIOUS
<1>1. TypeOK
  <2>1. \A w \in Writers : own[w] = <<>> /\ batch[w] = <<>>
    BY DEF Init
  <2>2. Rows(<<>>)
    BY DEF Rows
  <2>3. KeysOf(<<>>) = {} /\ Len(<<>>) = 0
    BY DEF KeysOf
  <2> QED BY <2>1, <2>2, <2>3, ObservedAssumption DEF Init, TypeOK, Times
<1>2. WriteInv
  BY EmptyIsBatch DEF Init, WriteInv
<1>3. LockInv /\ KeepInv
  BY DEF Init, LockInv, KeepInv
<1> QED BY <1>1, <1>2, <1>3 DEF TableInv

LEMMA TickTable == ASSUME TableInv, Tick PROVE TableInv'
<1>1. TypeOK'
  BY ObservedAssumption DEF TableInv, TypeOK, Tick, Times
<1>2. WriteInv' /\ LockInv' /\ KeepInv'
  BY DEF TableInv, Tick, WriteInv, LockInv, KeepInv
<1> QED BY <1>1, <1>2 DEF TableInv

LEMMA BeginTable == ASSUME TableInv, NEW w \in Writers, Begin(w) PROVE TableInv'
<1>1. TypeOK'
  BY DEF TableInv, TypeOK, Begin
<1>2. WriteInv'
  BY DEF TableInv, TypeOK, Begin, WriteInv
<1>3. LockInv' /\ KeepInv'
  BY DEF TableInv, Begin, LockInv, KeepInv
<1> QED BY <1>1, <1>2, <1>3 DEF TableInv

(***************************************************************************)
(* Observe, and PersistAnnotations: a batch and the time it was observed.  *)
(***************************************************************************)
TakeUp(w, b) ==
    /\ phase' = [phase EXCEPT ![w] = "write"]
    /\ stamp' = [stamp EXCEPT ![w] = clock]
    /\ batch' = [batch EXCEPT ![w] = b]
    /\ UNCHANGED <<clock, table, own>>

LEMMA TakeUpTable ==
    ASSUME TableInv, NEW w \in Writers, NEW b, IsBatch(b), TakeUp(w, b) PROVE TableInv'
<1>1. TypeOK'
  BY ObservedAssumption DEF TableInv, TypeOK, TakeUp, IsBatch, KeysOf, Times
<1>2. WriteInv'
  BY DEF TableInv, TypeOK, TakeUp, WriteInv
<1>3. LockInv' /\ KeepInv'
  BY DEF TableInv, TakeUp, LockInv, KeepInv
<1> QED BY <1>1, <1>2, <1>3 DEF TableInv

(***************************************************************************)
(* A statement writes, for each key it writes, an observation of its batch, *)
(* and keeps the available_at of a row that is there.                      *)
(***************************************************************************)
LEMMA MergedRow ==
    ASSUME TableInv, NEW w \in Writers, phase[w] = "write", NEW k \in KeysOf(batch[w])
    PROVE  /\ Row(Merged(w, k))
           /\ k \in DOMAIN Visible(w) => Merged(w, k).avail = Visible(w)[k].avail
           /\ k \notin DOMAIN Visible(w) => Merged(w, k).avail = stamp[w]
           /\ \E i \in DOMAIN batch[w] :
                 /\ batch[w][i].key = k
                 /\ Merged(w, k).ing = batch[w][i].ing
                 /\ Merged(w, k).val = IF k \in DOMAIN Visible(w)
                                       THEN Overwritten(Visible(w)[k].val, batch[w][i].val)
                                       ELSE batch[w][i].val
<1>1. PICK i \in DOMAIN batch[w] : Proposed(batch[w], k) = batch[w][i] /\ batch[w][i].key = k
  BY ProposedIsInBatch DEF TableInv, WriteInv
<1>2. batch[w][i].ing \in Times /\ stamp[w] \in Times
  BY <1>1 DEF TableInv, WriteInv, IsBatch
<1>3. CASE k \in DOMAIN Visible(w)
  <2> DEFINE old == Visible(w)[k]
  <2>1. Row(old)
    <3>1. Rows(own[w]) /\ Rows(table)
      BY DEF TableInv, TypeOK
    <3> QED BY <1>3, <3>1, OverlaidRows DEF Visible, Rows
  <2>2. Merged(w, k) = [old EXCEPT !.val = Overwritten(@, batch[w][i].val), !.ing = batch[w][i].ing]
    BY <1>1, <1>3 DEF Merged
  <2> QED BY <1>1, <1>2, <1>3, <2>1, <2>2 DEF Row
<1>4. CASE k \notin DOMAIN Visible(w)
  <2>1. Merged(w, k) = [val |-> batch[w][i].val, avail |-> stamp[w], ing |-> batch[w][i].ing]
    BY <1>1, <1>4 DEF Merged
  <2> QED BY <1>1, <1>2, <1>4, <2>1 DEF Row
<1> QED BY <1>3, <1>4

LEMMA VisibleKeys ==
    ASSUME NEW w
    PROVE  /\ DOMAIN Visible(w) = DOMAIN own[w] \cup DOMAIN table
           /\ \A k \in DOMAIN own[w] : Visible(w)[k] = own[w][k]
           /\ \A k \in DOMAIN table \ DOMAIN own[w] : Visible(w)[k] = table[k]
  BY OverlaidRows DEF Visible

\* The rows of w's own writes after its statement.
LEMMA UpsertOwn ==
    ASSUME TableInv, NEW w \in Writers, Upsert(w)
    PROVE  /\ \A v \in Writers \ {w} : own'[v] = own[v]
           /\ DOMAIN own'[w] = Written(w) \cup DOMAIN own[w]
           /\ Written(w) \subseteq Keys
           /\ \A k \in Written(w) : own'[w][k] = Merged(w, k)
           /\ \A k \in DOMAIN own[w] \ Written(w) : own'[w][k] = own[w][k]
           /\ Rows(own'[w])
<1> DEFINE new == [k \in Written(w) |-> Merged(w, k)]
<1>1. own' = [own EXCEPT ![w] = Overlaid(new, own[w])] /\ DOMAIN own = Writers /\ phase[w] = "write"
  BY DEF Upsert, TableInv, TypeOK
<1>2. own'[w] = Overlaid(new, own[w])
  BY <1>1
<1>3. \A v \in Writers \ {w} : own'[v] = own[v]
  BY <1>1
<1>4. Written(w) \subseteq Keys /\ Written(w) \subseteq KeysOf(batch[w])
  BY DEF Written, TableInv, TypeOK
<1>5. DOMAIN new = Written(w) /\ \A k \in Written(w) : new[k] = Merged(w, k)
  OBVIOUS
<1>6. Rows(new)
  BY <1>1, <1>4, <1>5, MergedRow DEF Rows
<1>7. Rows(own[w])
  BY DEF TableInv, TypeOK
<1> HIDE DEF new
<1>8. /\ DOMAIN own'[w] = Written(w) \cup DOMAIN own[w]
      /\ \A k \in Written(w) : own'[w][k] = Merged(w, k)
      /\ \A k \in DOMAIN own[w] \ Written(w) : own'[w][k] = own[w][k]
  <2>1. /\ DOMAIN Overlaid(new, own[w]) = DOMAIN new \cup DOMAIN own[w]
        /\ \A k \in DOMAIN new : Overlaid(new, own[w])[k] = new[k]
        /\ \A k \in DOMAIN own[w] \ DOMAIN new : Overlaid(new, own[w])[k] = own[w][k]
    BY OverlaidRows, Zenon
  <2> QED BY <1>2, <1>5, <2>1
<1>9. Rows(own'[w])
  <2>1. Rows(Overlaid(new, own[w]))
    BY <1>6, <1>7, OverlaidRows, Zenon
  <2> QED BY <1>2, <2>1, Zenon
<1> QED BY <1>3, <1>8, <1>9, <1>4

LEMMA UpsertTable == ASSUME TableInv, NEW w \in Writers, Upsert(w) PROVE TableInv'
<1>1. /\ DOMAIN own' = Writers /\ table' = table /\ clock' = clock
      /\ phase' = [phase EXCEPT ![w] = "open"]
      /\ stamp' = [stamp EXCEPT ![w] = 0]
      /\ batch' = [batch EXCEPT ![w] = <<>>]
      /\ \A v \in Writers \ {w} : KeysOf(batch[w]) \cap DOMAIN own[v] = {}
  BY DEF Upsert, TableInv, TypeOK
<1>2. TypeOK'
  <2>1. \A v \in Writers : Rows(own'[v])
    BY UpsertOwn DEF TableInv, TypeOK
  <2>2. \A v \in Writers : KeysOf(batch'[v]) \subseteq Keys /\ Len(batch'[v]) <= MaxBatch
    BY <1>1, ObservedAssumption DEF TableInv, TypeOK, KeysOf
  <2>3. stamp' \in [Writers -> 0..MaxTime] /\ phase' \in [Writers -> {"idle", "open", "write"}]
    BY <1>1, ObservedAssumption DEF TableInv, TypeOK
  <2> QED BY <1>1, <2>1, <2>2, <2>3 DEF TableInv, TypeOK
<1>3. WriteInv'
  BY <1>1, EmptyIsBatch DEF TableInv, TypeOK, WriteInv
<1>4. LockInv'
  BY <1>1, UpsertOwn DEF TableInv, LockInv, Written
<1>5. KeepInv'
  <2> SUFFICES ASSUME NEW v \in Writers, NEW k \in DOMAIN own'[v], k \in DOMAIN table
               PROVE  k \notin Ticks /\ own'[v][k].avail = table[k].avail
    BY <1>1 DEF KeepInv
  <2>1. CASE v # w \/ k \notin Written(w)
    BY <2>1, UpsertOwn DEF TableInv, KeepInv
  <2>2. CASE v = w /\ k \in Written(w)
    <3>1. k \in KeysOf(batch[w]) /\ k \in DOMAIN Visible(w) /\ k \notin Ticks
      BY <2>2, VisibleKeys DEF Written
    <3>2. own'[w][k].avail = Visible(w)[k].avail
      <4>1. phase[w] = "write"
        BY DEF Upsert
      <4>2. Merged(w, k).avail = Visible(w)[k].avail
        BY <3>1, <4>1, MergedRow
      <4> QED BY <2>2, <4>2, UpsertOwn
    <3>3. Visible(w)[k].avail = table[k].avail
      <4>1. CASE k \in DOMAIN own[w]
        <5>1. own[w][k].avail = table[k].avail
          BY <4>1 DEF TableInv, KeepInv
        <5> QED BY <4>1, <5>1, VisibleKeys
      <4>2. CASE k \notin DOMAIN own[w]
        BY <4>2, VisibleKeys
      <4> QED BY <4>1, <4>2
    <3> QED BY <2>2, <3>1, <3>2, <3>3
  <2> QED BY <2>1, <2>2
<1> QED BY <1>2, <1>3, <1>4, <1>5 DEF TableInv

(***************************************************************************)
(* The end of a transaction, however it ends.                              *)
(***************************************************************************)
LEMMA CloseOwn ==
    ASSUME TableInv, NEW w \in Writers, Close(w)
    PROVE  own'[w] = <<>> /\ \A v \in Writers \ {w} : own'[v] = own[v]
  BY DEF Close, TableInv, TypeOK

LEMMA CloseTable ==
    ASSUME TableInv, NEW w \in Writers, Close(w), table' = table \/ table' = Visible(w)
    PROVE  TableInv'
<1>1. Rows(table')
  <2>1. Rows(own[w]) /\ Rows(table)
    BY DEF TableInv, TypeOK
  <2>2. Rows(Visible(w))
    BY <2>1, OverlaidRows DEF Visible
  <2> QED BY <2>1, <2>2
<1>2. DOMAIN own[w] \cup DOMAIN table = DOMAIN table' \/ table' = table
  BY VisibleKeys
<1>3. TypeOK'
  <2>1. \A v \in Writers : Rows(own'[v])
    BY CloseOwn DEF TableInv, TypeOK, Rows
  <2>2. \A v \in Writers : KeysOf(batch'[v]) \subseteq Keys /\ Len(batch'[v]) <= MaxBatch
    BY ObservedAssumption DEF Close, TableInv, TypeOK, KeysOf
  <2> QED BY <1>1, <2>1, <2>2, ObservedAssumption DEF TableInv, TypeOK, Close
<1>4. WriteInv'
  BY EmptyIsBatch DEF Close, TableInv, TypeOK, WriteInv
<1>5. LockInv'
  BY CloseOwn DEF TableInv, LockInv
<1>6. KeepInv'
  <2> SUFFICES ASSUME NEW v \in Writers, v # w, NEW k \in DOMAIN own[v], k \in DOMAIN table'
               PROVE  k \notin Ticks /\ own[v][k].avail = table'[k].avail
    BY CloseOwn DEF KeepInv
  <2>1. k \notin DOMAIN own[w]
    BY DEF TableInv, LockInv
  <2>2. k \in DOMAIN table /\ table'[k] = table[k]
    BY <2>1, VisibleKeys
  <2> QED BY <2>2 DEF TableInv, KeepInv
<1> QED BY <1>3, <1>4, <1>5, <1>6 DEF TableInv

LEMMA EndTable ==
    ASSUME TableInv, NEW w \in Writers, Commit(w) \/ Rollback(w) PROVE TableInv'
  BY CloseTable DEF Commit, Rollback

LEMMA StutterTable == ASSUME TableInv, UNCHANGED vars PROVE TableInv'
<1>1. TypeOK'
  BY DEF TableInv, vars, TypeOK
<1>2. WriteInv' /\ LockInv' /\ KeepInv'
  BY DEF TableInv, vars, WriteInv, LockInv, KeepInv
<1> QED BY <1>1, <1>2 DEF TableInv

(***************************************************************************)
(* What the steps of both specifications do to the tables.                 *)
(***************************************************************************)
TableStep ==
    \/ Tick
    \/ \E w \in Writers :
        \/ Begin(w) \/ Upsert(w) \/ Commit(w) \/ Rollback(w)
        \/ Close(w) /\ UNCHANGED table
        \/ \E b \in {c \in {batch'[w]} : IsBatch(c)} : TakeUp(w, b)
    \/ UNCHANGED vars

LEMMA TableStepInv == ASSUME TableInv, TableStep PROVE TableInv'
<1>1. ASSUME NEW w \in Writers, NEW b \in {c \in {batch'[w]} : IsBatch(c)}, TakeUp(w, b)
      PROVE  TableInv'
  BY <1>1, TakeUpTable
<1>2. ASSUME NEW w \in Writers, Close(w) /\ UNCHANGED table PROVE TableInv'
  BY <1>2, CloseTable
<1> QED BY <1>1, <1>2, TickTable, BeginTable, UpsertTable, EndTable, StutterTable DEF TableStep

LEMMA ObserveTakesUp ==
    ASSUME TableInv, NEW w \in Writers, NEW b \in Batches(clock), Observe(w, b)
    PROVE  IsBatch(batch'[w]) /\ TakeUp(w, batch'[w])
<1>1. IsBatch(b)
  BY BatchesAreBatches DEF TableInv, TypeOK
<1>2. batch'[w] = b
  BY DEF Observe, TableInv, TypeOK
<1> QED BY <1>1, <1>2 DEF Observe, TakeUp

LEMMA NextIsTableStep == ASSUME TableInv, [Next]_vars PROVE TableStep
<1>1. ASSUME NEW w \in Writers, NEW b \in Batches(clock), Observe(w, b) PROVE TableStep
  <2>1. batch'[w] \in {c \in {batch'[w]} : IsBatch(c)} /\ TakeUp(w, batch'[w])
    BY <1>1, ObserveTakesUp
  <2> QED BY <2>1 DEF TableStep
<1> QED BY <1>1 DEF Next, TableStep

(***************************************************************************)
(* The tables keep their types, a row is being written by one open         *)
(* transaction at most, and no transaction gives a committed row another   *)
(* available_at or a tick another value.                                   *)
(***************************************************************************)
THEOREM TableInvariant == Spec => []TableInv
<1>1. TableInv /\ [Next]_vars => TableInv'
  BY NextIsTableStep, TableStepInv
<1> QED BY <1>1, InitTable, PTL DEF Spec

(***************************************************************************)
(* The type invariant of the run, from TableInv.                           *)
(***************************************************************************)
THEOREM TableTypes == Spec => []TypeOK
<1>1. TableInv => TypeOK
  BY DEF TableInv
<1> QED BY <1>1, TableInvariant, PTL

(***************************************************************************)
(* What a step publishes: it keeps every row's available_at and every tick *)
(* as it is, and a row it adds lies after every settled instant.           *)
(***************************************************************************)
LEMMA TableOnlyGrows ==
    ASSUME TableInv, TableStep
    PROVE  /\ DOMAIN table \subseteq DOMAIN table'
           /\ \A k \in DOMAIN table :
                 table'[k].avail = table[k].avail /\ (k \in Ticks => table'[k] = table[k])
           /\ \A k \in DOMAIN table' \ DOMAIN table : \A t \in Settled : t < table'[k].avail
<1>1. CASE table' = table
  BY <1>1
<1>2. ASSUME NEW w \in Writers, Commit(w)
      PROVE  /\ DOMAIN table \subseteq DOMAIN table'
             /\ \A k \in DOMAIN table :
                   table'[k].avail = table[k].avail /\ (k \in Ticks => table'[k] = table[k])
             /\ \A k \in DOMAIN table' \ DOMAIN table : \A t \in Settled : t < table'[k].avail
  <2>1. /\ DOMAIN table' = DOMAIN own[w] \cup DOMAIN table
        /\ \A k \in DOMAIN own[w] : table'[k] = own[w][k]
        /\ \A k \in DOMAIN table \ DOMAIN own[w] : table'[k] = table[k]
    BY <1>2, VisibleKeys DEF Commit
  <2>2. \A k \in DOMAIN own[w] \cap DOMAIN table :
           k \notin Ticks /\ own[w][k].avail = table[k].avail
    BY DEF TableInv, KeepInv
  <2>3. \A k \in DOMAIN own[w] \ DOMAIN table : \A t \in Settled : t < own[w][k].avail
    BY DEF Settled
  <2> QED BY <2>1, <2>2, <2>3
<1>3. table' = table \/ \E w \in Writers : Commit(w)
  BY DEF TableStep, vars, Tick, Begin, Upsert, Rollback, TakeUp
<1> QED BY <1>1, <1>2, <1>3

LEMMA PresenceStep ==
    ASSUME TableInv, TableStep
    PROVE  \A t \in Settled : SelectAsOf(table', t) = SelectAsOf(table, t)
<1>1. TableInv'
  BY TableStepInv
<1> SUFFICES ASSUME NEW t \in Settled, NEW k
             PROVE  k \in SelectAsOf(table', t) <=> k \in SelectAsOf(table, t)
  OBVIOUS
<1>2. CASE k \in DOMAIN table
  BY <1>2, TableOnlyGrows DEF SelectAsOf
<1>3. CASE k \in DOMAIN table' \ DOMAIN table
  <2>1. t < table'[k].avail /\ t \in Nat
    BY <1>3, TableOnlyGrows DEF Settled, Times
  <2>2. table'[k].avail \in Nat
    BY <1>1, <1>3 DEF TableInv, TypeOK, Rows, Row, Times
  <2>3. ~ (table'[k].avail <= t)
    BY <2>1, <2>2
  <2> QED BY <1>3, <2>3 DEF SelectAsOf
<1> QED BY <1>2, <1>3, TableOnlyGrows DEF SelectAsOf

(***************************************************************************)
(* Which keys a query as of a settled instant returns never changes, in    *)
(* either mode and however the writers' transactions interleave.           *)
(***************************************************************************)
THEOREM PresenceIsReproducible == Spec => PresenceReproducible
<1>1. TableInv /\ [Next]_vars =>
        [\A t \in Settled : SelectAsOf(table', t) = SelectAsOf(table, t)]_vars
  BY NextIsTableStep, PresenceStep
<1> QED BY <1>1, TableInvariant, PTL DEF Spec, PresenceReproducible

(***************************************************************************)
(* The instants that are settled stay settled: what is still to be         *)
(* published, or still to be written, is later than all of them.           *)
(***************************************************************************)
LEMMA OwnRowsLieAhead ==
    ASSUME TableInv, TableStep, NEW t \in Settled, NEW w \in Writers,
           NEW k \in DOMAIN own'[w], k \notin DOMAIN table'
    PROVE  t < own'[w][k].avail
<1>1. k \notin DOMAIN table
  BY TableOnlyGrows
<1>2. CASE k \in DOMAIN own[w] /\ own'[w][k] = own[w][k]
  BY <1>1, <1>2 DEF Settled
<1>3. CASE Upsert(w)
  <2>1. CASE k \notin Written(w)
    BY <1>2, <1>3, <2>1, UpsertOwn
  <2>2. CASE k \in Written(w)
    <3>1. phase[w] = "write" /\ k \in KeysOf(batch[w]) /\ own'[w][k] = Merged(w, k)
      BY <1>3, <2>2, UpsertOwn DEF Upsert, Written
    <3>2. CASE k \in DOMAIN own[w]
      <4>1. k \in DOMAIN Visible(w) /\ Visible(w)[k] = own[w][k]
        BY <3>2, VisibleKeys
      <4>2. Merged(w, k).avail = Visible(w)[k].avail
        BY <3>1, <4>1, MergedRow
      <4> QED BY <1>1, <3>1, <3>2, <4>1, <4>2 DEF Settled
    <3>3. CASE k \notin DOMAIN own[w]
      <4>1. k \notin DOMAIN Visible(w)
        BY <1>1, <3>3, VisibleKeys
      <4>2. Merged(w, k).avail = stamp[w]
        BY <3>1, <4>1, MergedRow
      <4>3. stamp[w] # 0
        BY <3>1, ObservedAssumption DEF TableInv, WriteInv, Times
      <4> QED BY <3>1, <4>2, <4>3 DEF Settled
    <3> QED BY <3>2, <3>3
  <2> QED BY <2>1, <2>2
<1>4. own'[w] = own[w] \/ own'[w] = <<>> \/ Upsert(w)
  <2>1. ASSUME NEW v \in Writers, Upsert(v) PROVE own'[w] = own[w] \/ Upsert(w)
    BY <2>1, UpsertOwn
  <2>2. ASSUME NEW v \in Writers, Close(v) PROVE own'[w] = own[w] \/ own'[w] = <<>>
    BY <2>2, CloseOwn
  <2> QED BY <2>1, <2>2 DEF TableStep, vars, Tick, Begin, Commit, Rollback, TakeUp
<1> QED BY <1>2, <1>3, <1>4

LEMMA TableSettledGrows == ASSUME TableInv, TableStep PROVE Settled \subseteq Settled'
<1> SUFFICES ASSUME NEW t \in Settled PROVE t \in Settled'
  OBVIOUS
<1>1. t \in Times /\ t \in Nat /\ t < clock /\ clock \in Nat
  BY DEF Settled, Times, TableInv, TypeOK
<1>2. clock' = clock \/ clock' = clock + 1
  BY DEF TableStep, vars, Tick, Begin, Upsert, Commit, Rollback, Close, TakeUp
<1>3. ASSUME NEW w \in Writers, stamp'[w] # 0 PROVE t < stamp'[w]
  <2>1. stamp'[w] = stamp[w] \/ stamp'[w] = 0 \/ stamp'[w] = clock
    BY <1>3 DEF TableStep, vars, Tick, Begin, Upsert, Commit, Rollback, Close, TakeUp,
                TableInv, TypeOK
  <2> QED BY <1>1, <1>3, <2>1 DEF Settled
<1>4. \A w \in Writers : \A k \in DOMAIN own'[w] : k \in DOMAIN table' \/ t < own'[w][k].avail
  BY OwnRowsLieAhead
<1> QED BY <1>1, <1>2, <1>3, <1>4 DEF Settled

(***************************************************************************)
(* What the ticks say was observed, also before it is committed.           *)
(***************************************************************************)
TickVals(rows) == \A k \in Ticks \cap DOMAIN rows : rows[k].val \in Values

TicksTyped == TickVals(table) /\ \A w \in Writers : TickVals(own[w])

LEMMA TicksTypedInit == Init => TicksTyped
<1> SUFFICES ASSUME Init PROVE TicksTyped
  OBVIOUS
<1>1. table = <<>> /\ \A w \in Writers : own[w] = <<>>
  BY DEF Init
<1> QED BY <1>1 DEF TicksTyped, TickVals

LEMMA TicksTypedStep == ASSUME TableInv, TicksTyped, TableStep PROVE TicksTyped'
<1>1. CASE table' = table /\ own' = own
  BY <1>1 DEF TicksTyped, TickVals
<1>2. ASSUME NEW w \in Writers, Upsert(w) PROVE TicksTyped'
  <2>1. ASSUME NEW k \in Ticks, k \in Written(w) PROVE own'[w][k].val \in Values
    <3>1. /\ phase[w] = "write" /\ k \in KeysOf(batch[w]) /\ k \notin DOMAIN Visible(w)
          /\ own'[w][k] = Merged(w, k)
      BY <1>2, <2>1, UpsertOwn DEF Upsert, Written
    <3>2. PICK i \in DOMAIN batch[w] : batch[w][i].key = k /\ Merged(w, k).val = batch[w][i].val
      BY <3>1, MergedRow
    <3> QED BY <3>1, <3>2 DEF TableInv, WriteInv, IsBatch
  <2>2. TickVals(own'[w])
    BY <1>2, <2>1, UpsertOwn DEF TicksTyped, TickVals
  <2>3. \A v \in Writers \ {w} : own'[v] = own[v]
    BY <1>2, UpsertOwn
  <2>4. table' = table
    BY <1>2 DEF Upsert
  <2> QED BY <2>2, <2>3, <2>4 DEF TicksTyped, TickVals
<1>3. ASSUME NEW w \in Writers, Close(w), table' = table \/ table' = Visible(w)
      PROVE  TicksTyped'
  <2>1. TickVals(table')
    <3>1. TickVals(table) /\ TickVals(own[w])
      BY DEF TicksTyped
    <3>2. TickVals(Visible(w))
      BY <3>1, VisibleKeys DEF TickVals
    <3> QED BY <1>3, <3>1, <3>2
  <2>2. \A v \in Writers : TickVals(own'[v])
    BY <1>3, CloseOwn DEF TicksTyped, TickVals
  <2> QED BY <2>1, <2>2 DEF TicksTyped, TickVals
<1>4. \/ table' = table /\ own' = own
      \/ \E w \in Writers : Upsert(w)
      \/ \E w \in Writers : Close(w) /\ (table' = table \/ table' = Visible(w))
  BY DEF TableStep, vars, Tick, Begin, Commit, Rollback, TakeUp
<1> QED BY <1>1, <1>2, <1>3, <1>4

(***************************************************************************)
(* The ticks implement the abstract timeline: what a tick said when it was *)
(* first observed is final, whatever is observed under its key later.      *)
(***************************************************************************)
TickFacts == {[ev |-> k, val |-> table[k].val, at |-> table[k].avail] : k \in Ticks \cap DOMAIN table}

THEOREM TicksImplementTimeline == Spec => TicksAreFinal
<1> DEFINE Inv == TableInv /\ TicksTyped
<1>1. Init => TL!TInit
  <2> SUFFICES ASSUME Init PROVE TickFacts = {} /\ Settled = {}
    BY DEF TL!TInit, TickFacts
  <2>1. TickFacts = {}
    BY DEF Init, TickFacts
  <2>2. Settled = {}
    BY DEF Init, Settled, Times
  <2> QED BY <2>1, <2>2
<1>2. ASSUME Inv, Inv', TableStep PROVE TL!TNext
  <2>1. TickFacts' \subseteq TL!Fact
    <3> SUFFICES ASSUME NEW k \in Ticks \cap DOMAIN table'
                 PROVE  [ev |-> k, val |-> table'[k].val, at |-> table'[k].avail] \in TL!Fact
      BY DEF TickFacts
    <3>1. table'[k].val \in Values
      BY <1>2 DEF TicksTyped, TickVals
    <3>2. table'[k].avail \in Times
      BY <1>2 DEF TableInv, TypeOK, Rows, Row, Times
    <3> QED BY <3>1, <3>2 DEF TL!Fact
  <2>2. TickFacts \subseteq TickFacts'
    BY <1>2, TableOnlyGrows DEF TickFacts
  <2>3. TL!Functional(TickFacts')
    BY DEF TL!Functional, TickFacts
  <2>4. ASSUME NEW f \in TickFacts' \ TickFacts, NEW t \in Settled PROVE t < f.at
    <3>1. PICK k \in Ticks \cap DOMAIN table' :
             f = [ev |-> k, val |-> table'[k].val, at |-> table'[k].avail]
      BY DEF TickFacts
    <3>2. k \notin DOMAIN table
      BY <1>2, <3>1, TableOnlyGrows DEF TickFacts
    <3> QED BY <1>2, <3>1, <3>2, TableOnlyGrows
  <2>5. Settled' \subseteq Times /\ Settled \subseteq Settled'
    BY <1>2, TableSettledGrows DEF Settled, Times
  <2> QED BY <2>1, <2>2, <2>3, <2>4, <2>5 DEF TL!TNext, TickFacts
<1>3. Inv /\ [Next]_vars => Inv'
  BY NextIsTableStep, TableStepInv, TicksTypedStep
<1>4. Inv /\ Inv' /\ [Next]_vars => [TL!TNext]_(TL!tvars)
  BY <1>2, NextIsTableStep
<1>5. Init => Inv
  BY InitTable, TicksTypedInit
<1> QED BY <1>1, <1>3, <1>4, <1>5, PTL DEF Spec, TicksAreFinal, TL!TSpec

(***************************************************************************)
(* The annotations.  Every row of an article, committed or not, and every  *)
(* observation on its way to one, is a result that an extractor returned.  *)
(***************************************************************************)
Whole(rows) ==
    \A k \in Articles \cap DOMAIN rows :
        [key |-> k, val |-> rows[k].val, ing |-> rows[k].ing] \in produced

AnnInv ==
    /\ produced \subseteq Result /\ DOMAIN results = Writers
    /\ Whole(table)
    /\ \A w \in Writers :
        /\ Whole(own[w])
        /\ \A i \in DOMAIN batch[w] : batch[w][i] \in produced
        /\ results[w] \in Seq(produced) /\ Len(results[w]) <= MaxBatch

LEMMA InitAnn == ExtractionInit => AnnInv
<1> SUFFICES ASSUME ExtractionInit PROVE AnnInv
  OBVIOUS
<1>1. /\ table = <<>> /\ produced = {} /\ DOMAIN results = Writers
      /\ \A w \in Writers : own[w] = <<>> /\ batch[w] = <<>> /\ results[w] = <<>>
  BY DEF ExtractionInit, Init
<1>2. Whole(<<>>) /\ <<>> \in Seq(produced) /\ Len(<<>>) <= MaxBatch
  BY ObservedAssumption DEF Whole
<1>3. \A w \in Writers : \A i \in DOMAIN batch[w] : batch[w][i] \in produced
  BY <1>1
<1>4. \A w \in Writers :
         Whole(own[w]) /\ results[w] \in Seq(produced) /\ Len(results[w]) <= MaxBatch
  BY <1>1, <1>2
<1>5. Whole(table) /\ produced \subseteq Result
  BY <1>1, <1>2
<1> QED BY <1>1, <1>3, <1>4, <1>5 DEF AnnInv

(***************************************************************************)
(* DO UPDATE lists every column of an annotation, so nothing of the row    *)
(* that was there is left in the row it writes.                            *)
(***************************************************************************)
LEMMA ResultOverwritesAll ==
    ASSUME NEW old, NEW x \in Result PROVE Overwritten(old, x.val) = x.val
<1>1. x.val = UnknownResult \/ \E o \in Outputs : x.val = OkResult(o)
  BY DEF Result
<1>2. Overwritten(old, UnknownResult) = UnknownResult
  BY DEF Overwritten, UnknownResult, UpdateColumns
<1>3. ASSUME NEW o PROVE Overwritten(old, OkResult(o)) = OkResult(o)
  BY DEF Overwritten, OkResult, UpdateColumns
<1> QED BY <1>1, <1>2, <1>3

LEMMA MergedIsWhole ==
    ASSUME TableInv, AnnInv, NEW w \in Writers, phase[w] = "write", NEW k \in KeysOf(batch[w])
    PROVE  [key |-> k, val |-> Merged(w, k).val, ing |-> Merged(w, k).ing] \in produced
<1>1. PICK i \in DOMAIN batch[w] :
         /\ batch[w][i].key = k
         /\ Merged(w, k).ing = batch[w][i].ing
         /\ Merged(w, k).val = IF k \in DOMAIN Visible(w)
                               THEN Overwritten(Visible(w)[k].val, batch[w][i].val)
                               ELSE batch[w][i].val
  BY MergedRow
<1>2. batch[w][i] \in produced /\ batch[w][i] \in Result
  BY DEF AnnInv
<1>3. Merged(w, k).val = batch[w][i].val
  BY <1>1, <1>2, ResultOverwritesAll
<1>4. batch[w][i] = [key |-> k, val |-> batch[w][i].val, ing |-> batch[w][i].ing]
  BY <1>1, <1>2 DEF Result
<1> QED BY <1>1, <1>2, <1>3, <1>4

LEMMA WholeKept ==
    ASSUME NEW rows, Whole(rows), produced \subseteq produced' PROVE Whole(rows)'
  BY DEF Whole

(***************************************************************************)
(* The steps that change a table leave the results alone.                  *)
(***************************************************************************)
LEMMA TransactionAnn ==
    ASSUME TableInv, AnnInv, UNCHANGED <<results, produced>>,
           \/ Tick
           \/ \E w \in Writers : Begin(w) \/ Upsert(w) \/ Commit(w) \/ Rollback(w)
    PROVE  AnnInv'
<1>1. CASE UNCHANGED <<table, own, batch>>
  BY <1>1 DEF AnnInv, Whole
<1>2. ASSUME NEW w \in Writers, Upsert(w) PROVE AnnInv'
  <2>1. phase[w] = "write" /\ Written(w) \subseteq KeysOf(batch[w]) /\ table' = table
    BY <1>2 DEF Upsert, Written
  <2>2. Whole(own'[w])
    BY <1>2, <2>1, UpsertOwn, MergedIsWhole DEF Whole, AnnInv
  <2>3. \A v \in Writers : \A i \in DOMAIN batch'[v] : batch'[v][i] \in produced
    BY <1>2 DEF Upsert, TableInv, TypeOK, AnnInv
  <2>4. \A v \in Writers \ {w} : own'[v] = own[v]
    BY <1>2, UpsertOwn
  <2> QED BY <2>1, <2>2, <2>3, <2>4 DEF AnnInv, Whole
<1>3. ASSUME NEW w \in Writers, Close(w), table' = table \/ table' = Visible(w) PROVE AnnInv'
  <2>1. Whole(table) /\ Whole(own[w])
    BY DEF AnnInv
  <2>2. Whole(Visible(w))
    BY <2>1, VisibleKeys DEF Whole
  <2>3. \A v \in Writers : \A i \in DOMAIN batch'[v] : batch'[v][i] \in produced
    BY <1>3 DEF Close, TableInv, TypeOK, AnnInv
  <2>4. \A v \in Writers : own'[v] = own[v] \/ own'[v] = <<>>
    BY <1>3, CloseOwn
  <2>5. Whole(<<>>)
    BY DEF Whole
  <2> QED BY <1>3, <2>1, <2>2, <2>3, <2>4, <2>5 DEF AnnInv, Whole
<1> QED BY <1>1, <1>2, <1>3 DEF Tick, Begin, Commit, Rollback

LEMMA ExtractedAnn ==
    ASSUME TableInv, AnnInv, NEW w \in Writers, NEW k \in Articles,
           NEW val \in {UnknownResult} \cup {OkResult(o) : o \in Outputs}, Extracted(w, k, val)
    PROVE  AnnInv'
<1> DEFINE result == [key |-> k, val |-> val, ing |-> clock]
<1>1. /\ produced' = produced \cup {result} /\ results' = [results EXCEPT ![w] = Append(@, result)]
      /\ Len(results[w]) < MaxBatch /\ table' = table /\ own' = own /\ batch' = batch
  BY DEF Extracted, vars
<1>2. result \in Result
  BY DEF Result, TableInv, TypeOK
<1> HIDE DEF result
<1>3. Append(results[w], result) \in Seq(produced') /\ Len(Append(results[w], result)) <= MaxBatch
  <2>1. results[w] \in Seq(produced') /\ result \in produced'
    <3>1. results[w] \in Seq(produced) /\ produced \subseteq produced'
      BY <1>1 DEF AnnInv
    <3> QED BY <1>1, <3>1
  <2> QED BY <1>1, <2>1, ObservedAssumption
<1>4. ASSUME NEW v \in Writers
      PROVE  results'[v] \in Seq(produced') /\ Len(results'[v]) <= MaxBatch
  <2>1. CASE v = w
    BY <1>1, <1>3, <2>1 DEF AnnInv
  <2>2. CASE v # w
    <3>1. results'[v] = results[v] /\ results[v] \in Seq(produced) /\ produced \subseteq produced'
      BY <1>1, <2>2 DEF AnnInv
    <3> QED BY <3>1 DEF AnnInv
  <2> QED BY <2>1, <2>2
<1>5. Whole(table)' /\ \A v \in Writers : Whole(own[v])'
  BY <1>1 DEF AnnInv, Whole
<1>6. \A v \in Writers : \A i \in DOMAIN batch'[v] : batch'[v][i] \in produced'
  BY <1>1 DEF AnnInv
<1>7. produced' \subseteq Result /\ DOMAIN results' = Writers
  BY <1>1, <1>2 DEF AnnInv, Result, Times
<1> QED BY <1>4, <1>5, <1>6, <1>7 DEF AnnInv

\* persist_annotations takes up a batch as Observe does.
LEMMA PersistTakesUp ==
    ASSUME TableInv, AnnInv, NEW w \in Writers, PersistAnnotations(w)
    PROVE  /\ IsBatch(batch'[w]) /\ TakeUp(w, batch'[w])
           /\ AnnInv'
<1>1. batch'[w] = results[w] /\ \A v \in Writers \ {w} : batch'[v] = batch[v]
  BY DEF PersistAnnotations, TableInv, TypeOK
<1>2. results[w] \in Seq(produced) /\ Len(results[w]) <= MaxBatch /\ produced \subseteq Result
  BY DEF AnnInv
<1>3. \A i \in DOMAIN results[w] : results[w][i] \in produced /\ results[w][i] \in Result
  BY <1>2
<1>4. IsBatch(results[w])
  <2>1. Len(results[w]) \in Nat /\ DOMAIN results[w] = 1..Len(results[w])
    BY <1>2
  <2>2. \A x \in Result : x.key \in Snapshots /\ x.key \notin Ticks /\ x.ing \in Times
    BY ObservedAssumption, ExtractionAssumption DEF Result
  <2> QED BY <1>2, <1>3, <2>1, <2>2 DEF IsBatch, Keys
<1>5. AnnInv'
  <2>1. \A v \in Writers : results'[v] = results[v] \/ results'[v] = <<>>
    BY DEF PersistAnnotations, AnnInv
  <2>2. \A v \in Writers : \A i \in DOMAIN batch'[v] : batch'[v][i] \in produced
    BY <1>1, <1>3 DEF AnnInv
  <2>3. <<>> \in Seq(produced) /\ Len(<<>>) <= MaxBatch
    BY ObservedAssumption
  <2>4. table' = table /\ own' = own /\ produced' = produced /\ DOMAIN results' = Writers
    BY DEF PersistAnnotations, AnnInv
  <2> QED BY <2>1, <2>2, <2>3, <2>4 DEF AnnInv, Whole
<1> QED BY <1>1, <1>4, <1>5 DEF PersistAnnotations, TakeUp

LEMMA RaisesAnn == ASSUME TableInv, AnnInv, NEW w \in Writers, ExtractRaises(w) PROVE AnnInv'
<1>1. \A v \in Writers :
         /\ results'[v] = results[v] \/ results'[v] = <<>>
         /\ batch'[v] = batch[v] \/ batch'[v] = <<>>
         /\ own'[v] = own[v] \/ own'[v] = <<>>
  BY CloseOwn DEF ExtractRaises, Close, AnnInv, TableInv, TypeOK
<1>2. <<>> \in Seq(produced) /\ Len(<<>>) <= MaxBatch /\ Whole(<<>>)
  BY ObservedAssumption DEF Whole
<1>3. table' = table /\ produced' = produced /\ DOMAIN results' = Writers
  BY DEF ExtractRaises, AnnInv
<1>4. \A v \in Writers : \A i \in DOMAIN batch'[v] : batch'[v][i] \in produced
  BY <1>1 DEF AnnInv
<1>5. \A v \in Writers : results'[v] \in Seq(produced) /\ Len(results'[v]) <= MaxBatch
  BY <1>1, <1>2 DEF AnnInv
<1>6. Whole(table) /\ \A v \in Writers : Whole(own'[v])
  BY <1>1, <1>2 DEF AnnInv
<1> QED BY <1>3, <1>4, <1>5, <1>6 DEF AnnInv, Whole

LEMMA ExtractionStep ==
    ASSUME TableInv, AnnInv, [ExtractionNext]_annotationVars PROVE TableStep /\ AnnInv'
<1>1. ASSUME NEW w \in Writers, ExtractRaises(w) PROVE TableStep /\ AnnInv'
  BY <1>1, RaisesAnn DEF ExtractRaises, TableStep
<1>2. ASSUME NEW w \in Writers, PersistAnnotations(w) PROVE TableStep /\ AnnInv'
  <2>1. batch'[w] \in {c \in {batch'[w]} : IsBatch(c)} /\ TakeUp(w, batch'[w])
    BY <1>2, PersistTakesUp
  <2> QED BY <1>2, <2>1, PersistTakesUp DEF TableStep
<1>3. ASSUME NEW w \in Writers, NEW k \in Articles,
             NEW val \in {UnknownResult} \cup {OkResult(o) : o \in Outputs}, Extracted(w, k, val)
      PROVE  TableStep /\ AnnInv'
  BY <1>3, ExtractedAnn DEF Extracted, TableStep
<1>4. CASE Transaction
  BY <1>4, TransactionAnn DEF Transaction, TableStep
<1>5. CASE UNCHANGED annotationVars
  <2>1. UNCHANGED vars /\ UNCHANGED <<results, produced>>
    BY <1>5 DEF annotationVars
  <2> QED BY <2>1 DEF vars, TableStep, AnnInv, Whole
<1>6. ASSUME NEW w \in Writers, Extract(w) PROVE TableStep /\ AnnInv'
  BY <1>1, <1>2, <1>3, <1>6 DEF Extract, ExtractOk, ExtractFails
<1> QED BY <1>4, <1>5, <1>6 DEF ExtractionNext

LEMMA ExtractionInvariant == ExtractionSpec => [](TableInv /\ AnnInv)
<1>1. ExtractionInit => TableInv /\ AnnInv
  BY InitTable, InitAnn DEF ExtractionInit
<1>2. TableInv /\ AnnInv /\ [ExtractionNext]_annotationVars => (TableInv /\ AnnInv)'
  BY ExtractionStep, TableStepInv
<1> QED BY <1>1, <1>2, PTL DEF ExtractionSpec

(***************************************************************************)
(* What load_annotations_as_of returns is a result that an extractor       *)
(* returned, whole, however the extractions, failures and transactions of  *)
(* the writers interleave.                                                 *)
(***************************************************************************)
THEOREM AnnotationsStayWhole == ExtractionSpec => []AnnotationsAreWhole
<1>1. TableInv /\ AnnInv => AnnotationsAreWhole
  BY DEF AnnInv, Whole, AnnotationsAreWhole, LoadAsOf, SelectAsOf
<1> QED BY <1>1, ExtractionInvariant, PTL

(***************************************************************************)
(* The articles with an annotation as of a settled instant never change:   *)
(* a later run of the extractor adds none to the past and takes none away. *)
(***************************************************************************)
THEOREM AnnotatedArticlesAreReproducible ==
    ExtractionSpec =>
        [][\A t \in Settled :
              Articles \cap SelectAsOf(table', t) = Articles \cap SelectAsOf(table, t)]_annotationVars
<1>1. TableInv /\ AnnInv /\ [ExtractionNext]_annotationVars =>
        [\A t \in Settled :
            Articles \cap SelectAsOf(table', t) = Articles \cap SelectAsOf(table, t)]_annotationVars
  BY ExtractionStep, PresenceStep
<1> QED BY <1>1, ExtractionInvariant, PTL DEF ExtractionSpec

-----------------------------------------------------------------------------
(* When an annotation is seen.                                              *)

\* Each row is dated no earlier than one extraction of its article.
Dated(rows) ==
    \A k \in Articles \cap DOMAIN rows : \E x \in produced : x.key = k /\ x.ing <= rows[k].avail

SeenInv ==
    /\ \A x \in produced : x.ing <= clock
    /\ Dated(table)
    /\ \A w \in Writers : Dated(own[w]) /\ \A i \in DOMAIN batch[w] : batch[w][i].ing <= stamp[w]

LEMMA VisibleIsDated ==
    ASSUME SeenInv, NEW w \in Writers PROVE Dated(Visible(w))
<1> SUFFICES ASSUME NEW k \in Articles, k \in DOMAIN Visible(w)
             PROVE  \E x \in produced : x.key = k /\ x.ing <= Visible(w)[k].avail
  BY DEF Dated
<1>1. CASE k \in DOMAIN own[w]
  <2>1. Visible(w)[k] = own[w][k]
    BY <1>1, VisibleKeys
  <2>2. \E x \in produced : x.key = k /\ x.ing <= own[w][k].avail
    BY <1>1 DEF SeenInv, Dated
  <2> QED BY <2>1, <2>2
<1>2. CASE k \notin DOMAIN own[w]
  <2>1. k \in DOMAIN table /\ Visible(w)[k] = table[k]
    BY <1>2, VisibleKeys
  <2>2. \E x \in produced : x.key = k /\ x.ing <= table[k].avail
    BY <2>1 DEF SeenInv, Dated
  <2> QED BY <2>1, <2>2
<1> QED BY <1>1, <1>2

LEMMA UpsertSeen ==
    ASSUME TableInv, AnnInv, SeenInv, NEW w \in Writers, Upsert(w), UNCHANGED produced
    PROVE  SeenInv'
<1>1. phase[w] = "write" /\ Written(w) \subseteq KeysOf(batch[w]) /\ UNCHANGED <<table, clock>>
  BY DEF Upsert, Written
<1>2. Dated(Visible(w))
  BY VisibleIsDated
<1>3. ASSUME NEW k \in Articles \cap Written(w)
      PROVE  \E x \in produced : x.key = k /\ x.ing <= own'[w][k].avail
  <2>1. own'[w][k] = Merged(w, k)
    BY <1>3, UpsertOwn
  <2>2. CASE k \in DOMAIN Visible(w)
    <3>1. Merged(w, k).avail = Visible(w)[k].avail
      BY <1>1, <1>3, <2>2, MergedRow
    <3> QED BY <1>2, <1>3, <2>1, <2>2, <3>1 DEF Dated
  <2>3. CASE k \notin DOMAIN Visible(w)
    <3>1. Merged(w, k).avail = stamp[w] /\ \E i \in DOMAIN batch[w] : batch[w][i].key = k
      BY <1>1, <1>3, <2>3, MergedRow
    <3>2. PICK i \in DOMAIN batch[w] : batch[w][i].key = k
      BY <3>1
    <3>3. batch[w][i] \in produced /\ batch[w][i].ing <= stamp[w]
      BY DEF AnnInv, SeenInv
    <3> QED BY <2>1, <3>1, <3>2, <3>3
  <2> QED BY <2>2, <2>3
<1>4. Dated(own'[w])
  <2>1. \A k \in (DOMAIN own[w] \ Written(w)) : own'[w][k] = own[w][k]
    BY UpsertOwn
  <2>2. DOMAIN own'[w] = Written(w) \cup DOMAIN own[w]
    BY UpsertOwn
  <2> QED BY <1>3, <2>1, <2>2 DEF Dated, SeenInv
<1>5. \A v \in Writers \ {w} : own'[v] = own[v] /\ batch'[v] = batch[v] /\ stamp'[v] = stamp[v]
  BY UpsertOwn DEF Upsert, TableInv, TypeOK
<1>6. batch'[w] = <<>>
  BY DEF Upsert, TableInv, TypeOK
<1> QED BY <1>1, <1>4, <1>5, <1>6 DEF SeenInv, Dated

LEMMA CloseSeen ==
    ASSUME TableInv, SeenInv, NEW w \in Writers, Close(w), table' = table \/ table' = Visible(w),
           UNCHANGED produced
    PROVE  SeenInv'
<1>1. Dated(Visible(w))
  BY VisibleIsDated
<1>2. own'[w] = <<>> /\ batch'[w] = <<>> /\ clock' = clock
  BY CloseOwn DEF Close, TableInv, TypeOK
<1>3. \A v \in Writers \ {w} : own'[v] = own[v] /\ batch'[v] = batch[v] /\ stamp'[v] = stamp[v]
  BY CloseOwn DEF Close, TableInv, TypeOK
<1>4. Dated(<<>>)
  BY DEF Dated
<1> QED BY <1>1, <1>2, <1>3, <1>4 DEF SeenInv, Dated

LEMMA SeenStep ==
    ASSUME TableInv, AnnInv, SeenInv, [ExtractionNext]_annotationVars
    PROVE  SeenInv'
<1>1. clock \in Nat /\ \A x \in produced : x.ing \in Nat
  BY DEF TableInv, TypeOK, AnnInv, Result, Times
<1>2. CASE Tick /\ UNCHANGED produced
  <2>1. clock' = clock + 1 /\ UNCHANGED <<table, own, batch, stamp>>
    BY <1>2 DEF Tick
  <2>2. \A x \in produced : x.ing <= clock'
    BY <1>1, <2>1 DEF SeenInv
  <2> QED BY <1>2, <2>1, <2>2 DEF SeenInv, Dated
<1>3. CASE UNCHANGED <<clock, table, own, batch, stamp, produced>>
  BY <1>3 DEF SeenInv, Dated
<1>4. ASSUME NEW w \in Writers, NEW k \in Articles,
             NEW val \in {UnknownResult} \cup {OkResult(o) : o \in Outputs}, Extracted(w, k, val)
      PROVE  SeenInv'
  <2> DEFINE result == [key |-> k, val |-> val, ing |-> clock]
  <2>1. produced' = produced \cup {result} /\ UNCHANGED <<clock, table, own, batch, stamp>>
    BY <1>4 DEF Extracted, vars
  <2>2. result.ing <= clock
    BY <1>1
  <2> HIDE DEF result
  <2>3. produced \subseteq produced' /\ \A x \in produced' : x.ing <= clock
    BY <2>1, <2>2 DEF SeenInv
  <2> QED BY <2>1, <2>3 DEF SeenInv, Dated
<1>5. ASSUME NEW w \in Writers, PersistAnnotations(w) PROVE SeenInv'
  <2>1. /\ batch'[w] = results[w] /\ stamp'[w] = clock
        /\ \A v \in Writers \ {w} : batch'[v] = batch[v] /\ stamp'[v] = stamp[v]
        /\ UNCHANGED <<clock, table, own, produced>>
    BY <1>5 DEF PersistAnnotations, TableInv, TypeOK
  <2>2. \A i \in DOMAIN results[w] : results[w][i].ing <= clock
    <3>1. results[w] \in Seq(produced)
      BY DEF AnnInv
    <3>2. \A i \in DOMAIN results[w] : results[w][i] \in produced
      BY <3>1
    <3> QED BY <3>2 DEF SeenInv
  <2>3. \A v \in Writers : \A i \in DOMAIN batch'[v] : batch'[v][i].ing <= stamp'[v]
    BY <2>1, <2>2 DEF SeenInv
  <2> QED BY <2>1, <2>3 DEF SeenInv, Dated
<1>6. ASSUME NEW w \in Writers, ExtractRaises(w) PROVE SeenInv'
  BY <1>6, CloseSeen DEF ExtractRaises
<1>7. CASE Transaction
  <2>1. ASSUME NEW w \in Writers, Commit(w) \/ Rollback(w) PROVE SeenInv'
    BY <1>7, <2>1, CloseSeen DEF Commit, Rollback, Transaction
  <2>2. ASSUME NEW w \in Writers, Begin(w) PROVE SeenInv'
    BY <1>3, <1>7, <2>2 DEF Begin, Transaction
  <2> QED BY <1>2, <1>7, <2>1, <2>2, UpsertSeen DEF Transaction
<1>8. CASE UNCHANGED annotationVars
  BY <1>3, <1>8 DEF annotationVars, vars
<1> QED BY <1>4, <1>5, <1>6, <1>7, <1>8 DEF ExtractionNext, Extract, ExtractOk, ExtractFails

LEMMA SeenInvariant == ExtractionSpec => [](TableInv /\ AnnInv /\ SeenInv)
<1>1. ExtractionInit => SeenInv
  BY DEF ExtractionInit, Init, SeenInv, Dated
<1>2. TableInv /\ AnnInv /\ SeenInv /\ [ExtractionNext]_annotationVars => SeenInv'
  BY SeenStep
<1> QED BY <1>1, <1>2, ExtractionInvariant, PTL DEF ExtractionSpec

(***************************************************************************)
(* No read returns an annotation of an article as of an instant before     *)
(* some extraction of it, by that model version, had returned.             *)
(***************************************************************************)
SeenAfterAnExtraction ==
    \A t \in Times : \A a \in LoadAsOf(t) : \E x \in produced : x.key = a.key /\ x.ing <= t

THEOREM NothingIsSeenBeforeTheFirst == ExtractionSpec => []SeenAfterAnExtraction
<1>1. ASSUME TableInv, AnnInv, SeenInv PROVE SeenAfterAnExtraction
  <2> SUFFICES ASSUME NEW t \in Times, NEW k \in Articles \cap SelectAsOf(table, t)
               PROVE  \E x \in produced : x.key = k /\ x.ing <= t
    BY DEF SeenAfterAnExtraction, LoadAsOf
  <2>1. k \in DOMAIN table /\ table[k].avail <= t
    BY DEF SelectAsOf
  <2>2. PICK x \in produced : x.key = k /\ x.ing <= table[k].avail
    BY <1>1, <2>1 DEF SeenInv, Dated
  <2>3. x.ing \in Nat /\ table[k].avail \in Nat /\ t \in Nat
    BY <1>1, <2>1 DEF AnnInv, Result, TableInv, TypeOK, Rows, Row, Times
  <2> QED BY <2>1, <2>2, <2>3
<1> QED BY <1>1, SeenInvariant, PTL

(***************************************************************************)
(* app/ai_context/persistence.py:39-41 holds where each model version      *)
(* reads each article once: what is then loaded is the extraction that the *)
(* row is dated by.  A second run replaces it under the first one's date   *)
(* (MCAnnotationLeak).                                                     *)
(***************************************************************************)
ReadOnce == \A x, y \in produced : x.key = y.key => x.ing = y.ing

THEOREM NeverSeenBeforeProducedOnce == ExtractionSpec /\ []ReadOnce => []NeverSeenBeforeProduced
<1>1. ASSUME AnnInv, SeenInv, ReadOnce PROVE NeverSeenBeforeProduced
  <2> SUFFICES ASSUME NEW k \in Articles \cap DOMAIN table PROVE table[k].ing <= table[k].avail
    BY DEF NeverSeenBeforeProduced
  <2>1. PICK x \in produced : x.key = k /\ x.ing <= table[k].avail
    BY <1>1 DEF SeenInv, Dated
  <2>2. [key |-> k, val |-> table[k].val, ing |-> table[k].ing] \in produced
    BY <1>1 DEF AnnInv, Whole
  <2>3. x.ing = table[k].ing
    BY <1>1, <2>1, <2>2 DEF ReadOnce
  <2> QED BY <2>1, <2>3
<1> QED BY <1>1, SeenInvariant, PTL
=============================================================================
