----------------------------- MODULE StoreProofs -----------------------------
(***************************************************************************)
(* The append-only store, from the abstract timeline down: Timeline keeps  *)
(* its promise, RevisionStore implements it, BarIngest with its instrument *)
(* locks implements RevisionStore, and what a quality report says of the   *)
(* bars.  For any writers, instruments, events, values and bounds.         *)
(***************************************************************************)
EXTENDS DataQuality, FiniteSetTheorems, WellFoundedInduction, TLAPS

-----------------------------------------------------------------------------
(* Timeline, whatever implements it: its constants and variables are none   *)
(* of the store's.                                                          *)

CONSTANTS AnyEvents, AnyValues, Instants
VARIABLES facts, settled

Any == INSTANCE Timeline WITH Events <- AnyEvents, Values <- AnyValues, Times <- Instants

(***************************************************************************)
(* A step of the timeline leaves every answer as of a settled instant as   *)
(* it was: all it publishes lies later.                                    *)
(***************************************************************************)
LEMMA AnswersKept ==
    ASSUME Instants \subseteq Nat, settled \subseteq Instants, Any!TNext, NEW t \in settled
    PROVE  Any!Answer(facts', t) = Any!Answer(facts, t)
<1>1. t \in Nat
  OBVIOUS
<1>2. \A f \in facts' \ facts : f.at \in Nat /\ t < f.at
  BY DEF Any!TNext, Any!Fact
<1>3. \A f \in facts' : f.at <= t => f \in facts
  BY <1>1, <1>2
<1>4. facts \subseteq facts'
  BY DEF Any!TNext
<1> QED BY <1>3, <1>4 DEF Any!Answer

(***************************************************************************)
(* An answer as of a settled instant is final, for any events, values and  *)
(* set of instants.                                                        *)
(***************************************************************************)
THEOREM AnswersAreFinal ==
    ASSUME Instants \subseteq Nat
    PROVE  Any!TSpec => Any!SettledAnswersFinal
<1>1. Any!TInit => settled \subseteq Instants
  BY DEF Any!TInit
<1>2. settled \subseteq Instants /\ [Any!TNext]_(Any!tvars) => (settled \subseteq Instants)'
  BY DEF Any!TNext, Any!tvars
<1>3. settled \subseteq Instants /\ [Any!TNext]_(Any!tvars)
        => [\A t \in settled : Any!Answer(facts', t) = Any!Answer(facts, t)]_(Any!tvars)
  BY AnswersKept
<1> QED BY <1>1, <1>2, <1>3, PTL DEF Any!TSpec, Any!SettledAnswersFinal

-----------------------------------------------------------------------------
(* RevisionStore.                                                           *)

(***************************************************************************)
(* A batch is a sequence of items.                                         *)
(***************************************************************************)
LEMMA BatchIsSeq == ASSUME NEW b \in Batches PROVE b \in Seq(Item)
<1>1. PICK n \in 0..MaxBatch : b \in [1..n -> Item]
  BY DEF Batches
<1>2. n \in Nat
  BY BoundsAssumption
<1> QED BY <1>1, <1>2

(***************************************************************************)
(* An event whose revisions are numbered 1..n gets n + 1 next.             *)
(***************************************************************************)
LEMMA NextRevisionIsNext ==
    ASSUME NEW rows, NEW e, NEW n \in Nat, Revisions(rows, e) = 1..n
    PROVE  NextRevision(rows, e) = n + 1
<1> DEFINE S == (1..n) \cup {0}
<1>1. n \in S /\ \A m \in S : n >= m
  OBVIOUS
<1>2. \A m \in S : m \in Nat /\ ((\A k \in S : m >= k) => m = n)
  <2> SUFFICES ASSUME NEW m \in S, \A k \in S : m >= k PROVE m = n
    OBVIOUS
  <2>1. m >= n /\ n >= m
    BY <1>1
  <2> QED BY <2>1
<1>3. Max(S) = n
  BY <1>1, <1>2 DEF Max
<1> HIDE DEF S
<1>4. Revisions(rows, e) \cup {0} = S
  BY DEF S
<1> QED BY <1>3, <1>4 DEF NextRevision

(***************************************************************************)
(* The inductive invariant.  The type of a row includes its revision, so   *)
(* type correctness needs NumInv: the revisions of an event, committed or  *)
(* as a writer sees them, are 1..n, and a statement in progress holds a    *)
(* number that is at most the next.  Slots says that (event, available_at) *)
(* identifies a row.                                                       *)
(***************************************************************************)
Numbered(rows, e, n) == Revisions(rows, e) = 1..n

NumInv ==
    \A e \in Events :
        /\ \E n \in Nat : Numbered(table, e, n)
        /\ \A w \in Writers : \E n \in Nat :
              /\ Numbered(Visible(w), e, n)
              /\ pending[w] # 0 /\ Head(todo[w]).ev = e => pending[w] \in 1..(n + 1)

\* Rows are written, and statements in progress, only between Fetch and Return.
PhaseInv ==
    \A w \in Writers :
        /\ phase[w] = "idle" => own[w] = {}
        /\ phase[w] # "append" => todo[w] = <<>>
        /\ phase[w] = "append" => stamp[w] \in Times
        /\ pending[w] # 0 => phase[w] = "append" /\ todo[w] # <<>>

IInv == TypeOK /\ PhaseInv /\ NumInv /\ OneRowPerSlot

LEMMA InitIInv == Init => IInv
<1> SUFFICES ASSUME Init PROVE IInv
  OBVIOUS
<1>1. TypeOK
  BY BoundsAssumption DEF Init, TypeOK, Times
<1>2. PhaseInv
  BY DEF Init, PhaseInv
<1>3. \A e : Revisions({}, e) = 1..0
  BY DEF Revisions
<1>4. NumInv
  <2>1. \A w \in Writers : Visible(w) = {} /\ pending[w] = 0
    BY DEF Init, Visible
  <2>2. table = {}
    BY DEF Init
  <2>3. 0 \in Nat
    OBVIOUS
  <2> QED BY <1>3, <2>1, <2>2, <2>3 DEF NumInv, Numbered
<1>5. OneRowPerSlot
  BY DEF Init, OneRowPerSlot, AllRows
<1> QED BY <1>1, <1>2, <1>4, <1>5 DEF IInv

(***************************************************************************)
(* Revisions of a union, and of a row added.                               *)
(***************************************************************************)
LEMMA RevisionsUnion ==
    ASSUME NEW A, NEW B, NEW e
    PROVE  Revisions(A \cup B, e) = Revisions(A, e) \cup Revisions(B, e)
  BY DEF Revisions

LEMMA RevisionsSingleton ==
    ASSUME NEW r, NEW e
    PROVE  Revisions({r}, e) = IF r.ev = e THEN {r.rev} ELSE {}
<1>1. CASE r.ev = e
  <2>1. {s \in {r} : s.ev = e} = {r}
    BY <1>1
  <2> QED BY <1>1, <2>1 DEF Revisions
<1>2. CASE r.ev # e
  <2>1. {s \in {r} : s.ev = e} = {}
    BY <1>2
  <2> QED BY <1>2, <2>1 DEF Revisions
<1> QED BY <1>1, <1>2

LEMMA IntervalUnion ==
    ASSUME NEW m \in Nat, NEW n \in Nat
    PROVE  \E k \in Nat : (1..m) \cup (1..n) = 1..k /\ m <= k /\ n <= k
<1>1. CASE m <= n
  <2>1. (1..m) \cup (1..n) = 1..n
    BY <1>1
  <2> QED BY <1>1, <2>1
<1>2. CASE n <= m
  <2>1. (1..m) \cup (1..n) = 1..m
    BY <1>2
  <2> QED BY <1>2, <2>1
<1> QED BY <1>1, <1>2

(***************************************************************************)
(* The head of a non-empty list of rows to write is an item.               *)
(***************************************************************************)
LEMMA HeadIsItem ==
    ASSUME TypeOK, NEW w \in Writers, todo[w] # <<>>
    PROVE  Head(todo[w]) \in Item /\ Tail(todo[w]) \in Seq(Item)
  BY DEF TypeOK

(***************************************************************************)
(* Each action preserves the inductive invariant.                          *)
(***************************************************************************)
LEMMA BeginIInv == ASSUME IInv, NEW w \in Writers, Begin(w) PROVE IInv'
<1> USE DEF IInv, Begin
<1>1. TypeOK'
  BY DEF TypeOK
<1>2. PhaseInv'
  BY DEF TypeOK, PhaseInv
<1>3. NumInv'
  BY DEF NumInv, Numbered, Visible
<1>4. OneRowPerSlot'
  BY DEF OneRowPerSlot, AllRows
<1> QED BY <1>1, <1>2, <1>3, <1>4

LEMMA FetchIInv ==
    ASSUME IInv, NEW w \in Writers, NEW batch \in Batches, Fetch(w, batch) PROVE IInv'
<1> USE DEF IInv, Fetch
<1>1. TypeOK'
  BY BatchIsSeq, BoundsAssumption DEF TypeOK, Times
<1>2. PhaseInv'
  BY DEF TypeOK, PhaseInv
<1>3. NumInv'
  <2>1. \A v \in Writers : pending[v] # 0 => todo'[v] = todo[v]
    BY DEF TypeOK, PhaseInv
  <2>2. pending' = pending /\ table' = table /\ own' = own
    OBVIOUS
  <2> QED BY <2>1, <2>2 DEF NumInv, Numbered, Visible
<1>4. OneRowPerSlot'
  BY DEF OneRowPerSlot, AllRows
<1> QED BY <1>1, <1>2, <1>3, <1>4

LEMMA StartInsertIInv == ASSUME IInv, NEW w \in Writers, StartInsert(w) PROVE IInv'
<1> USE DEF IInv
<1> DEFINE e == Head(todo[w]).ev
<1>1. e \in Events
  BY HeadIsItem DEF StartInsert, Item
<1>2. PICK n \in Nat : Numbered(Visible(w), e, n)
  BY <1>1 DEF NumInv
<1>3. pending' = [pending EXCEPT ![w] = n + 1]
  BY <1>2, NextRevisionIsNext DEF StartInsert, Numbered
<1>4. TypeOK'
  BY <1>3 DEF StartInsert, TypeOK
<1>5. PhaseInv'
  BY DEF StartInsert, TypeOK, PhaseInv
<1>6. NumInv'
  <2> SUFFICES ASSUME NEW d \in Events
               PROVE  /\ \E m \in Nat : Numbered(table', d, m)
                      /\ \A v \in Writers : \E m \in Nat :
                           /\ Numbered(table' \cup own'[v], d, m)
                           /\ pending'[v] # 0 /\ Head(todo'[v]).ev = d => pending'[v] \in 1..(m + 1)
    BY DEF NumInv, Visible, Numbered, Revisions
  <2>1. table' = table /\ own' = own /\ todo' = todo
    BY DEF StartInsert
  <2>2. \E m \in Nat : Numbered(table', d, m)
    BY <2>1 DEF NumInv, Numbered
  <2>3. ASSUME NEW v \in Writers, v # w
        PROVE  \E m \in Nat :
                 /\ Numbered(table' \cup own'[v], d, m)
                 /\ pending'[v] # 0 /\ Head(todo'[v]).ev = d => pending'[v] \in 1..(m + 1)
    BY <1>3, <2>1, <2>3 DEF NumInv, Numbered, Visible, TypeOK
  <2>4. PICK m \in Nat : Numbered(Visible(w), d, m)
    BY DEF NumInv
  <2>5. pending'[w] = n + 1
    BY <1>3 DEF TypeOK
  <2>6. ASSUME d = e PROVE pending'[w] \in 1..(m + 1)
    <3>1. 1..n = 1..m
      BY <1>2, <2>4, <2>6 DEF Numbered
    <3>2. n = m
      BY <3>1
    <3> QED BY <2>5, <3>2
  <2>7. Numbered(table' \cup own'[w], d, m)
    BY <2>1, <2>4 DEF Visible, Numbered
  <2> QED BY <2>1, <2>2, <2>3, <2>6, <2>7
<1>7. OneRowPerSlot'
  BY DEF StartInsert, OneRowPerSlot, AllRows
<1> QED BY <1>4, <1>5, <1>6, <1>7

LEMMA FinishInsertIInv == ASSUME IInv, NEW w \in Writers, FinishInsert(w) PROVE IInv'
<1> USE DEF IInv
<1> DEFINE item == Head(todo[w])
           row  == [ev |-> item.ev, val |-> item.val, avail |-> stamp[w], rev |-> pending[w]]
           hit  == \E r \in Visible(w) : SameSlot(r, item.ev, stamp[w])
<1>1. /\ pending[w] # 0 /\ todo[w] # <<>> /\ stamp[w] \in Times /\ phase[w] = "append"
  BY DEF FinishInsert, PhaseInv
<1>2. item \in Item /\ Tail(todo[w]) \in Seq(Item) /\ item.ev \in Events
  BY <1>1, HeadIsItem DEF Item
<1>3. PICK n \in Nat : Numbered(Visible(w), item.ev, n) /\ pending[w] \in 1..(n + 1)
  BY <1>1, <1>2 DEF NumInv
<1>4. row \in Row
  BY <1>1, <1>2, <1>3 DEF Row, Item
<1>5. /\ table' = table /\ phase' = phase /\ stamp' = stamp /\ clock' = clock
      /\ todo' = [todo EXCEPT ![w] = Tail(@)]
      /\ pending' = [pending EXCEPT ![w] = 0]
      /\ own' = [own EXCEPT ![w] = IF hit THEN @ ELSE @ \cup {row}]
  BY DEF FinishInsert
<1>6. \A v \in Writers \ {w} : own'[v] = own[v] /\ todo'[v] = todo[v] /\ pending'[v] = pending[v]
  BY <1>5 DEF TypeOK
<1>7. pending'[w] = 0 /\ own'[w] = IF hit THEN own[w] ELSE own[w] \cup {row}
  BY <1>5 DEF TypeOK
<1> HIDE DEF item, row, hit
<1>8. TypeOK'
  <2>1. own' \in [Writers -> SUBSET Row]
    BY <1>4, <1>5 DEF TypeOK
  <2>2. todo' \in [Writers -> Seq(Item)]
    BY <1>2, <1>5 DEF TypeOK
  <2>3. pending' \in [Writers -> Nat]
    BY <1>5 DEF TypeOK
  <2> QED BY <1>5, <2>1, <2>2, <2>3 DEF TypeOK
<1>9. PhaseInv'
  <2> SUFFICES ASSUME NEW v \in Writers
               PROVE  /\ phase'[v] = "idle" => own'[v] = {}
                      /\ phase'[v] # "append" => todo'[v] = <<>>
                      /\ phase'[v] = "append" => stamp'[v] \in Times
                      /\ pending'[v] # 0 => phase'[v] = "append" /\ todo'[v] # <<>>
    BY DEF PhaseInv, Times
  <2>1. CASE v = w
    BY <1>1, <1>5, <1>7, <2>1 DEF Times
  <2>2. CASE v # w
    BY <1>5, <1>6, <2>2 DEF PhaseInv
  <2> QED BY <2>1, <2>2
<1>10. NumInv'
  <2> SUFFICES ASSUME NEW d \in Events
               PROVE  /\ \E m \in Nat : Numbered(table', d, m)
                      /\ \A v \in Writers : \E m \in Nat :
                           /\ Numbered(table' \cup own'[v], d, m)
                           /\ pending'[v] # 0 /\ Head(todo'[v]).ev = d => pending'[v] \in 1..(m + 1)
    BY DEF NumInv, Visible, Numbered, Revisions
  <2>1. \E m \in Nat : Numbered(table', d, m)
    BY <1>5 DEF NumInv, Numbered
  <2>2. ASSUME NEW v \in Writers, v # w
        PROVE  \E m \in Nat :
                 /\ Numbered(table' \cup own'[v], d, m)
                 /\ pending'[v] # 0 /\ Head(todo'[v]).ev = d => pending'[v] \in 1..(m + 1)
    BY <1>5, <1>6, <2>2 DEF NumInv, Numbered, Visible
  <2>3. \E m \in Nat : Numbered(table' \cup own'[w], d, m)
    <3>1. PICK m \in Nat : Numbered(Visible(w), d, m)
      BY DEF NumInv
    <3>2. CASE hit
      BY <1>5, <1>7, <3>1, <3>2 DEF Visible, Numbered
    <3>3. CASE ~hit
      <4>1. table' \cup own'[w] = Visible(w) \cup {row}
        BY <1>5, <1>7, <3>3 DEF Visible
      <4>2. Revisions(table' \cup own'[w], d) = Revisions(Visible(w), d) \cup Revisions({row}, d)
        BY <4>1, RevisionsUnion
      <4>3. CASE d # item.ev
        <5>1. Revisions({row}, d) = {}
          BY <4>3, RevisionsSingleton DEF row
        <5> QED BY <3>1, <4>2, <5>1 DEF Numbered
      <4>4. CASE d = item.ev
        <5>1. Revisions({row}, d) = {pending[w]}
          <6>1. row.ev = d /\ row.rev = pending[w]
            BY <4>4 DEF row
          <6> QED BY <6>1, RevisionsSingleton
        <5>2. Revisions(table' \cup own'[w], d) = (1..n) \cup {pending[w]}
          BY <1>3, <4>2, <4>4, <5>1 DEF Numbered
        <5>3. (1..n) \cup {pending[w]} = 1..n \/ (1..n) \cup {pending[w]} = 1..(n + 1)
          <6>1. CASE pending[w] = n + 1
            BY <6>1
          <6>2. CASE pending[w] # n + 1
            <7>1. pending[w] \in 1..n
              BY <1>3, <6>2
            <7> QED BY <7>1
          <6> QED BY <6>1, <6>2
        <5>4. n + 1 \in Nat
          OBVIOUS
        <5> QED BY <5>2, <5>3, <5>4 DEF Numbered
      <4> QED BY <4>3, <4>4
    <3> QED BY <3>2, <3>3
  <2> QED BY <1>7, <2>1, <2>2, <2>3
<1>11. OneRowPerSlot'
  <2> SUFFICES ASSUME NEW r \in AllRows', NEW s \in AllRows', r.ev = s.ev, r.avail = s.avail
               PROVE  r = s
    BY DEF OneRowPerSlot
  <2>1. AllRows' \subseteq AllRows \cup {row}
    BY <1>5, <1>6, <1>7 DEF AllRows
  <2>2. hit => AllRows' \subseteq AllRows
    BY <1>5, <1>6, <1>7 DEF AllRows
  <2>3. ~hit => \A q \in AllRows : ~SameSlot(q, item.ev, stamp[w])
    BY DEF FinishInsert, AllRows, Visible, hit, item
  <2>4. row.ev = item.ev /\ row.avail = stamp[w]
    BY DEF row
  <2> QED BY <2>1, <2>2, <2>3, <2>4 DEF OneRowPerSlot, SameSlot
<1> QED BY <1>8, <1>9, <1>10, <1>11

LEMMA ReturnIInv == ASSUME IInv, NEW w \in Writers, Return(w) PROVE IInv'
<1> USE DEF IInv, Return
<1>1. TypeOK'
  BY BoundsAssumption DEF TypeOK
<1>2. PhaseInv'
  BY DEF TypeOK, PhaseInv
<1>3. NumInv'
  BY DEF NumInv, Numbered, Visible
<1>4. OneRowPerSlot'
  BY DEF OneRowPerSlot, AllRows
<1> QED BY <1>1, <1>2, <1>3, <1>4

(***************************************************************************)
(* Ending a transaction, by commit or by rollback.                         *)
(***************************************************************************)
LEMMA CloseLocal ==
    ASSUME IInv, NEW w \in Writers, Close(w)
    PROVE  /\ own' = [own EXCEPT ![w] = {}]
           /\ own'[w] = {} /\ todo'[w] = <<>> /\ pending'[w] = 0 /\ phase'[w] = "idle"
           /\ \A v \in Writers \ {w} : /\ own'[v] = own[v] /\ todo'[v] = todo[v]
                                       /\ pending'[v] = pending[v]
           /\ (table' \subseteq Row => TypeOK')
           /\ PhaseInv'
<1> USE DEF IInv, Close
<1>1. /\ own'[w] = {} /\ todo'[w] = <<>> /\ pending'[w] = 0 /\ phase'[w] = "idle"
      /\ \A v \in Writers \ {w} : /\ own'[v] = own[v] /\ todo'[v] = todo[v]
                                  /\ pending'[v] = pending[v]
  BY DEF TypeOK
<1>2. table' \subseteq Row => TypeOK'
  BY BoundsAssumption DEF TypeOK
<1>3. PhaseInv'
  BY DEF TypeOK, PhaseInv
<1> QED BY <1>1, <1>2, <1>3

LEMMA CommitIInv == ASSUME IInv, NEW w \in Writers, Commit(w) PROVE IInv'
<1> USE DEF IInv
<1>1. table' = Visible(w) /\ Close(w)
  BY DEF Commit, Visible
<1>2. table' \subseteq Row
  BY <1>1 DEF TypeOK, Visible
<1>3. NumInv'
  <2> SUFFICES ASSUME NEW d \in Events
               PROVE  /\ \E m \in Nat : Numbered(table', d, m)
                      /\ \A v \in Writers : \E m \in Nat :
                           /\ Numbered(table' \cup own'[v], d, m)
                           /\ pending'[v] # 0 /\ Head(todo'[v]).ev = d => pending'[v] \in 1..(m + 1)
    BY DEF NumInv, Visible, Numbered, Revisions
  <2>1. PICK n \in Nat : Numbered(table', d, n)
    BY <1>1 DEF NumInv, Numbered
  <2>2. \E m \in Nat : Numbered(table' \cup own'[w], d, m)
    <3>1. table' \cup own'[w] = table'
      BY <1>1, CloseLocal
    <3> QED BY <2>1, <3>1 DEF Numbered
  <2>3. ASSUME NEW v \in Writers, v # w
        PROVE  \E m \in Nat :
                 /\ Numbered(table' \cup own'[v], d, m)
                 /\ pending'[v] # 0 /\ Head(todo'[v]).ev = d => pending'[v] \in 1..(m + 1)
    <3>1. PICK m \in Nat :
             /\ Numbered(Visible(v), d, m)
             /\ pending[v] # 0 /\ Head(todo[v]).ev = d => pending[v] \in 1..(m + 1)
      BY DEF NumInv
    <3>2. own'[v] = own[v] /\ todo'[v] = todo[v] /\ pending'[v] = pending[v]
      BY <1>1, <2>3, CloseLocal
    <3>3. table' \cup own'[v] = table' \cup Visible(v)
      BY <1>1, <3>2 DEF Visible
    <3>4. Revisions(table' \cup own'[v], d) = (1..n) \cup (1..m)
      <4>1. Revisions(table' \cup Visible(v), d) = Revisions(table', d) \cup Revisions(Visible(v), d)
        BY RevisionsUnion
      <4> QED BY <2>1, <3>1, <3>3, <4>1 DEF Numbered
    <3>5. PICK k \in Nat : (1..n) \cup (1..m) = 1..k /\ m <= k
      BY IntervalUnion
    <3>6. pending[v] \in 1..(m + 1) => pending[v] \in 1..(k + 1)
      BY <3>5
    <3> QED BY <3>1, <3>2, <3>4, <3>5, <3>6 DEF Numbered
  <2> QED BY <1>1, <2>1, <2>2, <2>3, CloseLocal
<1>4. AllRows' \subseteq AllRows
  BY <1>1, CloseLocal DEF AllRows, Visible
<1>5. OneRowPerSlot'
  BY <1>4 DEF OneRowPerSlot
<1> QED BY <1>1, <1>2, <1>3, <1>5, CloseLocal

LEMMA RollbackIInv == ASSUME IInv, NEW w \in Writers, Rollback(w) PROVE IInv'
<1> USE DEF IInv
<1>1. table' = table /\ Close(w)
  BY DEF Rollback
<1>2. NumInv'
  <2> SUFFICES ASSUME NEW d \in Events
               PROVE  /\ \E m \in Nat : Numbered(table', d, m)
                      /\ \A v \in Writers : \E m \in Nat :
                           /\ Numbered(table' \cup own'[v], d, m)
                           /\ pending'[v] # 0 /\ Head(todo'[v]).ev = d => pending'[v] \in 1..(m + 1)
    BY DEF NumInv, Visible, Numbered, Revisions
  <2>1. PICK n \in Nat : Numbered(table', d, n)
    BY <1>1 DEF NumInv, Numbered
  <2>2. table' \cup own'[w] = table' /\ pending'[w] = 0
    BY <1>1, CloseLocal
  <2>3. ASSUME NEW v \in Writers, v # w
        PROVE  \E m \in Nat :
                 /\ Numbered(table' \cup own'[v], d, m)
                 /\ pending'[v] # 0 /\ Head(todo'[v]).ev = d => pending'[v] \in 1..(m + 1)
    BY <1>1, <2>3, CloseLocal DEF NumInv, Visible
  <2> QED BY <2>1, <2>2, <2>3 DEF Numbered
<1>3. AllRows' \subseteq AllRows
  BY <1>1, CloseLocal DEF AllRows
<1>4. OneRowPerSlot'
  BY <1>3 DEF OneRowPerSlot
<1> QED BY <1>1, <1>2, <1>4, CloseLocal DEF TypeOK

LEMMA NextIInv == IInv /\ [Next]_vars => IInv'
<1> SUFFICES ASSUME IInv, [Next]_vars PROVE IInv'
  OBVIOUS
<1>1. CASE Tick
  <2>1. TypeOK'
    BY <1>1, BoundsAssumption DEF IInv, Tick, TypeOK, Times
  <2>2. PhaseInv'
    BY <1>1 DEF IInv, Tick, PhaseInv
  <2>3. NumInv'
    BY <1>1 DEF IInv, Tick, NumInv, Numbered, Visible
  <2>4. OneRowPerSlot'
    BY <1>1 DEF IInv, Tick, OneRowPerSlot, AllRows
  <2> QED BY <2>1, <2>2, <2>3, <2>4 DEF IInv
<1>2. CASE UNCHANGED vars
  <2>1. TypeOK'
    BY <1>2 DEF IInv, vars, TypeOK
  <2>2. PhaseInv'
    BY <1>2 DEF IInv, vars, PhaseInv
  <2>3. NumInv'
    BY <1>2 DEF IInv, vars, NumInv, Numbered, Visible
  <2>4. OneRowPerSlot'
    BY <1>2 DEF IInv, vars, OneRowPerSlot, AllRows
  <2> QED BY <2>1, <2>2, <2>3, <2>4 DEF IInv
<1>3. ASSUME NEW w \in Writers, Begin(w) PROVE IInv'
  BY <1>3, BeginIInv
<1>4. ASSUME NEW w \in Writers, NEW batch \in Batches, Fetch(w, batch) PROVE IInv'
  BY <1>4, FetchIInv
<1>5. ASSUME NEW w \in Writers, StartInsert(w) PROVE IInv'
  BY <1>5, StartInsertIInv
<1>6. ASSUME NEW w \in Writers, FinishInsert(w) PROVE IInv'
  BY <1>6, FinishInsertIInv
<1>7. ASSUME NEW w \in Writers, Return(w) PROVE IInv'
  BY <1>7, ReturnIInv
<1>8. ASSUME NEW w \in Writers, Commit(w) PROVE IInv'
  BY <1>8, CommitIInv
<1>9. ASSUME NEW w \in Writers, Rollback(w) PROVE IInv'
  BY <1>9, RollbackIInv
<1> QED BY <1>1, <1>2, <1>3, <1>4, <1>5, <1>6, <1>7, <1>8, <1>9 DEF Next

LEMMA InvariantIInv == Spec => []IInv
  BY InitIInv, NextIInv, PTL DEF Spec

(***************************************************************************)
(* Every variable keeps its type: in particular every stored revision is a *)
(* positive number and every stamp an instant the clock has reached.       *)
(***************************************************************************)
THEOREM TypeCorrect == Spec => []TypeOK
  BY InvariantIInv, PTL DEF IInv

(***************************************************************************)
(* (event, available_at) identifies a row among committed and uncommitted  *)
(* ones, so a point-in-time read has one answer per event.                 *)
(***************************************************************************)
THEOREM SlotsIdentifyRows == Spec => []OneRowPerSlot
  BY InvariantIInv, PTL DEF IInv

(***************************************************************************)
(* The revisions of every event are 1..n without a gap, as committed and   *)
(* as every writer sees them.                                              *)
(***************************************************************************)
LEMMA NumberedIsGapFree ==
    ASSUME NEW rows, rows \subseteq Row, \A e \in Events : \E n \in Nat : Numbered(rows, e, n)
    PROVE  GapFree(rows)
<1> SUFFICES ASSUME NEW r \in rows, NEW k \in 1..r.rev
             PROVE  \E s \in rows : s.ev = r.ev /\ s.rev = k
  BY DEF GapFree
<1>1. r.ev \in Events /\ r.rev \in Nat
  BY DEF Row
<1>2. PICK n \in Nat : Revisions(rows, r.ev) = 1..n
  BY <1>1 DEF Numbered
<1>3. r.rev \in 1..n
  BY <1>2 DEF Revisions
<1>4. k \in Revisions(rows, r.ev)
  BY <1>1, <1>2, <1>3
<1> QED BY <1>4 DEF Revisions

THEOREM RevisionsAreGapFree == Spec => []RevisionsGapFree
<1>1. IInv => RevisionsGapFree
  <2> SUFFICES ASSUME IInv PROVE RevisionsGapFree
    OBVIOUS
  <2>1. GapFree(table)
    BY NumberedIsGapFree DEF IInv, TypeOK, NumInv
  <2>2. ASSUME NEW w \in Writers PROVE GapFree(Visible(w))
    <3>1. Visible(w) \subseteq Row
      BY DEF IInv, TypeOK, Visible
    <3>2. \A e \in Events : \E n \in Nat : Numbered(Visible(w), e, n)
      BY DEF IInv, NumInv
    <3> QED BY <3>1, <3>2, NumberedIsGapFree
  <2> QED BY <2>1, <2>2 DEF RevisionsGapFree
<1> QED BY InvariantIInv, <1>1, PTL

(***************************************************************************)
(* Only a commit changes the table, and what it adds lies after every      *)
(* settled instant.                                                        *)
(***************************************************************************)
LEMMA CommitsLieAhead ==
    ASSUME IInv, [Next]_vars
    PROVE  /\ table \subseteq table'
           /\ \A r \in table' \ table : r \in Row /\ \A t \in Settled : t < r.avail
<1>1. CASE table' = table
  BY <1>1
<1>2. ASSUME NEW w \in Writers, Commit(w)
      PROVE  /\ table \subseteq table'
             /\ \A r \in table' \ table : r \in Row /\ \A t \in Settled : t < r.avail
  <2>1. table' = table \cup own[w]
    BY <1>2 DEF Commit
  <2>2. \A r \in own[w] : r \in Row /\ \A t \in Settled : t < r.avail
    BY DEF IInv, TypeOK, Settled
  <2> QED BY <2>1, <2>2
<1>3. table' = table \/ \E w \in Writers : Commit(w)
  BY DEF Next, vars, Tick, Begin, Fetch, StartInsert, FinishInsert, Return, Rollback
<1> QED BY <1>1, <1>2, <1>3

(***************************************************************************)
(* Point-in-time queries are reproducible: whatever keys and values they   *)
(* filter on, their answer as of a settled instant never changes.          *)
(***************************************************************************)
THEOREM QueriesAreReproducible == Spec => ReadsReproducible
<1>1. ASSUME IInv, [Next]_vars, NEW t \in Settled, NEW keys, NEW vals
      PROVE  SelectAsOf(table', keys, vals, t) = SelectAsOf(table, keys, vals, t)
  <2>1. t \in Nat
    BY DEF Settled, Times
  <2>2. table \subseteq table' /\ \A r \in table' \ table : ~(r.avail <= t)
    BY <1>1, <2>1, CommitsLieAhead DEF Row, Times
  <2>3. Matching(table', keys, vals, t) = Matching(table, keys, vals, t)
    BY <2>2 DEF Matching
  <2> QED BY <2>3 DEF SelectAsOf
<1>2. IInv /\ [Next]_vars =>
        [\A t \in Settled, keys \in SUBSET Events, vals \in SUBSET Values :
           SelectAsOf(table', keys, vals, t) = SelectAsOf(table, keys, vals, t)]_vars
  BY <1>1
<1> QED BY InvariantIInv, <1>2, PTL DEF Spec, ReadsReproducible

(***************************************************************************)
(* The revision tables implement the abstract timeline.                    *)
(***************************************************************************)
LEMMA SettledGrows == ASSUME IInv, [Next]_vars PROVE Settled \subseteq Settled'
<1> SUFFICES ASSUME NEW t \in Settled PROVE t \in Settled'
  OBVIOUS
<1> DEFINE Clear(w) == (stamp[w] # 0 => t < stamp[w]) /\ \A r \in own[w] : t < r.avail
<1>1. t \in Times /\ t \in Nat /\ t < clock /\ clock \in Nat /\ \A w \in Writers : Clear(w)
  BY DEF Settled, Times, IInv, TypeOK
<1>2. t < clock'
  BY <1>1 DEF Next, vars, Tick, Begin, Fetch, StartInsert, FinishInsert, Return, Rollback, Commit, Close
<1>3. ASSUME NEW w \in Writers PROVE Clear(w)'
  <2>1. (stamp'[w] = stamp[w] \/ stamp'[w] = 0 \/ stamp'[w] = clock)
    BY <1>3 DEF Next, vars, Tick, Begin, Fetch, StartInsert, FinishInsert, Return, Rollback,
                Commit, Close, IInv, TypeOK
  <2>2. stamp'[w] # 0 => t < stamp'[w]
    BY <1>1, <2>1
  <2>3. \A r \in own'[w] : r \in own[w] \/ (r.avail = stamp[w] /\ stamp[w] # 0)
    <3>1. own' = own \/ (\E v \in Writers : FinishInsert(v)) \/ \E v \in Writers : Close(v)
      BY DEF Next, vars, Tick, Begin, Fetch, StartInsert, Return, Rollback, Commit
    <3>2. CASE own' = own
      BY <3>2
    <3>3. ASSUME NEW v \in Writers, FinishInsert(v)
          PROVE \A r \in own'[w] : r \in own[w] \/ (r.avail = stamp[w] /\ stamp[w] # 0)
      <4>1. stamp[v] # 0
        BY <3>3 DEF FinishInsert, IInv, PhaseInv, Times
      <4> QED BY <3>3, <4>1 DEF FinishInsert, IInv, TypeOK
    <3>4. ASSUME NEW v \in Writers, Close(v) PROVE own'[w] \subseteq own[w]
      BY <3>4 DEF Close, IInv, TypeOK
    <3> QED BY <3>1, <3>2, <3>3, <3>4
  <2>4. \A r \in own'[w] : t < r.avail
    BY <1>1, <2>3
  <2> QED BY <2>2, <2>4
<1> QED BY <1>1, <1>2, <1>3 DEF Settled

THEOREM ImplementsTimeline == Spec => Refinement
<1>1. Init => TL!TInit
  <2> SUFFICES ASSUME Init PROVE PublishedFacts = {} /\ Settled = {}
    BY DEF TL!TInit
  <2>1. PublishedFacts = {}
    BY DEF Init, PublishedFacts
  <2>2. Settled = {}
    BY DEF Init, Settled, Times
  <2> QED BY <2>1, <2>2
<1>2. ASSUME IInv, IInv', [Next]_vars PROVE TL!TNext
  <2>1. PublishedFacts' \subseteq TL!Fact
    BY <1>2 DEF IInv, TypeOK, PublishedFacts, TL!Fact, Row
  <2>2. PublishedFacts \subseteq PublishedFacts'
    BY <1>2, CommitsLieAhead DEF PublishedFacts
  <2>3. TL!Functional(PublishedFacts')
    <3> SUFFICES ASSUME NEW f \in PublishedFacts', NEW g \in PublishedFacts',
                        f.ev = g.ev, f.at = g.at
                 PROVE  f = g
      BY DEF TL!Functional
    <3>1. PICK r \in table' : f = [ev |-> r.ev, val |-> r.val, at |-> r.avail]
      BY DEF PublishedFacts
    <3>2. PICK s \in table' : g = [ev |-> s.ev, val |-> s.val, at |-> s.avail]
      BY DEF PublishedFacts
    <3>3. r = s
      BY <1>2, <3>1, <3>2 DEF IInv, OneRowPerSlot, AllRows
    <3> QED BY <3>1, <3>2, <3>3
  <2>4. ASSUME NEW f \in PublishedFacts' \ PublishedFacts, NEW t \in Settled PROVE t < f.at
    <3>1. PICK r \in table' : f = [ev |-> r.ev, val |-> r.val, at |-> r.avail]
      BY DEF PublishedFacts
    <3>2. r \notin table
      BY <3>1 DEF PublishedFacts
    <3> QED BY <1>2, <3>1, <3>2, CommitsLieAhead
  <2>5. Settled' \subseteq Times /\ Settled \subseteq Settled'
    BY <1>2, SettledGrows DEF Settled
  <2> QED BY <2>1, <2>2, <2>3, <2>4, <2>5 DEF TL!TNext
<1>3. IInv /\ IInv' /\ [Next]_vars => [TL!TNext]_(TL!tvars)
  BY <1>2
<1> QED BY InvariantIInv, <1>1, <1>3, PTL DEF Spec, Refinement, TL!TSpec

-----------------------------------------------------------------------------
(* What a read gives.                                                       *)

\* The committed rows and what each session sees of them: all that is ever read.
Readable == {table} \cup {Visible(w) : w \in Writers}

LEMMA ReadableRows ==
    ASSUME IInv, NEW rows \in Readable
    PROVE  rows \subseteq Row /\ \A r, s \in rows : r.ev = s.ev /\ r.avail = s.avail => r = s
<1>1. rows \subseteq AllRows
  BY DEF Readable, Visible, AllRows
<1>2. AllRows \subseteq Row
  BY DEF IInv, TypeOK, AllRows
<1> QED BY <1>1, <1>2 DEF IInv, OneRowPerSlot

(***************************************************************************)
(* Instants are bounded, so a set of them has a greatest one.              *)
(***************************************************************************)
LEMMA GreatestTime ==
    ASSUME NEW S, S \subseteq 0..MaxTime, S # {}
    PROVE  \E m \in S : \A s \in S : s <= m
<1> DEFINE T == {MaxTime - s : s \in S}
<1>1. T \subseteq Nat /\ T # {}
  <2>1. \A s \in S : s \in 0..MaxTime /\ MaxTime - s \in Nat
    BY BoundsAssumption
  <2> QED BY <2>1
<1>2. PICK m \in T : \A n \in T : ~ (<<n, m>> \in OpToRel(<, Nat))
  BY <1>1, WFMin, NatLessThanWellFounded
<1>3. \A n \in T : ~ (n < m)
  BY <1>1, <1>2, Zenon DEF OpToRel
<1>4. PICK g \in S : m = MaxTime - g
  OBVIOUS
<1>5. \A s \in S : s <= g
  <2> SUFFICES ASSUME NEW s \in S, ~ (s <= g) PROVE FALSE
    OBVIOUS
  <2>1. MaxTime - s \in T /\ MaxTime - s < m
    BY <1>4, BoundsAssumption
  <2> QED BY <1>3, <2>1
<1> QED BY <1>5

(***************************************************************************)
(* Where (event, available_at) identifies a row, each event that has one   *)
(* has exactly one that outranks the others.                               *)
(***************************************************************************)
LEMMA LatestExists ==
    ASSUME NEW rows, rows \subseteq Row,
           \A r, s \in rows : r.ev = s.ev /\ r.avail = s.avail => r = s,
           NEW r \in rows
    PROVE  \E m \in LatestPerEvent(rows) : m.ev = r.ev
<1> DEFINE S == {s.avail : s \in {q \in rows : q.ev = r.ev}}
<1>1. S \subseteq 0..MaxTime /\ S # {}
  BY BoundsAssumption DEF Row, Times
<1> HIDE DEF S
<1>2. PICK g \in S : \A s \in S : s <= g
  BY <1>1, GreatestTime
<1>3. PICK m \in rows : m.ev = r.ev /\ m.avail = g
  BY DEF S
<1>4. \A s \in rows : s.ev = m.ev => Outranks(m, s)
  <2> SUFFICES ASSUME NEW s \in rows, s.ev = m.ev PROVE Outranks(m, s)
    OBVIOUS
  <2>1. s.avail \in S
    BY <1>3 DEF S
  <2>2. s.avail <= m.avail /\ s.avail \in Nat /\ m.avail \in Nat /\ m.rev \in Nat
    BY <1>2, <1>3, <2>1 DEF Row, Times
  <2>3. s.avail = m.avail => s = m
    OBVIOUS
  <2> QED BY <2>2, <2>3 DEF Outranks
<1> QED BY <1>3, <1>4 DEF LatestPerEvent

LEMMA LatestIsUnique ==
    ASSUME NEW rows, rows \subseteq Row,
           \A r, s \in rows : r.ev = s.ev /\ r.avail = s.avail => r = s,
           NEW m \in LatestPerEvent(rows), NEW n \in LatestPerEvent(rows), m.ev = n.ev
    PROVE  m = n
<1>1. m \in rows /\ n \in rows /\ Outranks(m, n) /\ Outranks(n, m)
  BY DEF LatestPerEvent
<1>2. m.avail \in Nat /\ n.avail \in Nat
  BY <1>1 DEF Row, Times
<1>3. m.avail = n.avail
  BY <1>1, <1>2 DEF Outranks
<1> QED BY <1>1, <1>3

(***************************************************************************)
(* select_latest_revision_as_of returns, for each event with a row that    *)
(* passes the filters, exactly one row, and none for the others: which one *)
(* never depends on the order the database returns equals in.              *)
(***************************************************************************)
ReadsAreUnambiguous ==
    \A rows \in Readable, keys \in SUBSET Events, vals \in SUBSET Values, t \in Times, e \in Events :
        LET found == {r \in SelectAsOf(rows, keys, vals, t) : r.ev = e}
        IN  IF \E r \in Matching(rows, keys, vals, t) : r.ev = e
            THEN \E r \in rows : found = {r}
            ELSE found = {}

THEOREM OneAnswerPerEvent == Spec => []ReadsAreUnambiguous
<1>1. ASSUME IInv PROVE ReadsAreUnambiguous
  <2> SUFFICES ASSUME NEW rows \in Readable, NEW keys \in SUBSET Events, NEW vals \in SUBSET Values,
                      NEW t \in Times, NEW e \in Events
               PROVE  LET found == {r \in SelectAsOf(rows, keys, vals, t) : r.ev = e}
                      IN  IF \E r \in Matching(rows, keys, vals, t) : r.ev = e
                          THEN \E r \in rows : found = {r}
                          ELSE found = {}
    BY DEF ReadsAreUnambiguous
  <2> DEFINE M == Matching(rows, keys, vals, t)
             found == {r \in SelectAsOf(rows, keys, vals, t) : r.ev = e}
  <2>1. M \subseteq rows /\ M \subseteq Row
        /\ \A r, s \in M : r.ev = s.ev /\ r.avail = s.avail => r = s
    BY <1>1, ReadableRows DEF Matching
  <2>2. found \subseteq M /\ found = {r \in LatestPerEvent(M) : r.ev = e}
    BY DEF SelectAsOf, LatestPerEvent
  <2> HIDE DEF M
  <2>3. ASSUME NEW r \in M, r.ev = e PROVE \E s \in rows : found = {s}
    <3>1. PICK m \in LatestPerEvent(M) : m.ev = e
      BY <2>1, <2>3, LatestExists
    <3>2. \A n \in LatestPerEvent(M) : n.ev = e => n = m
      BY <2>1, <3>1, LatestIsUnique
    <3>3. found = {m} /\ m \in rows
      BY <2>1, <2>2, <3>1, <3>2
    <3> QED BY <3>3
  <2>4. ASSUME \A r \in M : r.ev # e PROVE found = {}
    BY <2>2, <2>4
  <2> QED BY <2>3, <2>4 DEF M
<1> QED BY <1>1, InvariantIInv, PTL

(***************************************************************************)
(* Filters on the logical key commute with choosing the latest; a filter   *)
(* on a correctable column returns the latest row of every event it        *)
(* matches if and only if no matching event has been corrected out of it.  *)
(* FilteredReadPicksLatest is violated exactly where this condition is.    *)
(***************************************************************************)
FilteredReadsCharacterized ==
    \A t \in Times, keys \in SUBSET Events, vals \in SUBSET Values :
        /\ SelectAsOf(table, keys, vals, t) =
              {r \in SelectAsOf(table, Events, vals, t) : r.ev \in keys}
        /\ SelectAsOf(table, keys, vals, t) \subseteq SelectAsOf(table, Events, Values, t)
              <=> \A r \in Matching(table, keys, vals, t) :
                     \A s \in SelectAsOf(table, Events, Values, t) : s.ev = r.ev => s.val \in vals

THEOREM FilterOnKeysIsHarmless == Spec => []FilteredReadsCharacterized
<1>1. ASSUME IInv PROVE FilteredReadsCharacterized
  <2> SUFFICES ASSUME NEW t \in Times, NEW keys \in SUBSET Events, NEW vals \in SUBSET Values
               PROVE  /\ SelectAsOf(table, keys, vals, t) =
                            {r \in SelectAsOf(table, Events, vals, t) : r.ev \in keys}
                      /\ SelectAsOf(table, keys, vals, t) \subseteq SelectAsOf(table, Events, Values, t)
                            <=> \A r \in Matching(table, keys, vals, t) :
                                   \A s \in SelectAsOf(table, Events, Values, t) :
                                      s.ev = r.ev => s.val \in vals
    BY DEF FilteredReadsCharacterized
  <2> DEFINE M == Matching(table, keys, vals, t)
             A == Matching(table, Events, Values, t)
  <2>1. table \in Readable
    BY DEF Readable
  <2>2. /\ M \subseteq A /\ A \subseteq Row
        /\ \A r, s \in A : r.ev = s.ev /\ r.avail = s.avail => r = s
    BY <1>1, <2>1, ReadableRows DEF Matching
  <2>3. SelectAsOf(table, keys, vals, t) = {r \in SelectAsOf(table, Events, vals, t) : r.ev \in keys}
    <3>1. \A r \in table : r.ev \in Events
      BY <1>1 DEF IInv, TypeOK, Row
    <3> QED BY <3>1 DEF SelectAsOf, LatestPerEvent, Matching
  <2>4. ASSUME LatestPerEvent(M) \subseteq LatestPerEvent(A),
               NEW r \in M, NEW s \in LatestPerEvent(A), s.ev = r.ev
        PROVE  s.val \in vals
    <3>1. PICK m \in LatestPerEvent(M) : m.ev = r.ev
      <4> HIDE DEF M
      <4> QED BY <2>2, LatestExists
    <3>2. m = s
      <4> HIDE DEF A, M
      <4> QED BY <2>2, <2>4, <3>1, LatestIsUnique
    <3> QED BY <3>1, <3>2 DEF LatestPerEvent, Matching
  <2>5. ASSUME \A r \in M : \A s \in LatestPerEvent(A) : s.ev = r.ev => s.val \in vals,
               NEW m \in LatestPerEvent(M)
        PROVE  m \in LatestPerEvent(A)
    <3>1. m \in M /\ m \in A
      BY <2>2 DEF LatestPerEvent
    <3>2. PICK s \in LatestPerEvent(A) : s.ev = m.ev
      <4> HIDE DEF A
      <4> QED BY <2>2, <3>1, LatestExists
    <3>3. s \in M
      BY <2>5, <3>1, <3>2 DEF LatestPerEvent, Matching
    <3>4. Outranks(m, s) /\ Outranks(s, m)
      BY <3>1, <3>2, <3>3 DEF LatestPerEvent
    <3>5. s \in A /\ m.avail = s.avail
      <4>1. s \in A /\ s.avail \in Nat /\ m.avail \in Nat
        BY <2>2, <3>1, <3>2 DEF LatestPerEvent, Row, Times
      <4> QED BY <4>1, <3>4 DEF Outranks
    <3> QED BY <2>2, <3>1, <3>2, <3>5
  <2> HIDE DEF M, A
  <2>6. LatestPerEvent(M) \subseteq LatestPerEvent(A)
          <=> \A r \in M : \A s \in LatestPerEvent(A) : s.ev = r.ev => s.val \in vals
    BY <2>4, <2>5
  <2> QED BY <2>3, <2>6 DEF SelectAsOf, M, A
<1> QED BY <1>1, InvariantIInv, PTL

(***************************************************************************)
(* A poll that gets again what is already stored appends it again          *)
(* (ReingestingAddsNoRow is violated), but no query says anything else     *)
(* because of it: if what a commit adds says what was known of its event   *)
(* as of its own stamp, every query, with any filters and as of any        *)
(* instant, past or future, finds the same events with the same values.    *)
(***************************************************************************)
Said(rows, keys, vals, t) == {<<r.ev, r.val>> : r \in SelectAsOf(rows, keys, vals, t)}

OnlyRepeats(old, new) ==
    \A r \in new \ old : \E s \in SelectAsOf(old, Events, Values, r.avail) :
        s.ev = r.ev /\ s.val = r.val

RepeatsChangeNoAnswer ==
    [][OnlyRepeats(table, table') =>
          \A t \in Times, keys \in SUBSET Events, vals \in SUBSET Values :
              Said(table', keys, vals, t) = Said(table, keys, vals, t)]_vars

LEMMA RepeatsSayTheSame ==
    ASSUME NEW old, NEW new, old \subseteq new, new \subseteq Row,
           \A r, s \in new : r.ev = s.ev /\ r.avail = s.avail => r = s,
           OnlyRepeats(old, new),
           NEW t \in Times, NEW keys \in SUBSET Events, NEW vals \in SUBSET Values
    PROVE  Said(new, keys, vals, t) = Said(old, keys, vals, t)
<1> DEFINE M == Matching(old, keys, vals, t)
           N == Matching(new, keys, vals, t)
<1>1. /\ M \subseteq N /\ N \subseteq new /\ N \subseteq Row
      /\ \A r, s \in N : r.ev = s.ev /\ r.avail = s.avail => r = s
  BY DEF Matching
<1>2. \A r \in Row : r.avail \in Nat /\ r.rev \in Nat /\ r.ev \in Events /\ r.val \in Values
  BY DEF Row, Times
<1>3. ASSUME NEW n \in LatestPerEvent(N)
      PROVE  \E m \in LatestPerEvent(M) : m.ev = n.ev /\ m.val = n.val
  <2>1. n \in N /\ n \in new /\ \A s \in N : s.ev = n.ev => Outranks(n, s)
    BY <1>1 DEF LatestPerEvent
  <2>2. CASE n \in old
    <3>1. n \in M
      BY <2>1, <2>2 DEF Matching
    <3> QED BY <1>1, <2>1, <3>1 DEF LatestPerEvent
  <2>3. CASE n \notin old
    <3>1. PICK s \in SelectAsOf(old, Events, Values, n.avail) : s.ev = n.ev /\ s.val = n.val
      BY <2>1, <2>3 DEF OnlyRepeats
    <3>2. s \in old /\ s.avail <= n.avail /\ n.avail <= t /\ n.ev \in keys /\ n.val \in vals
      BY <2>1, <3>1 DEF SelectAsOf, LatestPerEvent, Matching
    <3>3. s \in M
      BY <1>1, <1>2, <2>1, <3>1, <3>2 DEF Matching, Times
    <3>4. ASSUME NEW q \in M, q.ev = s.ev PROVE Outranks(s, q)
      <4>1. Outranks(n, q) /\ q \in old /\ q \in Row
        BY <1>1, <2>1, <3>1, <3>4 DEF Matching
      <4>2. q.avail <= n.avail
        BY <1>1, <1>2, <2>1, <4>1 DEF Outranks
      <4>3. q \in Matching(old, Events, Values, n.avail)
        BY <1>2, <4>1, <4>2 DEF Matching
      <4> QED BY <3>1, <3>4, <4>3 DEF SelectAsOf, LatestPerEvent
    <3> QED BY <3>1, <3>3, <3>4 DEF LatestPerEvent
  <2> QED BY <2>2, <2>3
<1>4. ASSUME NEW m \in LatestPerEvent(M)
      PROVE  \E n \in LatestPerEvent(N) : m.ev = n.ev /\ m.val = n.val
  <2>1. m \in M /\ m \in N
    BY <1>1 DEF LatestPerEvent
  <2>2. PICK n \in LatestPerEvent(N) : n.ev = m.ev
    <3> HIDE DEF N, M
    <3> QED BY <1>1, <2>1, LatestExists
  <2>3. PICK k \in LatestPerEvent(M) : k.ev = n.ev /\ k.val = n.val
    BY <1>3
  <2>4. k = m
    <3>1. M \subseteq Row /\ \A r, s \in M : r.ev = s.ev /\ r.avail = s.avail => r = s
      BY <1>1
    <3> HIDE DEF N, M
    <3> QED BY <2>2, <2>3, <3>1, LatestIsUnique
  <2> QED BY <2>2, <2>3, <2>4
<1> HIDE DEF M, N
<1>5. \A n \in LatestPerEvent(N) : \E m \in LatestPerEvent(M) : <<m.ev, m.val>> = <<n.ev, n.val>>
  BY <1>3
<1>6. \A m \in LatestPerEvent(M) : \E n \in LatestPerEvent(N) : <<m.ev, m.val>> = <<n.ev, n.val>>
  BY <1>4
<1> QED BY <1>5, <1>6 DEF Said, SelectAsOf, M, N

THEOREM RepeatedPollsAreHarmless == Spec => RepeatsChangeNoAnswer
<1>1. ASSUME IInv, IInv', [Next]_vars, OnlyRepeats(table, table'),
             NEW t \in Times, NEW keys \in SUBSET Events, NEW vals \in SUBSET Values
      PROVE  Said(table', keys, vals, t) = Said(table, keys, vals, t)
  <2>1. table \subseteq table'
    BY <1>1, CommitsLieAhead
  <2>2. table' \subseteq Row /\ \A r, s \in table' : r.ev = s.ev /\ r.avail = s.avail => r = s
    BY <1>1 DEF IInv, TypeOK, OneRowPerSlot, AllRows
  <2> QED BY <1>1, <2>1, <2>2, RepeatsSayTheSame
<1>2. IInv /\ [Next]_vars =>
        [OnlyRepeats(table, table') =>
           \A t \in Times, keys \in SUBSET Events, vals \in SUBSET Values :
              Said(table', keys, vals, t) = Said(table, keys, vals, t)]_vars
  BY <1>1, NextIInv
<1> QED BY InvariantIInv, <1>2, PTL DEF Spec, RepeatsChangeNoAnswer

-----------------------------------------------------------------------------
(* BarIngest and DataQuality.                                               *)

\* An instrument row is held by one transaction; a run holds the one it works on.
LockInv ==
    /\ \A v, w \in Writers : v # w => locked[v] \cap locked[w] = {}
    /\ \A w \in Writers :
          /\ current[w] \subseteq locked[w]
          /\ phase[w] = "append" => current[w] # {}
          /\ phase[w] = "idle" => locked[w] = {} /\ current[w] = {}

\* What a transaction has written, and will write, belongs to what it has locked.
OwnershipInv ==
    \A w \in Writers :
        /\ \A r \in own[w] : InstrumentOf[r.ev] \in locked[w]
        /\ \A k \in DOMAIN todo[w] : InstrumentOf[todo[w][k].ev] \in current[w]

\* A run's stamp was read after everything it can conflict with was stamped.
StampInv ==
    /\ \A r \in AllRows : r.avail <= clock
    /\ \A w \in Writers : phase[w] = "append" =>
          /\ stamp[w] <= clock
          /\ \A r \in AllRows : InstrumentOf[r.ev] \in current[w] => r.avail <= stamp[w]

\* The number a statement holds is still above every row of its bar.
PendingInv ==
    \A w \in Writers : pending[w] # 0 =>
        \A r \in AllRows : r.ev = Head(todo[w]).ev => r.rev < pending[w]

\* What is not yet committed is newer than what is.
OrderInv == \A w \in Writers : \A r \in own[w], s \in table : r.ev = s.ev => s.avail < r.avail

BarInv ==
    /\ IInv
    /\ BarTypeOK
    /\ LockInv
    /\ OwnershipInv
    /\ StampInv
    /\ PendingInv
    /\ OrderInv
    /\ RevisionsFollowStamps
    /\ BarsHaveInstruments

LEMMA StoreStep == [BarNext]_barVars => [Next]_vars
  BY DEF BarNext, barVars, vars, Next, ingestVars, GetOrCreate, GetCandles, BarReturn,
         BarCommit, BarRollback

LEMMA BarInitInv == BarInit => BarInv
<1> SUFFICES ASSUME BarInit PROVE BarInv
  OBVIOUS
<1>1. IInv
  BY InitIInv DEF BarInit
<1>2. BarTypeOK
  BY <1>1 DEF BarInit, BarTypeOK, IInv
<1>3. AllRows = {} /\ table = {} /\ \A w \in Writers : own[w] = {} /\ pending[w] = 0
                                     /\ todo[w] = <<>> /\ phase[w] = "idle"
  BY DEF BarInit, Init, AllRows
<1>4. LockInv
  BY <1>3 DEF BarInit, LockInv
<1>5. OwnershipInv
  BY <1>3 DEF OwnershipInv
<1>6. StampInv
  BY <1>3 DEF StampInv
<1>7. PendingInv /\ OrderInv
  BY <1>3 DEF PendingInv, OrderInv
<1>8. RevisionsFollowStamps /\ BarsHaveInstruments
  BY <1>3 DEF RevisionsFollowStamps, BarsHaveInstruments
<1> QED BY <1>1, <1>2, <1>4, <1>5, <1>6, <1>7, <1>8 DEF BarInv

(***************************************************************************)
(* Facts the actions share.                                                *)
(***************************************************************************)
LEMMA RowFacts ==
    ASSUME IInv, NEW r \in AllRows
    PROVE  r \in Row /\ r.avail \in Nat /\ r.rev \in Nat /\ r.ev \in Events
  BY DEF IInv, TypeOK, AllRows, Row, Times

\* A row of a bar whose instrument w holds is one that w sees.
LEMMA LockedRowsVisible ==
    ASSUME BarInv, NEW w \in Writers, NEW r \in AllRows, InstrumentOf[r.ev] \in locked[w]
    PROVE  r \in Visible(w)
  BY DEF BarInv, LockInv, OwnershipInv, AllRows, Visible

\* What a step that writes no row and moves no lock keeps.
LEMMA QuietKeeps ==
    ASSUME BarInv, table' = table, own' = own
    PROVE  AllRows' = AllRows /\ OrderInv' /\ RevisionsFollowStamps'
<1>1. AllRows' = AllRows
  BY DEF AllRows
<1> QED BY <1>1 DEF BarInv, OrderInv, RevisionsFollowStamps

LEMMA TickBar == ASSUME BarInv, IInv', Tick, UNCHANGED ingestVars PROVE BarInv'
<1> USE DEF BarInv, Tick, ingestVars
<1>1. AllRows' = AllRows /\ OrderInv' /\ RevisionsFollowStamps'
  BY QuietKeeps
<1>2. BarTypeOK' /\ LockInv'
  BY DEF IInv, BarTypeOK, LockInv
<1>3. OwnershipInv' /\ BarsHaveInstruments'
  BY DEF OwnershipInv, BarsHaveInstruments
<1>4. StampInv'
  <2>1. clock \in Nat /\ \A w \in Writers : stamp[w] \in Nat
    BY DEF IInv, TypeOK, Times
  <2> QED BY <1>1, <2>1, RowFacts DEF StampInv
<1>5. PendingInv'
  BY <1>1 DEF PendingInv
<1> QED BY <1>1, <1>2, <1>3, <1>4, <1>5

LEMMA BeginBar ==
    ASSUME BarInv, IInv', NEW w \in Writers, Begin(w), UNCHANGED ingestVars PROVE BarInv'
<1> USE DEF BarInv, Begin, ingestVars
<1>1. AllRows' = AllRows /\ OrderInv' /\ RevisionsFollowStamps'
  BY QuietKeeps
<1>2. BarTypeOK' /\ LockInv'
  BY DEF IInv, TypeOK, BarTypeOK, LockInv
<1>3. OwnershipInv' /\ BarsHaveInstruments'
  BY DEF OwnershipInv, BarsHaveInstruments
<1>4. StampInv'
  BY <1>1 DEF IInv, TypeOK, StampInv
<1>5. PendingInv'
  BY <1>1 DEF PendingInv
<1> QED BY <1>1, <1>2, <1>3, <1>4, <1>5

LEMMA GetOrCreateBar ==
    ASSUME BarInv, IInv', NEW w \in Writers, NEW i \in Instruments, GetOrCreate(w, i)
    PROVE  BarInv'
<1> USE DEF BarInv, GetOrCreate, vars
<1>1. AllRows' = AllRows /\ OrderInv' /\ RevisionsFollowStamps'
  BY QuietKeeps
<1>2. BarTypeOK'
  BY DEF IInv, BarTypeOK
<1>3. /\ locked'[w] = locked[w] \cup {i} /\ current'[w] = {i}
      /\ \A v \in Writers \ {w} : locked'[v] = locked[v] /\ current'[v] = current[v]
  BY DEF BarTypeOK
<1>4. phase[w] = "open" /\ todo[w] = <<>>
  BY DEF IInv, PhaseInv
<1>5. LockInv'
  <2>1. \A v, u \in Writers : v # u => locked'[v] \cap locked'[u] = {}
    BY <1>3 DEF LockInv
  <2> QED BY <1>3, <1>4, <2>1 DEF LockInv
<1>6. OwnershipInv' /\ BarsHaveInstruments'
  <2>1. DOMAIN todo'[w] = {}
    BY <1>4
  <2> QED BY <1>3, <2>1 DEF OwnershipInv, BarsHaveInstruments
<1>7. StampInv'
  BY <1>1, <1>3, <1>4 DEF StampInv
<1>8. PendingInv'
  BY <1>1 DEF PendingInv
<1> QED BY <1>1, <1>2, <1>5, <1>6, <1>7, <1>8

LEMMA GetCandlesBar ==
    ASSUME BarInv, IInv', NEW w \in Writers, NEW batch \in Batches, GetCandles(w, batch)
    PROVE  BarInv'
<1> USE DEF BarInv, GetCandles, Fetch, ingestVars
<1>1. AllRows' = AllRows /\ OrderInv' /\ RevisionsFollowStamps'
  BY QuietKeeps
<1>2. /\ phase'[w] = "append" /\ stamp'[w] = clock /\ todo'[w] = batch
      /\ \A v \in Writers \ {w} : /\ phase'[v] = phase[v] /\ stamp'[v] = stamp[v]
                                  /\ todo'[v] = todo[v]
  BY DEF IInv, TypeOK
<1>3. BarTypeOK' /\ LockInv'
  BY <1>2 DEF IInv, BarTypeOK, LockInv
<1>4. OwnershipInv' /\ BarsHaveInstruments'
  BY <1>2 DEF OwnershipInv, BarsHaveInstruments
<1>5. StampInv'
  <2>1. clock \in Nat
    BY DEF IInv, TypeOK, Times
  <2> QED BY <1>1, <1>2, <2>1 DEF StampInv
<1>6. PendingInv'
  <2>1. pending[w] = 0 /\ pending' = pending
    BY DEF IInv, PhaseInv, TypeOK
  <2> QED BY <1>1, <1>2, <2>1 DEF PendingInv
<1> QED BY <1>1, <1>3, <1>4, <1>5, <1>6

LEMMA StartInsertBar ==
    ASSUME BarInv, IInv', NEW w \in Writers, StartInsert(w), UNCHANGED ingestVars
    PROVE  BarInv'
<1> USE DEF BarInv, ingestVars
<1> DEFINE e == Head(todo[w]).ev
<1>0. /\ table' = table /\ own' = own /\ phase' = phase /\ stamp' = stamp /\ todo' = todo
      /\ clock' = clock
      /\ pending' = [pending EXCEPT ![w] = NextRevision(Visible(w), e)]
      /\ todo[w] # <<>> /\ phase[w] = "append"
  BY DEF StartInsert
<1>1. AllRows' = AllRows /\ OrderInv' /\ RevisionsFollowStamps'
  BY <1>0, QuietKeeps
<1>2. BarTypeOK' /\ LockInv'
  BY <1>0 DEF IInv, BarTypeOK, LockInv
<1>3. OwnershipInv' /\ BarsHaveInstruments'
  BY <1>0 DEF OwnershipInv, BarsHaveInstruments
<1>4. StampInv'
  BY <1>0, <1>1 DEF StampInv
<1>5. PendingInv'
  <2>1. e \in Events
    BY <1>0, HeadIsItem DEF IInv, Item
  <2>2. InstrumentOf[e] \in locked[w]
    <3>1. 1 \in DOMAIN todo[w] /\ Head(todo[w]) = todo[w][1]
      BY <1>0 DEF IInv, TypeOK
    <3> QED BY <3>1 DEF OwnershipInv, LockInv
  <2>3. PICK n \in Nat : Revisions(Visible(w), e) = 1..n
    BY <2>1 DEF IInv, NumInv, Numbered
  <2>4. pending'[w] = n + 1
    BY <1>0, <2>3, NextRevisionIsNext DEF IInv, TypeOK
  <2>5. ASSUME NEW r \in AllRows, r.ev = e PROVE r.rev < n + 1
    <3>1. r \in Visible(w)
      BY <2>2, <2>5, LockedRowsVisible
    <3>2. r.rev \in 1..n
      BY <2>3, <2>5, <3>1 DEF Revisions
    <3> QED BY <3>2
  <2>6. \A v \in Writers \ {w} : pending'[v] = pending[v]
    BY <1>0 DEF IInv, TypeOK
  <2> QED BY <1>0, <1>1, <2>4, <2>5, <2>6 DEF PendingInv
<1> QED BY <1>1, <1>2, <1>3, <1>4, <1>5

LEMMA BarReturnBar == ASSUME BarInv, IInv', NEW w \in Writers, BarReturn(w) PROVE BarInv'
<1> USE DEF BarInv, BarReturn, Return
<1>1. AllRows' = AllRows /\ OrderInv' /\ RevisionsFollowStamps'
  BY QuietKeeps
<1>2. /\ phase'[w] = "open" /\ current'[w] = {}
      /\ \A v \in Writers \ {w} : /\ phase'[v] = phase[v] /\ stamp'[v] = stamp[v]
                                  /\ current'[v] = current[v]
  BY DEF IInv, TypeOK, BarTypeOK
<1>3. BarTypeOK' /\ LockInv'
  BY <1>2 DEF IInv, BarTypeOK, LockInv
<1>4. OwnershipInv' /\ BarsHaveInstruments'
  <2>1. DOMAIN todo'[w] = {}
    OBVIOUS
  <2> QED BY <1>2, <2>1 DEF OwnershipInv, BarsHaveInstruments
<1>5. StampInv'
  BY <1>1, <1>2 DEF StampInv
<1>6. PendingInv'
  BY <1>1 DEF PendingInv
<1> QED BY <1>1, <1>3, <1>4, <1>5, <1>6

LEMMA FinishInsertBar ==
    ASSUME BarInv, IInv', NEW w \in Writers, FinishInsert(w), UNCHANGED ingestVars
    PROVE  BarInv'
<1> USE DEF BarInv, ingestVars
<1> DEFINE item == Head(todo[w])
           row  == [ev |-> item.ev, val |-> item.val, avail |-> stamp[w], rev |-> pending[w]]
           hit  == \E r \in Visible(w) : SameSlot(r, item.ev, stamp[w])
<1>1. /\ pending[w] # 0 /\ todo[w] # <<>> /\ stamp[w] \in Times /\ phase[w] = "append"
  BY DEF FinishInsert, IInv, PhaseInv
<1>2. item \in Item /\ item.ev \in Events /\ InstrumentOf[item.ev] \in current[w]
  <2>1. item \in Item
    BY <1>1, HeadIsItem DEF IInv
  <2>2. 1 \in DOMAIN todo[w] /\ item = todo[w][1]
    BY <1>1 DEF IInv, TypeOK
  <2> QED BY <2>1, <2>2 DEF Item, OwnershipInv
<1>3. /\ table' = table /\ phase' = phase /\ stamp' = stamp /\ clock' = clock
      /\ todo' = [todo EXCEPT ![w] = Tail(@)]
      /\ pending' = [pending EXCEPT ![w] = 0]
      /\ own' = [own EXCEPT ![w] = IF hit THEN @ ELSE @ \cup {row}]
  BY DEF FinishInsert
<1>4. \A v \in Writers \ {w} : own'[v] = own[v] /\ todo'[v] = todo[v] /\ pending'[v] = pending[v]
  BY <1>3 DEF IInv, TypeOK
<1>5. /\ todo'[w] = Tail(todo[w]) /\ pending'[w] = 0
      /\ own'[w] = IF hit THEN own[w] ELSE own[w] \cup {row}
  BY <1>3 DEF IInv, TypeOK
<1>6. row.ev = item.ev /\ row.avail = stamp[w] /\ row.rev = pending[w]
  OBVIOUS
<1>7. InstrumentOf[item.ev] \in locked[w]
  BY <1>2 DEF LockInv
<1>8. stamp[w] \in Nat /\ stamp[w] <= clock /\ pending[w] \in Nat
  BY <1>1 DEF StampInv, Times, IInv, TypeOK
\* The new row is newer, by stamp and by number, than every row of its bar.
<1>9. ~hit => \A r \in AllRows : r.ev = item.ev => r.avail < stamp[w] /\ r.rev < pending[w]
  <2> SUFFICES ASSUME ~hit, NEW r \in AllRows, r.ev = item.ev
               PROVE  r.avail < stamp[w] /\ r.rev < pending[w]
    OBVIOUS
  <2>1. r \in Visible(w)
    BY <1>7, LockedRowsVisible
  <2>2. r.avail # stamp[w]
    BY <2>1 DEF SameSlot
  <2>3. r.avail <= stamp[w]
    BY <1>1, <1>2 DEF StampInv
  <2>4. r.rev < pending[w]
    BY <1>1 DEF PendingInv
  <2> QED BY <1>8, <2>2, <2>3, <2>4, RowFacts
<1> HIDE DEF item, row, hit
<1>10. AllRows' \subseteq AllRows \cup {row} /\ (hit => AllRows' \subseteq AllRows)
  BY <1>3, <1>4, <1>5 DEF AllRows
<1>11. BarTypeOK' /\ LockInv'
  BY <1>3 DEF IInv, BarTypeOK, LockInv
<1>12. OwnershipInv'
  <2> SUFFICES ASSUME NEW v \in Writers
               PROVE  /\ \A r \in own'[v] : InstrumentOf[r.ev] \in locked[v]
                      /\ \A k \in DOMAIN todo'[v] : InstrumentOf[todo'[v][k].ev] \in current[v]
    BY DEF OwnershipInv
  <2>1. CASE v # w
    BY <1>4, <2>1 DEF OwnershipInv
  <2>2. CASE v = w
    <3>1. \A r \in own'[w] : InstrumentOf[r.ev] \in locked[w]
      BY <1>5, <1>6, <1>7 DEF OwnershipInv
    <3>2. \A k \in DOMAIN Tail(todo[w]) : /\ k + 1 \in DOMAIN todo[w]
                                          /\ Tail(todo[w])[k] = todo[w][k + 1]
      BY <1>1 DEF IInv, TypeOK
    <3>3. \A k \in DOMAIN todo[w] : InstrumentOf[todo[w][k].ev] \in current[w]
      BY DEF OwnershipInv
    <3>4. \A k \in DOMAIN todo'[w] : InstrumentOf[todo'[w][k].ev] \in current[w]
      BY <1>5, <3>2, <3>3
    <3> QED BY <2>2, <3>1, <3>4
  <2> QED BY <2>1, <2>2
<1>13. BarsHaveInstruments'
  <2>1. \A v \in Writers : \A r \in own'[v] : InstrumentOf[r.ev] \in instruments \cup locked[v]
    BY <1>12 DEF OwnershipInv
  <2> QED BY <1>3, <2>1 DEF BarsHaveInstruments
<1>14. StampInv'
  <2>1. \A r \in AllRows' : r.avail <= clock
    BY <1>6, <1>8, <1>10 DEF StampInv
  <2>2. ASSUME NEW v \in Writers, phase[v] = "append", NEW r \in AllRows',
               InstrumentOf[r.ev] \in current[v]
        PROVE  r.avail <= stamp[v]
    <3>1. CASE r \in AllRows
      BY <2>2, <3>1 DEF StampInv
    <3>2. CASE r = row
      <4>1. v = w
        BY <1>6, <1>7, <2>2, <3>2 DEF LockInv
      <4> QED BY <1>6, <1>8, <3>2, <4>1
    <3> QED BY <1>10, <3>1, <3>2
  <2> QED BY <1>3, <2>1, <2>2 DEF StampInv
<1>15. PendingInv'
  <2> SUFFICES ASSUME NEW v \in Writers, pending'[v] # 0, NEW r \in AllRows',
                      r.ev = Head(todo'[v]).ev
               PROVE  r.rev < pending'[v]
    BY DEF PendingInv
  <2>1. v # w /\ pending[v] # 0 /\ pending'[v] = pending[v] /\ todo'[v] = todo[v]
    BY <1>4, <1>5
  <2>2. Head(todo[v]).ev # item.ev
    <3>1. todo[v] # <<>>
      BY <2>1 DEF IInv, PhaseInv
    <3>2. 1 \in DOMAIN todo[v] /\ Head(todo[v]) = todo[v][1]
      BY <3>1 DEF IInv, TypeOK
    <3>3. InstrumentOf[Head(todo[v]).ev] \in locked[v]
      BY <3>2 DEF OwnershipInv, LockInv
    <3> QED BY <1>7, <2>1, <3>3 DEF LockInv
  <2>3. r \in AllRows
    BY <1>6, <1>10, <2>1, <2>2
  <2> QED BY <2>1, <2>3 DEF PendingInv
<1>16. OrderInv'
  <2> SUFFICES ASSUME NEW v \in Writers, NEW r \in own'[v], NEW s \in table, r.ev = s.ev
               PROVE  s.avail < r.avail
    BY <1>3 DEF OrderInv
  <2>1. CASE r \in own[v]
    BY <2>1 DEF OrderInv
  <2>2. CASE r \notin own[v]
    <3>1. r = row /\ ~hit
      BY <1>4, <1>5, <2>2
    <3> QED BY <1>6, <1>9, <3>1 DEF AllRows
  <2> QED BY <2>1, <2>2
<1>17. RevisionsFollowStamps'
  <2> SUFFICES ASSUME NEW r \in AllRows', NEW s \in AllRows', r.ev = s.ev, r.avail < s.avail
               PROVE  r.rev < s.rev
    BY DEF RevisionsFollowStamps
  <2>1. CASE r \in AllRows /\ s \in AllRows
    BY <2>1 DEF RevisionsFollowStamps
  <2>2. CASE r \in AllRows /\ s \notin AllRows
    BY <1>6, <1>9, <1>10, <2>2
  <2>3. CASE r \notin AllRows
    <3>1. r = row /\ ~hit
      BY <1>10, <2>3
    <3>2. s \in AllRows => s.avail < r.avail /\ s.avail \in Nat
      BY <1>6, <1>9, <3>1, RowFacts
    <3>3. s \notin AllRows => s = row
      BY <1>10
    <3> QED BY <1>6, <1>8, <3>1, <3>2, <3>3
  <2> QED BY <2>1, <2>2, <2>3
<1> QED BY <1>11, <1>12, <1>13, <1>14, <1>15, <1>16, <1>17

(***************************************************************************)
(* Ending a transaction releases its locks and adds no row.                *)
(***************************************************************************)
LEMMA EndKeeps ==
    ASSUME BarInv, IInv', NEW w \in Writers, Close(w), Release(w),
           AllRows' \subseteq AllRows
    PROVE  /\ LockInv' /\ OwnershipInv' /\ StampInv' /\ PendingInv' /\ RevisionsFollowStamps'
           /\ locked' \in [Writers -> SUBSET Instruments]
           /\ current' \in [Writers -> {{}} \cup {{i} : i \in Instruments}]
<1> USE DEF BarInv, Close, Release
<1>1. /\ own'[w] = {} /\ todo'[w] = <<>> /\ pending'[w] = 0 /\ phase'[w] = "idle"
      /\ locked'[w] = {} /\ current'[w] = {}
      /\ \A v \in Writers \ {w} : /\ own'[v] = own[v] /\ todo'[v] = todo[v]
                                  /\ pending'[v] = pending[v] /\ phase'[v] = phase[v]
                                  /\ stamp'[v] = stamp[v] /\ locked'[v] = locked[v]
                                  /\ current'[v] = current[v]
  BY DEF IInv, TypeOK, BarTypeOK
<1>2. /\ locked' \in [Writers -> SUBSET Instruments]
      /\ current' \in [Writers -> {{}} \cup {{i} : i \in Instruments}]
  BY DEF BarTypeOK
<1>3. LockInv'
  BY <1>1 DEF LockInv
<1>4. OwnershipInv'
  <2>1. DOMAIN todo'[w] = {}
    BY <1>1
  <2> QED BY <1>1, <2>1 DEF OwnershipInv
<1>5. StampInv'
  BY <1>1 DEF StampInv
<1>6. PendingInv'
  BY <1>1 DEF PendingInv
<1>7. RevisionsFollowStamps'
  BY DEF RevisionsFollowStamps
<1> QED BY <1>2, <1>3, <1>4, <1>5, <1>6, <1>7

LEMMA BarCommitBar == ASSUME BarInv, IInv', NEW w \in Writers, BarCommit(w) PROVE BarInv'
<1> USE DEF BarInv
<1>1. /\ table' = table \cup own[w] /\ Close(w) /\ Release(w)
      /\ instruments' = instruments \cup locked[w]
  BY DEF BarCommit, Commit
<1>2. /\ own'[w] = {} /\ locked'[w] = {}
      /\ \A v \in Writers \ {w} : own'[v] = own[v] /\ locked'[v] = locked[v]
  BY <1>1 DEF Close, Release, IInv, TypeOK, BarTypeOK
<1>3. AllRows' \subseteq AllRows
  BY <1>1, <1>2 DEF AllRows
<1>4. BarTypeOK'
  BY <1>1, <1>3, EndKeeps DEF IInv, BarTypeOK
<1>5. BarsHaveInstruments'
  BY <1>1, <1>2 DEF BarsHaveInstruments
<1>6. OrderInv'
  <2> SUFFICES ASSUME NEW v \in Writers, NEW r \in own'[v], NEW s \in table', r.ev = s.ev
               PROVE  s.avail < r.avail
    BY DEF OrderInv
  <2>1. v # w /\ r \in own[v]
    BY <1>2
  <2>2. CASE s \in table
    BY <2>1, <2>2 DEF OrderInv
  <2>3. CASE s \in own[w]
    BY <2>1, <2>3 DEF OwnershipInv, LockInv
  <2> QED BY <1>1, <2>2, <2>3
<1> QED BY <1>1, <1>3, <1>4, <1>5, <1>6, EndKeeps

LEMMA BarRollbackBar == ASSUME BarInv, IInv', NEW w \in Writers, BarRollback(w) PROVE BarInv'
<1> USE DEF BarInv
<1>1. table' = table /\ Close(w) /\ Release(w) /\ instruments' = instruments
  BY DEF BarRollback, Rollback
<1>2. /\ own'[w] = {} /\ locked'[w] = {}
      /\ \A v \in Writers \ {w} : own'[v] = own[v] /\ locked'[v] = locked[v]
  BY <1>1 DEF Close, Release, IInv, TypeOK, BarTypeOK
<1>3. AllRows' \subseteq AllRows
  BY <1>1, <1>2 DEF AllRows
<1>4. BarTypeOK'
  BY <1>1, <1>3, EndKeeps DEF IInv, BarTypeOK
<1>5. BarsHaveInstruments'
  BY <1>1, <1>2 DEF BarsHaveInstruments
<1>6. OrderInv'
  BY <1>1, <1>2 DEF OrderInv
<1> QED BY <1>1, <1>3, <1>4, <1>5, <1>6, EndKeeps

LEMMA BarNextInv == BarInv /\ [BarNext]_barVars => BarInv'
<1> SUFFICES ASSUME BarInv, [BarNext]_barVars PROVE BarInv'
  OBVIOUS
<1>0. IInv'
  BY StoreStep, NextIInv DEF BarInv
<1>1. CASE Tick /\ UNCHANGED ingestVars
  BY <1>0, <1>1, TickBar
<1>2. CASE UNCHANGED barVars
  <2>1. AllRows' = AllRows /\ OrderInv' /\ RevisionsFollowStamps'
    BY <1>2, QuietKeeps DEF barVars
  <2>2. BarTypeOK' /\ LockInv' /\ OwnershipInv' /\ BarsHaveInstruments'
    BY <1>0, <1>2 DEF barVars, BarInv, IInv, BarTypeOK, LockInv, OwnershipInv,
                      BarsHaveInstruments
  <2>3. StampInv' /\ PendingInv'
    BY <1>2, <2>1 DEF barVars, BarInv, StampInv, PendingInv
  <2> QED BY <1>0, <2>1, <2>2, <2>3 DEF BarInv
<1>3. ASSUME NEW w \in Writers, Begin(w), UNCHANGED ingestVars PROVE BarInv'
  BY <1>0, <1>3, BeginBar
<1>4. ASSUME NEW w \in Writers, NEW i \in Instruments, GetOrCreate(w, i) PROVE BarInv'
  BY <1>0, <1>4, GetOrCreateBar
<1>5. ASSUME NEW w \in Writers, NEW batch \in Batches, GetCandles(w, batch) PROVE BarInv'
  BY <1>0, <1>5, GetCandlesBar
<1>6. ASSUME NEW w \in Writers, StartInsert(w), UNCHANGED ingestVars PROVE BarInv'
  BY <1>0, <1>6, StartInsertBar
<1>7. ASSUME NEW w \in Writers, FinishInsert(w), UNCHANGED ingestVars PROVE BarInv'
  BY <1>0, <1>7, FinishInsertBar
<1>8. ASSUME NEW w \in Writers, BarReturn(w) PROVE BarInv'
  BY <1>0, <1>8, BarReturnBar
<1>9. ASSUME NEW w \in Writers, BarCommit(w) PROVE BarInv'
  BY <1>0, <1>9, BarCommitBar
<1>10. ASSUME NEW w \in Writers, BarRollback(w) PROVE BarInv'
  BY <1>0, <1>10, BarRollbackBar
<1> QED BY <1>1, <1>2, <1>3, <1>4, <1>5, <1>6, <1>7, <1>8, <1>9, <1>10 DEF BarNext

LEMMA InvariantBarInv == BarSpec => []BarInv
  BY BarInitInv, BarNextInv, PTL DEF BarSpec

(***************************************************************************)
(* Bar ingestion only does what the store allows, so everything proved of  *)
(* the store - reproducible queries, the timeline - holds of the bars.     *)
(***************************************************************************)
THEOREM BarIngestImplementsStore == BarSpec => Spec
<1>1. BarInit => Init
  BY DEF BarInit
<1> QED BY <1>1, StoreStep, PTL DEF BarSpec, Spec

(***************************************************************************)
(* The variables of bar ingestion keep their types.                        *)
(***************************************************************************)
THEOREM BarTypeCorrect == BarSpec => []BarTypeOK
  BY InvariantBarInv, PTL DEF BarInv

(***************************************************************************)
(* The instrument lock makes revision numbers follow the stamps: no two    *)
(* rows of a bar ever disagree on which is newer, and none share a number. *)
(***************************************************************************)
THEOREM RevisionsAgreeWithStamps == BarSpec => []RevisionsFollowStamps
  BY InvariantBarInv, PTL DEF BarInv

(***************************************************************************)
(* What the price queries rely on without saying so: the row of a bar that *)
(* is read as of t carries the greatest revision number available then,    *)
(* and that number is how many revisions there were.  So the revision that *)
(* select_latest_revision_as_of returns, which it orders by available_at   *)
(* first, is also the one with the greatest revision.                      *)
(***************************************************************************)
ReadsReturnLastRevision ==
    \A t \in Times : \A r \in SelectAsOf(table, Events, Values, t) :
        Revisions({s \in table : s.avail <= t}, r.ev) = 1..r.rev

THEOREM BarsReadTheirLastRevision == BarSpec => []ReadsReturnLastRevision
<1>1. ASSUME BarInv, RevisionsGapFree, NEW t \in Times, NEW r \in SelectAsOf(table, Events, Values, t)
      PROVE  Revisions({s \in table : s.avail <= t}, r.ev) = 1..r.rev
  <2>1. /\ r \in table /\ r \in Row /\ r.avail <= t
        /\ \A s \in Matching(table, Events, Values, t) : s.ev = r.ev => Outranks(r, s)
    BY <1>1 DEF SelectAsOf, LatestPerEvent, Matching, BarInv, IInv, TypeOK
  <2>2. \A s \in table : s \in Row /\ s.avail \in Nat /\ s.rev \in Nat \ {0}
    BY <1>1 DEF BarInv, IInv, TypeOK, Row, Times
  <2>3. t \in Nat
    BY DEF Times
  <2>4. ASSUME NEW s \in table, s.avail <= t, s.ev = r.ev PROVE s.rev \in 1..r.rev
    <3>1. s \in Matching(table, Events, Values, t)
      BY <2>2, <2>4 DEF Matching, Row
    <3>2. s.avail <= r.avail
      BY <2>1, <2>2, <2>4, <3>1 DEF Outranks
    <3>3. CASE s.avail = r.avail
      BY <1>1, <2>1, <2>2, <2>4, <3>3 DEF BarInv, IInv, OneRowPerSlot, AllRows
    <3>4. CASE s.avail < r.avail
      BY <1>1, <2>1, <2>2, <2>4, <3>4 DEF BarInv, RevisionsFollowStamps, AllRows
    <3> QED BY <2>1, <2>2, <3>2, <3>3, <3>4
  <2>5. ASSUME NEW n \in 1..r.rev
        PROVE  \E s \in table : s.avail <= t /\ s.ev = r.ev /\ s.rev = n
    <3>1. PICK s \in table : s.ev = r.ev /\ s.rev = n
      BY <1>1, <2>1 DEF RevisionsGapFree, GapFree
    <3>2. ~ (r.avail < s.avail)
      <4> SUFFICES ASSUME r.avail < s.avail PROVE FALSE
        OBVIOUS
      <4>1. r.rev < s.rev
        BY <1>1, <2>1, <3>1 DEF BarInv, RevisionsFollowStamps, AllRows
      <4> QED BY <2>1, <2>2, <3>1, <4>1
    <3>3. s.avail <= t
      BY <2>1, <2>2, <2>3, <3>2
    <3> QED BY <3>1, <3>3
  <2> QED BY <2>4, <2>5 DEF Revisions
<1>2. BarInv /\ RevisionsGapFree => ReadsReturnLastRevision
  BY <1>1 DEF ReadsReturnLastRevision
<1> QED BY <1>2, InvariantBarInv, RevisionsAreGapFree, BarIngestImplementsStore, PTL

(***************************************************************************)
(* No bar is visible before, or survives without, its instrument.          *)
(***************************************************************************)
THEOREM BarsReferToInstruments == BarSpec => []BarsHaveInstruments
  BY InvariantBarInv, PTL DEF BarInv

(***************************************************************************)
(* A committed correction is newer than everything committed of its bar:   *)
(* stamps are read before the commit, yet commits arrive in their order.   *)
(***************************************************************************)
THEOREM CommitsFollowStamps == BarSpec => BarsCommitInOrder
<1>1. ASSUME BarInv, [BarNext]_barVars, NEW r \in table' \ table, NEW s \in table, r.ev = s.ev
      PROVE  s.avail < r.avail /\ s.rev < r.rev
  <2>1. PICK w \in Writers : table' = table \cup own[w]
    BY <1>1, StoreStep DEF Next, vars, Tick, Begin, Fetch, StartInsert, FinishInsert, Return,
                           Rollback, Commit
  <2>2. r \in own[w]
    BY <2>1
  <2>3. s.avail < r.avail
    BY <1>1, <2>2 DEF BarInv, OrderInv
  <2>4. s \in AllRows /\ r \in AllRows
    BY <2>2 DEF AllRows
  <2> QED BY <1>1, <2>3, <2>4 DEF BarInv, RevisionsFollowStamps
<1>2. BarInv /\ [BarNext]_barVars =>
        [\A r \in table' \ table, s \in table :
           r.ev = s.ev => s.avail < r.avail /\ s.rev < r.rev]_barVars
  BY <1>1
<1> QED BY InvariantBarInv, <1>2, PTL DEF BarSpec, BarsCommitInOrder

(***************************************************************************)
(* Data quality.  A report reads the bars, and ingestion goes on as if it  *)
(* were not there.                                                         *)
(***************************************************************************)
LEMMA QualityStep == [QualityNext]_qualityVars => [BarNext]_barVars
  BY DEF QualityNext, qualityVars, ReportStep

LEMMA QualityRefinesBars == QualitySpec => BarSpec
<1>1. QualityInit => BarInit
  BY DEF QualityInit
<1> QED BY <1>1, QualityStep, PTL DEF QualitySpec, BarSpec

\* The tables are finite, so that count(*) and max() of their rows mean something.
FiniteInv == IsFiniteSet(table) /\ \A w \in Writers : IsFiniteSet(own[w])

LEMMA FiniteInit == Init => FiniteInv
  BY FS_EmptySet DEF Init, FiniteInv

LEMMA FiniteStep == ASSUME IInv, FiniteInv, [Next]_vars PROVE FiniteInv'
<1>1. CASE UNCHANGED <<table, own>>
  BY <1>1 DEF FiniteInv
<1>2. ASSUME NEW w \in Writers, FinishInsert(w) PROVE FiniteInv'
  <2> DEFINE row == [ev |-> Head(todo[w]).ev, val |-> Head(todo[w]).val,
                     avail |-> stamp[w], rev |-> pending[w]]
  <2>1. \A v \in Writers : own'[v] = own[v] \/ own'[v] = own[v] \cup {row}
    BY <1>2 DEF FinishInsert, IInv, TypeOK
  <2>2. table' = table
    BY <1>2 DEF FinishInsert
  <2> HIDE DEF row
  <2>3. \A S : IsFiniteSet(S) => IsFiniteSet(S \cup {row})
    BY FS_AddElement
  <2> QED BY <2>1, <2>2, <2>3 DEF FiniteInv
<1>3. ASSUME NEW w \in Writers, Close(w), table' = table \/ table' = table \cup own[w]
      PROVE  FiniteInv'
  <2>1. \A v \in Writers : own'[v] = own[v] \/ own'[v] = {}
    BY <1>3 DEF Close, IInv, TypeOK
  <2>2. IsFiniteSet(table')
    BY <1>3, FS_Union DEF FiniteInv
  <2> QED BY <2>1, <2>2, FS_EmptySet DEF FiniteInv
<1>4. \/ UNCHANGED <<table, own>>
      \/ \E w \in Writers : FinishInsert(w)
      \/ \E w \in Writers : Close(w) /\ (table' = table \/ table' = table \cup own[w])
  BY DEF Next, vars, Tick, Begin, Fetch, StartInsert, Return, Commit, Rollback
<1> QED BY <1>1, <1>2, <1>3, <1>4

LEMMA MaxOfTwo ==
    ASSUME NEW a \in Int
    PROVE  Max({a, 0}) = IF a >= 0 THEN a ELSE 0
<1> DEFINE m == IF a >= 0 THEN a ELSE 0
<1>1. m \in {a, 0} /\ \A y \in {a, 0} : m >= y
  OBVIOUS
<1>2. \A x \in {a, 0} : (\A y \in {a, 0} : x >= y) => x = m
  OBVIOUS
<1> QED BY <1>1, <1>2 DEF Max

LEMMA SubsetCount ==
    ASSUME NEW S, IsFiniteSet(S), NEW U, U \subseteq S
    PROVE  Cardinality(S \ U) = Cardinality(S) - Cardinality(U)
<1>1. Cardinality(S \ U) = Cardinality(S) - Cardinality(S \cap U)
  BY FS_Difference
<1>2. S \cap U = U
  OBVIOUS
<1> QED BY <1>1, <1>2

(***************************************************************************)
(* missing_count is the number of bars nobody has stored until one of them *)
(* is corrected, and never more than that.                                 *)
(***************************************************************************)
THEOREM MissingCountHides == QualitySpec => []MissingCountHidesAtMost
<1>1. ASSUME IInv, FiniteInv PROVE MissingCountHidesAtMost
  <2> SUFFICES ASSUME NEW i \in Instruments
               PROVE  LET missing == {e \in BarsOf(i) : \A r \in table : r.ev # e}
                      IN  /\ MissingCount(i) <= Cardinality(missing)
                          /\ (\A r, s \in table : r.ev = s.ev /\ r.ev \in BarsOf(i) => r = s)
                                 => MissingCount(i) = Cardinality(missing)
    BY DEF MissingCountHidesAtMost
  <2> DEFINE expected == BarsOf(i)
             rows     == RowsOf(i)
             present  == {r.ev : r \in rows}
             missing  == {e \in BarsOf(i) : \A r \in table : r.ev # e}
             eventOf  == [r \in rows |-> r.ev]
  <2>1. IsFiniteSet(expected) /\ IsFiniteSet(rows)
    BY <1>1, SpanAssumption, FS_Subset DEF BarsOf, RowsOf, FiniteInv
  <2>2. present \subseteq expected /\ missing = expected \ present
    BY DEF RowsOf
  <2>3. eventOf \in Surjection(rows, present)
    BY DEF Surjection
  <2>4. /\ Cardinality(present) <= Cardinality(rows)
        /\ Cardinality(present) = Cardinality(rows) <=> eventOf \in Injection(rows, present)
        /\ IsFiniteSet(present)
    BY <2>1, <2>3, FS_Surjection
  <2>5. Cardinality(missing) = Cardinality(expected) - Cardinality(present)
    BY <2>1, <2>2, SubsetCount
  <2>6. /\ Cardinality(expected) \in Nat /\ Cardinality(rows) \in Nat
        /\ Cardinality(present) \in Nat /\ Cardinality(missing) \in Nat
    BY <2>1, <2>2, <2>4, FS_CardinalityType, FS_Subset
  <2>7. MissingCount(i) = LET a == Cardinality(expected) - Cardinality(rows)
                          IN  IF a >= 0 THEN a ELSE 0
    BY <2>6, MaxOfTwo DEF MissingCount, ExpectedCount, ActualCount
  <2>8. ASSUME \A r, s \in table : r.ev = s.ev /\ r.ev \in BarsOf(i) => r = s
        PROVE  Cardinality(present) = Cardinality(rows)
    <3>1. eventOf \in Injection(rows, present)
      BY <2>8 DEF Injection, IsInjective, RowsOf
    <3> QED BY <2>4, <3>1
  <2> HIDE DEF expected, rows, present, missing
  <2>9. MissingCount(i) <= Cardinality(missing)
    BY <2>4, <2>5, <2>6, <2>7
  <2>10. Cardinality(present) = Cardinality(rows) => MissingCount(i) = Cardinality(missing)
    BY <2>5, <2>6, <2>7
  <2> QED BY <2>8, <2>9, <2>10 DEF missing
<1>2. IInv /\ FiniteInv /\ [Next]_vars => (IInv /\ FiniteInv)'
  BY NextIInv, FiniteStep
<1>3. QualitySpec => [](IInv /\ FiniteInv)
  BY QualityRefinesBars, BarIngestImplementsStore, InitIInv, FiniteInit, <1>2, PTL DEF Spec
<1> QED BY <1>1, <1>3, PTL

(***************************************************************************)
(* What a report has counted stays in the table, and the latest            *)
(* ingested_at it reads afterwards is at least that of every row counted.  *)
(***************************************************************************)
ReportInv ==
    /\ report.step \in 1..3
    /\ \A r \in report.counted :
          r \in RowsOf(report.inst) /\ (report.step = 3 => r.avail <= report.latest)
    /\ report.latest \in 0..MaxTime

LEMMA MaxExists ==
    ASSUME NEW S, S \subseteq 0..MaxTime, S # {}
    PROVE  Max(S) \in S /\ \A s \in S : s <= Max(S)
<1>1. PICK g \in S : \A s \in S : g >= s
  <2>1. PICK g \in S : \A s \in S : s <= g
    BY GreatestTime
  <2>2. \A s \in S : s \in Nat
    BY BoundsAssumption
  <2> QED BY <2>1, <2>2
<1>2. Max(S) \in S /\ \A s \in S : Max(S) >= s
  BY <1>1 DEF Max
<1>3. \A s \in S : s \in Nat
  BY BoundsAssumption
<1> QED BY <1>2, <1>3

LEMMA LatestBounds ==
    ASSUME IInv, NEW i
    PROVE  LatestIngested(i) \in 0..MaxTime /\ \A r \in RowsOf(i) : r.avail <= LatestIngested(i)
<1> DEFINE S == {r.avail : r \in RowsOf(i)} \cup {0}
<1>1. S \subseteq 0..MaxTime /\ S # {}
  BY BoundsAssumption DEF IInv, TypeOK, RowsOf, Row, Times
<1>2. Max(S) \in S /\ \A s \in S : s <= Max(S)
  <2> HIDE DEF S
  <2> QED BY <1>1, MaxExists
<1> QED BY <1>1, <1>2 DEF LatestIngested

LEMMA ReportInvStep == ASSUME IInv, ReportInv, [QualityNext]_qualityVars PROVE ReportInv'
<1>1. table \subseteq table'
  BY QualityStep, StoreStep, CommitsLieAhead
<1>2. CASE report' = report
  BY <1>1, <1>2 DEF ReportInv, RowsOf, BarsOf
<1>3. CASE ReportStep
  <2>1. table' = table /\ \A i : RowsOf(i)' = RowsOf(i)
    BY <1>3 DEF ReportStep, barVars, RowsOf, BarsOf
  <2>2. report.step \in {1, 2}
    BY <1>3 DEF ReportStep, ReportInv, Reads
  <2>3. CASE report.step = 1
    <3>1. report' = [report EXCEPT !.step = 2, !.counted = RowsOf(report.inst)]
      BY <1>3, <2>3 DEF ReportStep, Reads
    <3> QED BY <2>1, <2>3, <3>1 DEF ReportInv
  <2>4. CASE report.step = 2
    <3>1. report' = [report EXCEPT !.step = 3, !.latest = LatestIngested(report.inst)]
      BY <1>3, <2>4 DEF ReportStep, Reads
    <3> QED BY <2>1, <2>4, <3>1, LatestBounds DEF ReportInv
  <2> QED BY <2>2, <2>3, <2>4
<1> QED BY <1>2, <1>3 DEF QualityNext, qualityVars

(***************************************************************************)
(* A report never calls stale an instrument it counted a fresh bar of,     *)
(* although ingestion commits between its two statements.                  *)
(***************************************************************************)
THEOREM ReportsAreCoherent == QualitySpec => []ReportIsCoherent
<1>1. QualityInit => ReportInv
  BY BoundsAssumption DEF QualityInit, ReportInv
<1>2. ASSUME IInv, ReportInv PROVE ReportIsCoherent
  <2> SUFFICES ASSUME report.step > 2, NEW r \in report.counted, NEW now \in Times,
                      NEW staleAfter \in 0..MaxTime, now - r.avail <= staleAfter
               PROVE  ~ IsStale(now, staleAfter)
    BY DEF ReportIsCoherent, Reads
  <2>1. r.avail \in 1..MaxTime /\ r.avail <= report.latest /\ report.latest \in 0..MaxTime
    BY <1>2 DEF IInv, TypeOK, Row, Times, ReportInv, RowsOf
  <2> QED BY <2>1, BoundsAssumption DEF IsStale, Times
<1>3. IInv /\ ReportInv /\ [QualityNext]_qualityVars => ReportInv'
  BY ReportInvStep
<1>4. QualitySpec => []IInv
  BY QualityRefinesBars, BarIngestImplementsStore, InvariantIInv, PTL
<1> QED BY <1>1, <1>2, <1>3, <1>4, PTL DEF QualitySpec
=============================================================================
