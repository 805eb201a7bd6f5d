----------------------- MODULE IngestSchedulerProofs -----------------------
(***************************************************************************)
(* Proofs about IngestScheduler, for any jobs, intervals and bounds.       *)
(***************************************************************************)
EXTENDS IngestScheduler, SequenceTheorems, TLAPS

(***************************************************************************)
(* The inductive invariant.                                                *)
(***************************************************************************)
\* What the iteration has passed when it has visited n entries.
Visited(n) == {order[i] : i \in 1..n}

\* last_run_at is the `now` of the tick that last called the job.
LastInv == \A j \in Jobs : IF last[j] = Never THEN started[j] = Never ELSE started[j].tick = last[j]

\* A change of the dict during the iteration shows in its size.
ChangeInv == pc # "idle" => IF changes = 0 THEN jobs = order ELSE Len(jobs) # Len(order)

\* The tick has run what it owed among the entries it has visited.
RanInv ==
    /\ Range(ran) = Visited(pos) \cap owed
    /\ InOrder
    /\ pc = "job" => ran # <<>>

\* What it finds due further on is what was due when it began.
AheadInv ==
    pc # "idle" /\ changes = 0 =>
        \A i \in (pos + 1)..Len(order) : IsDue(order[i], now) <=> order[i] \in owed

EndInv ==
    Ended /\ changes = 0 =>
        pos = Len(order) /\ result = IF failed = {} THEN "ran" ELSE "raised"

SchedInv == TypeOK /\ LastInv /\ ChangeInv /\ RanInv /\ AheadInv /\ EndInv

(***************************************************************************)
(* Lemmas about the sequences.                                             *)
(***************************************************************************)
LEMMA EmptyRange == Range(<<>>) = {} /\ IsInjective(<<>>)
  BY DEF Range, IsInjective

LEMMA RangeAppend ==
    ASSUME NEW S, NEW s \in Seq(S), NEW e \in S
    PROVE  /\ Append(s, e) \in Seq(S)
           /\ Range(Append(s, e)) = Range(s) \cup {e}
           /\ IsInjective(s) /\ e \notin Range(s) => IsInjective(Append(s, e))
<1>1. /\ Append(s, e) \in Seq(S) /\ DOMAIN s = 1..Len(s)
      /\ DOMAIN Append(s, e) = 1..(Len(s) + 1)
      /\ Append(s, e)[Len(s) + 1] = e
      /\ \A i \in 1..Len(s) : Append(s, e)[i] = s[i]
  OBVIOUS
<1>2. 1..(Len(s) + 1) = 1..Len(s) \cup {Len(s) + 1}
  OBVIOUS
<1>3. Range(Append(s, e)) = Range(s) \cup {e}
  BY <1>1, <1>2 DEF Range
<1>4. ASSUME IsInjective(s), e \notin Range(s) PROVE IsInjective(Append(s, e))
  BY <1>1, <1>2, <1>4 DEF IsInjective, Range
<1> QED BY <1>1, <1>3, <1>4

LEMMA RemoveAtProperties ==
    ASSUME NEW S, NEW s \in Seq(S), NEW i \in DOMAIN s
    PROVE  /\ RemoveAt(s, i) \in Seq(S)
           /\ Len(RemoveAt(s, i)) = Len(s) - 1
           /\ IsInjective(s) => IsInjective(RemoveAt(s, i))
<1> DEFINE left == SubSeq(s, 1, i - 1)
           right == SubSeq(s, i + 1, Len(s))
<1>1. i \in 1..Len(s) /\ Len(s) \in Nat
  OBVIOUS
<1>2. left \in Seq(S) /\ Len(left) = i - 1 /\ \A k \in 1..(i - 1) : left[k] = s[k]
  BY <1>1
<1>3. right \in Seq(S) /\ Len(right) = Len(s) - i /\ \A k \in 1..(Len(s) - i) : right[k] = s[i + k]
  BY <1>1
<1>4. RemoveAt(s, i) = left \o right
  BY DEF RemoveAt
<1> HIDE DEF left, right
<1>5. RemoveAt(s, i) \in Seq(S) /\ Len(RemoveAt(s, i)) = Len(s) - 1
  BY <1>1, <1>2, <1>3, <1>4
<1>6. \A k \in 1..(Len(s) - 1) : RemoveAt(s, i)[k] = IF k < i THEN s[k] ELSE s[k + 1]
  <2> SUFFICES ASSUME NEW k \in 1..(Len(s) - 1)
               PROVE  (left \o right)[k] = IF k < i THEN s[k] ELSE s[k + 1]
    BY <1>4
  <2>1. CASE k < i
    BY <1>1, <1>2, <1>3, <2>1
  <2>2. CASE ~ (k < i)
    <3>1. k - Len(left) \in 1..(Len(s) - i) /\ k > Len(left)
      BY <1>1, <1>2, <2>2
    <3>2. (left \o right)[k] = right[k - Len(left)]
      <4>1. k \in 1..(Len(left) + Len(right)) /\ Len(left) \in Nat /\ Len(right) \in Nat
        BY <1>1, <1>2, <1>3
      <4>2. \A m \in 1..(Len(left) + Len(right)) :
               (left \o right)[m] = IF m <= Len(left) THEN left[m] ELSE right[m - Len(left)]
        BY <1>2, <1>3, ConcatProperties, Zenon
      <4>3. ~ (k <= Len(left))
        BY <3>1, <4>1
      <4> QED BY <4>1, <4>2, <4>3, Zenon
    <3>3. right[k - Len(left)] = s[i + (k - Len(left))] /\ i + (k - Len(left)) = k + 1
      BY <1>1, <1>2, <1>3, <3>1
    <3> QED BY <2>2, <3>2, <3>3
  <2> QED BY <2>1, <2>2
<1>7. ASSUME IsInjective(s) PROVE IsInjective(RemoveAt(s, i))
  <2> SUFFICES ASSUME NEW a \in 1..(Len(s) - 1), NEW b \in 1..(Len(s) - 1),
                      RemoveAt(s, i)[a] = RemoveAt(s, i)[b]
               PROVE  a = b
    BY <1>5 DEF IsInjective
  <2> DEFINE P(k) == IF k < i THEN k ELSE k + 1
  <2>1. P(a) \in DOMAIN s /\ P(b) \in DOMAIN s
    BY <1>1
  <2>2. s[P(a)] = s[P(b)]
    BY <1>6
  <2>3. P(a) = P(b)
    BY <1>7, <2>1, <2>2 DEF IsInjective
  <2> QED BY <1>1, <2>3
<1> QED BY <1>5, <1>7

LEMMA InitSched == Init => SchedInv
<1> SUFFICES ASSUME Init PROVE SchedInv
  OBVIOUS
<1> USE DEF Init
<1>1. TypeOK
  BY EmptyRange, SchedulerAssumption DEF TypeOK
<1>2. LastInv /\ ChangeInv /\ AheadInv /\ EndInv
  BY DEF LastInv, ChangeInv, AheadInv, EndInv, Ended
<1>3. RanInv
  BY EmptyRange DEF RanInv, InOrder, Visited
<1> QED BY <1>1, <1>2, <1>3 DEF SchedInv

(***************************************************************************)
(* Each action preserves the invariant.                                    *)
(***************************************************************************)
LEMMA TickSched == ASSUME SchedInv, Tick PROVE SchedInv'
<1> USE DEF SchedInv, Tick
<1>1. TypeOK'
  BY SchedulerAssumption DEF TypeOK
<1>2. LastInv' /\ ChangeInv' /\ EndInv'
  BY DEF LastInv, ChangeInv, EndInv, Ended
<1>3. RanInv' /\ AheadInv'
  BY DEF RanInv, InOrder, Visited, AheadInv, IsDue
<1> QED BY <1>1, <1>2, <1>3

(***************************************************************************)
(* (Un)registering a job changes the size of the dict.                     *)
(***************************************************************************)
LEMMA ChangeSched ==
    ASSUME SchedInv, Change, jobs' \in Seq(Jobs), IsInjective(jobs'),
           Len(jobs') = Len(jobs) + 1 \/ Len(jobs') = Len(jobs) - 1,
           \/ UNCHANGED <<last, started>>
           \/ \E j \in Jobs : /\ last' = [last EXCEPT ![j] = Never]
                              /\ started' = [started EXCEPT ![j] = Never]
    PROVE  SchedInv'
<1> USE DEF SchedInv, Change
<1>1. TypeOK'
  <2>1. changes' \in 0..MaxChanges
    BY SchedulerAssumption DEF TypeOK
  <2>2. last' \in [Jobs -> 0..MaxTime \cup {Never}]
    BY DEF TypeOK
  <2>3. /\ DOMAIN started' = Jobs
        /\ \A j \in Jobs :
              started'[j] # Never => started'[j] \in [at : 0..MaxTime, tick : 0..MaxTime]
    BY DEF TypeOK
  <2> QED BY <2>1, <2>2, <2>3 DEF TypeOK
<1>2. LastInv'
  BY DEF LastInv, TypeOK
<1>3. pc = "job" => changes = 0 /\ changes' = 1
  BY SchedulerAssumption DEF TypeOK
<1>4. Len(jobs) \in Nat
  BY DEF TypeOK
<1>5. ChangeInv'
  BY <1>3, <1>4 DEF ChangeInv, TypeOK
<1>6. AheadInv'
  BY <1>3 DEF AheadInv, TypeOK
<1>7. RanInv' /\ EndInv'
  BY <1>3 DEF RanInv, InOrder, Visited, EndInv, Ended
<1> QED BY <1>1, <1>2, <1>5, <1>6, <1>7

LEMMA RegisterSched ==
    ASSUME SchedInv, NEW j \in Jobs, RegisterJob(j) \/ UnregisterJob(j) PROVE SchedInv'
<1>1. jobs \in Seq(Jobs) /\ IsInjective(jobs) /\ Change
  BY DEF SchedInv, TypeOK, RegisterJob, UnregisterJob
<1>2. CASE RegisterJob(j)
  <2>1. jobs' = Append(jobs, j) /\ j \notin Range(jobs)
    BY <1>2 DEF RegisterJob
  <2>2. jobs' \in Seq(Jobs) /\ IsInjective(jobs') /\ Len(jobs') = Len(jobs) + 1
    BY <1>1, <2>1, RangeAppend
  <2> QED BY <1>1, <1>2, <2>2, ChangeSched DEF RegisterJob
<1>3. CASE UnregisterJob(j)
  <2>1. PICK i \in DOMAIN jobs : jobs' = RemoveAt(jobs, i)
    BY <1>3 DEF UnregisterJob
  <2>2. jobs' \in Seq(Jobs) /\ IsInjective(jobs') /\ Len(jobs') = Len(jobs) - 1
    BY <1>1, <2>1, RemoveAtProperties
  <2> QED BY <1>1, <1>3, <2>2, ChangeSched DEF UnregisterJob
<1> QED BY <1>2, <1>3

LEMMA StartTickSched == ASSUME SchedInv, StartTick PROVE SchedInv'
<1> USE DEF SchedInv, StartTick
<1>1. TypeOK'
  BY EmptyRange, SchedulerAssumption DEF TypeOK
<1>2. LastInv' /\ ChangeInv' /\ EndInv'
  BY DEF LastInv, ChangeInv, EndInv, Ended
<1>3. RanInv'
  BY EmptyRange DEF RanInv, InOrder, Visited
<1>4. AheadInv'
  <2> SUFFICES ASSUME NEW i \in 1..Len(jobs)
               PROVE  IsDue(jobs[i], clock)' <=> jobs[i] \in owed'
    BY DEF AheadInv
  <2>1. jobs[i] \in Range(jobs)
    BY DEF Range, TypeOK
  <2> QED BY <2>1 DEF IsDue
<1> QED BY <1>1, <1>2, <1>3, <1>4

LEMMA EndTickSched == ASSUME SchedInv, SizeChanged \/ Exhausted PROVE SchedInv'
<1> USE DEF SchedInv, SizeChanged, Exhausted, EndTick
<1>1. TypeOK'
  BY DEF TypeOK
<1>2. LastInv' /\ ChangeInv' /\ AheadInv'
  BY DEF LastInv, ChangeInv, AheadInv
<1>3. EndInv'
  BY DEF ChangeInv, EndInv
<1>4. RanInv'
  BY DEF RanInv, InOrder, Visited
<1> QED BY <1>1, <1>2, <1>3, <1>4

(***************************************************************************)
(* The next entry of the dict, in a tick that nobody has disturbed.        *)
(***************************************************************************)
LEMMA NextEntry ==
    ASSUME SchedInv, pc = "loop", Len(jobs) = Len(order), pos < Len(order)
    PROVE  /\ changes = 0 /\ jobs = order /\ pos + 1 \in 1..Len(order)
           /\ order[pos + 1] \in Jobs
           /\ Visited(pos + 1) = Visited(pos) \cup {order[pos + 1]}
           /\ order[pos + 1] \notin Visited(pos)
           /\ IsDue(order[pos + 1], now) <=> order[pos + 1] \in owed
<1>1. changes = 0 /\ jobs = order
  BY DEF SchedInv, ChangeInv
<1>2. /\ pos \in Nat /\ Len(order) \in Nat /\ order \in Seq(Jobs) /\ IsInjective(order)
      /\ DOMAIN order = 1..Len(order)
  BY DEF SchedInv, TypeOK
<1>3. pos + 1 \in 1..Len(order) /\ 1..(pos + 1) = 1..pos \cup {pos + 1} /\ pos + 1 \notin 1..pos
  BY <1>2
<1>4. 1..pos \subseteq DOMAIN order
  BY <1>2
<1>5. Visited(pos + 1) = Visited(pos) \cup {order[pos + 1]}
  BY <1>3 DEF Visited
<1>6. order[pos + 1] \notin Visited(pos)
  BY <1>2, <1>3, <1>4 DEF Visited, IsInjective
<1>7. IsDue(order[pos + 1], now) <=> order[pos + 1] \in owed
  <2>1. pos + 1 \in (pos + 1)..Len(order)
    BY <1>2
  <2> QED BY <1>1, <2>1 DEF SchedInv, AheadInv
<1> QED BY <1>1, <1>2, <1>3, <1>5, <1>6, <1>7

LEMMA SkipSched == ASSUME SchedInv, Skip PROVE SchedInv'
<1>1. /\ order[pos + 1] \notin owed /\ pos + 1 \in 1..Len(order) /\ pos \in Nat
      /\ Visited(pos + 1) = Visited(pos) \cup {order[pos + 1]}
  BY NextEntry DEF Skip, SchedInv, TypeOK
<1>2. TypeOK'
  BY <1>1 DEF SchedInv, Skip, TypeOK
<1>3. LastInv' /\ ChangeInv' /\ EndInv'
  BY DEF SchedInv, Skip, LastInv, ChangeInv, EndInv, Ended
<1>4. RanInv'
  BY <1>1 DEF SchedInv, Skip, RanInv, InOrder, Visited
<1>5. AheadInv'
  <2>1. ((pos + 1) + 1)..Len(order) \subseteq (pos + 1)..Len(order)
    BY <1>1
  <2> QED BY <2>1 DEF SchedInv, Skip, AheadInv, IsDue
<1> QED BY <1>2, <1>3, <1>4, <1>5 DEF SchedInv

LEMMA RunSched == ASSUME SchedInv, Run PROVE SchedInv'
<1> DEFINE j == order[pos + 1]
<1>1. /\ changes = 0 /\ jobs = order /\ pos + 1 \in 1..Len(order) /\ j \in Jobs /\ j \in owed
      /\ Visited(pos + 1) = Visited(pos) \cup {j} /\ j \notin Visited(pos)
  BY NextEntry DEF Run
<1>2. /\ last' = [last EXCEPT ![j] = now] /\ ran' = Append(ran, j) /\ pos' = pos + 1 /\ pc' = "job"
      /\ started' = [started EXCEPT ![j] = [at |-> clock, tick |-> now]]
      /\ UNCHANGED <<clock, jobs, now, failed, changes, order, owed, result>>
  BY <1>1 DEF Run
<1>3. /\ ran \in Seq(Jobs) /\ IsInjective(ran) /\ j \notin Range(ran) /\ pos \in Nat
      /\ DOMAIN ran = 1..Len(ran) /\ Len(ran) \in Nat /\ DOMAIN order = 1..Len(order)
  BY <1>1 DEF SchedInv, TypeOK, RanInv
<1>4. ran' \in Seq(Jobs) /\ IsInjective(ran') /\ Range(ran') = Range(ran) \cup {j}
  BY <1>1, <1>2, <1>3, RangeAppend
<1> HIDE DEF j
<1>5. TypeOK'
  <2>1. now \in 0..MaxTime /\ clock \in 0..MaxTime
    BY SchedulerAssumption DEF SchedInv, TypeOK
  <2>2. last' \in [Jobs -> 0..MaxTime \cup {Never}] /\ DOMAIN started' = Jobs
    BY <1>1, <1>2, <2>1 DEF SchedInv, TypeOK
  <2>3. \A i \in Jobs : started'[i] # Never => started'[i] \in [at : 0..MaxTime, tick : 0..MaxTime]
    BY <1>1, <1>2, <2>1 DEF SchedInv, TypeOK
  <2>4. failed' \subseteq Range(ran')
    BY <1>2, <1>4 DEF SchedInv, TypeOK
  <2>5. pos' \in 0..Len(order)
    BY <1>1, <1>2, <1>3
  <2> QED BY <1>2, <1>4, <2>2, <2>3, <2>4, <2>5 DEF SchedInv, TypeOK
<1>6. LastInv'
  <2>1. now # Never
    BY SchedulerAssumption DEF SchedInv, TypeOK
  <2> QED BY <1>1, <1>2, <2>1 DEF SchedInv, LastInv, TypeOK
<1>7. ChangeInv' /\ EndInv'
  BY <1>1, <1>2 DEF ChangeInv, EndInv, Ended
<1>8. InOrder'
  <2> SUFFICES ASSUME NEW a \in 1..(Len(ran) + 1), NEW b \in 1..(Len(ran) + 1), a < b
               PROVE  \E p, q \in DOMAIN order : p < q /\ order[p] = ran'[a] /\ order[q] = ran'[b]
    BY <1>2, <1>3 DEF InOrder
  <2>1. a \in 1..Len(ran) /\ ran'[a] = ran[a]
    BY <1>2, <1>3
  <2>2. CASE b = Len(ran) + 1
    <3>1. ran[a] \in Range(ran)
      BY <1>3, <2>1 DEF Range
    <3>2. PICK p \in 1..pos : order[p] = ran[a]
      BY <3>1 DEF SchedInv, RanInv, Visited
    <3>3. ran'[b] = order[pos + 1]
      BY <1>2, <1>3, <2>2 DEF j
    <3>4. p \in DOMAIN order /\ pos + 1 \in DOMAIN order /\ p < pos + 1
      BY <1>1, <1>3, <3>2
    <3> QED BY <2>1, <3>2, <3>3, <3>4
  <2>3. CASE b # Len(ran) + 1
    <3>1. b \in DOMAIN ran /\ a \in DOMAIN ran /\ ran'[b] = ran[b]
      BY <1>2, <1>3, <2>1, <2>3
    <3> QED BY <2>1, <3>1 DEF SchedInv, RanInv, InOrder
  <2> QED BY <2>2, <2>3
<1>9. RanInv'
  <2>1. Visited(pos)' = Visited(pos) \cup {j}
    BY <1>1, <1>2 DEF Visited
  <2>2. ran' # <<>>
    BY <1>2, <1>3
  <2>3. Range(ran') = (Visited(pos) \cup {j}) \cap owed
    BY <1>1, <1>4 DEF SchedInv, RanInv
  <2> QED BY <1>2, <1>8, <2>1, <2>2, <2>3 DEF RanInv
<1>10. AheadInv'
  <2> SUFFICES ASSUME NEW i \in (pos + 2)..Len(order)
               PROVE  IsDue(order[i], now)' <=> order[i] \in owed
    BY <1>1, <1>2, <1>3 DEF AheadInv
  <2>1. i \in (pos + 1)..Len(order) /\ i \in DOMAIN order /\ pos + 1 \in DOMAIN order /\ i # pos + 1
    BY <1>1, <1>3
  <2>2. order[i] # j /\ order[i] \in Jobs
    BY <2>1 DEF SchedInv, TypeOK, IsInjective, j
  <2>3. last'[order[i]] = last[order[i]]
    BY <1>2, <2>2 DEF SchedInv, TypeOK
  <2>4. IsDue(order[i], now) <=> order[i] \in owed
    BY <1>1, <2>1 DEF SchedInv, AheadInv, Run
  <2> QED BY <1>2, <2>3, <2>4 DEF IsDue
<1> QED BY <1>5, <1>6, <1>7, <1>9, <1>10 DEF SchedInv

LEMMA ReturnSched == ASSUME SchedInv, Return \/ Raise PROVE SchedInv'
<1> USE DEF SchedInv, Return, Raise
<1>1. /\ UNCHANGED <<clock, jobs, last, now, pos, ran, changes, order, owed, result, started>>
      /\ pc = "job" /\ pc' = "loop"
  OBVIOUS
<1>2. failed' \subseteq Range(ran)
  <2>1. ran # <<>> /\ ran \in Seq(Jobs) /\ failed \subseteq Range(ran)
    BY DEF RanInv, TypeOK
  <2>2. ran[Len(ran)] \in Range(ran)
    BY <2>1 DEF Range
  <2> QED BY <2>1, <2>2
<1>3. TypeOK'
  BY <1>1, <1>2 DEF TypeOK
<1>4. LastInv' /\ ChangeInv' /\ EndInv'
  BY <1>1 DEF LastInv, ChangeInv, EndInv, Ended
<1>5. RanInv' /\ AheadInv'
  BY <1>1 DEF RanInv, InOrder, Visited, AheadInv, IsDue
<1> QED BY <1>3, <1>4, <1>5

LEMMA NextSched == SchedInv /\ [Next]_vars => SchedInv'
<1> SUFFICES ASSUME SchedInv, [Next]_vars PROVE SchedInv'
  OBVIOUS
<1>1. CASE UNCHANGED vars
  <2> USE <1>1 DEF SchedInv, vars
  <2>1. TypeOK'
    BY DEF TypeOK
  <2>2. LastInv' /\ ChangeInv' /\ EndInv'
    BY DEF LastInv, ChangeInv, EndInv, Ended
  <2>3. RanInv' /\ AheadInv'
    BY DEF RanInv, InOrder, Visited, AheadInv, IsDue
  <2> QED BY <2>1, <2>2, <2>3
<1> QED BY <1>1, TickSched, RegisterSched, StartTickSched, EndTickSched, SkipSched, RunSched,
           ReturnSched DEF Next, InTick

LEMMA SchedInvariant == Spec => []SchedInv
  BY InitSched, NextSched, PTL DEF Spec

(***************************************************************************)
(* Type correctness: the scheduler never runs or lists a job twice.        *)
(***************************************************************************)
THEOREM SchedulerTypes == Spec => []TypeOK
<1>1. SchedInv => TypeOK
  BY DEF SchedInv
<1> QED BY <1>1, SchedInvariant, PTL

(***************************************************************************)
(* A tick runs only jobs that were due when it began, in registration      *)
(* order, and passes over none before one it runs.                         *)
(***************************************************************************)
THEOREM TicksRunOnlyDue == Spec => []OnlyDueJobsRun
<1>1. SchedInv => OnlyDueJobsRun
  BY DEF SchedInv, TypeOK, RanInv, Visited, OnlyDueJobsRun
<1> QED BY <1>1, SchedInvariant, PTL

(***************************************************************************)
(* A tick that nobody disturbs runs every job that was due when it began,  *)
(* however many of them raise, and raises if and only if one did.          *)
(***************************************************************************)
THEOREM TicksRunAllDue == Spec => []TickRunsAllDue
<1>1. SchedInv => TickRunsAllDue
  <2> SUFFICES ASSUME SchedInv, Ended, changes = 0
               PROVE  /\ Range(ran) = owed /\ InOrder
                      /\ result = IF failed = {} THEN "ran" ELSE "raised"
    BY DEF TickRunsAllDue
  <2>1. pos = Len(order) /\ result = IF failed = {} THEN "ran" ELSE "raised"
    BY DEF SchedInv, EndInv
  <2>2. Visited(pos) = Range(order)
    BY <2>1 DEF Visited, Range, SchedInv, TypeOK
  <2> QED BY <2>1, <2>2 DEF SchedInv, TypeOK, RanInv
<1> QED BY <1>1, SchedInvariant, PTL

(***************************************************************************)
(* The ticks that run a job begin at least its interval apart, whether the *)
(* job raised or not.                                                      *)
(***************************************************************************)
THEOREM JobsAreSpaced == Spec => TicksAreSpaced
<1>1. ASSUME SchedInv, [Next]_vars, NEW j \in Jobs, Rerun(j)
      PROVE  started'[j].tick - started[j].tick >= Interval[j]
  <2>1. CASE Run
    <3> DEFINE i == order[pos + 1]
    <3>1. jobs = order /\ i \in Jobs
      BY <1>1, <2>1, NextEntry DEF Run
    <3>2. started' = [started EXCEPT ![i] = [at |-> clock, tick |-> now]] /\ IsDue(i, now)
      BY <2>1, <3>1 DEF Run
    <3>3. j = i /\ started'[j].tick = now
      BY <1>1, <3>1, <3>2 DEF Rerun, SchedInv, TypeOK
    <3>4. last[j] # Never /\ started[j].tick = last[j]
      BY <1>1 DEF Rerun, SchedInv, LastInv
    <3> QED BY <3>2, <3>3, <3>4 DEF IsDue
  <2>2. CASE \E i \in Jobs : RegisterJob(i)
    BY <1>1, <2>2 DEF Rerun, RegisterJob, SchedInv, TypeOK
  <2>3. CASE started' = started
    BY <1>1, <2>3 DEF Rerun
  <2> QED BY <1>1, <2>1, <2>2, <2>3
          DEF Next, InTick, vars, Tick, UnregisterJob, StartTick, SizeChanged, Exhausted, EndTick,
              Skip, Return, Raise
<1>2. SchedInv /\ [Next]_vars =>
        [\A j \in Jobs : Rerun(j) => started'[j].tick - started[j].tick >= Interval[j]]_vars
  BY <1>1
<1> QED BY <1>2, SchedInvariant, PTL DEF Spec, TicksAreSpaced
=============================================================================
