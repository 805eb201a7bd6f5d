--------------------------- MODULE IngestScheduler ---------------------------
(***************************************************************************)
(* IngestScheduler: tick() runs the due jobs in registration order.  A job *)
(* takes time, may raise, and it - or another thread - may register and    *)
(* unregister jobs while the tick iterates over the dict of jobs.          *)
(***************************************************************************)
EXTENDS Integers, Sequences, SequencesExt

CONSTANTS
    Jobs,       \* job names
    Interval,   \* Interval[j]: interval_seconds of job j
    MaxTime,    \* bound on the clock
    MaxChanges, \* bound on the (un)registrations during one tick
    Never       \* last_run_at = None

ASSUME SchedulerAssumption ==
    /\ Interval \in [Jobs -> Nat]
    /\ MaxTime \in Nat
    /\ MaxChanges \in 0..1      \* two could restore the dict's size, which CPython compares
    /\ Never \notin Nat

VARIABLES
    clock,
    jobs,       \* _jobs: the registered names, in registration order
    last,       \* last[j]: last_run_at of job j, Never when it has none
    pc,         \* "idle", "loop" (tick between two jobs) or "job" (one runs)
    now,        \* the tick's `now`
    pos,        \* how many entries of the dict the tick has visited
    ran,        \* the tick's `ran`
    failed,     \* jobs that raised in the tick
    changes,    \* (un)registrations since the tick began
    order,      \* the jobs registered when the tick began, in order
    owed,       \* those of them that were due then: what the tick owes
    result,     \* how the last tick ended: "none", "ran", "raised" or "runtime"
    started     \* started[j]: when j's fn was last called, and `now` of that tick

vars == <<clock, jobs, last, pc, now, pos, ran, failed, changes, order, owed, result, started>>

TypeOK ==
    /\ clock \in 0..MaxTime
    /\ jobs \in Seq(Jobs) /\ IsInjective(jobs)
    /\ last \in [Jobs -> 0..MaxTime \cup {Never}]
    /\ pc \in {"idle", "loop", "job"}
    /\ now \in 0..clock
    /\ order \in Seq(Jobs) /\ IsInjective(order)
    /\ owed \subseteq Range(order)
    /\ pos \in 0..Len(order)
    /\ ran \in Seq(Jobs) /\ IsInjective(ran)
    /\ failed \subseteq Range(ran)
    /\ changes \in 0..MaxChanges
    /\ result \in {"none", "ran", "raised", "runtime"}
    /\ DOMAIN started = Jobs
    /\ \A j \in Jobs : started[j] # Never => started[j] \in [at : 0..MaxTime, tick : 0..MaxTime]

Init ==
    /\ clock = 0
    /\ jobs = <<>>
    /\ last = [j \in Jobs |-> Never]
    /\ pc = "idle"
    /\ now = 0
    /\ pos = 0
    /\ ran = <<>>
    /\ failed = {}
    /\ changes = 0
    /\ order = <<>>
    /\ owed = {}
    /\ result = "none"
    /\ started = [j \in Jobs |-> Never]

\* Jobs take time; the loop around them takes none.
Tick ==
    /\ clock < MaxTime
    /\ pc # "loop"
    /\ clock' = clock + 1
    /\ UNCHANGED <<jobs, last, pc, now, pos, ran, failed, changes, order, owed, result, started>>

-----------------------------------------------------------------------------
\* A change of the registry, by a job under way or between two ticks.
Change ==
    /\ pc # "loop"
    /\ pc = "job" => changes < MaxChanges
    /\ changes' = IF pc = "job" THEN changes + 1 ELSE changes
    /\ UNCHANGED <<clock, pc, now, pos, ran, failed, order, owed, result>>

\* register_job; a name that is registered raises.  A new ScheduledJob never ran.
RegisterJob(j) ==
    /\ j \notin Range(jobs)
    /\ jobs' = Append(jobs, j)
    /\ last' = [last EXCEPT ![j] = Never]
    /\ started' = [started EXCEPT ![j] = Never]
    /\ Change

UnregisterJob(j) ==
    /\ \E i \in DOMAIN jobs : jobs[i] = j /\ jobs' = RemoveAt(jobs, i)
    /\ UNCHANGED <<last, started>>
    /\ Change

-----------------------------------------------------------------------------
\* Mutant: a job is due only after its interval, an instant late.
IsDueLate(j, t) == IF last[j] = Never THEN TRUE ELSE t - last[j] > Interval[j]

\* Mutant: the clock is read again for each job.
IsDueByNow(j, t) == IF last[j] = Never THEN TRUE ELSE clock - last[j] >= Interval[j]

\* Whether tick(), begun at t, runs job j.
IsDue(j, t) == IF last[j] = Never THEN TRUE ELSE t - last[j] >= Interval[j]

StartTick ==
    /\ pc = "idle"
    /\ pc' = "loop"
    /\ now' = clock
    /\ pos' = 0
    /\ ran' = <<>>
    /\ failed' = {}
    /\ changes' = 0
    /\ order' = jobs
    /\ owed' = {j \in Range(jobs) : last[j] = Never \/ clock - last[j] >= Interval[j]}
    /\ result' = "none"
    /\ UNCHANGED <<clock, jobs, last, started>>

EndTick(how) ==
    /\ pc' = "idle"
    /\ result' = how
    /\ UNCHANGED <<clock, jobs, last, now, pos, ran, failed, changes, order, owed, started>>

\* Advancing the iterator of a dict whose size has changed raises, whatever is left.
SizeChanged ==
    /\ pc = "loop"
    /\ Len(jobs) # Len(order)
    /\ EndTick("runtime")

Exhausted ==
    /\ pc = "loop"
    /\ Len(jobs) = Len(order)
    /\ pos = Len(order)
    /\ EndTick(IF failed = {} THEN "ran" ELSE "raised")

Skip ==
    /\ pc = "loop"
    /\ Len(jobs) = Len(order)
    /\ pos < Len(order)
    /\ ~IsDue(jobs[pos + 1], now)
    /\ pos' = pos + 1
    /\ UNCHANGED <<clock, jobs, last, pc, now, ran, failed, changes, order, owed, result, started>>

\* last_run_at and ran are noted before fn() is called.
Run ==
    /\ pc = "loop"
    /\ Len(jobs) = Len(order)
    /\ pos < Len(order)
    /\ IsDue(jobs[pos + 1], now)
    /\ LET j == jobs[pos + 1]
       IN  /\ last' = [last EXCEPT ![j] = now]
           /\ ran' = Append(ran, j)
           /\ started' = [started EXCEPT ![j] = [at |-> clock, tick |-> now]]
    /\ pos' = pos + 1
    /\ pc' = "job"
    /\ UNCHANGED <<clock, jobs, now, failed, changes, order, owed, result>>

Return ==
    /\ pc = "job"
    /\ pc' = "loop"
    /\ UNCHANGED <<clock, jobs, last, now, pos, ran, failed, changes, order, owed, result, started>>

\* Mutant: an exception leaves the loop.
RaiseStops ==
    /\ pc = "job"
    /\ failed' = failed \cup {ran[Len(ran)]}
    /\ pc' = "idle"
    /\ result' = "raised"
    /\ UNCHANGED <<clock, jobs, last, now, pos, ran, changes, order, owed, started>>

\* Mutant: a job that raised counts as not run.
RaiseForgets ==
    /\ pc = "job"
    /\ failed' = failed \cup {ran[Len(ran)]}
    /\ last' = [last EXCEPT ![ran[Len(ran)]] = Never]
    /\ pc' = "loop"
    /\ UNCHANGED <<clock, jobs, now, pos, ran, changes, order, owed, result, started>>

\* Any BaseException is kept until the loop is over.
Raise ==
    /\ pc = "job"
    /\ failed' = failed \cup {ran[Len(ran)]}
    /\ pc' = "loop"
    /\ UNCHANGED <<clock, jobs, last, now, pos, ran, changes, order, owed, result, started>>

InTick == SizeChanged \/ Exhausted \/ Skip \/ Run \/ Return \/ Raise

Next == Tick \/ (\E j \in Jobs : RegisterJob(j) \/ UnregisterJob(j)) \/ StartTick \/ InTick

\* The owner of the scheduler keeps calling tick(), and jobs return or raise.
Spec == Init /\ [][Next]_vars /\ WF_vars(StartTick) /\ WF_vars(InTick)

-----------------------------------------------------------------------------
Ended == pc = "idle" /\ result # "none"

(***************************************************************************)
(* A tick in which nobody (un)registers a job runs exactly the jobs that   *)
(* were due when it began, in registration order, however many raise - and *)
(* it raises if and only if one of them did.                               *)
(***************************************************************************)
InOrder ==
    \A a, b \in DOMAIN ran : a < b =>
        \E p, q \in DOMAIN order : p < q /\ order[p] = ran[a] /\ order[q] = ran[b]

TickRunsAllDue ==
    Ended /\ changes = 0 =>
        /\ Range(ran) = owed /\ InOrder
        /\ result = IF failed = {} THEN "ran" ELSE "raised"

(***************************************************************************)
(* Whatever happens in a tick, it runs no job that was not registered and  *)
(* due when it began, never one out of order or twice, and passes over     *)
(* none that was due before one it runs.                                   *)
(***************************************************************************)
OnlyDueJobsRun ==
    /\ \E n \in 0..Len(order) : Range(ran) = {order[i] : i \in 1..n} \cap owed
    /\ InOrder

(***************************************************************************)
(* Ticks that run a job, whether it raised or not, begin at least its      *)
(* interval apart: a failing job is not fired again in a hot loop.         *)
(***************************************************************************)
Rerun(j) == started'[j] # started[j] /\ started[j] # Never /\ started'[j] # Never

TicksAreSpaced ==
    [][\A j \in Jobs : Rerun(j) => started'[j].tick - started[j].tick >= Interval[j]]_vars

(***************************************************************************)
(* No job starves: as long as some tick after every instant is left alone  *)
(* by the registry's users, a registered job that is due is run in the end *)
(* or unregistered, whichever other jobs raise in every tick.              *)
(***************************************************************************)
Waiting(j) == j \in Range(jobs) /\ IsDue(j, clock)

Running(j) == pc = "job" /\ ran[Len(ran)] = j

NoJobStarves ==
    []<>(Ended /\ changes = 0) =>
        \A j \in Jobs : Waiting(j) ~> (Running(j) \/ j \notin Range(jobs))

(***************************************************************************)
(* app/ingest/scheduler.py:39: tick() runs every due job once - those that *)
(* are still registered when it ends.                                      *)
(***************************************************************************)
EveryDueJobRuns ==
    [][pc # "idle" /\ pc' = "idle" => owed \cap Range(jobs) \subseteq Range(ran)]_vars

(***************************************************************************)
(* app/ingest/scheduler.py:4-6: a job runs when its interval has elapsed   *)
(* since it last ran.                                                      *)
(***************************************************************************)
RunsAreSpaced ==
    [][\A j \in Jobs : Rerun(j) => started'[j].at - started[j].at >= Interval[j]]_vars
=============================================================================
