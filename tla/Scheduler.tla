----------------------------- MODULE Scheduler -----------------------------
(***************************************************************************)
(* The Core-owned scheduler (db/scheduler.py, AsyncpgSchedulerStore): the  *)
(* tick that turns due schedules into jobs, and the writers of schedules   *)
(* that race it: ensure_core_schedules and the scan schedules at every     *)
(* worker start, and the upsert endpoint of the API.                       *)
(*                                                                         *)
(* A tick is one transaction but not one action: it reads and writes at    *)
(* READ COMMITTED, so the statements of other transactions fall between    *)
(* its own.  Tickers are the loops of the scheduler workers, the           *)
(* scheduler.tick jobs in their slots and the tick endpoint; the schedules *)
(* are those of one workspace.  A loop ticks once per iteration and then   *)
(* waits for the jobs that its slots have claimed.                         *)
(***************************************************************************)
EXTENDS Integers, FiniteSets

CONSTANTS
  Schedules,  \* schedule names
  Core,       \* those of CORE_DEFAULT_SCHEDULES; the others are scan schedules
  Kinds,      \* job kinds
  KindOf,     \* [Schedules -> Kinds]
  Policy,     \* [Schedules -> misfire policies]
  Interval,   \* [Schedules -> Nat \ {0}], interval_seconds
  Tickers,    \* concurrent callers of run_due_schedules
  Loops,      \* those that are run_worker_loop of a scheduler worker
  Limit,      \* LIMIT of the due query
  Starts,     \* worker starts, each of which registers the default schedules
  EditTimes,  \* next_run_at values the upsert endpoint is called with
  MaxEdits,   \* bound: calls of the upsert endpoint
  MaxAborts,  \* bound: ticks whose transaction is rolled back
  MaxNow,     \* bound: the clock stops here
  Horizon,    \* bound: no next_run_at lies after it
  None

ASSUME CoreAssumption == Core \subseteq Schedules /\ IsFiniteSet(Schedules)
ASSUME KindAssumption == KindOf \in [Schedules -> Kinds]
ASSUME PolicyAssumption ==
  Policy \in [Schedules -> {"coalesce", "catch_up_limited", "skip", "immediate"}]
ASSUME ClockAssumption ==
  /\ MaxNow \in Nat /\ Horizon \in Nat
  /\ Interval \in [Schedules -> Nat \ {0}]
  /\ \A s \in Schedules : MaxNow + Interval[s] <= Horizon
  /\ EditTimes \subseteq 0..Horizon
ASSUME BoundAssumption == Limit \in Nat \ {0} /\ MaxEdits \in Nat /\ MaxAborts \in Nat
ASSUME LoopAssumption == Loops \subseteq Tickers
ASSUME NoneAssumption == None \notin Tickers /\ None \notin Int

VARIABLES
  now,        \* the clock
  table,      \* table autoskill.schedules
  jobs,       \* status of the job with key schedule:<id>:<next_run_at>
  manual,     \* status, per kind, of a job enqueued by other means
  lock,       \* holder of the advisory lock "autoskill.scheduler.tick"
  ticks,      \* the local state of every ticker's transaction
  starts,     \* the local state of every worker start
  edits,      \* calls of the upsert endpoint so far
  aborts      \* rolled-back ticks so far

vars == <<now, table, jobs, manual, lock, ticks, starts, edits, aborts>>

Slots == 0..Horizon
Keys == Schedules \X Slots
JobStatus == {"absent", "active", "settled"}

NoSchedule == [present |-> FALSE, enabled |-> FALSE, next |-> 0]
\* view: next_run_at of the fetched rows; moved: what the tick has written.
IdleTick == [pc |-> "idle", at |-> 0, view |-> <<>>, moved |-> <<>>, left |-> {}, added |-> {}]
\* The loop awaits the gather of its slots.
ServingTick == [IdleTick EXCEPT !.pc = "serving"]
AfterTick(t) == IF t \in Loops THEN ServingTick ELSE IdleTick
NewStart == [pc |-> "fresh", seen |-> [s \in Schedules |-> 0], left |-> Schedules]

Init ==
  /\ now = 0
  /\ table = [s \in Schedules |-> NoSchedule]
  /\ jobs = [k \in Keys |-> "absent"]
  /\ manual = [k \in Kinds |-> "absent"]
  /\ lock = None
  /\ ticks = [t \in Tickers |-> IdleTick]
  /\ starts = [p \in Starts |-> NewStart]
  /\ edits = 0
  /\ aborts = 0

-----------------------------------------------------------------------------
(* Row locks, misfires and the next run *)

\* Fault: the due query does not lock its rows.
NothingLocked == FALSE

\* FOR UPDATE of a join: the fetched schedules and their workspace stay locked
\* until the tick's transaction ends.  upsert_schedule and enqueue_job update
\* the workspace first (ensure_workspace), so they wait for that.
WorkspaceLocked == \E t \in Tickers : DOMAIN ticks[t].view # {}

Due == {s \in Schedules : table[s].enabled /\ table[s].next <= now}

\* ORDER BY next_run_at ASC LIMIT, SKIP LOCKED
Fetchable(rows) ==
  LET free == {s \in Due : ~WorkspaceLocked} IN
  /\ rows \subseteq free
  /\ \A s \in rows, r \in free \ rows : table[s].next <= table[r].next
  /\ Cardinality(rows) = (IF Cardinality(free) < Limit THEN Cardinality(free) ELSE Limit)

\* Fault: the run that is due is counted twice.
MissedRunsTwice(s, slot, at) == (at - slot) \div Interval[s] + 2

MissedRuns(s, slot, at) == (at - slot) \div Interval[s] + 1

ShouldEnqueueMisfire(s, slot, at) ==
  ~(Policy[s] = "skip" /\ MissedRuns(s, slot, at) > 1)

\* Fault: the run is repeated until a job could be enqueued for it.
NextRunAfterIdle(s, slot, at) ==
  IF \E k \in Keys : KindOf[k[1]] = KindOf[s] /\ jobs[k] = "active"
  THEN slot
  ELSE slot + MissedRuns(s, slot, at) * Interval[s]

\* One interval under catch_up_limited, else to the first slot after now.
NextRunAfter(s, slot, at) ==
  slot + (IF Policy[s] = "catch_up_limited" THEN 1 ELSE MissedRuns(s, slot, at)) * Interval[s]

\* Fault: the query runs on a connection of its own.
KindActiveCommitted(t, kind) ==
  manual[kind] = "active" \/ \E k \in Keys : KindOf[k[1]] = kind /\ jobs[k] = "active"

\* Fault: only jobs that a schedule enqueued are looked for.
KindActiveScheduled(t, kind) ==
  \E k \in Keys : KindOf[k[1]] = kind /\ (jobs[k] = "active" \/ k \in ticks[t].added)

\* _has_active_scheduled_job, in the eyes of ticker t's transaction
KindActive(t, kind) ==
  \/ manual[kind] = "active"
  \/ \E k \in Keys : KindOf[k[1]] = kind /\ (jobs[k] = "active" \/ k \in ticks[t].added)

\* Fault: INSERT without ON CONFLICT, on a table without the unique key.
KeyNeverTaken(t, k) == TRUE

\* INSERT .. ON CONFLICT (workspace_id, idempotency_key) DO NOTHING
KeyFree(t, k) == jobs[k] = "absent" /\ k \notin ticks[t].added

-----------------------------------------------------------------------------
(* run_due_schedules *)

BeginTick(t) ==
  /\ ticks[t].pc = "idle"
  /\ lock = None
  /\ \E rows \in SUBSET Schedules :
       /\ Fetchable(rows)
       /\ rows # {}
       /\ LET view == [s \in rows |-> table[s].next] IN
          ticks' = [ticks EXCEPT ![t] =
            [pc |-> "working", at |-> now, view |-> view, moved |-> view, left |-> rows,
             added |-> {}]]
  /\ lock' = t
  /\ UNCHANGED <<now, table, jobs, manual, starts, edits, aborts>>

\* The advisory lock is taken, or the query returns no row: the loop goes on.
TickFindsNothing(t) ==
  /\ ticks[t].pc = "idle"
  /\ t \in Loops
  /\ lock # None \/ Fetchable({})
  /\ ticks' = [ticks EXCEPT ![t] = ServingTick]
  /\ UNCHANGED <<now, table, jobs, manual, lock, starts, edits, aborts>>

\* One turn of the loop over the fetched schedules, oldest first.
TickSchedule(t, s) ==
  LET me == ticks[t]
      slot == me.view[s]
      enqueued == /\ ShouldEnqueueMisfire(s, slot, me.at)
                  /\ ~KindActive(t, KindOf[s])
                  /\ KeyFree(t, <<s, slot>>) IN
  /\ me.pc = "working"
  /\ s \in me.left
  /\ \A r \in me.left : slot <= me.view[r]
  /\ ticks' = [ticks EXCEPT ![t].left = @ \ {s},
                            ![t].added = IF enqueued THEN @ \cup {<<s, slot>>} ELSE @,
                            ![t].moved[s] = NextRunAfter(s, slot, me.at)]
  /\ UNCHANGED <<now, table, jobs, manual, lock, starts, edits, aborts>>

CommitTick(t) ==
  /\ ticks[t].pc = "working"
  /\ ticks[t].left = {}
  /\ table' = [s \in Schedules |->
                 IF s \in DOMAIN ticks[t].moved
                 THEN [table[s] EXCEPT !.next = ticks[t].moved[s]] ELSE table[s]]
  /\ jobs' = [k \in Keys |-> IF k \in ticks[t].added THEN "active" ELSE jobs[k]]
  /\ lock' = None
  /\ ticks' = [ticks EXCEPT ![t] = AfterTick(t)]
  /\ UNCHANGED <<now, manual, starts, edits, aborts>>

\* The process dies, a statement times out: the database rolls back.
AbortTick(t) ==
  /\ ticks[t].pc = "working"
  /\ aborts < MaxAborts
  /\ aborts' = aborts + 1
  /\ lock' = None
  /\ ticks' = [ticks EXCEPT ![t] = IdleTick]
  /\ UNCHANGED <<now, table, jobs, manual, starts, edits>>

\* Every job that a slot of the loop has claimed ends, or none was found.
SlotsEnd(t) ==
  /\ ticks[t].pc = "serving"
  /\ ticks' = [ticks EXCEPT ![t] = IdleTick]
  /\ UNCHANGED <<now, table, jobs, manual, lock, starts, edits, aborts>>

-----------------------------------------------------------------------------
(* The writers of schedules *)

\* INSERT .. ON CONFLICT (workspace_id, name) DO UPDATE
UpsertSchedule(s, enabled, next) ==
  /\ ~WorkspaceLocked
  /\ table' = [table EXCEPT ![s] = [present |-> TRUE, enabled |-> enabled, next |-> next]]

\* ensure_core_schedules lists the schedules once, before its upserts.
ListSchedules(p) ==
  /\ starts[p].pc = "fresh"
  /\ starts' = [starts EXCEPT ![p].pc = "writing",
                 ![p].seen = [s \in Schedules |-> IF s \notin Core THEN 0
                                ELSE IF table[s].present THEN table[s].next ELSE now]]
  /\ UNCHANGED <<now, table, jobs, manual, lock, ticks, edits, aborts>>

\* A core schedule keeps the next_run_at that was listed, which is of no use
\* afterwards.
EnsureCore(p, s) ==
  /\ starts[p].pc = "writing"
  /\ s \in Core \cap starts[p].left
  /\ UpsertSchedule(s, TRUE, starts[p].seen[s])
  /\ starts' = [starts EXCEPT ![p].left = @ \ {s}, ![p].seen[s] = 0]
  /\ UNCHANGED <<now, jobs, manual, lock, ticks, edits, aborts>>

\* A scan schedule is set to run at once.
EnsureScan(p, s) ==
  /\ starts[p].pc = "writing"
  /\ s \in starts[p].left \ Core
  /\ starts[p].left \cap Core = {}
  /\ UpsertSchedule(s, TRUE, now)
  /\ starts' = [starts EXCEPT ![p].left = @ \ {s}]
  /\ UNCHANGED <<now, jobs, manual, lock, ticks, edits, aborts>>

\* POST /v1/schedules/upsert
EditSchedule(s, enabled, next) ==
  /\ edits < MaxEdits
  /\ edits' = edits + 1
  /\ UpsertSchedule(s, enabled, next)
  /\ UNCHANGED <<now, jobs, manual, lock, ticks, starts, aborts>>

-----------------------------------------------------------------------------
(* The job queue, as the scheduler sees it, and the clock *)

EnqueueManual(kind) ==
  /\ ~WorkspaceLocked
  /\ manual[kind] = "absent"
  /\ manual' = [manual EXCEPT ![kind] = "active"]
  /\ UNCHANGED <<now, table, jobs, lock, ticks, starts, edits, aborts>>

JobSettles ==
  /\ \/ /\ \E k \in Keys : jobs[k] = "active" /\ jobs' = [jobs EXCEPT ![k] = "settled"]
        /\ UNCHANGED manual
     \/ /\ \E k \in Kinds : manual[k] = "active" /\ manual' = [manual EXCEPT ![k] = "settled"]
        /\ UNCHANGED jobs
  /\ UNCHANGED <<now, table, lock, ticks, starts, edits, aborts>>

Tick ==
  /\ now < MaxNow
  /\ now' = now + 1
  /\ UNCHANGED <<table, jobs, manual, lock, ticks, starts, edits, aborts>>

Next ==
  \/ \E t \in Tickers :
       \/ BeginTick(t)
       \/ TickFindsNothing(t)
       \/ SlotsEnd(t)
       \/ \E s \in Schedules : TickSchedule(t, s)
       \/ CommitTick(t)
       \/ AbortTick(t)
  \/ \E p \in Starts :
       \/ ListSchedules(p)
       \/ \E s \in Schedules : EnsureCore(p, s) \/ EnsureScan(p, s)
  \/ \E s \in Schedules, enabled \in BOOLEAN, next \in EditTimes : EditSchedule(s, enabled, next)
  \/ \E kind \in Kinds : EnqueueManual(kind)
  \/ JobSettles
  \/ Tick

Spec == Init /\ [][Next]_vars

\* Every transaction ends.  Of each scheduler worker it is assumed that the jobs
\* its slots claim end: they are scheduler.tick jobs (worker.py:3551), ticks
\* themselves, but until the last of them has ended the loop does not tick.
\* And that not every tick of a loop meets the advisory lock taken or the
\* workspace row locked, when it comes back empty; hence the strong fairness.
\* Nothing is assumed of the jobs that schedules are due for: other workers run
\* them, and they may stay active for ever.
Fairness ==
  /\ \A t \in Tickers : WF_vars(CommitTick(t) \/ \E s \in Schedules : TickSchedule(t, s))
  /\ \A t \in Loops : SF_vars(BeginTick(t)) /\ WF_vars(SlotsEnd(t))

FairSpec == Spec /\ Fairness

-----------------------------------------------------------------------------
(* Properties *)

\* next_run_at of some of the schedules
SlotMaps == UNION {[rows -> Slots] : rows \in SUBSET Schedules}

TickRecord == [pc : {"idle", "working", "serving"}, at : 0..MaxNow,
               view : SlotMaps, moved : SlotMaps,
               left : SUBSET Schedules, added : SUBSET Keys]

\* Every row, transaction and worker start has its declared shape, and no
\* next_run_at leaves the range the bounds allow.
TypeOK ==
  /\ now \in 0..MaxNow
  /\ table \in [Schedules -> [present : BOOLEAN, enabled : BOOLEAN, next : Slots]]
  /\ jobs \in [Keys -> JobStatus]
  /\ manual \in [Kinds -> JobStatus]
  /\ lock \in Tickers \cup {None}
  /\ ticks \in [Tickers -> TickRecord]
  /\ starts \in [Starts -> [pc : {"fresh", "writing"}, seen : [Schedules -> Slots],
                            left : SUBSET Schedules]]
  /\ edits \in 0..MaxEdits /\ aborts \in 0..MaxAborts

\* At most one job that the scheduler enqueued is active per kind, although
\* several schedules may share a kind, ticks overlap, roll back, and read what
\* others have committed only (scheduler.py:224, 273-291).
OneActivePerKind ==
  \A k, l \in Keys :
    jobs[k] = "active" /\ jobs[l] = "active" /\ KindOf[k[1]] = KindOf[l[1]] => k = l

\* The scheduler never adds a job beside one of its kind that was enqueued by
\* other means, although a tick looks (scheduler.py:224) long before it commits.
NoneBesideManual ==
  [][\A k \in Keys :
       jobs[k] = "absent" /\ jobs'[k] = "active" => manual[KindOf[k[1]]] # "active"]_vars

\* IMPLEMENTATION_PLAN.md:2191 "duplicate ticks do not duplicate jobs": a run
\* of a schedule whose job has settled is never enqueued again, although
\* stale registrations and edits move next_run_at back to a run of the past.
SlotRunsOnce ==
  [][\A k \in Keys : jobs[k] = "settled" => jobs'[k] = "settled"]_vars

\* The next_run_at a tick writes was computed from the row it overwrites:
\* no registration or edit that lands during the tick is lost.
CommitKeepsEdits ==
  [][\A t \in Tickers :
       ticks[t].pc = "working" /\ ticks'[t].pc # "working" /\ table' # table
         => \A s \in DOMAIN ticks[t].view : table[s].next = ticks[t].view[s]]_vars

\* No enabled schedule stays due for ever: its run is enqueued or passed over
\* even if a job of its kind never ends, earlier ticks rolled back, or more
\* schedules are due than the query returns.
DueIsServed ==
  \A s \in Schedules :
    (table[s].enabled /\ table[s].next <= now) ~> (~table[s].enabled \/ table[s].next > now)

\* test_scheduler_defaults.py:115 "core_schedule_defaults_preserve_existing_
\* schedule_cadence": registering a core schedule that exists leaves its
\* next_run_at as it is.
CadencePreserved ==
  [][\A p \in Starts, s \in Core :
       table[s].present /\ s \in starts[p].left /\ s \notin starts'[p].left
         => table'[s].next = table[s].next]_vars
=============================================================================
