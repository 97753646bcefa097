------------------------------ MODULE JobQueue ------------------------------
(***************************************************************************)
(* The Postgres job queue (db/jobs.py, AsyncpgJobStore) and the worker     *)
(* execution around it (services/worker.py, run_worker_once and            *)
(* _run_with_lease_renewal).                                               *)
(*                                                                         *)
(* Every store method is one database transaction, so it is one action.    *)
(* An "execution" is one slot of a worker loop: it claims a job, runs its  *)
(* handler in an asyncio task while it renews the lease, and completes.    *)
(* Time is kept as two countdowns per job: the ticks left until            *)
(* lease_expires_at and until available_at (negative: in the past).        *)
(***************************************************************************)
EXTENDS Integers, FiniteSets

CONSTANTS
  Jobs,         \* the idempotency keys jobs may be enqueued under
  Execs,        \* execution slots, over all worker processes
  Workers,      \* worker_id strings
  WorkerOf,     \* [Execs -> Workers], the worker_id a slot passes to the store
  Eligible,     \* [Execs -> SUBSET Jobs], the jobs of the slot's pool
  Priority,     \* [Jobs -> Int], smaller is more urgent
  MaxAttempts,  \* max_attempts of every job
  LeaseTicks,   \* lease_seconds, in ticks
  Backoff,      \* [1..MaxAttempts -> Nat], ticks a failed attempt backs off
  AgeCap,       \* waiting times longer than this are not told apart
  None          \* SQL NULL

ASSUME MaxAttemptsAssumption == MaxAttempts \in Nat \ {0}
ASSUME LeaseAssumption == LeaseTicks \in Nat /\ AgeCap \in Nat
ASSUME BackoffAssumption == Backoff \in [1..MaxAttempts -> Nat]
ASSUME PoolAssumption == Eligible \in [Execs -> SUBSET Jobs]
ASSUME NoneAssumption == None \notin Workers /\ None \notin Jobs
\* docker-compose.yml gives each worker container its own --worker-id and
\* run_worker_loop suffixes it with the slot number.
ASSUME WorkerAssumption ==
  /\ WorkerOf \in [Execs -> Workers]
  /\ \A d, e \in Execs : WorkerOf[d] = WorkerOf[e] => d = e

VARIABLES
  jobs,         \* table autoskill.jobs, by idempotency key
  rows,         \* table autoskill.job_attempts: [Jobs -> [attempt -> row]]
  exec,         \* the local state of every execution slot
  orphans,      \* handler tasks left running after their execution gave up
  returned      \* history: the attempts whose handler returned normally

vars == <<jobs, rows, exec, orphans, returned>>

Outcome == {"succeeded", "failed"}
JobStatus == {"absent", "queued", "leased"} \cup Outcome

Absent == [status |-> "absent", owner |-> None, lease |-> 0, attempts |-> 0, avail |-> 0]
NoRow == [worker |-> None, status |-> "none", open |-> FALSE]
IdleExec == [pc |-> "idle", job |-> None, n |-> 0, outcome |-> "failed"]

Init ==
  /\ jobs = [j \in Jobs |-> Absent]
  /\ rows = [j \in Jobs |-> [n \in 1..MaxAttempts |-> NoRow]]
  /\ exec = [e \in Execs |-> IdleExec]
  /\ orphans = {}
  /\ returned = {}

-----------------------------------------------------------------------------
(* The job store *)

\* A row is inserted once per idempotency key; a second enqueue of the key
\* returns the stored row unchanged, whatever its status.
EnqueueJob(j) ==
  /\ jobs[j].status = "absent"
  /\ jobs' = [jobs EXCEPT ![j].status = "queued"]
  /\ UNCHANGED <<rows, exec, orphans, returned>>

Released(rec, status) == [rec EXCEPT !.status = status, !.owner = None, !.lease = 0]

\* Fault: exhausted jobs are requeued as well.
RecoveredWithoutLimit(rec) ==
  IF rec.status = "leased" /\ rec.lease < 0 THEN Released(rec, "queued") ELSE rec

\* Fault: the second UPDATE, for exhausted jobs, is missing.
RecoveredOnlyRetryable(rec) ==
  IF rec.status = "leased" /\ rec.lease < 0 /\ rec.attempts < MaxAttempts
  THEN Released(rec, "queued") ELSE rec

Recovered(rec) ==
  IF rec.status = "leased" /\ rec.lease < 0
  THEN Released(rec, IF rec.attempts < MaxAttempts THEN "queued" ELSE "failed")
  ELSE rec

RecoverExpiredLeases == [j \in Jobs |-> Recovered(jobs[j])]

Claimable(table, e) ==
  {j \in Eligible[e] : table[j].status = "queued" /\ table[j].avail <= 0}

Before(table, i, j) ==
  \/ Priority[i] < Priority[j]
  \/ Priority[i] = Priority[j] /\ table[i].avail < table[j].avail

\* ORDER BY priority, available_at; ties (created_at) are left open.
ClaimOrder(table, e) ==
  {j \in Claimable(table, e) : \A i \in Claimable(table, e) : ~Before(table, i, j)}

Leased(rec, w) ==
  [rec EXCEPT !.status = "leased", !.owner = w, !.lease = LeaseTicks,
              !.attempts = rec.attempts + 1]

ClaimNextJob(e, j) ==
  LET table == RecoverExpiredLeases
      n == table[j].attempts + 1 IN
  /\ exec[e].pc = "idle"
  /\ j \in ClaimOrder(table, e)
  /\ jobs' = [table EXCEPT ![j] = Leased(table[j], WorkerOf[e])]
  /\ rows' = [rows EXCEPT ![j][n] =
                [worker |-> WorkerOf[e], status |-> "leased", open |-> TRUE]]
  /\ exec' = [exec EXCEPT ![e] = [pc |-> "claimed", job |-> j, n |-> n, outcome |-> "failed"]]
  /\ UNCHANGED <<orphans, returned>>

\* A poll that finds nothing still recovers expired leases.
ClaimNothing(e) ==
  /\ exec[e].pc = "idle"
  /\ Claimable(RecoverExpiredLeases, e) = {}
  /\ jobs' = RecoverExpiredLeases
  /\ UNCHANGED <<rows, exec, orphans, returned>>

\* Fault: the owner is not compared.
HeldByAnyone(j, w) == jobs[j].status = "leased"

\* Fault: the row is found by job_id alone.
HeldByJobId(j, w) == jobs[j].status # "absent"

\* WHERE job_id = .. AND lease_owner = .. AND status = 'leased'
Held(j, w) == jobs[j].status = "leased" /\ jobs[j].owner = w

\* Fault: the budget is compared with <=.
CompletedOffByOne(rec, status) ==
  IF status = "succeeded" THEN Released(rec, "succeeded")
  ELSE IF rec.attempts <= MaxAttempts
       THEN [Released(rec, "queued") EXCEPT !.avail = Backoff[rec.attempts]]
       ELSE Released(rec, "failed")

Completed(rec, status) ==
  IF status = "succeeded" THEN Released(rec, "succeeded")
  ELSE IF rec.attempts < MaxAttempts
       THEN [Released(rec, "queued") EXCEPT !.avail = Backoff[rec.attempts]]
       ELSE Released(rec, "failed")

\* Fault: the worker_id condition is missing.
ClosedRowsOfAnyWorker(j, w, status) ==
  [n \in 1..MaxAttempts |->
     IF rows[j][n].open
     THEN [rows[j][n] EXCEPT !.status = status, !.open = FALSE]
     ELSE rows[j][n]]

\* Every unfinished attempt row this worker has for the job is closed.
ClosedRows(j, w, status) ==
  [n \in 1..MaxAttempts |->
     IF rows[j][n].open /\ rows[j][n].worker = w
     THEN [rows[j][n] EXCEPT !.status = status, !.open = FALSE]
     ELSE rows[j][n]]

CompleteJob(j, w, status) ==
  IF Held(j, w)
  THEN /\ jobs' = [jobs EXCEPT ![j] = Completed(jobs[j], status)]
       /\ rows' = [rows EXCEPT ![j] = ClosedRows(j, w, status)]
  ELSE UNCHANGED <<jobs, rows>>

Renewable(j, w) == Held(j, w) /\ jobs[j].lease >= 0

-----------------------------------------------------------------------------
(* One execution: run_worker_once *)

\* The job span and the "claimed" heartbeat are written, the task is created.
StartHandler(e) ==
  /\ exec[e].pc = "claimed"
  /\ exec' = [exec EXCEPT ![e].pc = "running"]
  /\ UNCHANGED <<jobs, rows, orphans, returned>>

HandlerReturns(e) ==
  /\ exec[e].pc = "running"
  /\ exec' = [exec EXCEPT ![e].pc = "finished", ![e].outcome = "succeeded"]
  /\ returned' = returned \cup {<<exec[e].job, exec[e].n>>}
  /\ UNCHANGED <<jobs, rows, orphans>>

HandlerRaises(e) ==
  /\ exec[e].pc = "running"
  /\ exec' = [exec EXCEPT ![e].pc = "finished"]
  /\ UNCHANGED <<jobs, rows, orphans, returned>>

RenewLease(e) ==
  /\ exec[e].pc = "running"
  /\ Renewable(exec[e].job, WorkerOf[e])
  /\ jobs' = [jobs EXCEPT ![exec[e].job].lease = LeaseTicks]
  /\ UNCHANGED <<rows, exec, orphans, returned>>

\* renew_job_lease returned None: the handler task is cancelled and awaited.
RenewRefused(e) ==
  /\ exec[e].pc = "running"
  /\ ~Renewable(exec[e].job, WorkerOf[e])
  /\ exec' = [exec EXCEPT ![e].pc = "finished"]
  /\ UNCHANGED <<jobs, rows, orphans, returned>>

\* The renewal, or the heartbeat after it, raises: nobody cancels the task.
RenewRaises(e) ==
  /\ exec[e].pc = "running"
  /\ exec' = [exec EXCEPT ![e].pc = "finished"]
  /\ orphans' = orphans \cup {[exec |-> e, job |-> exec[e].job, n |-> exec[e].n]}
  /\ UNCHANGED <<jobs, rows, returned>>

Complete(e) ==
  /\ exec[e].pc = "finished"
  /\ CompleteJob(exec[e].job, WorkerOf[e], exec[e].outcome)
  /\ exec' = [exec EXCEPT ![e] = IdleExec]
  /\ UNCHANGED <<orphans, returned>>

\* The span, the heartbeat or complete_job raises: the exception leaves
\* run_worker_once, the lease is left to expire.
Escapes(e) ==
  /\ exec[e].pc \in {"claimed", "finished"}
  /\ exec' = [exec EXCEPT ![e] = IdleExec]
  /\ UNCHANGED <<jobs, rows, orphans, returned>>

\* The worker process dies and its container is restarted.
Crash(e) ==
  /\ exec' = [exec EXCEPT ![e] = IdleExec]
  /\ orphans' = {o \in orphans : o.exec # e}
  /\ exec' # exec \/ orphans' # orphans
  /\ UNCHANGED <<jobs, rows, returned>>

OrphanEnds(o) ==
  /\ o \in orphans
  /\ orphans' = orphans \ {o}
  /\ UNCHANGED <<jobs, rows, exec, returned>>

-----------------------------------------------------------------------------
CountDown(ticks, floor) == IF ticks > floor THEN ticks - 1 ELSE ticks

\* now() moves past lease_expires_at and available_at; settled rows are left alone.
Aged(rec) ==
  IF rec.status \in {"queued", "leased"}
  THEN [rec EXCEPT !.lease = IF rec.status = "leased" THEN CountDown(rec.lease, -1) ELSE rec.lease,
                   !.avail = CountDown(rec.avail, -AgeCap)]
  ELSE rec

Tick ==
  /\ jobs' = [j \in Jobs |-> Aged(jobs[j])]
  /\ jobs' # jobs
  /\ UNCHANGED <<rows, exec, orphans, returned>>

ExecStep(e) ==
  \/ \E j \in Jobs : ClaimNextJob(e, j)
  \/ ClaimNothing(e)
  \/ StartHandler(e)
  \/ HandlerReturns(e)
  \/ HandlerRaises(e)
  \/ RenewLease(e)
  \/ RenewRefused(e)
  \/ RenewRaises(e)
  \/ Complete(e)
  \/ Escapes(e)
  \/ Crash(e)

Next ==
  \/ \E j \in Jobs : EnqueueJob(j)
  \/ \E e \in Execs : ExecStep(e)
  \/ \E o \in orphans : OrphanEnds(o)
  \/ Tick

Spec == Init /\ [][Next]_vars

-----------------------------------------------------------------------------
(* Fairness: the loop polls, handlers end, time passes.  Nothing is        *)
(* assumed of renewals or crashes.                                         *)

HandlerEnds(e) == HandlerReturns(e) \/ HandlerRaises(e)

Fairness ==
  /\ WF_vars(Tick)
  /\ \A e \in Execs :
       /\ WF_vars(ClaimNothing(e) \/ \E j \in Jobs : ClaimNextJob(e, j))
       /\ WF_vars(StartHandler(e) \/ HandlerEnds(e) \/ Complete(e))

FairSpec == Spec /\ Fairness

-----------------------------------------------------------------------------
(* Properties *)

JobRecord ==
  [status : JobStatus, owner : Workers \cup {None}, lease : -1..LeaseTicks,
   attempts : 0..MaxAttempts, avail : Int]

AttemptRow ==
  [worker : Workers \cup {None}, status : Outcome \cup {"none", "leased"}, open : BOOLEAN]

ExecRecord ==
  [pc : {"idle", "claimed", "running", "finished"}, job : Jobs \cup {None},
   n : 0..MaxAttempts, outcome : Outcome]

\* Every table row, execution slot and orphaned task has its declared shape.
TypeOK ==
  /\ jobs \in [Jobs -> JobRecord]
  /\ rows \in [Jobs -> [1..MaxAttempts -> AttemptRow]]
  /\ exec \in [Execs -> ExecRecord]
  /\ orphans \subseteq [exec : Execs, job : Jobs, n : 1..MaxAttempts]
  /\ returned \subseteq Jobs \X (1..MaxAttempts)
  /\ \A e \in Execs : exec[e].pc # "idle" => exec[e].job \in Jobs /\ exec[e].n >= 1

\* The retry budget of jobs.py:523-543 and 836-860 holds on every path a job
\* can take back to the queue: a queued job has an attempt left, and a failed
\* one has used them all.
AttemptBudget ==
  \A j \in Jobs :
    /\ jobs[j].status = "absent" => jobs[j].attempts = 0
    /\ jobs[j].status = "queued" => jobs[j].attempts < MaxAttempts
    /\ jobs[j].status = "leased" => jobs[j].attempts \in 1..MaxAttempts
    /\ jobs[j].status = "failed" => jobs[j].attempts = MaxAttempts

\* An execution that still owns its job owns it through the attempt it
\* claimed, although complete_job and renew_job_lease compare worker_id only
\* (jobs.py:541-543, 585-588): after its lease lapsed and others ran the job,
\* the worker_id can only come back through a claim of its own.
OwnerHoldsCurrentAttempt ==
  \A e \in Execs :
    exec[e].pc # "idle" /\ Held(exec[e].job, WorkerOf[e])
      => jobs[exec[e].job].attempts = exec[e].n

\* complete_job finds the rows to close by job and worker (jobs.py:552-567) and
\* recovery closes none, so a lapsed attempt stays open until its own worker
\* completes a later attempt of the job, whose outcome it is then given.
\* Nothing else goes wrong: the attempts that were granted, and no others, have
\* a row; an attempt at work has its row open in the name of its own worker; a
\* row that was closed tells what its handler did, or what a later attempt of
\* the same worker did; and the last row of a job that succeeded says so.
ResultOf(j, n) == IF <<j, n>> \in returned THEN "succeeded" ELSE "failed"

ClosedWithLater(j, n) ==
  \E m \in (n + 1)..MaxAttempts :
    /\ rows[j][m].worker = rows[j][n].worker
    /\ rows[j][m].status = rows[j][n].status

HistoryAgrees ==
  /\ \A j \in Jobs : \A n \in 1..MaxAttempts :
       /\ rows[j][n].status # "none" <=> n <= jobs[j].attempts
       /\ rows[j][n].open <=> rows[j][n].status = "leased"
       /\ rows[j][n].status \in Outcome =>
            rows[j][n].status = ResultOf(j, n) \/ ClosedWithLater(j, n)
  /\ \A e \in Execs : exec[e].pc # "idle" =>
       LET row == rows[exec[e].job][exec[e].n] IN row.open /\ row.worker = WorkerOf[e]
  /\ \A j \in Jobs : jobs[j].status = "succeeded" =>
       rows[j][jobs[j].attempts].status = "succeeded"

\* A late complete_job never lands on an attempt of somebody else: the step
\* of an execution that takes a leased job out of its lease settles the very
\* attempt the execution ran, or recovers a lease that had run out.
CompletionIsOwn ==
  [][\A e \in Execs : \A j \in Jobs :
       exec[e].pc = "finished" /\ exec'[e].pc = "idle"
         /\ jobs[j].status = "leased" /\ jobs'[j].status # "leased"
         => exec[e].job = j /\ exec[e].n = jobs[j].attempts]_vars

\* Succeeded and failed are final, whatever late calls still arrive.
SettledStaysSettled ==
  [][\A j \in Jobs : jobs[j].status \in Outcome => jobs'[j] = jobs[j]]_vars

\* The queue implements the ledger: leases, backoff, crashes and late calls
\* never grant a job too often, settle it from a lapsed attempt, or report a
\* success no handler returned.
Ledger == INSTANCE JobLedger WITH
  ledger <- [j \in Jobs |-> [phase |-> jobs[j].status, tries |-> jobs[j].attempts,
                             holder |-> jobs[j].owner]],
  done <- returned
LedgerSpec == Ledger!LSpec

\* Every enqueued job settles, although executions crash, renewals fail and
\* exceptions escape: a lost lease costs an attempt and attempts are finite.
EveryJobSettles == \A j \in Jobs : jobs[j].status = "queued" ~> jobs[j].status \in Outcome

\* unified-implementation-specification.md:8623 "job leases prevent duplicate
\* mutation": no two handlers of one job run at the same time.
Handlers ==
  {[exec |-> e, job |-> exec[e].job, n |-> exec[e].n] :
     e \in {d \in Execs : exec[d].pc = "running"}}
    \cup orphans
JobLeasesPreventDuplicateMutation ==
  \A g, h \in Handlers : g.job = h.job => g = h
=============================================================================
