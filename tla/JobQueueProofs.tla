--------------------------- MODULE JobQueueProofs ---------------------------
(***************************************************************************)
(* Safety of the job queue for any number of jobs, slots and workers, any  *)
(* attempt budget, lease length and backoff.                               *)
(***************************************************************************)
EXTENDS JobQueue, TLAPS

USE DEF Outcome, JobStatus

(* The inductive invariant: the shape of the tables, the retry budget, and *)
(* whose attempt a lease stands for.                                       *)
IInv == TypeOK /\ AttemptBudget /\ OwnerHoldsCurrentAttempt

-----------------------------------------------------------------------------
(* What the table operators return. *)

\* Releasing a record changes its status and takes owner and lease away.
LEMMA ReleasedShape ==
  ASSUME NEW rec \in JobRecord, NEW st \in JobStatus
  PROVE  /\ Released(rec, st) \in JobRecord
         /\ Released(rec, st).status = st
         /\ Released(rec, st).owner = None
         /\ Released(rec, st).attempts = rec.attempts
  <1>1. Released(rec, st) = [rec EXCEPT !.status = st, !.owner = None, !.lease = 0]
    BY DEF Released
  <1>2. 0 \in -1..LeaseTicks
    BY LeaseAssumption
  <1> QED
    BY <1>1, <1>2 DEF JobRecord

\* Recovery keeps a record as it is or takes a lapsed lease away, back to the
\* queue only when an attempt is left.
LEMMA RecoveredShape ==
  ASSUME NEW rec \in JobRecord,
         rec.status = "leased" => rec.attempts \in 1..MaxAttempts
  PROVE  /\ Recovered(rec) \in JobRecord
         /\ Recovered(rec).attempts = rec.attempts
         /\ \/ Recovered(rec) = rec
            \/ /\ rec.status = "leased"
               /\ rec.attempts < MaxAttempts
               /\ Recovered(rec).status = "queued" /\ Recovered(rec).owner = None
            \/ /\ rec.status = "leased"
               /\ rec.attempts = MaxAttempts
               /\ Recovered(rec).status = "failed" /\ Recovered(rec).owner = None
  <1>1. CASE ~(rec.status = "leased" /\ rec.lease < 0)
    BY <1>1 DEF Recovered
  <1>2. CASE rec.status = "leased" /\ rec.lease < 0
    <2>1. CASE rec.attempts < MaxAttempts
      BY <1>2, <2>1, ReleasedShape DEF Recovered
    <2>2. CASE ~(rec.attempts < MaxAttempts)
      BY <1>2, <2>2, ReleasedShape, MaxAttemptsAssumption DEF Recovered
    <2> QED
      BY <2>1, <2>2
  <1> QED
    BY <1>1, <1>2

\* Completion ends the lease: a success is final, a failure is retried while
\* an attempt is left.
LEMMA CompletedShape ==
  ASSUME NEW rec \in JobRecord, rec.attempts \in 1..MaxAttempts, NEW s \in Outcome
  PROVE  /\ Completed(rec, s) \in JobRecord
         /\ Completed(rec, s).attempts = rec.attempts
         /\ Completed(rec, s).owner = None
         /\ \/ Completed(rec, s).status = "succeeded" /\ s = "succeeded"
            \/ Completed(rec, s).status = "queued" /\ rec.attempts < MaxAttempts
            \/ Completed(rec, s).status = "failed" /\ rec.attempts = MaxAttempts
  <1>1. Backoff[rec.attempts] \in Int
    BY BackoffAssumption
  <1>2. CASE s = "succeeded"
    BY <1>2, ReleasedShape DEF Completed
  <1>3. CASE s = "failed" /\ rec.attempts < MaxAttempts
    <2>1. Completed(rec, s) = [Released(rec, "queued") EXCEPT !.avail = Backoff[rec.attempts]]
      BY <1>3 DEF Completed
    <2>2. /\ Released(rec, "queued") \in JobRecord
          /\ Released(rec, "queued").status = "queued"
          /\ Released(rec, "queued").owner = None
          /\ Released(rec, "queued").attempts = rec.attempts
      BY ReleasedShape
    <2> QED
      BY <1>1, <1>3, <2>1, <2>2 DEF JobRecord
  <1>4. CASE s = "failed" /\ ~(rec.attempts < MaxAttempts)
    <2>1. rec.attempts = MaxAttempts
      BY <1>4, MaxAttemptsAssumption
    <2> QED
      BY <1>4, <2>1, ReleasedShape DEF Completed
  <1> QED
    BY <1>2, <1>3, <1>4

\* The clock only moves the two countdowns.
LEMMA AgedShape ==
  ASSUME NEW rec \in JobRecord
  PROVE  /\ Aged(rec) \in JobRecord
         /\ Aged(rec).status = rec.status
         /\ Aged(rec).owner = rec.owner
         /\ Aged(rec).attempts = rec.attempts
         /\ rec.status \in Outcome => Aged(rec) = rec
  <1> DEFINE l == IF rec.status = "leased" THEN CountDown(rec.lease, -1) ELSE rec.lease
             a == CountDown(rec.avail, -AgeCap)
  <1>1. l \in -1..LeaseTicks
    BY LeaseAssumption DEF CountDown, JobRecord
  <1>2. a \in Int
    BY LeaseAssumption DEF CountDown, JobRecord
  <1>3. Aged(rec) = IF rec.status \in {"queued", "leased"}
                    THEN [rec EXCEPT !.lease = l, !.avail = a] ELSE rec
    BY DEF Aged
  <1> HIDE DEF l, a
  <1> QED
    BY <1>1, <1>2, <1>3 DEF JobRecord

-----------------------------------------------------------------------------
(* The inductive step. *)

Budget(rec) ==
  /\ rec.status = "absent" => rec.attempts = 0
  /\ rec.status = "queued" => rec.attempts < MaxAttempts
  /\ rec.status = "leased" => rec.attempts \in 1..MaxAttempts
  /\ rec.status = "failed" => rec.attempts = MaxAttempts

\* A step that grants nothing keeps the invariant: leases may end but not
\* begin or move, and executions stay with their attempt or become idle.
LEMMA GrantsNothing ==
  ASSUME IInv,
         jobs' \in [Jobs -> JobRecord],
         \A j \in Jobs : Budget(jobs'[j]),
         \A j \in Jobs : jobs'[j].status = "leased" =>
           /\ jobs[j].status = "leased"
           /\ jobs'[j].owner = jobs[j].owner
           /\ jobs'[j].attempts = jobs[j].attempts,
         exec' \in [Execs -> ExecRecord],
         \A e \in Execs : \/ exec'[e].pc = "idle"
                          \/ /\ exec[e].pc # "idle"
                             /\ exec'[e].job = exec[e].job
                             /\ exec'[e].n = exec[e].n,
         rows' \in [Jobs -> [1..MaxAttempts -> AttemptRow]],
         orphans' \subseteq [exec : Execs, job : Jobs, n : 1..MaxAttempts],
         returned' \subseteq Jobs \X (1..MaxAttempts)
  PROVE  IInv'
  <1>1. TypeOK'
    BY DEF IInv, TypeOK
  <1>2. AttemptBudget'
    BY DEF AttemptBudget, Budget
  <1>3. OwnerHoldsCurrentAttempt'
    <2> SUFFICES ASSUME NEW e \in Execs, exec'[e].pc # "idle",
                        jobs'[exec'[e].job].status = "leased",
                        jobs'[exec'[e].job].owner = WorkerOf[e]
                 PROVE  jobs'[exec'[e].job].attempts = exec'[e].n
      BY DEF OwnerHoldsCurrentAttempt, Held
    <2>1. exec[e].pc # "idle" /\ exec'[e].job = exec[e].job /\ exec'[e].n = exec[e].n
      OBVIOUS
    <2>2. exec[e].job \in Jobs
      BY <2>1 DEF IInv, TypeOK
    <2>3. jobs[exec[e].job].attempts = exec[e].n
      BY <2>1, <2>2 DEF IInv, OwnerHoldsCurrentAttempt, Held
    <2> QED
      BY <2>1, <2>2, <2>3
  <1> QED
    BY <1>1, <1>2, <1>3 DEF IInv

\* Recovery of every lapsed lease grants nothing.
LEMMA RecoveryShape ==
  ASSUME IInv
  PROVE  /\ RecoverExpiredLeases \in [Jobs -> JobRecord]
         /\ \A j \in Jobs :
              /\ Budget(RecoverExpiredLeases[j])
              /\ RecoverExpiredLeases[j].attempts = jobs[j].attempts
              /\ RecoverExpiredLeases[j].status = "leased" => RecoverExpiredLeases[j] = jobs[j]
  <1> SUFFICES ASSUME NEW j \in Jobs
               PROVE  /\ Recovered(jobs[j]) \in JobRecord
                      /\ Budget(Recovered(jobs[j]))
                      /\ Recovered(jobs[j]).attempts = jobs[j].attempts
                      /\ Recovered(jobs[j]).status = "leased" => Recovered(jobs[j]) = jobs[j]
    BY DEF RecoverExpiredLeases
  <1>1. jobs[j] \in JobRecord /\ Budget(jobs[j])
    BY DEF IInv, TypeOK, AttemptBudget, Budget
  <1>2. jobs[j].status = "leased" => jobs[j].attempts \in 1..MaxAttempts
    BY <1>1 DEF Budget
  <1> QED
    BY <1>1, <1>2, RecoveredShape DEF Budget

\* A claim gives the job to the execution that makes it, under the attempt it
\* counts, and no other execution has its worker_id.
LEMMA ClaimStep ==
  ASSUME IInv, NEW e \in Execs, NEW j \in Jobs, ClaimNextJob(e, j)
  PROVE  IInv'
  <1> DEFINE table == RecoverExpiredLeases
             n == table[j].attempts + 1
  <1>1. /\ table \in [Jobs -> JobRecord]
        /\ \A i \in Jobs : Budget(table[i]) /\ table[i].attempts = jobs[i].attempts
        /\ \A i \in Jobs : table[i].status = "leased" => table[i] = jobs[i]
    BY RecoveryShape
  <1>2. table[j].status = "queued"
    BY DEF ClaimNextJob, ClaimOrder, Claimable
  <1>3. n \in 1..MaxAttempts
    BY <1>1, <1>2, MaxAttemptsAssumption DEF Budget, JobRecord
  <1>4. WorkerOf[e] \in Workers
    BY WorkerAssumption
  <1>5. /\ jobs' = [table EXCEPT ![j] = Leased(table[j], WorkerOf[e])]
        /\ rows' = [rows EXCEPT ![j][n] = [worker |-> WorkerOf[e], status |-> "leased", open |-> TRUE]]
        /\ exec' = [exec EXCEPT ![e] = [pc |-> "claimed", job |-> j, n |-> n, outcome |-> "failed"]]
        /\ orphans' = orphans /\ returned' = returned
    BY DEF ClaimNextJob
  <1> HIDE DEF table
  <1>6. /\ Leased(table[j], WorkerOf[e]) \in JobRecord
        /\ Leased(table[j], WorkerOf[e]).status = "leased"
        /\ Leased(table[j], WorkerOf[e]).owner = WorkerOf[e]
        /\ Leased(table[j], WorkerOf[e]).attempts = n
    <2>1. Leased(table[j], WorkerOf[e]) =
            [table[j] EXCEPT !.status = "leased", !.owner = WorkerOf[e],
                             !.lease = LeaseTicks, !.attempts = n]
      BY DEF Leased
    <2>2. LeaseTicks \in -1..LeaseTicks
      BY LeaseAssumption
    <2>3. table[j] \in JobRecord
      BY <1>1
    <2>4. n \in 0..MaxAttempts
      BY <1>3, MaxAttemptsAssumption
    <2> HIDE DEF n
    <2> QED
      BY <1>4, <2>1, <2>2, <2>3, <2>4 DEF JobRecord
  <1>7. TypeOK'
    <2>1. jobs' \in [Jobs -> JobRecord]
      BY <1>1, <1>5, <1>6
    <2>2. rows' \in [Jobs -> [1..MaxAttempts -> AttemptRow]]
      BY <1>3, <1>4, <1>5 DEF IInv, TypeOK, AttemptRow
    <2>3. /\ exec' \in [Execs -> ExecRecord]
          /\ \A d \in Execs : exec'[d].pc # "idle" => exec'[d].job \in Jobs /\ exec'[d].n >= 1
      BY <1>3, <1>5 DEF IInv, TypeOK, ExecRecord
    <2> QED
      BY <1>5, <2>1, <2>2, <2>3 DEF IInv, TypeOK
  <1>8. AttemptBudget'
    BY <1>1, <1>3, <1>5, <1>6 DEF AttemptBudget, Budget
  <1>9. OwnerHoldsCurrentAttempt'
    <2> SUFFICES ASSUME NEW d \in Execs, exec'[d].pc # "idle",
                        jobs'[exec'[d].job].status = "leased",
                        jobs'[exec'[d].job].owner = WorkerOf[d]
                 PROVE  jobs'[exec'[d].job].attempts = exec'[d].n
      BY DEF OwnerHoldsCurrentAttempt, Held
    <2>1. CASE d = e
      <3>1. exec'[d].job = j /\ exec'[d].n = n
        BY <1>5, <2>1 DEF IInv, TypeOK
      <3> QED
        BY <1>1, <1>5, <1>6, <3>1
    <2>2. CASE d # e
      <3>1. exec'[d] = exec[d] /\ exec[d].job \in Jobs
        BY <1>5, <2>2 DEF IInv, TypeOK
      <3>2. WorkerOf[d] # WorkerOf[e]
        BY <2>2, WorkerAssumption
      <3>3. exec[d].job # j
        BY <1>1, <1>5, <1>6, <3>1, <3>2
      <3>4. jobs'[exec[d].job] = table[exec[d].job]
        BY <1>1, <1>5, <3>1, <3>3
      <3>5. jobs'[exec[d].job] = jobs[exec[d].job]
        BY <1>1, <3>1, <3>4
      <3> QED
        BY <3>1, <3>5 DEF IInv, OwnerHoldsCurrentAttempt, Held
    <2> QED
      BY <2>1, <2>2
  <1> QED
    BY <1>7, <1>8, <1>9 DEF IInv

\* An execution's call of complete_job.
LEMMA CompleteStep ==
  ASSUME IInv, NEW e \in Execs, Complete(e)
  PROVE  IInv'
  <1> DEFINE j == exec[e].job
  <1>1. j \in Jobs /\ exec[e].outcome \in Outcome /\ exec' = [exec EXCEPT ![e] = IdleExec]
    BY DEF Complete, IInv, TypeOK, ExecRecord
  <1>2. IdleExec \in ExecRecord /\ IdleExec.pc = "idle"
    BY MaxAttemptsAssumption DEF IdleExec, ExecRecord
  <1>3. /\ exec' \in [Execs -> ExecRecord]
        /\ \A d \in Execs : exec'[d].pc = "idle" \/ exec'[d] = exec[d]
        /\ orphans' = orphans /\ returned' = returned
    BY <1>1, <1>2 DEF Complete, IInv, TypeOK
  <1>4. \A i \in Jobs : jobs[i] \in JobRecord /\ Budget(jobs[i])
    BY DEF IInv, TypeOK, AttemptBudget, Budget
  <1>5. CASE Held(j, WorkerOf[e])
    <2> DEFINE rec == Completed(jobs[j], exec[e].outcome)
               new == ClosedRows(j, WorkerOf[e], exec[e].outcome)
    <2>1. jobs' = [jobs EXCEPT ![j] = rec] /\ rows' = [rows EXCEPT ![j] = new]
      BY <1>5 DEF Complete, CompleteJob
    <2>2. rec \in JobRecord /\ Budget(rec) /\ rec.status # "leased"
      <3>1. jobs[j].attempts \in 1..MaxAttempts
        BY <1>1, <1>4, <1>5 DEF Budget, Held
      <3> QED
        BY <1>1, <1>4, <3>1, CompletedShape DEF Budget
    <2>3. new \in [1..MaxAttempts -> AttemptRow]
      <3> SUFFICES ASSUME NEW k \in 1..MaxAttempts PROVE new[k] \in AttemptRow
        BY DEF ClosedRows
      <3>1. rows[j][k] \in AttemptRow
        BY <1>1 DEF IInv, TypeOK
      <3>2. new[k] = rows[j][k]
              \/ new[k] = [rows[j][k] EXCEPT !.status = exec[e].outcome, !.open = FALSE]
        BY DEF ClosedRows
      <3> HIDE DEF new
      <3> QED
        BY <1>1, <3>1, <3>2 DEF AttemptRow
    <2> HIDE DEF rec, new, j
    <2>4. jobs' \in [Jobs -> JobRecord] /\ rows' \in [Jobs -> [1..MaxAttempts -> AttemptRow]]
      BY <1>1, <2>1, <2>2, <2>3 DEF IInv, TypeOK
    <2>5. \A i \in Jobs : Budget(jobs'[i]) /\ (jobs'[i].status = "leased" => jobs'[i] = jobs[i])
      BY <1>1, <1>4, <2>1, <2>2 DEF IInv, TypeOK
    <2> QED
      BY <1>3, <2>4, <2>5, GrantsNothing DEF IInv, TypeOK
  <1>6. CASE ~Held(j, WorkerOf[e])
    <2>1. jobs' = jobs /\ rows' = rows
      BY <1>6 DEF Complete, CompleteJob
    <2> QED
      BY <1>3, <1>4, <2>1, GrantsNothing DEF IInv, TypeOK
  <1> QED
    BY <1>5, <1>6

\* The steps of an execution that leave the tables alone: an exec record
\* moves on with its job and attempt, or becomes idle.
LEMMA ExecOnlyStep ==
  ASSUME IInv, NEW e \in Execs, jobs' = jobs, rows' = rows,
         NEW r \in ExecRecord, exec' = [exec EXCEPT ![e] = r],
         r.pc = "idle" \/ (exec[e].pc # "idle" /\ r.job = exec[e].job /\ r.n = exec[e].n),
         orphans' \subseteq [exec : Execs, job : Jobs, n : 1..MaxAttempts],
         returned' \subseteq Jobs \X (1..MaxAttempts)
  PROVE  IInv'
  <1>1. \A i \in Jobs : jobs[i] \in JobRecord /\ Budget(jobs[i])
    BY DEF IInv, TypeOK, AttemptBudget, Budget
  <1>2. /\ exec' \in [Execs -> ExecRecord]
        /\ \A d \in Execs : \/ exec'[d].pc = "idle"
                            \/ exec[d].pc # "idle" /\ exec'[d].job = exec[d].job /\ exec'[d].n = exec[d].n
    BY DEF IInv, TypeOK
  <1> QED
    BY <1>1, <1>2, GrantsNothing DEF IInv, TypeOK

\* The current job and attempt of a busy execution.
LEMMA BusyShape ==
  ASSUME IInv, NEW e \in Execs, exec[e].pc # "idle"
  PROVE  exec[e] \in ExecRecord /\ exec[e].job \in Jobs /\ exec[e].n \in 1..MaxAttempts
  BY MaxAttemptsAssumption DEF IInv, TypeOK, ExecRecord

\* Every action of one execution keeps the invariant.
LEMMA ExecStepKeeps ==
  ASSUME IInv, NEW e \in Execs, ExecStep(e)
  PROVE  IInv'
  <1>0. /\ exec \in [Execs -> ExecRecord]
        /\ orphans \subseteq [exec : Execs, job : Jobs, n : 1..MaxAttempts]
        /\ returned \subseteq Jobs \X (1..MaxAttempts)
        /\ IdleExec \in ExecRecord /\ IdleExec.pc = "idle"
    BY MaxAttemptsAssumption DEF IInv, TypeOK, IdleExec, ExecRecord
  <1>1. ASSUME NEW j \in Jobs, ClaimNextJob(e, j) PROVE IInv'
    BY <1>1, ClaimStep
  <1>2. CASE ClaimNothing(e)
    BY <1>2, RecoveryShape, GrantsNothing DEF ClaimNothing, IInv, TypeOK
  <1>3. CASE StartHandler(e)
    <2>1. [exec[e] EXCEPT !.pc = "running"] \in ExecRecord
      BY <1>0 DEF ExecRecord
    <2> QED
      BY <1>0, <1>3, <2>1, BusyShape, ExecOnlyStep DEF StartHandler, ExecRecord
  <1>4. CASE HandlerReturns(e)
    <2> DEFINE r == [exec[e] EXCEPT !.pc = "finished", !.outcome = "succeeded"]
    <2>1. /\ exec[e].pc = "running" /\ jobs' = jobs /\ rows' = rows /\ orphans' = orphans
          /\ exec' = [exec EXCEPT ![e] = r]
          /\ returned' = returned \cup {<<exec[e].job, exec[e].n>>}
      BY <1>0, <1>4 DEF HandlerReturns, ExecRecord
    <2>2. r \in ExecRecord /\ r.job = exec[e].job /\ r.n = exec[e].n
      BY <1>0 DEF ExecRecord
    <2>3. returned' \subseteq Jobs \X (1..MaxAttempts)
      BY <1>0, <2>1, BusyShape
    <2> QED
      BY <1>0, <2>1, <2>2, <2>3, ExecOnlyStep
  <1>5. CASE HandlerRaises(e) \/ RenewRefused(e)
    <2>1. [exec[e] EXCEPT !.pc = "finished"] \in ExecRecord
      BY <1>0 DEF ExecRecord
    <2> QED
      BY <1>0, <1>5, <2>1, BusyShape, ExecOnlyStep DEF HandlerRaises, RenewRefused, ExecRecord
  <1>6. CASE RenewLease(e)
    <2> DEFINE j == exec[e].job
    <2>1. j \in Jobs /\ Held(j, WorkerOf[e]) /\ jobs' = [jobs EXCEPT ![j].lease = LeaseTicks]
      BY <1>6, BusyShape DEF RenewLease, Renewable
    <2>2. LeaseTicks \in -1..LeaseTicks
      BY LeaseAssumption
    <2>3. \A i \in Jobs : jobs[i] \in JobRecord /\ Budget(jobs[i])
      BY DEF IInv, TypeOK, AttemptBudget, Budget
    <2>4. /\ jobs' \in [Jobs -> JobRecord]
          /\ \A i \in Jobs : /\ jobs'[i].status = jobs[i].status
                             /\ jobs'[i].owner = jobs[i].owner
                             /\ jobs'[i].attempts = jobs[i].attempts
      <3> DEFINE r == [jobs[j] EXCEPT !.lease = LeaseTicks]
      <3>1. /\ r \in JobRecord /\ r.status = jobs[j].status
            /\ r.owner = jobs[j].owner /\ r.attempts = jobs[j].attempts
        BY <2>1, <2>2, <2>3 DEF JobRecord
      <3>2. jobs' = [jobs EXCEPT ![j] = r] /\ jobs \in [Jobs -> JobRecord]
        BY <2>1 DEF IInv, TypeOK
      <3> HIDE DEF r, j
      <3> QED
        BY <2>1, <3>1, <3>2
    <2> QED
      BY <1>0, <1>6, <2>3, <2>4, GrantsNothing DEF RenewLease, Budget, IInv, TypeOK
  <1>7. CASE RenewRaises(e)
    <2>1. [exec[e] EXCEPT !.pc = "finished"] \in ExecRecord
      BY <1>0 DEF ExecRecord
    <2>2. orphans' \subseteq [exec : Execs, job : Jobs, n : 1..MaxAttempts]
      BY <1>0, <1>7, BusyShape DEF RenewRaises
    <2> QED
      BY <1>0, <1>7, <2>1, <2>2, BusyShape, ExecOnlyStep DEF RenewRaises, ExecRecord
  <1>8. CASE Complete(e)
    BY <1>8, CompleteStep
  <1>9. CASE Escapes(e) \/ Crash(e)
    BY <1>0, <1>9, ExecOnlyStep DEF Escapes, Crash
  <1> QED
    BY <1>1, <1>2, <1>3, <1>4, <1>5, <1>6, <1>7, <1>8, <1>9 DEF ExecStep

\* The invariant is inductive.
LEMMA NextKeeps ==
  ASSUME IInv, [Next]_vars
  PROVE  IInv'
  <1>1. \A i \in Jobs : jobs[i] \in JobRecord /\ Budget(jobs[i])
    BY DEF IInv, TypeOK, AttemptBudget, Budget
  <1>2. ASSUME NEW j \in Jobs, EnqueueJob(j) PROVE IInv'
    <2>1. /\ jobs' \in [Jobs -> JobRecord]
          /\ \A i \in Jobs : i # j => jobs'[i] = jobs[i]
          /\ jobs'[j].status = "queued" /\ jobs'[j].attempts = jobs[j].attempts
      BY <1>1, <1>2 DEF EnqueueJob, JobRecord, IInv, TypeOK
    <2>2. jobs[j].attempts < MaxAttempts
      BY <1>1, <1>2, MaxAttemptsAssumption DEF EnqueueJob, Budget
    <2> QED
      BY <1>1, <1>2, <2>1, <2>2, GrantsNothing DEF EnqueueJob, Budget, IInv, TypeOK
  <1>3. ASSUME NEW e \in Execs, ExecStep(e) PROVE IInv'
    BY <1>3, ExecStepKeeps
  <1>4. ASSUME NEW o \in orphans, OrphanEnds(o) PROVE IInv'
    BY <1>1, <1>4, GrantsNothing DEF OrphanEnds, IInv, TypeOK
  <1>5. CASE Tick
    <2>1. /\ jobs' \in [Jobs -> JobRecord]
          /\ \A i \in Jobs : /\ jobs'[i].status = jobs[i].status
                             /\ jobs'[i].owner = jobs[i].owner
                             /\ jobs'[i].attempts = jobs[i].attempts
      BY <1>1, <1>5, AgedShape DEF Tick
    <2> QED
      BY <1>1, <1>5, <2>1, GrantsNothing DEF Tick, Budget, IInv, TypeOK
  <1>6. CASE UNCHANGED vars
    BY <1>6 DEF vars, IInv, TypeOK, AttemptBudget, OwnerHoldsCurrentAttempt, Held
  <1> QED
    BY <1>2, <1>3, <1>4, <1>5, <1>6 DEF Next

\* The empty tables satisfy the invariant.
LEMMA InitEstablishes == Init => IInv
  <1> SUFFICES ASSUME Init PROVE IInv
    OBVIOUS
  <1>1. /\ Absent \in JobRecord /\ NoRow \in AttemptRow /\ IdleExec \in ExecRecord
        /\ Absent.status = "absent" /\ Absent.attempts = 0 /\ IdleExec.pc = "idle"
    BY MaxAttemptsAssumption, LeaseAssumption
       DEF Absent, NoRow, IdleExec, JobRecord, AttemptRow, ExecRecord
  <1>2. /\ jobs = [j \in Jobs |-> Absent] /\ exec = [e \in Execs |-> IdleExec]
        /\ rows = [j \in Jobs |-> [n \in 1..MaxAttempts |-> NoRow]]
        /\ orphans = {} /\ returned = {}
    BY DEF Init
  <1>3. TypeOK
    BY <1>1, <1>2 DEF TypeOK
  <1>4. AttemptBudget
    BY <1>1, <1>2 DEF AttemptBudget
  <1>5. OwnerHoldsCurrentAttempt
    BY <1>1, <1>2 DEF OwnerHoldsCurrentAttempt
  <1> QED
    BY <1>3, <1>4, <1>5 DEF IInv

-----------------------------------------------------------------------------
(* The theorems. *)

THEOREM Inductive == Spec => []IInv
  <1>1. Init => IInv
    BY InitEstablishes
  <1>2. IInv /\ [Next]_vars => IInv'
    BY NextKeeps
  <1> QED
    BY <1>1, <1>2, PTL DEF Spec

\* The tables and the executions always have their declared shape.
THEOREM TypeCorrect == Spec => []TypeOK
  <1>1. IInv => TypeOK
    BY DEF IInv
  <1> QED
    BY <1>1, Inductive, PTL

\* The retry budget of enqueue, claim, recovery and completion holds for
\* every max_attempts.
THEOREM BudgetHolds == Spec => []AttemptBudget
  <1>1. IInv => AttemptBudget
    BY DEF IInv
  <1> QED
    BY <1>1, Inductive, PTL

\* An execution that still owns its job owns it under its own attempt.
THEOREM OwnershipIsCurrent == Spec => []OwnerHoldsCurrentAttempt
  <1>1. IInv => OwnerHoldsCurrentAttempt
    BY DEF IInv
  <1> QED
    BY <1>1, Inductive, PTL

\* A step that does not complete execution e's job leaves e, if finished,
\* finished, or leaves the jobs as they were.
LEMMA OwnCompletionStep ==
  ASSUME IInv, [Next]_vars, NEW e \in Execs, NEW j \in Jobs,
         exec[e].pc = "finished", exec'[e].pc = "idle",
         jobs[j].status = "leased", jobs'[j].status # "leased"
  PROVE  exec[e].job = j /\ exec[e].n = jobs[j].attempts
  <1>1. exec' # exec /\ jobs' # jobs
    OBVIOUS
  <1>2. PICK d \in Execs : Complete(d) \/ \E i \in Jobs : ClaimNextJob(d, i)
    BY <1>1 DEF Next, vars, EnqueueJob, OrphanEnds, Tick, ExecStep, ClaimNothing, StartHandler,
       HandlerReturns, HandlerRaises, RenewLease, RenewRefused, RenewRaises, Escapes, Crash
  <1>3. ASSUME NEW i \in Jobs, ClaimNextJob(d, i) PROVE FALSE
    <2>1. /\ exec[d].pc = "idle"
          /\ exec' = [exec EXCEPT ![d] = [pc |-> "claimed", job |-> i,
                        n |-> RecoverExpiredLeases[i].attempts + 1, outcome |-> "failed"]]
      BY <1>3 DEF ClaimNextJob
    <2>2. exec'[e] = exec[e]
      BY <2>1 DEF IInv, TypeOK
    <2> QED
      BY <2>2
  <1>4. Complete(d)
    BY <1>2, <1>3
  <1>5. exec' = [exec EXCEPT ![d] = IdleExec]
    BY <1>4 DEF Complete
  <1>6. d = e
    BY <1>5 DEF IInv, TypeOK
  <1>7. /\ Held(exec[e].job, WorkerOf[e])
        /\ jobs' = [jobs EXCEPT ![exec[e].job] = Completed(jobs[exec[e].job], exec[e].outcome)]
    BY <1>1, <1>4, <1>6 DEF Complete, CompleteJob
  <1>8. exec[e].job = j
    BY <1>7 DEF IInv, TypeOK
  <1> QED
    BY <1>7, <1>8 DEF IInv, OwnerHoldsCurrentAttempt

\* A late complete_job never settles an attempt of somebody else.
THEOREM CompletionsAreOwn == Spec => CompletionIsOwn
  <1>1. IInv /\ [Next]_vars =>
          [\A e \in Execs : \A j \in Jobs :
             exec[e].pc = "finished" /\ exec'[e].pc = "idle"
               /\ jobs[j].status = "leased" /\ jobs'[j].status # "leased"
               => exec[e].job = j /\ exec[e].n = jobs[j].attempts]_vars
    BY OwnCompletionStep
  <1> QED
    BY <1>1, Inductive, PTL DEF Spec, CompletionIsOwn

\* No step changes a settled row.
LEMMA SettledStep ==
  ASSUME IInv, [Next]_vars, NEW j \in Jobs, jobs[j].status \in Outcome
  PROVE  jobs'[j] = jobs[j]
  <1>1. jobs[j] \in JobRecord /\ \A i \in Jobs : jobs[i] \in JobRecord
    BY DEF IInv, TypeOK
  <1>2. Recovered(jobs[j]) = jobs[j] /\ RecoverExpiredLeases[j] = jobs[j]
    BY DEF Recovered, RecoverExpiredLeases
  <1>3. ASSUME NEW i \in Jobs, EnqueueJob(i) PROVE jobs'[j] = jobs[j]
    BY <1>3 DEF EnqueueJob, IInv, TypeOK
  <1>4. CASE Tick
    BY <1>1, <1>4, AgedShape DEF Tick
  <1>5. ASSUME NEW e \in Execs, ExecStep(e) PROVE jobs'[j] = jobs[j]
    <2>1. ASSUME NEW i \in Jobs, ClaimNextJob(e, i) PROVE jobs'[j] = jobs[j]
      <3>1. RecoverExpiredLeases[i].status = "queued"
        BY <2>1 DEF ClaimNextJob, ClaimOrder, Claimable
      <3>2. i # j
        BY <1>2, <3>1
      <3>3. jobs' = [RecoverExpiredLeases EXCEPT ![i] = Leased(RecoverExpiredLeases[i], WorkerOf[e])]
        BY <2>1 DEF ClaimNextJob
      <3> QED
        BY <1>2, <3>2, <3>3 DEF RecoverExpiredLeases
    <2>2. CASE ClaimNothing(e)
      BY <1>2, <2>2 DEF ClaimNothing
    <2>3. CASE RenewLease(e)
      BY <2>3 DEF RenewLease, Renewable, Held, IInv, TypeOK
    <2>4. CASE Complete(e)
      BY <2>4 DEF Complete, CompleteJob, Held, IInv, TypeOK
    <2> QED
      BY <1>5, <2>1, <2>2, <2>3, <2>4 DEF ExecStep, StartHandler, HandlerReturns, HandlerRaises,
         RenewRefused, RenewRaises, Escapes, Crash
  <1> QED
    BY <1>3, <1>4, <1>5 DEF Next, vars, OrphanEnds

\* Succeeded and failed are final.
THEOREM SettledIsFinal == Spec => SettledStaysSettled
  <1>1. IInv /\ [Next]_vars =>
          [\A j \in Jobs : jobs[j].status \in Outcome => jobs'[j] = jobs[j]]_vars
    BY SettledStep
  <1> QED
    BY <1>1, Inductive, PTL DEF Spec, SettledStaysSettled

-----------------------------------------------------------------------------
(* The queue implements the ledger. *)

\* What the ledger needs beyond IInv: a busy execution's attempt has been
\* counted, a success to be reported was returned by the handler, and an
\* unleased row has no owner.
RInv ==
  /\ \A e \in Execs : exec[e].pc # "idle" => exec[e].n <= jobs[exec[e].job].attempts
  /\ \A e \in Execs : exec[e].pc = "finished" /\ exec[e].outcome = "succeeded"
                        => <<exec[e].job, exec[e].n>> \in returned
  /\ \A e \in Execs : exec[e].pc \in {"claimed", "running"} => exec[e].outcome = "failed"
  /\ \A j \in Jobs : jobs[j].status # "leased" => jobs[j].owner = None

\* No step lowers an attempt count.
LEMMA AttemptsGrow ==
  ASSUME IInv, [Next]_vars, NEW j \in Jobs
  PROVE  jobs'[j].attempts >= jobs[j].attempts
  <1>1. \A i \in Jobs : jobs[i] \in JobRecord /\ Budget(jobs[i])
    BY DEF IInv, TypeOK, AttemptBudget, Budget
  <1>2. \A i \in Jobs : jobs[i].attempts \in Nat
    BY <1>1, MaxAttemptsAssumption DEF JobRecord
  <1>3. /\ RecoverExpiredLeases \in [Jobs -> JobRecord]
        /\ \A i \in Jobs : RecoverExpiredLeases[i].attempts = jobs[i].attempts
    BY RecoveryShape
  <1>4. ASSUME NEW i \in Jobs, EnqueueJob(i) PROVE jobs'[j].attempts = jobs[j].attempts
    BY <1>1, <1>4 DEF EnqueueJob, JobRecord, IInv, TypeOK
  <1>5. CASE Tick
    BY <1>1, <1>2, <1>5, AgedShape DEF Tick
  <1>6. ASSUME NEW e \in Execs, ExecStep(e) PROVE jobs'[j].attempts >= jobs[j].attempts
    <2>1. ASSUME NEW i \in Jobs, ClaimNextJob(e, i) PROVE jobs'[j].attempts >= jobs[j].attempts
      <3>1. jobs' = [RecoverExpiredLeases EXCEPT ![i] = Leased(RecoverExpiredLeases[i], WorkerOf[e])]
        BY <2>1 DEF ClaimNextJob
      <3>2. Leased(RecoverExpiredLeases[i], WorkerOf[e]).attempts = jobs[i].attempts + 1
        BY <1>3 DEF Leased, JobRecord
      <3> QED
        BY <1>2, <1>3, <3>1, <3>2
    <2>2. CASE ClaimNothing(e)
      BY <1>2, <1>3, <2>2 DEF ClaimNothing
    <2>3. CASE RenewLease(e)
      BY <1>1, <1>2, <2>3 DEF RenewLease, JobRecord, IInv, TypeOK
    <2>4. CASE Complete(e)
      <3>1. CASE jobs' = jobs
        BY <1>2, <3>1
      <3>2. CASE jobs' # jobs
        <4>1. Held(exec[e].job, WorkerOf[e]) /\ exec[e].job \in Jobs /\ exec[e].outcome \in Outcome
          BY <2>4, <3>2, BusyShape DEF Complete, CompleteJob, ExecRecord
        <4>2. jobs[exec[e].job].attempts \in 1..MaxAttempts
          BY <1>1, <4>1 DEF Budget, Held
        <4>3. Completed(jobs[exec[e].job], exec[e].outcome).attempts = jobs[exec[e].job].attempts
          BY <1>1, <4>1, <4>2, CompletedShape
        <4>4. jobs' = [jobs EXCEPT ![exec[e].job] = Completed(jobs[exec[e].job], exec[e].outcome)]
          BY <2>4, <4>1 DEF Complete, CompleteJob
        <4> QED
          BY <1>2, <4>1, <4>3, <4>4 DEF IInv, TypeOK
      <3> QED
        BY <3>1, <3>2
    <2> QED
      BY <1>2, <1>6, <2>1, <2>2, <2>3, <2>4 DEF ExecStep, StartHandler, HandlerReturns,
         HandlerRaises, RenewRefused, RenewRaises, Escapes, Crash
  <1> QED
    BY <1>2, <1>4, <1>5, <1>6 DEF Next, vars, OrphanEnds

\* What a step may do to the owner of a row that ends up unleased.
LEMMA UnleasedOwner ==
  ASSUME IInv, RInv, [Next]_vars, NEW j \in Jobs, jobs'[j].status # "leased"
  PROVE  jobs'[j].owner = None
  <1>1. \A i \in Jobs : jobs[i] \in JobRecord /\ Budget(jobs[i])
    BY DEF IInv, TypeOK, AttemptBudget, Budget
  <1>2. \A i \in Jobs : jobs[i].status # "leased" => jobs[i].owner = None
    BY DEF RInv
  <1>3. RecoverExpiredLeases[j].status # "leased" => RecoverExpiredLeases[j].owner = None
    <2>1. jobs[j].status = "leased" => jobs[j].attempts \in 1..MaxAttempts
      BY <1>1 DEF Budget
    <2> QED
      BY <1>1, <1>2, <2>1, RecoveredShape DEF RecoverExpiredLeases
  <1>4. ASSUME NEW i \in Jobs, EnqueueJob(i) PROVE jobs'[j].owner = None
    <2>1. jobs[i].owner = None
      BY <1>2, <1>4 DEF EnqueueJob
    <2> QED
      BY <1>1, <1>2, <1>4, <2>1 DEF EnqueueJob, JobRecord, IInv, TypeOK
  <1>5. CASE Tick
    BY <1>1, <1>2, <1>5, AgedShape DEF Tick
  <1>6. ASSUME NEW e \in Execs, ExecStep(e) PROVE jobs'[j].owner = None
    <2>1. ASSUME NEW i \in Jobs, ClaimNextJob(e, i) PROVE jobs'[j].owner = None
      <3>1. jobs' = [RecoverExpiredLeases EXCEPT ![i] = Leased(RecoverExpiredLeases[i], WorkerOf[e])]
        BY <2>1 DEF ClaimNextJob
      <3>2. /\ RecoverExpiredLeases \in [Jobs -> JobRecord]
            /\ Leased(RecoverExpiredLeases[i], WorkerOf[e]).status = "leased"
        BY RecoveryShape DEF Leased, JobRecord
      <3> QED
        BY <1>3, <3>1, <3>2
    <2>2. CASE ClaimNothing(e)
      BY <1>3, <2>2 DEF ClaimNothing
    <2>3. CASE RenewLease(e)
      BY <1>1, <1>2, <2>3 DEF RenewLease, JobRecord, IInv, TypeOK
    <2>4. CASE Complete(e)
      <3>1. CASE jobs' = jobs
        BY <1>2, <3>1
      <3>2. CASE jobs' # jobs
        <4>1. Held(exec[e].job, WorkerOf[e]) /\ exec[e].job \in Jobs /\ exec[e].outcome \in Outcome
          BY <2>4, <3>2, BusyShape DEF Complete, CompleteJob, ExecRecord
        <4>2. jobs[exec[e].job].attempts \in 1..MaxAttempts
          BY <1>1, <4>1 DEF Budget, Held
        <4>3. Completed(jobs[exec[e].job], exec[e].outcome).owner = None
          BY <1>1, <4>1, <4>2, CompletedShape
        <4>4. jobs' = [jobs EXCEPT ![exec[e].job] = Completed(jobs[exec[e].job], exec[e].outcome)]
          BY <2>4, <4>1 DEF Complete, CompleteJob
        <4> QED
          BY <1>2, <4>1, <4>3, <4>4 DEF IInv, TypeOK
      <3> QED
        BY <3>1, <3>2
    <2> QED
      BY <1>2, <1>6, <2>1, <2>2, <2>3, <2>4 DEF ExecStep, StartHandler, HandlerReturns,
         HandlerRaises, RenewRefused, RenewRaises, Escapes, Crash
  <1> QED
    BY <1>2, <1>4, <1>5, <1>6 DEF Next, vars, OrphanEnds

\* How one execution's record can change.
LEMMA ExecChange ==
  ASSUME IInv, [Next]_vars, NEW e \in Execs
  PROVE  \/ exec'[e] = exec[e]
         \/ exec'[e] = IdleExec
         \/ \E j \in Jobs : /\ jobs'[j].attempts = exec'[e].n /\ exec'[e].job = j
                            /\ exec'[e].pc = "claimed" /\ exec'[e].outcome = "failed"
         \/ /\ exec[e].pc # "idle" /\ exec'[e].job = exec[e].job /\ exec'[e].n = exec[e].n
            /\ exec'[e].outcome = exec[e].outcome
            /\ exec[e].pc \in {"claimed", "running"}
         \/ /\ exec[e].pc # "idle" /\ exec'[e].job = exec[e].job /\ exec'[e].n = exec[e].n
            /\ exec'[e].pc = "finished" /\ <<exec[e].job, exec[e].n>> \in returned'
  <1>1. exec \in [Execs -> ExecRecord]
    BY DEF IInv, TypeOK
  <1>2. ASSUME NEW d \in Execs, NEW j \in Jobs, ClaimNextJob(d, j)
        PROVE  \/ exec'[e] = exec[e]
               \/ /\ jobs'[j].attempts = exec'[e].n /\ exec'[e].job = j
                  /\ exec'[e].pc = "claimed" /\ exec'[e].outcome = "failed"
    <2> DEFINE n == RecoverExpiredLeases[j].attempts + 1
    <2>1. /\ exec' = [exec EXCEPT ![d] = [pc |-> "claimed", job |-> j, n |-> n, outcome |-> "failed"]]
          /\ jobs' = [RecoverExpiredLeases EXCEPT ![j] = Leased(RecoverExpiredLeases[j], WorkerOf[d])]
      BY <1>2 DEF ClaimNextJob
    <2>2. RecoverExpiredLeases \in [Jobs -> JobRecord]
      BY RecoveryShape
    <2>3. Leased(RecoverExpiredLeases[j], WorkerOf[d]).attempts = n
      BY <2>2 DEF Leased, JobRecord
    <2>4. jobs'[j].attempts = n
      BY <2>1, <2>2, <2>3
    <2> HIDE DEF n
    <2> QED
      BY <1>1, <2>1, <2>4
  <1>3. ASSUME NEW d \in Execs, HandlerReturns(d)
        PROVE  \/ exec'[e] = exec[e]
               \/ /\ exec[e].pc # "idle" /\ exec'[e].job = exec[e].job /\ exec'[e].n = exec[e].n
                  /\ exec'[e].pc = "finished" /\ <<exec[e].job, exec[e].n>> \in returned'
    BY <1>1, <1>3 DEF HandlerReturns, ExecRecord
  <1>4. ASSUME NEW d \in Execs, StartHandler(d) \/ HandlerRaises(d) \/ RenewRefused(d) \/ RenewRaises(d)
        PROVE  \/ exec'[e] = exec[e]
               \/ /\ exec[e].pc # "idle" /\ exec'[e].job = exec[e].job /\ exec'[e].n = exec[e].n
                  /\ exec'[e].outcome = exec[e].outcome
                  /\ exec[e].pc \in {"claimed", "running"}
    BY <1>1, <1>4 DEF StartHandler, HandlerRaises, RenewRefused, RenewRaises, ExecRecord
  <1>5. ASSUME NEW d \in Execs, Complete(d) \/ Escapes(d) \/ Crash(d)
        PROVE  exec'[e] = exec[e] \/ exec'[e] = IdleExec
    BY <1>1, <1>5 DEF Complete, Escapes, Crash
  <1> QED
    BY <1>2, <1>3, <1>4, <1>5 DEF Next, vars, EnqueueJob, OrphanEnds, Tick, ExecStep,
       ClaimNothing, RenewLease

\* RInv is inductive on top of IInv.
LEMMA RInvStep ==
  ASSUME IInv, IInv', RInv, [Next]_vars
  PROVE  RInv'
  <1>1. returned \subseteq returned'
    BY DEF Next, vars, EnqueueJob, OrphanEnds, Tick, ExecStep, ClaimNextJob, ClaimNothing,
       StartHandler,
       HandlerReturns, HandlerRaises, RenewLease, RenewRefused, RenewRaises, Complete, Escapes, Crash
  <1>2. ASSUME NEW j \in Jobs
        PROVE  /\ jobs[j].attempts \in Nat /\ jobs'[j].attempts \in Nat
               /\ jobs'[j].attempts >= jobs[j].attempts
    <2>1. jobs[j] \in JobRecord
      BY DEF IInv, TypeOK
    <2>2. jobs'[j] \in JobRecord
      BY DEF IInv, TypeOK
    <2> QED
      BY <2>1, <2>2, AttemptsGrow, MaxAttemptsAssumption DEF JobRecord
  <1> SUFFICES ASSUME NEW e \in Execs
               PROVE  /\ exec'[e].pc # "idle" => exec'[e].n <= jobs'[exec'[e].job].attempts
                      /\ exec'[e].pc = "finished" /\ exec'[e].outcome = "succeeded"
                           => <<exec'[e].job, exec'[e].n>> \in returned'
                      /\ exec'[e].pc \in {"claimed", "running"} => exec'[e].outcome = "failed"
    BY UnleasedOwner DEF RInv
  <1>3. /\ exec[e].pc # "idle" => exec[e].n <= jobs[exec[e].job].attempts
        /\ exec[e].pc = "finished" /\ exec[e].outcome = "succeeded"
             => <<exec[e].job, exec[e].n>> \in returned
        /\ exec[e].pc \in {"claimed", "running"} => exec[e].outcome = "failed"
    BY DEF RInv
  <1>4. exec[e].pc # "idle" => exec[e].job \in Jobs /\ exec[e].n \in Nat
    BY BusyShape
  <1>5. exec[e].pc # "idle" => exec[e].n <= jobs'[exec[e].job].attempts
    BY <1>2, <1>3, <1>4
  <1>6. CASE exec'[e] = exec[e]
    BY <1>1, <1>3, <1>5, <1>6
  <1>7. CASE exec'[e] = IdleExec
    BY <1>7 DEF IdleExec
  <1>8. ASSUME NEW j \in Jobs, jobs'[j].attempts = exec'[e].n, exec'[e].job = j,
               exec'[e].pc = "claimed", exec'[e].outcome = "failed"
        PROVE  /\ exec'[e].n <= jobs'[exec'[e].job].attempts
               /\ exec'[e].pc = "claimed" /\ exec'[e].outcome = "failed"
    BY <1>2, <1>8
  <1>9. CASE /\ exec[e].pc # "idle" /\ exec'[e].job = exec[e].job /\ exec'[e].n = exec[e].n
             /\ exec'[e].outcome = exec[e].outcome
             /\ exec[e].pc \in {"claimed", "running"}
    BY <1>3, <1>5, <1>9
  <1>10. CASE /\ exec[e].pc # "idle" /\ exec'[e].job = exec[e].job /\ exec'[e].n = exec[e].n
              /\ exec'[e].pc = "finished" /\ <<exec[e].job, exec[e].n>> \in returned'
    BY <1>5, <1>10
  <1> QED
    BY <1>6, <1>7, <1>8, <1>9, <1>10, ExecChange

\* The ways one row can change, in the ledger's terms.
RowSame(j) == /\ jobs'[j].status = jobs[j].status /\ jobs'[j].owner = jobs[j].owner
              /\ jobs'[j].attempts = jobs[j].attempts
RowBecomes(j, status, n, w) ==
  jobs'[j].status = status /\ jobs'[j].attempts = n /\ jobs'[j].owner = w
RowSubmit(j) == jobs[j].status = "absent" /\ RowBecomes(j, "queued", 0, None)
RowGrant(j) == /\ jobs[j].status \in {"queued", "leased"} /\ jobs[j].attempts < MaxAttempts
               /\ \E w \in Workers : RowBecomes(j, "leased", jobs[j].attempts + 1, w)
RowReturn(j) == /\ jobs[j].status = "leased" /\ jobs[j].attempts < MaxAttempts
                /\ RowBecomes(j, "queued", jobs[j].attempts, None)
RowGiveUp(j) == /\ jobs[j].status = "leased" /\ jobs[j].attempts = MaxAttempts
                /\ RowBecomes(j, "failed", jobs[j].attempts, None)
RowSucceed(j) == /\ jobs[j].status = "leased" /\ <<j, jobs[j].attempts>> \in returned
                 /\ RowBecomes(j, "succeeded", jobs[j].attempts, None)
RowStep(j) == RowSame(j) \/ RowSubmit(j) \/ RowGrant(j) \/ RowReturn(j) \/ RowGiveUp(j) \/ RowSucceed(j)

\* Every row takes a step of the ledger or stays.
LEMMA RowChange ==
  ASSUME IInv, RInv, [Next]_vars, NEW j \in Jobs
  PROVE  RowStep(j)
  <1> USE DEF RowStep, RowSame, RowSubmit, RowGrant, RowReturn, RowGiveUp, RowSucceed, RowBecomes
  <1>1. \A i \in Jobs : jobs[i] \in JobRecord /\ Budget(jobs[i])
    BY DEF IInv, TypeOK, AttemptBudget, Budget
  <1>2. \A i \in Jobs : jobs[i].status # "leased" => jobs[i].owner = None
    BY DEF RInv
  <1>3. /\ RecoverExpiredLeases[j] \in JobRecord
        /\ RecoverExpiredLeases[j].attempts = jobs[j].attempts
        /\ \/ RecoverExpiredLeases[j] = jobs[j]
           \/ /\ jobs[j].status = "leased" /\ jobs[j].attempts < MaxAttempts
              /\ RecoverExpiredLeases[j].status = "queued" /\ RecoverExpiredLeases[j].owner = None
           \/ /\ jobs[j].status = "leased" /\ jobs[j].attempts = MaxAttempts
              /\ RecoverExpiredLeases[j].status = "failed" /\ RecoverExpiredLeases[j].owner = None
    <2>1. jobs[j].status = "leased" => jobs[j].attempts \in 1..MaxAttempts
      BY <1>1 DEF Budget
    <2> QED
      BY <1>1, <2>1, RecoveredShape DEF RecoverExpiredLeases
  <1>4. ASSUME NEW i \in Jobs, EnqueueJob(i) PROVE RowStep(j)
    <2>1. /\ jobs[i].status = "absent" /\ jobs[i].owner = None /\ jobs[i].attempts = 0
          /\ jobs' = [jobs EXCEPT ![i].status = "queued"]
      BY <1>1, <1>2, <1>4 DEF EnqueueJob, Budget
    <2>2. i = j => RowSubmit(j)
      BY <1>1, <2>1 DEF JobRecord, IInv, TypeOK
    <2>3. i # j => RowSame(j)
      BY <2>1 DEF IInv, TypeOK
    <2> QED
      BY <2>2, <2>3
  <1>5. CASE Tick
    BY <1>1, <1>5, AgedShape DEF Tick
  <1>6. ASSUME NEW e \in Execs, ExecStep(e) PROVE RowStep(j)
    <2>1. ASSUME NEW i \in Jobs, ClaimNextJob(e, i) PROVE RowStep(j)
      <3>1. /\ jobs' = [RecoverExpiredLeases EXCEPT ![i] = Leased(RecoverExpiredLeases[i], WorkerOf[e])]
            /\ RecoverExpiredLeases[i].status = "queued"
        BY <2>1 DEF ClaimNextJob, ClaimOrder, Claimable
      <3>2. CASE i # j
        <4>1. jobs'[j] = RecoverExpiredLeases[j]
          BY <3>1, <3>2 DEF RecoverExpiredLeases
        <4> QED
          BY <1>3, <4>1
      <3>3. CASE i = j
        <4>1. /\ jobs[j].status \in {"queued", "leased"} /\ jobs[j].attempts < MaxAttempts
          BY <1>1, <1>3, <3>1, <3>3 DEF Budget
        <4>2. jobs'[j] = Leased(RecoverExpiredLeases[j], WorkerOf[e])
          BY <3>1, <3>3 DEF RecoverExpiredLeases
        <4>3. /\ jobs'[j].status = "leased" /\ jobs'[j].owner = WorkerOf[e]
              /\ jobs'[j].attempts = jobs[j].attempts + 1
          BY <1>3, <4>2 DEF Leased, JobRecord
        <4>4. WorkerOf[e] \in Workers
          BY WorkerAssumption
        <4> QED
          BY <4>1, <4>3, <4>4
      <3> QED
        BY <3>2, <3>3
    <2>2. CASE ClaimNothing(e)
      BY <1>3, <2>2 DEF ClaimNothing
    <2>3. CASE RenewLease(e)
      BY <1>1, <2>3 DEF RenewLease, JobRecord, IInv, TypeOK
    <2>4. CASE Complete(e)
      <3>1. CASE jobs' = jobs
        BY <3>1
      <3>2. CASE jobs' # jobs
        <4>1. Held(exec[e].job, WorkerOf[e]) /\ exec[e].job \in Jobs /\ exec[e].outcome \in Outcome
              /\ exec[e].pc = "finished"
          BY <2>4, <3>2, BusyShape DEF Complete, CompleteJob, ExecRecord
        <4>2. jobs[exec[e].job].attempts \in 1..MaxAttempts
          BY <1>1, <4>1 DEF Budget, Held
        <4>3. jobs' = [jobs EXCEPT ![exec[e].job] = Completed(jobs[exec[e].job], exec[e].outcome)]
          BY <2>4, <4>1 DEF Complete, CompleteJob
        <4>4. CASE exec[e].job # j
          BY <4>3, <4>4 DEF IInv, TypeOK
        <4>5. CASE exec[e].job = j
          <5>1. jobs'[j] = Completed(jobs[j], exec[e].outcome) /\ jobs[j].status = "leased"
            BY <4>1, <4>3, <4>5 DEF Held, IInv, TypeOK
          <5>2. exec[e].outcome = "succeeded" => <<j, jobs[j].attempts>> \in returned
            BY <4>1, <4>5 DEF RInv, IInv, OwnerHoldsCurrentAttempt
          <5>3. jobs[j] \in JobRecord /\ jobs[j].attempts \in 1..MaxAttempts
            BY <1>1, <4>2, <4>5
          <5> QED
            BY <4>1, <5>1, <5>2, <5>3, CompletedShape
        <4> QED
          BY <4>4, <4>5
      <3> QED
        BY <3>1, <3>2
    <2> QED
      BY <1>6, <2>1, <2>2, <2>3, <2>4 DEF ExecStep, StartHandler, HandlerReturns,
         HandlerRaises, RenewRefused, RenewRaises, Escapes, Crash
  <1> QED
    BY <1>4, <1>5, <1>6 DEF Next, vars, OrphanEnds

\* Handlers only return for attempts that have been counted.
LEMMA ReturnedChange ==
  ASSUME IInv, RInv, [Next]_vars
  PROVE  /\ returned \subseteq returned'
         /\ \A d \in returned' \ returned : d[1] \in Jobs /\ d[2] \in 1..jobs[d[1]].attempts
  <1>1. CASE \E e \in Execs : HandlerReturns(e)
    <2>1. PICK e \in Execs : HandlerReturns(e)
      BY <1>1
    <2>2. /\ exec[e].pc # "idle"
          /\ returned' = returned \cup {<<exec[e].job, exec[e].n>>}
      BY <2>1 DEF HandlerReturns
    <2>3. exec[e].job \in Jobs /\ exec[e].n \in 1..MaxAttempts /\ exec[e].n <= jobs[exec[e].job].attempts
      BY <2>2, BusyShape DEF RInv
    <2>4. jobs[exec[e].job].attempts \in Nat
      BY <2>3, MaxAttemptsAssumption DEF IInv, TypeOK, JobRecord
    <2>5. exec[e].n \in 1..jobs[exec[e].job].attempts
      BY <2>3, <2>4, MaxAttemptsAssumption
    <2> QED
      BY <2>2, <2>3, <2>5
  <1>2. CASE returned' = returned
    BY <1>2
  <1> QED
    BY <1>1, <1>2 DEF Next, vars, EnqueueJob, OrphanEnds, Tick, ExecStep, ClaimNextJob,
       ClaimNothing,
       StartHandler, HandlerRaises, RenewLease, RenewRefused, RenewRaises, Complete, Escapes, Crash

\* Every step of the queue is a step of the ledger.
LEMMA LedgerStep ==
  ASSUME IInv, RInv, [Next]_vars
  PROVE  Ledger!LNext
  <1>1. ASSUME NEW j \in Jobs
        PROVE  \/ Ledger!Submit(j) \/ Ledger!Grant(j) \/ Ledger!Return(j)
               \/ Ledger!GiveUp(j) \/ Ledger!Succeed(j)
               \/ /\ jobs'[j].status = jobs[j].status /\ jobs'[j].owner = jobs[j].owner
                  /\ jobs'[j].attempts = jobs[j].attempts
    BY RowChange DEF RowStep, RowSame, RowSubmit, RowGrant, RowReturn, RowGiveUp, RowSucceed,
       RowBecomes,
       Ledger!Submit, Ledger!Grant, Ledger!Return, Ledger!GiveUp, Ledger!Succeed, Ledger!Becomes
  <1>2. Ledger!WorkEnds
    BY ReturnedChange DEF Ledger!WorkEnds
  <1> QED
    BY <1>1, <1>2 DEF Ledger!LNext

\* The job queue implements the ledger: no interleaving of lapsed leases,
\* late completions, failed renewals and crashes grants a job more often than
\* max_attempts, settles it from a lapsed attempt, or reports a success that
\* no handler returned.
THEOREM QueueImplementsLedger == Spec => LedgerSpec
  <1>1. Init => IInv /\ RInv
    <2> SUFFICES ASSUME Init PROVE RInv
      BY InitEstablishes
    <2> QED
      BY DEF Init, RInv, IdleExec, Absent
  <1>2. IInv /\ RInv /\ [Next]_vars => (IInv /\ RInv)'
    BY NextKeeps, RInvStep
  <1>3. Init => Ledger!LInit
    BY DEF Init, Absent, Ledger!LInit
  <1>4. IInv /\ RInv /\ [Next]_vars => [Ledger!LNext]_(Ledger!lvars)
    BY LedgerStep
  <1> QED
    BY <1>1, <1>2, <1>3, <1>4, PTL DEF Spec, LedgerSpec, Ledger!LSpec

-----------------------------------------------------------------------------
(* The history of attempts. *)

\* Exactly the attempts that were granted have a row, and exactly those that
\* wait for their result are open.
RowsOfAttempts ==
  \A j \in Jobs : \A n \in 1..MaxAttempts :
    /\ rows[j][n].status # "none" <=> n <= jobs[j].attempts
    /\ rows[j][n].open <=> rows[j][n].status = "leased"

\* A closed row tells what its handler did, or what a later attempt of its
\* worker did.
OutcomesTold ==
  \A j \in Jobs : \A n \in 1..MaxAttempts :
    rows[j][n].status \in Outcome =>
      rows[j][n].status = ResultOf(j, n) \/ ClosedWithLater(j, n)

\* An execution knows what its handler did, and no handler has returned of an
\* attempt that was not granted.
ResultsKnown ==
  /\ \A e \in Execs : exec[e].pc # "idle" =>
       (<<exec[e].job, exec[e].n>> \in returned <=> exec[e].outcome = "succeeded")
  /\ \A e \in Execs : exec[e].pc \in {"claimed", "running"} => exec[e].outcome = "failed"
  /\ \A j \in Jobs : \A n \in 1..MaxAttempts :
       <<j, n>> \in returned => n <= jobs[j].attempts

\* The last attempt of a job that succeeded is recorded as its success.
SuccessRecorded ==
  \A j \in Jobs : jobs[j].status = "succeeded" =>
    /\ jobs[j].attempts \in 1..MaxAttempts
    /\ rows[j][jobs[j].attempts].status = "succeeded"
    /\ ~rows[j][jobs[j].attempts].open

\* The row of an attempt that is at work is open, in the name of its worker.
OwnRowOpen ==
  \A e \in Execs : exec[e].pc # "idle" =>
    rows[exec[e].job][exec[e].n].open /\ rows[exec[e].job][exec[e].n].worker = WorkerOf[e]

HInv == RowsOfAttempts /\ OutcomesTold /\ ResultsKnown /\ SuccessRecorded /\ OwnRowOpen

\* A step that neither grants an attempt, nor writes a row, nor ends a handler
\* keeps the history.
LEMMA RowsKept ==
  ASSUME IInv, HInv, rows' = rows, returned' = returned,
         \A j \in Jobs : /\ jobs'[j].attempts = jobs[j].attempts
                         /\ jobs'[j].status = "succeeded" => jobs[j].status = "succeeded",
         \A e \in Execs : \/ exec'[e].pc = "idle"
                          \/ /\ exec[e].pc # "idle"
                             /\ exec'[e].job = exec[e].job
                             /\ exec'[e].n = exec[e].n
                             /\ exec'[e].outcome = exec[e].outcome
                             /\ exec'[e].pc = exec[e].pc \/ exec'[e].pc = "finished"
                                  \/ exec[e].pc = "claimed"
  PROVE  HInv'
  <1>1. RowsOfAttempts'
    BY DEF HInv, RowsOfAttempts
  <1>4. OutcomesTold'
    BY DEF HInv, OutcomesTold, ResultOf, ClosedWithLater
  <1>5. ResultsKnown'
    BY DEF HInv, ResultsKnown
  <1>2. SuccessRecorded'
    BY DEF HInv, SuccessRecorded
  <1>3. OwnRowOpen'
    BY DEF HInv, OwnRowOpen
  <1> QED
    BY <1>1, <1>2, <1>3, <1>4, <1>5 DEF HInv

\* A handler that returns adds its own attempt, whose row is open, and which
\* is at work in no other slot.
LEMMA ReturnKeepsHistory ==
  ASSUME IInv, HInv, NEW e \in Execs, HandlerReturns(e)
  PROVE  HInv'
  <1> DEFINE j == exec[e].job
             n == exec[e].n
  <1>1. /\ exec[e].pc = "running" /\ jobs' = jobs /\ rows' = rows
        /\ returned' = returned \cup {<<j, n>>}
        /\ exec' = [exec EXCEPT ![e].pc = "finished", ![e].outcome = "succeeded"]
    BY DEF HandlerReturns
  <1>2. exec[e] \in ExecRecord /\ j \in Jobs /\ n \in 1..MaxAttempts
    BY <1>1, BusyShape
  <1>3. /\ exec'[e].pc = "finished" /\ exec'[e].outcome = "succeeded"
        /\ exec'[e].job = j /\ exec'[e].n = n
        /\ \A d \in Execs : d # e => exec'[d] = exec[d]
    BY <1>1, <1>2 DEF IInv, TypeOK, ExecRecord
  <1>4. rows[j][n].open /\ rows[j][n].worker = WorkerOf[e] /\ rows[j][n].status = "leased"
    BY <1>1, <1>2 DEF HInv, OwnRowOpen, RowsOfAttempts
  <1>5. n <= jobs[j].attempts
    BY <1>2, <1>4 DEF HInv, RowsOfAttempts
  <1> HIDE DEF j, n
  <1>6. \A d \in Execs : d # e /\ exec[d].pc # "idle" => exec[d].job # j \/ exec[d].n # n
    BY <1>4, WorkerAssumption DEF HInv, OwnRowOpen
  <1>7. RowsOfAttempts' /\ SuccessRecorded'
    BY <1>1 DEF HInv, RowsOfAttempts, SuccessRecorded
  <1>8. OutcomesTold'
    <2> SUFFICES ASSUME NEW i \in Jobs, NEW k \in 1..MaxAttempts, rows[i][k].status \in Outcome
                 PROVE  rows'[i][k].status = ResultOf(i, k)' \/ ClosedWithLater(i, k)'
      BY <1>1 DEF OutcomesTold
    <2>1. i # j \/ k # n
      BY <1>4
    <2>2. <<i, k>> \in returned' <=> <<i, k>> \in returned
      BY <1>1, <2>1
    <2> QED
      BY <1>1, <2>2 DEF HInv, OutcomesTold, ResultOf, ClosedWithLater
  <1>9. ResultsKnown'
    <2>1. ASSUME NEW d \in Execs, exec'[d].pc # "idle"
          PROVE  /\ <<exec'[d].job, exec'[d].n>> \in returned' <=> exec'[d].outcome = "succeeded"
                 /\ exec'[d].pc \in {"claimed", "running"} => exec'[d].outcome = "failed"
      <3>1. CASE d = e
        BY <1>1, <1>3, <3>1
      <3>2. CASE d # e
        <4>1. exec'[d] = exec[d] /\ exec[d].pc # "idle"
          BY <1>3, <2>1, <3>2
        <4>2. <<exec[d].job, exec[d].n>> # <<j, n>>
          BY <1>6, <3>2, <4>1
        <4>3. <<exec[d].job, exec[d].n>> \in returned' <=> <<exec[d].job, exec[d].n>> \in returned
          BY <1>1, <4>2
        <4> QED
          BY <4>1, <4>3 DEF HInv, ResultsKnown
      <3> QED
        BY <3>1, <3>2
    <2>2. ASSUME NEW i \in Jobs, NEW k \in 1..MaxAttempts, <<i, k>> \in returned'
          PROVE  k <= jobs'[i].attempts
      BY <1>1, <1>5, <2>2 DEF HInv, ResultsKnown
    <2> QED
      BY <2>1, <2>2 DEF ResultsKnown
  <1>10. OwnRowOpen'
    BY <1>1, <1>3, <1>4 DEF HInv, OwnRowOpen
  <1> QED
    BY <1>7, <1>8, <1>9, <1>10 DEF HInv

\* A claim opens the row of the attempt after the last, which no other
\* execution is at.
LEMMA ClaimKeepsHistory ==
  ASSUME IInv, HInv, NEW e \in Execs, NEW j \in Jobs, ClaimNextJob(e, j)
  PROVE  HInv'
  <1> DEFINE table == RecoverExpiredLeases
             n == jobs[j].attempts + 1
             row == [worker |-> WorkerOf[e], status |-> "leased", open |-> TRUE]
  <1>1. /\ table \in [Jobs -> JobRecord]
        /\ \A i \in Jobs : Budget(table[i]) /\ table[i].attempts = jobs[i].attempts
    BY RecoveryShape
  <1>2. \A i \in Jobs : table[i].status = "succeeded" => jobs[i].status = "succeeded"
    BY DEF RecoverExpiredLeases, Recovered, Released, IInv, TypeOK, JobRecord
  <1>3. /\ table[j].status = "queued"
        /\ jobs' = [table EXCEPT ![j] = Leased(table[j], WorkerOf[e])]
        /\ rows' = [rows EXCEPT ![j][n] = row]
        /\ exec' = [exec EXCEPT ![e] = [pc |-> "claimed", job |-> j, n |-> n, outcome |-> "failed"]]
    BY <1>1 DEF ClaimNextJob, ClaimOrder, Claimable
  <1>4. n \in 1..MaxAttempts /\ jobs[j].attempts \in Nat /\ \A i \in Jobs : jobs[i].attempts \in Nat
    BY <1>1, <1>3, MaxAttemptsAssumption DEF Budget, JobRecord
  <1>5. /\ \A i \in Jobs : i # j => jobs'[i] = table[i]
        /\ jobs'[j].status = "leased" /\ jobs'[j].attempts = n
    BY <1>1, <1>3 DEF Leased, JobRecord
  <1>6. /\ rows'[j][n] = row
        /\ \A i \in Jobs : \A k \in 1..MaxAttempts : i # j \/ k # n => rows'[i][k] = rows[i][k]
    BY <1>3, <1>4 DEF IInv, TypeOK
  <1> HIDE DEF table, n
  <1>7. RowsOfAttempts'
    <2> SUFFICES ASSUME NEW i \in Jobs, NEW k \in 1..MaxAttempts
                 PROVE  /\ rows'[i][k].status # "none" <=> k <= jobs'[i].attempts
                        /\ rows'[i][k].open <=> rows'[i][k].status = "leased"
      BY DEF RowsOfAttempts
    <2>1. CASE i # j
      BY <1>1, <1>5, <1>6, <2>1 DEF HInv, RowsOfAttempts
    <2>2. CASE i = j /\ k = n
      BY <1>4, <1>5, <1>6, <2>2
    <2>3. CASE i = j /\ k # n
      <3>1. rows'[i][k] = rows[i][k] /\ jobs'[i].attempts = n
        BY <1>5, <1>6, <2>3
      <3>2. k <= n <=> k <= jobs[j].attempts
        BY <1>4, <2>3 DEF n
      <3> QED
        BY <2>3, <3>1, <3>2 DEF HInv, RowsOfAttempts
    <2> QED
      BY <2>1, <2>2, <2>3
  <1>8. SuccessRecorded'
    <2> SUFFICES ASSUME NEW i \in Jobs, jobs'[i].status = "succeeded"
                 PROVE  /\ jobs'[i].attempts \in 1..MaxAttempts
                        /\ rows'[i][jobs'[i].attempts].status = "succeeded"
                        /\ ~rows'[i][jobs'[i].attempts].open
      BY DEF SuccessRecorded
    <2>1. i # j /\ jobs[i].status = "succeeded" /\ jobs'[i].attempts = jobs[i].attempts
      BY <1>1, <1>2, <1>5
    <2> QED
      BY <1>6, <2>1 DEF HInv, SuccessRecorded
  <1>9. OwnRowOpen'
    <2> SUFFICES ASSUME NEW d \in Execs, exec'[d].pc # "idle"
                 PROVE  /\ rows'[exec'[d].job][exec'[d].n].open
                        /\ rows'[exec'[d].job][exec'[d].n].worker = WorkerOf[d]
      BY DEF OwnRowOpen
    <2>1. CASE d = e
      BY <1>3, <1>6, <2>1 DEF IInv, TypeOK
    <2>2. CASE d # e
      <3>1. exec'[d] = exec[d] /\ exec[d].job \in Jobs /\ exec[d].n \in 1..MaxAttempts
        BY <1>3, <2>2, BusyShape DEF IInv, TypeOK
      <3>2. rows[exec[d].job][exec[d].n].open /\ rows[exec[d].job][exec[d].n].worker = WorkerOf[d]
        BY <3>1 DEF HInv, OwnRowOpen
      <3>3. exec[d].n <= jobs[exec[d].job].attempts
        BY <3>1, <3>2 DEF HInv, RowsOfAttempts
      <3>4. exec[d].job # j \/ exec[d].n # n
        BY <1>4, <3>1, <3>3 DEF n
      <3> QED
        BY <1>6, <3>1, <3>2, <3>4
    <2> QED
      BY <2>1, <2>2
  <1>10. returned' = returned
    BY DEF ClaimNextJob
  <1>11. \A k \in 1..MaxAttempts : k >= n => rows[j][k].status = "none" /\ <<j, k>> \notin returned
    BY <1>4 DEF HInv, RowsOfAttempts, ResultsKnown, n
  <1>12. OutcomesTold'
    <2> SUFFICES ASSUME NEW i \in Jobs, NEW k \in 1..MaxAttempts, rows'[i][k].status \in Outcome
                 PROVE  rows'[i][k].status = ResultOf(i, k)' \/ ClosedWithLater(i, k)'
      BY DEF OutcomesTold
    <2>1. rows'[i][k] = rows[i][k]
      BY <1>6
    <2>2. ResultOf(i, k)' = ResultOf(i, k)
      BY <1>10 DEF ResultOf
    <2>3. CASE rows[i][k].status = ResultOf(i, k)
      BY <2>1, <2>2, <2>3
    <2>4. CASE ClosedWithLater(i, k)
      <3>1. PICK m \in (k + 1)..MaxAttempts :
                rows[i][m].worker = rows[i][k].worker /\ rows[i][m].status = rows[i][k].status
        BY <2>4 DEF ClosedWithLater
      <3>2. m \in 1..MaxAttempts /\ rows[i][m].status # "none"
        BY <2>1, <3>1, MaxAttemptsAssumption
      <3>5. rows[j][n].status = "none"
        <4>1. n >= n
          BY <1>4
        <4> QED
          BY <1>4, <1>11, <4>1
      <3>4. i # j \/ m # n
        BY <3>2, <3>5
      <3>3. rows'[i][m] = rows[i][m]
        BY <1>6, <3>2, <3>4
      <3> QED
        BY <2>1, <3>1, <3>3 DEF ClosedWithLater
    <2> QED
      BY <2>1, <2>3, <2>4 DEF HInv, OutcomesTold
  <1>13. ResultsKnown'
    <2>1. ASSUME NEW d \in Execs, exec'[d].pc # "idle"
          PROVE  /\ <<exec'[d].job, exec'[d].n>> \in returned' <=> exec'[d].outcome = "succeeded"
                 /\ exec'[d].pc \in {"claimed", "running"} => exec'[d].outcome = "failed"
      <3>1. CASE d = e
        <4>1. exec'[d] = [pc |-> "claimed", job |-> j, n |-> n, outcome |-> "failed"]
          BY <1>3, <3>1 DEF IInv, TypeOK
        <4> QED
          BY <1>4, <1>10, <1>11, <4>1
      <3>2. CASE d # e
        <4>1. exec'[d] = exec[d]
          BY <1>3, <3>2 DEF IInv, TypeOK
        <4> QED
          BY <1>10, <2>1, <4>1 DEF HInv, ResultsKnown
      <3> QED
        BY <3>1, <3>2
    <2>2. ASSUME NEW i \in Jobs, NEW k \in 1..MaxAttempts, <<i, k>> \in returned'
          PROVE  k <= jobs'[i].attempts
      <3>1. k <= jobs[i].attempts
        BY <1>10, <2>2 DEF HInv, ResultsKnown
      <3> QED
        BY <1>1, <1>4, <1>5, <3>1 DEF n
    <2> QED
      BY <2>1, <2>2 DEF ResultsKnown
  <1> QED
    BY <1>7, <1>8, <1>9, <1>12, <1>13 DEF HInv

\* A completion closes the rows of its own worker: its own attempt's, which is
\* the last, and nobody else's.
LEMMA CompleteKeepsHistory ==
  ASSUME IInv, HInv, NEW e \in Execs, Complete(e)
  PROVE  HInv'
  <1> DEFINE j == exec[e].job
             n == exec[e].n
             w == WorkerOf[e]
             s == exec[e].outcome
             rec == Completed(jobs[j], s)
             new == ClosedRows(j, w, s)
  <1>1. exec[e].pc = "finished" /\ exec' = [exec EXCEPT ![e] = IdleExec]
    BY DEF Complete
  <1>2. exec[e] \in ExecRecord /\ j \in Jobs /\ n \in 1..MaxAttempts /\ s \in Outcome
    BY <1>1, BusyShape DEF ExecRecord
  <1>3. /\ exec'[e].pc = "idle" /\ \A d \in Execs : d # e => exec'[d] = exec[d]
        /\ returned' = returned
    BY <1>1 DEF Complete, IInv, TypeOK, IdleExec
  <1>4. CASE ~Held(j, w)
    <2>1. jobs' = jobs /\ rows' = rows
      BY <1>4 DEF Complete, CompleteJob
    <2> QED
      BY <1>3, <2>1, RowsKept
  <1>5. CASE Held(j, w)
    <2>1. jobs' = [jobs EXCEPT ![j] = rec] /\ rows' = [rows EXCEPT ![j] = new]
      BY <1>5 DEF Complete, CompleteJob
    <2>2. jobs[j] \in JobRecord /\ jobs[j].attempts = n
      BY <1>1, <1>2, <1>5 DEF IInv, TypeOK, OwnerHoldsCurrentAttempt
    <2>3. rec.attempts = n /\ (rec.status = "succeeded" => s = "succeeded")
      BY <1>2, <2>2, CompletedShape
    <2>4. \A k \in 1..MaxAttempts :
            new[k] = IF rows[j][k].open /\ rows[j][k].worker = w
                     THEN [rows[j][k] EXCEPT !.status = s, !.open = FALSE] ELSE rows[j][k]
      BY DEF ClosedRows
    <2>5. \A k \in 1..MaxAttempts : rows[j][k] \in AttemptRow
      BY <1>2 DEF IInv, TypeOK
    <2>6. \A k \in 1..MaxAttempts :
            \/ /\ rows[j][k].open /\ rows[j][k].worker = w
               /\ new[k].status = s /\ new[k].open = FALSE
            \/ ~(rows[j][k].open /\ rows[j][k].worker = w) /\ new[k] = rows[j][k]
      <3> SUFFICES ASSUME NEW k \in 1..MaxAttempts, rows[j][k].open, rows[j][k].worker = w
                   PROVE  new[k].status = s /\ new[k].open = FALSE
        BY <2>4
      <3>1. new[k] = [rows[j][k] EXCEPT !.status = s, !.open = FALSE]
        BY <2>4
      <3>2. rows[j][k] \in AttemptRow
        BY <2>5
      <3> HIDE DEF new, s, w, j
      <3> QED
        BY <3>1, <3>2 DEF AttemptRow
    <2>7. rows[j][n].open /\ rows[j][n].worker = w
      BY <1>1, <1>2 DEF HInv, OwnRowOpen
    <2> HIDE DEF rec, new, j, n, s, w
    <2>8. /\ jobs'[j] = rec /\ \A i \in Jobs : i # j => jobs'[i] = jobs[i]
          /\ rows'[j] = new /\ \A i \in Jobs : i # j => rows'[i] = rows[i]
      BY <1>2, <2>1 DEF IInv, TypeOK
    <2>9. RowsOfAttempts'
      <3> SUFFICES ASSUME NEW i \in Jobs, NEW k \in 1..MaxAttempts
                   PROVE  /\ rows'[i][k].status # "none" <=> k <= jobs'[i].attempts
                          /\ rows'[i][k].open <=> rows'[i][k].status = "leased"
        BY DEF RowsOfAttempts
      <3>1. CASE i # j
        BY <2>8, <3>1 DEF HInv, RowsOfAttempts
      <3>2. CASE i = j
        <4>1. rows[j][k].status # "none" <=> k <= n
          BY <1>2, <2>2 DEF HInv, RowsOfAttempts
        <4>2. rows[j][k].open <=> rows[j][k].status = "leased"
          BY <1>2 DEF HInv, RowsOfAttempts
        <4>3. s # "none" /\ s # "leased"
          BY <1>2
        <4>4. /\ new[k].status # "none" <=> k <= n
              /\ new[k].open <=> new[k].status = "leased"
          BY <2>6, <4>1, <4>2, <4>3
        <4> QED
          BY <2>3, <2>8, <3>2, <4>4
      <3> QED
        BY <3>1, <3>2
    <2>10. SuccessRecorded'
      <3> SUFFICES ASSUME NEW i \in Jobs, jobs'[i].status = "succeeded"
                   PROVE  /\ jobs'[i].attempts \in 1..MaxAttempts
                          /\ rows'[i][jobs'[i].attempts].status = "succeeded"
                          /\ ~rows'[i][jobs'[i].attempts].open
        BY DEF SuccessRecorded
      <3>1. CASE i # j
        BY <2>8, <3>1 DEF HInv, SuccessRecorded
      <3>2. CASE i = j
        <4>1. new[n].status = s /\ new[n].open = FALSE
          BY <1>2, <2>6, <2>7
        <4> QED
          BY <1>2, <2>3, <2>8, <3>2, <4>1
      <3> QED
        BY <3>1, <3>2
    <2>11. OwnRowOpen'
      <3> SUFFICES ASSUME NEW d \in Execs, exec'[d].pc # "idle"
                   PROVE  /\ rows'[exec'[d].job][exec'[d].n].open
                          /\ rows'[exec'[d].job][exec'[d].n].worker = WorkerOf[d]
        BY DEF OwnRowOpen
      <3>1. d # e /\ exec'[d] = exec[d]
        BY <1>3
      <3>2. exec[d].job \in Jobs /\ exec[d].n \in 1..MaxAttempts
        BY <3>1, BusyShape
      <3>3. rows[exec[d].job][exec[d].n].open /\ rows[exec[d].job][exec[d].n].worker = WorkerOf[d]
        BY <3>1 DEF HInv, OwnRowOpen
      <3>4. WorkerOf[d] # w
        BY <3>1, WorkerAssumption DEF w
      <3>5. rows'[exec[d].job][exec[d].n] = rows[exec[d].job][exec[d].n]
        BY <2>6, <2>8, <3>2, <3>3, <3>4
      <3> QED
        BY <3>1, <3>3, <3>5
    <2>12. OutcomesTold'
      <3> SUFFICES ASSUME NEW i \in Jobs, NEW k \in 1..MaxAttempts, rows'[i][k].status \in Outcome
                   PROVE  rows'[i][k].status = ResultOf(i, k)' \/ ClosedWithLater(i, k)'
        BY DEF OutcomesTold
      <3>1. ResultOf(i, k)' = ResultOf(i, k)
        BY <1>3 DEF ResultOf
      <3>2. \A m \in 1..MaxAttempts : rows[i][m].status \in Outcome => rows'[i][m] = rows[i][m]
        BY <2>6, <2>8 DEF HInv, RowsOfAttempts
      <3>3. CASE rows[i][k].status \in Outcome
        <4>1. rows'[i][k] = rows[i][k]
          BY <3>2, <3>3
        <4>2. CASE rows[i][k].status = ResultOf(i, k)
          BY <3>1, <4>1, <4>2
        <4>3. CASE ClosedWithLater(i, k)
          <5>1. PICK m \in (k + 1)..MaxAttempts :
                    rows[i][m].worker = rows[i][k].worker /\ rows[i][m].status = rows[i][k].status
            BY <4>3 DEF ClosedWithLater
          <5>2. rows'[i][m] = rows[i][m]
            BY <3>2, <3>3, <5>1, MaxAttemptsAssumption
          <5> QED
            BY <4>1, <5>1, <5>2 DEF ClosedWithLater
        <4> QED
          BY <3>3, <4>2, <4>3 DEF HInv, OutcomesTold
      <3>4. CASE rows[i][k].status \notin Outcome
        <4>1. /\ i = j /\ rows[j][k].open /\ rows[j][k].worker = w
              /\ new[k].status = s /\ new[k].worker = w
          <5>1. i = j /\ new[k] # rows[j][k]
            BY <2>8, <3>4
          <5>2. /\ rows[j][k].open /\ rows[j][k].worker = w /\ new[k].status = s
                /\ new[k] = [rows[j][k] EXCEPT !.status = s, !.open = FALSE]
            BY <2>4, <2>6, <5>1
          <5> QED
            BY <2>5, <5>1, <5>2 DEF AttemptRow
        <4>2. /\ new[n].status = s /\ new[n].worker = w
          <5>1. /\ new[n].status = s
                /\ new[n] = [rows[j][n] EXCEPT !.status = s, !.open = FALSE]
            BY <1>2, <2>4, <2>6, <2>7
          <5> QED
            BY <1>2, <2>5, <2>7, <5>1 DEF AttemptRow
        <4>3. CASE k = n
          <5>1. <<j, n>> \in returned <=> s = "succeeded"
            BY <1>1 DEF HInv, ResultsKnown, j, n, s
          <5> QED
            BY <1>2, <2>8, <3>1, <4>1, <4>3, <5>1 DEF ResultOf
        <4>4. CASE k # n
          <5>1. k <= n
            BY <1>2, <2>2, <4>1 DEF HInv, RowsOfAttempts
          <5>2. n \in (k + 1)..MaxAttempts
            BY <1>2, <4>4, <5>1
          <5> QED
            BY <2>8, <4>1, <4>2, <5>2 DEF ClosedWithLater
        <4> QED
          BY <4>3, <4>4
      <3> QED
        BY <3>3, <3>4
    <2>13. ResultsKnown'
      <3>1. ASSUME NEW d \in Execs, exec'[d].pc # "idle"
            PROVE  /\ <<exec'[d].job, exec'[d].n>> \in returned' <=> exec'[d].outcome = "succeeded"
                   /\ exec'[d].pc \in {"claimed", "running"} => exec'[d].outcome = "failed"
        <4>1. exec'[d] = exec[d]
          BY <1>3, <3>1
        <4> QED
          BY <1>3, <3>1, <4>1 DEF HInv, ResultsKnown
      <3>2. ASSUME NEW i \in Jobs, NEW k \in 1..MaxAttempts, <<i, k>> \in returned'
            PROVE  k <= jobs'[i].attempts
        <4>1. k <= jobs[i].attempts
          BY <1>3, <3>2 DEF HInv, ResultsKnown
        <4> QED
          BY <2>2, <2>3, <2>8, <4>1
      <3> QED
        BY <3>1, <3>2 DEF ResultsKnown
    <2> QED
      BY <2>9, <2>10, <2>11, <2>12, <2>13 DEF HInv
  <1> QED
    BY <1>4, <1>5

\* Every step keeps the history.
LEMMA NextKeepsHistory ==
  ASSUME IInv, HInv, [Next]_vars
  PROVE  HInv'
  <1>0. exec \in [Execs -> ExecRecord] /\ jobs \in [Jobs -> JobRecord]
    BY DEF IInv, TypeOK
  <1>1. ASSUME NEW e \in Execs, NEW j \in Jobs, ClaimNextJob(e, j) PROVE HInv'
    BY <1>1, ClaimKeepsHistory
  <1>2. ASSUME NEW e \in Execs, Complete(e) PROVE HInv'
    BY <1>2, CompleteKeepsHistory
  <1>3. ASSUME NEW e \in Execs, ClaimNothing(e) PROVE HInv'
    <2>1. jobs' = RecoverExpiredLeases /\ rows' = rows /\ exec' = exec /\ returned' = returned
      BY <1>3 DEF ClaimNothing
    <2>2. \A i \in Jobs : jobs'[i].attempts = jobs[i].attempts
      BY <2>1, RecoveryShape
    <2>3. \A i \in Jobs : jobs'[i].status = "succeeded" => jobs[i].status = "succeeded"
      BY <1>0, <2>1 DEF RecoverExpiredLeases, Recovered, Released, JobRecord
    <2> QED
      BY <2>1, <2>2, <2>3, RowsKept
  <1>4. ASSUME NEW e \in Execs,
               \/ StartHandler(e) \/ HandlerRaises(e) \/ RenewLease(e)
               \/ RenewRefused(e) \/ RenewRaises(e) \/ Escapes(e) \/ Crash(e)
        PROVE  HInv'
    <2>1. rows' = rows /\ returned' = returned
      BY <1>4 DEF StartHandler, HandlerRaises, RenewLease, RenewRefused, RenewRaises, Escapes,
         Crash
    <2>2. \A i \in Jobs : jobs'[i].attempts = jobs[i].attempts /\ jobs'[i].status = jobs[i].status
      BY <1>0, <1>4 DEF StartHandler, HandlerRaises, RenewLease, RenewRefused,
         RenewRaises, Escapes, Crash, JobRecord
    <2>3. \A d \in Execs : \/ exec'[d].pc = "idle"
                           \/ /\ exec[d].pc # "idle"
                              /\ exec'[d].job = exec[d].job
                              /\ exec'[d].n = exec[d].n
                              /\ exec'[d].outcome = exec[d].outcome
                              /\ exec'[d].pc = exec[d].pc \/ exec'[d].pc = "finished"
                                   \/ exec[d].pc = "claimed"
      <3>1. CASE RenewLease(e)
        BY <3>1 DEF RenewLease
      <3>2. CASE Escapes(e) \/ Crash(e)
        BY <1>0, <3>2 DEF Escapes, Crash, IdleExec
      <3>3. CASE StartHandler(e) \/ HandlerRaises(e) \/ RenewRefused(e) \/ RenewRaises(e)
        BY <1>0, <3>3 DEF StartHandler, HandlerRaises, RenewRefused, RenewRaises, ExecRecord
      <3> QED
        BY <1>4, <3>1, <3>2, <3>3
    <2> QED
      BY <2>1, <2>2, <2>3, RowsKept
  <1>5. ASSUME NEW j \in Jobs, EnqueueJob(j) PROVE HInv'
    <2>1. \A i \in Jobs : /\ jobs'[i].attempts = jobs[i].attempts
                          /\ jobs'[i].status = "succeeded" => jobs[i].status = "succeeded"
      BY <1>0, <1>5 DEF EnqueueJob, JobRecord
    <2> QED
      BY <1>5, <2>1, RowsKept DEF EnqueueJob
  <1>6. ASSUME NEW o \in orphans, OrphanEnds(o) PROVE HInv'
    BY <1>6, RowsKept DEF OrphanEnds
  <1>7. CASE Tick
    <2>1. \A i \in Jobs : jobs'[i].attempts = jobs[i].attempts /\ jobs'[i].status = jobs[i].status
      BY <1>0, <1>7, AgedShape DEF Tick
    <2> QED
      BY <1>7, <2>1, RowsKept DEF Tick
  <1>8. CASE UNCHANGED vars
    BY <1>8, RowsKept DEF vars
  <1>9. ASSUME NEW e \in Execs, HandlerReturns(e) PROVE HInv'
    BY <1>9, ReturnKeepsHistory
  <1> QED
    BY <1>1, <1>2, <1>3, <1>4, <1>5, <1>6, <1>7, <1>8, <1>9 DEF Next, ExecStep

\* The attempt rows agree with the jobs and with who is at work, and a row that
\* was closed late carries the result of a later attempt of the same worker and
\* of nobody else, whatever late or lost calls close rows.
THEOREM HistoryIsTrue == Spec => []HistoryAgrees
  <1>1. Init => IInv /\ HInv
    <2> SUFFICES ASSUME Init PROVE HInv
      BY InitEstablishes
    <2>1. /\ \A j \in Jobs : jobs[j].status = "absent" /\ jobs[j].attempts = 0
          /\ \A j \in Jobs : \A n \in 1..MaxAttempts : rows[j][n] = NoRow
          /\ \A e \in Execs : exec[e].pc = "idle"
          /\ returned = {}
      BY DEF Init, Absent, IdleExec
    <2> QED
      BY <2>1 DEF HInv, RowsOfAttempts, OutcomesTold, ResultsKnown, SuccessRecorded, OwnRowOpen,
         NoRow
  <1>2. IInv /\ HInv /\ [Next]_vars => (IInv /\ HInv)'
    BY NextKeeps, NextKeepsHistory
  <1>3. IInv /\ HInv => HistoryAgrees
    BY DEF HInv, RowsOfAttempts, OutcomesTold, SuccessRecorded, OwnRowOpen, HistoryAgrees
  <1> QED
    BY <1>1, <1>2, <1>3, PTL DEF Spec
=============================================================================
