---------------------------- MODULE SkillWriter ----------------------------
(***************************************************************************)
(* The filesystem worker's writer of active skills: writer.apply jobs      *)
(* (services/writer.py) and rollback revocations (services/worker.py), for *)
(* one slug.  A transaction t applies the version staged for it, archives  *)
(* what it replaces under the id t, and records in the database how to     *)
(* undo it.                                                                *)
(*                                                                         *)
(* Slots are the handler tasks of one process: a task inside a stretch of  *)
(* file operations without an await keeps the others from running, but     *)
(* not the process from dying between two of them.  A task whose lease     *)
(* renewal raised is an orphan: it runs on, while its worker claims again. *)
(***************************************************************************)
EXTENDS Naturals, FiniteSets

CONSTANTS
  Txs,         \* evolution transactions; each names its staged skill version
  Slots,       \* places for handler tasks
  Concurrency, \* workers of the filesystem pool, each with one job at a time
  MaxAttempts, \* max_attempts of a writer.apply job
  MaxStops,    \* bound: crashes of the process and cancelled handlers
  MaxFaults,   \* bound: file operations and database calls that fail
  None

ASSUME NoneAssumption == None \notin Txs
ASSUME BoundAssumption ==
  /\ IsFiniteSet(Txs) /\ IsFiniteSet(Slots) /\ Slots # {} /\ Concurrency \in Nat \ {0}
  /\ MaxAttempts \in Nat \ {0} /\ MaxStops \in Nat /\ MaxFaults \in Nat

VARIABLES
  active,   \* the directory skills/autoskill/<slug>
  archive,  \* the directories archive/<slug>/<t>
  status,   \* evolution_transactions.status
  undo,     \* rollback action of the newest compiled_skill_file item
  jobs,     \* the writer.apply job of every transaction
  requests, \* status of the rollback revocation of every transaction
  rollback, \* status of the rollback_skill transaction of every revocation
  slots,    \* the local state of every handler task
  crossed,  \* history: a handler was started while another was running
  replaced, \* history: what was active when a transaction was first applied
  stops, faults

history == <<crossed, replaced>>
vars == <<active, archive, status, undo, jobs, requests, rollback, slots, history, stops, faults>>

\* A skill directory: the version in it and the archive that the manifest
\* beside it points to.  Absent also stands for an archive not begun.
Content == [ver : Txs, from : Txs \cup {None}]
Absent == [ver |-> None, from |-> None]
Partial == [ver |-> None, from |-> "partial"]
Complete(t) == archive[t] \in Content

\* before: previous_snapshot; aside: the directory under <slug>.previous.
\* orphan: nothing waits for the task any more.
IdleSlot ==
  [pc |-> "idle", tx |-> None, before |-> Absent, aside |-> Absent, orphan |-> FALSE]

\* Where a handler can be: between two file operations, or at an await.
InFileCode ==
  {"archiving", "archived", "ready", "swapped", "recovering", "restoring", "rbRestoring"}
InRollback == {"claimed", "rollingBack", "rbRestoring", "restored", "rolledBack"}
AtAwait == {"starting", "applying", "recording", "recorded", "recovered", "applied",
            "claimed", "rollingBack", "restored", "rolledBack"}

Init ==
  /\ active = Absent
  /\ archive = [t \in Txs |-> Absent]
  /\ status = [t \in Txs |-> "planned"]
  /\ undo = [t \in Txs |-> "none"]
  /\ jobs = [t \in Txs |-> [status |-> "queued", attempts |-> 0]]
  /\ requests = [t \in Txs |-> "none"]
  /\ rollback = [t \in Txs |-> "none"]
  /\ slots = [w \in Slots |-> IdleSlot]
  /\ crossed = FALSE
  /\ replaced = [t \in Txs |-> Partial]
  /\ stops = 0
  /\ faults = 0

-----------------------------------------------------------------------------
(* Slots, faults and the job queue as the writer sees it *)

\* The event loop runs w: no other slot is inside file code.
At(w, pc) ==
  /\ slots[w].pc = pc
  /\ \A v \in Slots \ {w} : slots[v].pc \notin InFileCode

GoTo(w, pc) == slots' = [slots EXCEPT ![w].pc = pc]
Release(w) == slots' = [slots EXCEPT ![w] = IdleSlot]

Fault == faults < MaxFaults /\ faults' = faults + 1

\* Fault: the attempts are not compared with max_attempts.
RetriedAlways(job) == [job EXCEPT !.status = "queued"]

\* complete_job of an execution that ended badly, or the recovery of its lease.
Retried(job) ==
  [job EXCEPT !.status = IF job.attempts < MaxAttempts THEN "queued" ELSE "failed"]

\* The worker records how the handler ended; of an orphan it learns nothing.
FailJob(w) ==
  /\ jobs' = IF slots[w].orphan THEN jobs ELSE [jobs EXCEPT ![slots[w].tx] = Retried(@)]
  /\ Release(w)

JobDone(w) ==
  /\ jobs' = IF slots[w].orphan THEN jobs ELSE [jobs EXCEPT ![slots[w].tx].status = "done"]
  /\ Release(w)

\* Fault: a failed rename leaves the directory that was moved aside there.
NotPutBack(w) == Absent

\* "if previous_tmp_path.exists() and not active_path.exists()" in both swaps
PutBack(w) == slots[w].aside

Database == <<status, undo, requests, rollback>>
Files == <<active, archive>>

\* A worker of the pool is free: orphans are not counted.
Busy == {v \in Slots : slots[v].pc # "idle"}
WorkerFree == Cardinality({v \in Busy : ~slots[v].orphan}) < Concurrency

Started == crossed' = (crossed \/ Busy # {})

ClaimApply(w, t) ==
  /\ At(w, "idle")
  /\ WorkerFree
  /\ jobs[t].status = "queued"
  /\ jobs' = [jobs EXCEPT ![t] = [status |-> "running", attempts |-> @.attempts + 1]]
  /\ slots' = [slots EXCEPT ![w] = [IdleSlot EXCEPT !.pc = "starting", !.tx = t]]
  /\ Started
  /\ UNCHANGED <<Files, Database, replaced, stops, faults>>

-----------------------------------------------------------------------------
(* writer.apply *)

\* Outside the activation window the job succeeds with nothing applied.
DeferApply(w) ==
  /\ At(w, "starting")
  /\ status' = [status EXCEPT ![slots[w].tx] = "staged"]
  /\ JobDone(w)
  /\ UNCHANGED <<Files, undo, requests, rollback, history, stops, faults>>

StartApply(w) ==
  /\ At(w, "starting")
  /\ status' = [status EXCEPT ![slots[w].tx] = "applying"]
  /\ GoTo(w, "applying")
  /\ UNCHANGED <<Files, undo, jobs, requests, rollback, history, stops, faults>>

\* Fault: an archive that exists is written again.
NeverTaken(t) == TRUE

ArchiveFree(t) == archive[t] = Absent

\* History: what t finds active when it is applied for the first time.
Replaces(t) ==
  replaced' = [replaced EXCEPT ![t] = IF @ = Partial THEN active ELSE @]

\* The directory of the snapshot is made first.
BeginArchive(w) ==
  LET t == slots[w].tx IN
  /\ At(w, "applying")
  /\ active # Absent
  /\ ArchiveFree(t)
  /\ archive' = [archive EXCEPT ![t] = Partial]
  /\ GoTo(w, "archiving")
  /\ Replaces(t)
  /\ UNCHANGED <<active, Database, jobs, crossed, stops, faults>>

NothingToArchive(w) ==
  /\ At(w, "applying")
  /\ active = Absent
  /\ GoTo(w, "ready")
  /\ Replaces(slots[w].tx)
  /\ UNCHANGED <<Files, Database, jobs, crossed, stops, faults>>

\* FileExistsError, and with it the status stays 'applying'
ArchiveExists(w) ==
  /\ At(w, "applying")
  /\ active # Absent
  /\ ~ArchiveFree(slots[w].tx)
  /\ FailJob(w)
  /\ UNCHANGED <<Files, Database, history, stops, faults>>

FinishArchive(w) ==
  /\ At(w, "archiving")
  /\ archive' = [archive EXCEPT ![slots[w].tx] = active]
  /\ slots' = [slots EXCEPT ![w].pc = "archived", ![w].before = active]
  /\ UNCHANGED <<active, Database, jobs, history, stops, faults>>

\* active_path.replace(previous_tmp_path)
Retire(w) ==
  /\ At(w, "archived")
  /\ active' = Absent
  /\ slots' = [slots EXCEPT ![w].pc = "ready", ![w].aside = active]
  /\ UNCHANGED <<archive, Database, jobs, history, stops, faults>>

\* apply_tmp_root.replace(active_path), with no manifest in it yet
Swap(w) ==
  /\ At(w, "ready")
  /\ active' = [ver |-> slots[w].tx, from |-> None]
  /\ GoTo(w, "swapped")
  /\ UNCHANGED <<archive, Database, jobs, history, stops, faults>>

\* A file operation up to the verification of the new directory fails; a
\* failed swap puts the retired directory back.
ApplyFails(w) ==
  /\ slots[w].pc \in {"applying", "archiving", "archived", "ready", "swapped"}
  /\ At(w, slots[w].pc)
  /\ Fault
  /\ active' = IF slots[w].pc = "ready" THEN PutBack(w) ELSE active
  /\ FailJob(w)
  /\ UNCHANGED <<archive, Database, history, stops>>

\* _write_active_artifact_manifest
WriteManifest(w) ==
  /\ At(w, "swapped")
  /\ active' = [active EXCEPT !.from = IF slots[w].before = Absent THEN None ELSE slots[w].tx]
  /\ GoTo(w, "recording")
  /\ UNCHANGED <<archive, Database, jobs, history, stops, faults>>

\* _apply_rollback_action
UndoOf(before) == IF before = Absent THEN "delete" ELSE "restore"

RecordItems(w) ==
  /\ At(w, "recording")
  /\ undo' = [undo EXCEPT ![slots[w].tx] = UndoOf(slots[w].before)]
  /\ GoTo(w, "recorded")
  /\ UNCHANGED <<Files, status, jobs, requests, rollback, history, stops, faults>>

MarkApplied(w) ==
  /\ At(w, "recorded")
  /\ status' = [status EXCEPT ![slots[w].tx] = "applied"]
  /\ GoTo(w, "applied")
  /\ UNCHANGED <<Files, undo, jobs, requests, rollback, history, stops, faults>>

FinishApply(w) ==
  /\ At(w, "applied")
  /\ JobDone(w)
  /\ UNCHANGED <<Files, Database, history, stops, faults>>

-----------------------------------------------------------------------------
(* _recover_failed_governance_apply: the manifest or a record failed *)

RecordFails(w) ==
  /\ slots[w].pc \in {"swapped", "recording", "recorded"}
  /\ At(w, slots[w].pc)
  /\ Fault
  /\ GoTo(w, "recovering")
  /\ UNCHANGED <<Files, Database, jobs, history, stops>>

\* The new directory is removed, or moved aside for the archived one.
BeginRecovery(w) ==
  /\ At(w, "recovering")
  /\ active' = Absent
  /\ slots' = [slots EXCEPT ![w].pc = IF slots[w].before = Absent THEN "recovered" ELSE "restoring",
                            ![w].aside = active]
  /\ UNCHANGED <<archive, Database, jobs, history, stops, faults>>

RestoreArchived(w) ==
  /\ At(w, "restoring")
  /\ active' = archive[slots[w].tx]
  /\ GoTo(w, "recovered")
  /\ UNCHANGED <<archive, Database, jobs, history, stops, faults>>

MarkFailed(w) ==
  /\ At(w, "recovered")
  /\ status' = [status EXCEPT ![slots[w].tx] = "failed"]
  /\ FailJob(w)
  /\ UNCHANGED <<Files, undo, requests, rollback, history, stops, faults>>

\* The recovery fails with the new directory back in place, or only the
\* status does; after MarkApplied, the record of the influencing memories.
HandlerFails(w) ==
  /\ slots[w].pc \in {"starting", "recovering", "restoring", "recovered", "applied"}
  /\ At(w, slots[w].pc)
  /\ Fault
  /\ active' = IF slots[w].pc = "restoring" THEN PutBack(w) ELSE active
  /\ FailJob(w)
  /\ UNCHANGED <<archive, Database, history, stops>>

-----------------------------------------------------------------------------
(* revocations.rollback *)

\* An operator or a failed canary asks for the rollback of t.
RequestRollback(t) ==
  /\ requests[t] = "none"
  /\ requests' = [requests EXCEPT ![t] = "queued"]
  /\ UNCHANGED <<Files, status, undo, jobs, rollback, slots, history, stops, faults>>

\* created_at is the start of the request's transaction: any queued one may be
\* the oldest that is visible.
ClaimRollback(w, t) ==
  /\ At(w, "idle")
  /\ WorkerFree
  /\ requests[t] = "queued"
  /\ requests' = [requests EXCEPT ![t] = "processing"]
  /\ slots' = [slots EXCEPT ![w] = [IdleSlot EXCEPT !.pc = "claimed", !.tx = t]]
  /\ Started
  /\ UNCHANGED <<Files, status, undo, jobs, rollback, replaced, stops, faults>>

StartRollback(w) ==
  /\ At(w, "claimed")
  /\ undo[slots[w].tx] # "none"
  /\ rollback' = [rollback EXCEPT ![slots[w].tx] = "rolling_back"]
  /\ GoTo(w, "rollingBack")
  /\ UNCHANGED <<Files, status, undo, jobs, requests, history, stops, faults>>

DeleteActive(w) ==
  /\ At(w, "rollingBack")
  /\ undo[slots[w].tx] = "delete"
  /\ active' = Absent
  /\ GoTo(w, "restored")
  /\ UNCHANGED <<archive, Database, jobs, history, stops, faults>>

\* rollback_active_skill: what is active is moved aside, not archived.
RetireForRollback(w) ==
  /\ At(w, "rollingBack")
  /\ undo[slots[w].tx] = "restore"
  /\ Complete(slots[w].tx)
  /\ active' = Absent
  /\ slots' = [slots EXCEPT ![w].pc = "rbRestoring", ![w].aside = active]
  /\ UNCHANGED <<archive, Database, jobs, history, stops, faults>>

\* Fault: the pointer of the active manifest is followed.
SnapshotOfActive(w) ==
  archive[IF slots[w].aside.from = None THEN slots[w].tx ELSE slots[w].aside.from]

\* archive_manifest_relative_path of the recorded rollback action
Snapshot(w) == archive[slots[w].tx]

RestoreSnapshot(w) ==
  /\ At(w, "rbRestoring")
  /\ active' = Snapshot(w)
  /\ GoTo(w, "restored")
  /\ UNCHANGED <<archive, Database, jobs, history, stops, faults>>

RecordRollback(w) ==
  /\ At(w, "restored")
  /\ rollback' = [rollback EXCEPT ![slots[w].tx] = "rolled_back"]
  /\ GoTo(w, "rolledBack")
  /\ UNCHANGED <<Files, status, undo, jobs, requests, history, stops, faults>>

EndRequest(w, outcome) ==
  /\ requests' = [requests EXCEPT ![slots[w].tx] = outcome]
  /\ Release(w)

CompleteRollback(w) ==
  /\ At(w, "rolledBack")
  /\ EndRequest(w, "completed")
  /\ UNCHANGED <<Files, status, undo, jobs, rollback, history, stops, faults>>

\* "no active compiled skill rollback action found"
NoRollback(w) ==
  /\ At(w, "claimed")
  /\ undo[slots[w].tx] = "none"
  /\ EndRequest(w, "failed")
  /\ UNCHANGED <<Files, status, undo, jobs, rollback, history, stops, faults>>

\* The snapshot does not verify, a file operation or a record fails.
RollbackFails(w) ==
  /\ slots[w].pc \in {"claimed", "rollingBack", "rbRestoring", "restored", "rolledBack"}
  /\ At(w, slots[w].pc)
  /\ Fault
  /\ active' = IF slots[w].pc = "rbRestoring" THEN PutBack(w) ELSE active
  /\ EndRequest(w, "failed")
  /\ UNCHANGED <<archive, status, undo, jobs, rollback, history, stops>>

-----------------------------------------------------------------------------
(* Crashes, cancelled and orphaned handlers *)

\* The slots of ws lose what they were doing; the leases of their jobs expire.
\* A revocation that was being processed is recovered by nobody.
Stop(ws) ==
  /\ stops < MaxStops
  /\ stops' = stops + 1
  /\ slots' = [w \in Slots |-> IF w \in ws THEN IdleSlot ELSE slots[w]]
  /\ jobs' = [t \in Txs |-> IF \E w \in ws : /\ slots[w].tx = t
                                       /\ slots[w].pc \notin InRollback
                                       /\ ~slots[w].orphan
                            THEN Retried(jobs[t]) ELSE jobs[t]]
  /\ UNCHANGED <<Files, Database, history, faults>>

Crash == (\E w \in Slots : slots[w].pc # "idle") /\ Stop(Slots)

\* The lease was lost: the handler is cancelled at its await.
Cancel(w) ==
  /\ slots[w].pc \in AtAwait
  /\ ~slots[w].orphan
  /\ At(w, slots[w].pc)
  /\ Stop({w})

\* The renewal raises: the job is recorded as failed, and the handler is
\* neither cancelled nor awaited.
RenewalRaises(w) ==
  /\ slots[w].pc \in AtAwait
  /\ ~slots[w].orphan
  /\ At(w, slots[w].pc)
  /\ Fault
  /\ jobs' = IF slots[w].pc \in InRollback THEN jobs
             ELSE [jobs EXCEPT ![slots[w].tx] = Retried(@)]
  /\ slots' = [slots EXCEPT ![w].orphan = TRUE]
  /\ UNCHANGED <<Files, Database, history, stops>>

Next ==
  \/ \E w \in Slots :
       \/ \E t \in Txs : ClaimApply(w, t) \/ ClaimRollback(w, t)
       \/ DeferApply(w) \/ StartApply(w)
       \/ BeginArchive(w) \/ NothingToArchive(w) \/ ArchiveExists(w) \/ FinishArchive(w)
       \/ Retire(w) \/ Swap(w) \/ ApplyFails(w) \/ WriteManifest(w)
       \/ RecordItems(w) \/ MarkApplied(w) \/ FinishApply(w)
       \/ RecordFails(w) \/ BeginRecovery(w) \/ RestoreArchived(w) \/ MarkFailed(w)
       \/ HandlerFails(w)
       \/ StartRollback(w) \/ DeleteActive(w) \/ RetireForRollback(w) \/ RestoreSnapshot(w)
       \/ RecordRollback(w) \/ CompleteRollback(w) \/ NoRollback(w) \/ RollbackFails(w)
       \/ Cancel(w) \/ RenewalRaises(w)
  \/ \E t \in Txs : RequestRollback(t)
  \/ Crash

Spec == Init /\ [][Next]_vars

-----------------------------------------------------------------------------
(* Properties *)

\* Every directory, row, job and slot has its declared shape.
TypeOK ==
  /\ active \in Content \cup {Absent}
  /\ archive \in [Txs -> Content \cup {Absent, Partial}]
  /\ status \in [Txs -> {"planned", "staged", "applying", "applied", "failed"}]
  /\ undo \in [Txs -> {"none", "delete", "restore"}]
  /\ jobs \in [Txs -> [status : {"queued", "running", "done", "failed"},
                       attempts : 0..MaxAttempts]]
  /\ requests \in [Txs -> {"none", "queued", "processing", "completed", "failed"}]
  /\ rollback \in [Txs -> {"none", "rolling_back", "rolled_back"}]
  /\ slots \in [Slots -> [pc : {"idle"} \cup InFileCode \cup AtAwait, tx : Txs \cup {None},
                          before : Content \cup {Absent}, aside : Content \cup {Absent},
                          orphan : BOOLEAN]]
  /\ \A w \in Slots : slots[w].pc # "idle" => slots[w].tx \in Txs
  /\ crossed \in BOOLEAN
  /\ replaced \in [Txs -> Content \cup {Absent, Partial}]
  /\ stops \in 0..MaxStops /\ faults \in 0..MaxFaults

Claimed(t) == requests[t] \notin {"none", "queued"}
Stored == {active} \cup {archive[t] : t \in Txs}

\* unified-implementation-specification.md:5448 "only after the rollback
\* pointer is valid": whatever was interrupted, retried or failed, an applied
\* transaction has its rollback recorded, a recorded restore has its complete
\* archive, and so has the pointer in every manifest that is active or archived.
RollbackPointersValid ==
  /\ \A t \in Txs : status[t] = "applied" => undo[t] # "none"
  /\ \A t \in Txs : undo[t] = "restore" => Complete(t)
  /\ \A c \in Stored : c \in Content /\ c.from # None => Complete(c.from)

\* A single handler at a time: until a rollback is claimed, the version of
\* every applied transaction is active or in a complete archive: no crash,
\* retry or recovery loses it.  A handler started beside another one (by a
\* concurrency above the default of one, or after a renewal that raised) can
\* swap the directories of the other.
AppliedVersionKept ==
  ~crossed /\ (\A t \in Txs : ~Claimed(t)) =>
    \A t \in Txs : status[t] = "applied" => \E c \in Stored : c.ver = t

\* A single handler at a time: errors that are handled leave no gap.  Without a
\* crash, and unless a rollback deleted it, a skill that has been applied is
\* there between file operations.
NoGapFromErrors ==
  /\ ~crossed
  /\ stops = 0
  /\ \A w \in Slots : slots[w].pc \notin InFileCode
  /\ \A t \in Txs : Claimed(t) => undo[t] # "delete"
  /\ \E t \in Txs : status[t] = "applied"
  => active # Absent

\* A single handler at a time: when a rollback is reported completed, what its
\* transaction replaced is active again, or nothing if it replaced nothing;
\* a failed rollback, a failed or later apply in between change nothing of
\* that.  An apply that was tried again is excepted: where the first attempt
\* retired the active version the second finds none, and records a deletion.
CompletedRollbackTookEffect ==
  [][\A t \in Txs :
       /\ requests[t] = "processing" /\ requests'[t] = "completed"
       /\ ~crossed /\ jobs[t].attempts = 1
       => rollback[t] = "rolled_back" /\ active = replaced[t]]_vars

\* The docstring of apply_staged_manifest_with_governance (writer.py:567):
\* "apply is fail-closed instead of leaving untracked exposure".
FailedApplyNotVisible ==
  \A t \in Txs : status[t] = "failed" => active.ver # t
=============================================================================
