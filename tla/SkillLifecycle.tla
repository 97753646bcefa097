--------------------------- MODULE SkillLifecycle ---------------------------
(***************************************************************************)
(* The lifecycle state of one skill and the files that OpenClaw loads for  *)
(* it, between the four that change them: the control API (freeze,         *)
(* unfreeze, canary results), the curation job, topology.apply_downstream  *)
(* jobs and the writer.                                                    *)
(*                                                                         *)
(* Every transaction on the lifecycle starts with ensure_workspace, whose  *)
(* upsert locks the workspace row until the commit: these transactions are *)
(* single steps, and they wait while a curation, which moves files inside  *)
(* its transaction, is between two of its steps.  The writer runs in       *)
(* another container and takes no lock.                                    *)
(*                                                                         *)
(* Of the files it is followed whether the skill's directory is there, not *)
(* what it holds: a snapshot that was copied, or a tree that was removed,  *)
(* while the writer put another version in its place may hold some files   *)
(* of each.                                                                *)
(***************************************************************************)
EXTENDS Naturals

CONSTANTS
  Ops,         \* accepted topology operations that touch the skill
  Target,      \* the state each gives it: active (output) or archived (subject)
  Jobs,        \* topology.apply_downstream jobs, enqueued by an operator
  OpOf,        \* the operation of each job
  MaxAttempts, \* max_attempts of those jobs
  Calls,       \* control calls that can be in progress at the same time
  Curators,    \* curation.run handlers that can be in progress at the same time
  UnfreezeTo   \* bound: the states an operator unfreezes to

ASSUME RoleAssumption ==
  Target \in [Ops -> {"active", "archived"}] /\ OpOf \in [Jobs -> Ops]
ASSUME BoundAssumption ==
  /\ MaxAttempts \in Nat \ {0}
  /\ UnfreezeTo \subseteq {"candidate", "active", "archived", "revoked"}

VARIABLES
  state,     \* skills.lifecycle_state
  active,    \* skills/autoskill/<slug> is there
  snapshots, \* the archive has a snapshot of the skill, its manifest written
  scored,    \* what the rollup of each curation.run saw, until its transaction begins
  curation,  \* the curation that holds the workspace row
  api,       \* where each control call is
  missed,    \* a call that froze the skill failed, and nothing was evicted since
  ops,       \* the topology operations
  jobs       \* their downstream jobs

filesVars == <<active, snapshots>>
vars == <<state, filesVars, scored, curation, api, missed, ops, jobs>>

\* "candidate" stands for every state before the first activation.
States == {"candidate", "active", "archived", "frozen", "revoked"}

\* The passes of a run.  "current" stands for the two that archive by the
\* current states, duplicates before "utility" and the active budget after it,
\* where nothing new is left for it to find.
Following == [promote |-> "current", current |-> "utility", utility |-> "none"]

\* saw: the state in the rollup; draft: the uncommitted lifecycle_state; snap:
\* there is a snapshot in hand; moved: the net move of the files by this run, or
\* "mixed" when the writer or a failure has had a part in it.
IdleCuration == [pc |-> "idle", pass |-> "promote", saw |-> "candidate",
                 draft |-> "candidate", snap |-> FALSE, moved |-> "none"]

\* The skill is active and installed.
Init ==
  /\ state = "active"
  /\ active = TRUE /\ snapshots = FALSE
  /\ scored = [c \in Curators |-> "none"]
  /\ curation = IdleCuration
  /\ api = [k \in Calls |-> "idle"]
  /\ missed = FALSE
  /\ ops = [o \in Ops |-> [status |-> "accepted", applies |-> 0]]
  /\ jobs = [d \in Jobs |-> [pc |-> "queued", attempts |-> 0, broken |-> FALSE]]

\* The workspace row is free: ensure_workspace returns at once.
RowFree == curation.pc = "idle"

-----------------------------------------------------------------------------
(* The writer: what the swaps and rollbacks of SkillWriter do to the directory *)

WriterUnchanged == UNCHANGED <<state, scored, api, missed, ops, jobs>>

\* A swap archives the directory and moves it aside, a rollback deletes it.
\* Neither reads the lifecycle state.
TakeAway ==
  /\ active
  /\ active' = FALSE
  /\ snapshots' \in {snapshots, TRUE}
  /\ curation' = IF RowFree THEN curation ELSE [curation EXCEPT !.moved = "mixed"]
  /\ WriterUnchanged

\* The new version, or the one a rollback brings back, is moved in.
MoveIn ==
  /\ ~active
  /\ active' = TRUE
  /\ WriterUnchanged
  /\ UNCHANGED <<snapshots, curation>>

-----------------------------------------------------------------------------
(* Control API *)

ControlUnchanged == UNCHANGED <<filesVars, scored, curation, ops, jobs>>

Call(k, s, pc) ==
  /\ RowFree
  /\ api[k] = "idle"
  /\ state' = s
  /\ api' = [api EXCEPT ![k] = pc]
  /\ ControlUnchanged
  /\ UNCHANGED missed

\* freeze_skill, from any state, with or without an evolution transaction
Freeze(k) ==
  \E pc \in {"governing", "evicting"} : Call(k, "frozen", pc)

\* record_canary_result of a critical result.  Any other leaves the state alone
\* and at most keeps a later curation from promoting.
RecordCritical(k) ==
  \E pc \in {"governing", "evicting"} : Call(k, "frozen", pc)

\* unfreeze_skill: to any state but frozen, from any state; nothing is evicted.
Unfreeze(k) ==
  \E s \in UnfreezeTo : Call(k, s, "idle")

\* A step of a call that leaves the lifecycle alone.
Proceed(k, from, to) ==
  /\ api[k] = from
  /\ api' = [api EXCEPT ![k] = to]
  /\ ControlUnchanged
  /\ UNCHANGED state

\* record_transaction_item, and for a critical result request_revocation: the
\* rollback is the writer's, now or later.
Record(k) ==
  /\ Proceed(k, "governing", "evicting")
  /\ UNCHANGED missed

\* broker_cache.invalidate, when the store's call has returned
Evict(k) ==
  /\ Proceed(k, "evicting", "idle")
  /\ missed' = FALSE

\* A governance call raises, or the transaction's commit after it took effect:
\* the route ends without the eviction.
CallFails(k) ==
  /\ Proceed(k, "governing", "idle") \/ Proceed(k, "evicting", "idle")
  /\ missed' = TRUE

ApiCrash ==
  /\ api' = [k \in Calls |-> "idle"]
  /\ missed' = FALSE
  /\ ControlUnchanged
  /\ UNCHANGED state

\* invalidate_objects for a revocation that reaches the skill
Revoke ==
  /\ RowFree
  /\ state # "revoked"
  /\ state' = "revoked"
  /\ ControlUnchanged
  /\ UNCHANGED <<api, missed>>

-----------------------------------------------------------------------------
(* curation.run *)

CurationUnchanged == UNCHANGED <<api, missed, ops, jobs>>

\* run_utility_rollup, in a transaction of its own
Rollup(c) ==
  /\ RowFree
  /\ scored[c] = "none"
  /\ scored' = [scored EXCEPT ![c] = state]
  /\ CurationUnchanged
  /\ UNCHANGED <<state, filesVars, curation>>

\* The transaction of the run whose rollup this was, and no other's with it
BeginCuration(c) ==
  /\ RowFree
  /\ scored[c] # "none"
  /\ scored' = [scored EXCEPT ![c] = "none"]
  /\ curation' = [IdleCuration EXCEPT !.pc = "promoting", !.saw = scored[c], !.draft = state]
  /\ CurationUnchanged
  /\ UNCHANGED <<state, filesVars>>

\* A step inside the transaction whose new local state is c.
Curate(pc, c) ==
  /\ curation.pc = pc
  /\ curation' = c
  /\ CurationUnchanged
  /\ UNCHANGED <<state, scored>>

\* To the next pass over the skills, or to the commit after the last.
Onward ==
  IF Following[curation.pass] = "none"
  THEN [curation EXCEPT !.pc = "committing"]
  ELSE [curation EXCEPT !.pc = "choosing", !.pass = Following[@]]

\* moved after the files were put into the active root, or taken from it
In(moved) == CASE moved = "out" -> "none" [] moved = "mixed" -> moved [] OTHER -> "in"
Out(moved) == CASE moved = "in" -> "none" [] moved = "mixed" -> moved [] OTHER -> "out"

\* Demand, canaries, evaluator and contracts permitting: NotPromoted is the
\* other outcome.
Promotable == curation.saw = "archived"

\* "active_path_already_present"
FilesPresent ==
  /\ Promotable /\ active
  /\ Curate("promoting", [curation EXCEPT !.pc = "promoted"])
  /\ UNCHANGED filesVars

FindSnapshot ==
  /\ Promotable /\ ~active /\ snapshots
  /\ Curate("promoting", [curation EXCEPT !.pc = "restoring", !.snap = TRUE])
  /\ UNCHANGED filesVars

NotPromoted ==
  /\ Curate("promoting", Onward)
  /\ UNCHANGED filesVars

\* rollback_active_skill: what has appeared meanwhile is replaced and removed.
Restore ==
  /\ Curate("restoring", [curation EXCEPT !.pc = "promoted", !.moved = In(@)])
  /\ active' = TRUE
  /\ UNCHANGED snapshots

\* Fault: the state is set whatever it was.
FromAnyState(s) == TRUE

\* "AND lifecycle_state = $3" of _set_lifecycle_state
FromState(s) == curation.draft = s

Promote ==
  /\ FromState("archived")
  /\ Curate("promoted", [Onward EXCEPT !.draft = "active", !.snap = FALSE])
  /\ UNCHANGED filesVars

\* The state has changed since the rollup: restored files are archived again.
PromotionRefused ==
  /\ ~FromState("archived")
  /\ Curate("promoted", IF curation.snap THEN [curation EXCEPT !.pc = "copying"] ELSE Onward)
  /\ UNCHANGED filesVars

\* _archive_low_utility goes by the rollup, the other two by the current state.
Chosen == IF curation.pass = "utility" THEN curation.saw = "active" ELSE curation.draft = "active"

ChooseSkill ==
  /\ Chosen
  /\ Curate("choosing", [curation EXCEPT !.pc = "copying", !.snap = FALSE])
  /\ UNCHANGED filesVars

NotChosen ==
  /\ Curate("choosing", Onward)
  /\ UNCHANGED filesVars

\* "already_absent"; a refused promotion has nothing more to do.
NothingToCopy ==
  /\ ~active
  /\ Curate("copying", IF curation.pass = "promote" THEN Onward
                       ELSE [curation EXCEPT !.pc = "removed", !.snap = FALSE])
  /\ UNCHANGED filesVars

\* archive_active_skill, to its last step, the manifest
Copy ==
  /\ active
  /\ Curate("copying", [curation EXCEPT !.pc = "removing", !.snap = TRUE])
  /\ snapshots' = TRUE
  /\ UNCHANGED active

\* _remove_path, to its last step, the rmdir: whatever is there by now
Remove ==
  /\ LET moved == IF active THEN Out(curation.moved) ELSE curation.moved IN
       Curate("removing", IF curation.pass = "promote"
                          THEN [Onward EXCEPT !.moved = moved]
                          ELSE [curation EXCEPT !.pc = "removed", !.moved = moved])
  /\ active' = FALSE
  /\ UNCHANGED snapshots

Archive ==
  /\ FromState("active")
  /\ Curate("removed", [Onward EXCEPT !.draft = "archived"])
  /\ UNCHANGED filesVars

\* Fault: a refused archival leaves the files where they are.
NotPutBack == FALSE

\* _restore_files_after_failed_archive: what was archived
PutBack == curation.snap

\* The state has changed since the rollup: the files are put back.
ArchiveRefused ==
  /\ ~FromState("active")
  /\ Curate("removed", [Onward EXCEPT !.moved = IF PutBack THEN In(@) ELSE @])
  /\ active' = (active \/ PutBack)
  /\ UNCHANGED snapshots

\* A file operation fails, on its own or because the writer was there first, and
\* the skill is left alone ("blocked").  A failed swap has put back what it moved
\* aside; a tree that is removed in part is still there.
FilesFail ==
  /\ \E pc \in {"restoring", "copying", "removing", "removed"} :
       /\ pc = "removed" => ~FromState("active") /\ PutBack
       /\ Curate(pc, [Onward EXCEPT !.moved = "mixed"])
  /\ UNCHANGED filesVars

Commit ==
  /\ curation.pc = "committing"
  /\ state' = curation.draft
  /\ curation' = IdleCuration
  /\ CurationUnchanged
  /\ UNCHANGED <<filesVars, scored>>

\* A statement raises: the transaction is rolled back, the files stay moved.
CurationFails ==
  /\ ~RowFree
  /\ curation' = IdleCuration
  /\ CurationUnchanged
  /\ UNCHANGED <<state, filesVars, scored>>

CurationCrash ==
  /\ curation' = IdleCuration
  /\ scored' = [c \in Curators |-> "none"]
  /\ CurationUnchanged
  /\ UNCHANGED <<state, filesVars>>

-----------------------------------------------------------------------------
(* Topology *)

TopologyUnchanged ==
  UNCHANGED <<filesVars, scored, curation, api, missed>>

\* apply_operation: its trials have passed
ApplyOperation(o) ==
  /\ RowFree
  /\ ops[o].status = "accepted"
  /\ ops' = [ops EXCEPT ![o].status = "applied"]
  /\ TopologyUnchanged
  /\ UNCHANGED <<state, jobs>>

\* Fault: the plan's own status is not looked at.
OperationApplied(o) == ops[o].status # "accepted"

\* _topology_downstream_blockers: the operation is applied, its plan is not.
Unblocked(o) == ops[o].status = "applied"

\* "lifecycle_state NOT IN ('deleted', 'frozen', 'revoked')"
HeldBack == state \in {"frozen", "revoked"}

\* An operator enqueues a job for an operation that is applied.
Claimable(d) == jobs[d].pc = "queued" /\ ops[OpOf[d]].status # "accepted"

Claimed(job, pc) == [job EXCEPT !.pc = pc, !.attempts = @ + 1]

\* The claim of the job and apply_downstream_actions, its first step; no files
\* are moved.
ApplyDownstream(d) ==
  LET o == OpOf[d] IN
  /\ Claimable(d)
  /\ RowFree
  /\ Unblocked(o)
  /\ state' = IF HeldBack THEN state ELSE Target[o]
  /\ ops' = [ops EXCEPT ![o].status = "downstream", ![o].applies = @ + 1]
  /\ jobs' = [jobs EXCEPT ![d] = Claimed(@, "governing")]
  /\ TopologyUnchanged

\* Fault: a failed job is queued again whatever its attempts.
RetriedForever(job) == [job EXCEPT !.pc = "queued"]

\* fail_job
Retried(job) == [job EXCEPT !.pc = IF job.attempts < MaxAttempts THEN "queued" ELSE "failed"]

DownstreamBlocked(d) ==
  /\ Claimable(d)
  /\ RowFree
  /\ ~Unblocked(OpOf[d])
  /\ jobs' = [jobs EXCEPT ![d] = Retried(Claimed(@, "queued"))]
  /\ TopologyUnchanged
  /\ UNCHANGED <<state, ops>>

\* _record_topology_downstream_governance
Govern(d) ==
  /\ jobs[d].pc = "governing"
  /\ ops' = [ops EXCEPT ![OpOf[d]].status = "governed"]
  /\ jobs' = [jobs EXCEPT ![d].pc = "invalidating"]
  /\ TopologyUnchanged
  /\ UNCHANGED state

\* _invalidate_topology_runtime_objects
Invalidate(d) ==
  /\ jobs[d].pc = "invalidating"
  /\ ops' = [ops EXCEPT ![OpOf[d]].status = "invalidated"]
  /\ jobs' = [jobs EXCEPT ![d].pc = "done"]
  /\ TopologyUnchanged
  /\ UNCHANGED state

RunningDownstream == {d \in Jobs : jobs[d].pc \in {"governing", "invalidating"}}

\* broken: the job failed, or died, after its plan took effect.
Broken(job) == [Retried(job) EXCEPT !.broken = TRUE]

DownstreamFails(d) ==
  /\ d \in RunningDownstream
  /\ jobs' = [jobs EXCEPT ![d] = Broken(@)]
  /\ TopologyUnchanged
  /\ UNCHANGED <<state, ops>>

DownstreamCrash ==
  /\ RunningDownstream # {}
  /\ jobs' = [d \in Jobs |-> IF d \in RunningDownstream THEN Broken(jobs[d]) ELSE jobs[d]]
  /\ TopologyUnchanged
  /\ UNCHANGED <<state, ops>>

-----------------------------------------------------------------------------

WriterNext == TakeAway \/ MoveIn

\* The steps of the API's process that leave its cache of hints alone.
ControlNext ==
  \/ \E k \in Calls : \/ Freeze(k) \/ RecordCritical(k) \/ Unfreeze(k)
                       \/ Record(k) \/ CallFails(k)
  \/ Revoke

CurationNext ==
  \/ \E c \in Curators : Rollup(c) \/ BeginCuration(c)
  \/ FilesPresent \/ FindSnapshot \/ NotPromoted \/ Restore \/ Promote \/ PromotionRefused
  \/ ChooseSkill \/ NotChosen \/ NothingToCopy \/ Copy \/ Remove \/ Archive \/ ArchiveRefused
  \/ FilesFail \/ Commit \/ CurationFails \/ CurationCrash

TopologyNext ==
  \/ \E o \in Ops : ApplyOperation(o)
  \/ \E d \in Jobs : \/ ApplyDownstream(d) \/ DownstreamBlocked(d)
                     \/ Govern(d) \/ Invalidate(d) \/ DownstreamFails(d)
  \/ DownstreamCrash

-----------------------------------------------------------------------------
(* Properties *)

CurationRecord ==
  [pc : {"idle", "promoting", "restoring", "promoted", "choosing", "copying", "removing",
         "removed", "committing"},
   pass : DOMAIN Following, saw : States, draft : States, snap : BOOLEAN,
   moved : {"none", "in", "out", "mixed"}]
OpRecord == [status : {"accepted", "applied", "downstream", "governed", "invalidated"},
             applies : Nat]
JobRecord == [pc : {"queued", "governing", "invalidating", "done", "failed"},
              attempts : 0..MaxAttempts, broken : BOOLEAN]

\* Every row, directory, job and call has its declared shape.
LifecycleTypeOK ==
  /\ state \in States
  /\ active \in BOOLEAN /\ snapshots \in BOOLEAN
  /\ scored \in [Curators -> States \cup {"none"}]
  /\ curation \in CurationRecord
  /\ api \in [Calls -> {"idle", "governing", "evicting"}]
  /\ missed \in BOOLEAN
  /\ ops \in [Ops -> OpRecord]
  /\ jobs \in [Jobs -> JobRecord]

\* db/topology.py:1728 and db/utility.py:1228: what is frozen or revoked is not
\* brought back by a topology operation, nor by a curation that worked from an
\* older view of it; only unfreeze_skill lifts it.  That call takes any target,
\* where unified-implementation-specification.md:6516 lets a frozen skill go to
\* a staged repair, the archive or revocation and a revoked one nowhere: the
\* property says who may lift, not to what.
OnlyOperatorLifts ==
  [][HeldBack /\ ~HeldBack' => \E k \in Calls : Unfreeze(k)]_vars

\* A curation commits files and states that agree: whatever happened since its
\* rollup, it has taken away the files of archived skills only, and brought
\* back those of active ones only.  The exceptions are runs in which one of the
\* run's own file operations failed or the writer took the directory away.
FilesFollowState ==
  curation.pc = "committing" =>
    /\ curation.moved = "out" => curation.draft = "archived"
    /\ curation.moved = "in" => curation.draft = "active"

\* However many jobs an operation is given, and however often they are tried,
\* its plan takes effect once; and what took effect is being recorded and
\* invalidated, or has been, unless the job that did it failed or died.
DownstreamOnce ==
  \A o \in Ops :
    /\ ops[o].applies <= 1
    /\ ops[o].status \in {"downstream", "governed"} =>
         \E d \in Jobs : OpOf[d] = o /\ (d \in RunningDownstream \/ jobs[d].broken)
=============================================================================
