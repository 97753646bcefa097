------------------------ MODULE SkillExposureProofs ------------------------
(***************************************************************************)
(* Safety of one skill's lifecycle, its files and the hints about it, for  *)
(* any operations, jobs, requests and bounds: files agree with states, a   *)
(* downstream plan takes effect once, only an operator lifts a freeze, and *)
(* a freeze that has returned has taken the skill out of the hint cache.   *)
(***************************************************************************)
EXTENDS SkillExposure, TLAPS

\* A job that is queued has attempts left.
AttemptsLeft == \A d \in Jobs : jobs[d].pc = "queued" => jobs[d].attempts < MaxAttempts

\* The uncommitted state is the committed one, or curation has changed the one
\* of active and archived to the other.
DraftCurrent ==
  ~RowFree =>
    \/ curation.draft = state
    \/ {curation.draft, state} \subseteq {"active", "archived"}

\* Where each pass can be, and whether it has a snapshot in hand there.
PassShape ==
  /\ curation.pc \in {"idle", "promoting", "restoring", "promoted"} => curation.pass = "promote"
  /\ curation.pc \in {"choosing", "removed"} => curation.pass \in {"current", "utility"}
  /\ curation.pc \in {"idle", "promoting"} => ~curation.snap
  /\ curation.pc = "idle" => curation.moved = "none"
  /\ curation.pc \in {"restoring", "removing"} => curation.snap

\* What the pass for promotions has done to the files.
PromotionMoves ==
  /\ curation.pc \in {"promoting", "restoring"} => curation.moved \in {"none", "mixed"}
  /\ curation.pc = "restoring" => curation.saw = "archived"
  /\ curation.pc = "promoted" =>
       curation.moved \in (IF curation.snap THEN {"in", "mixed"} ELSE {"none", "mixed"})
  /\ curation.pc \in {"copying", "removing"} /\ curation.pass = "promote" =>
       curation.moved \in {"in", "mixed"}

\* What the pass that goes by the current states has done to them.
CurrentMoves ==
  curation.pass = "current" =>
    /\ curation.pc \in {"copying", "removing", "removed"} => curation.draft = "active"
    /\ curation.pc \in {"choosing", "copying", "removing"} => curation.moved # "out"
    /\ curation.pc = "removed" => curation.moved # "in"

\* What the pass that goes by the rollup has done to them.
UtilityMoves ==
  curation.pass = "utility" =>
    /\ curation.pc \in {"copying", "removing", "removed"} =>
         curation.saw = "active" /\ curation.moved # "in"
    /\ /\ curation.pc \in {"copying", "removing", "removed"}
       /\ curation.pc = "removed" => ~curation.snap
       /\ curation.moved = "out"
       => curation.draft = "archived"
    /\ curation.pc = "removed" /\ curation.snap => curation.moved \in {"out", "mixed"}

\* Between two passes the files agree with the uncommitted state; files that
\* the run has brought back, or is about to remove, are there.
MovesAgree ==
  /\ curation.pc \in {"choosing", "committing"} =>
       /\ curation.moved = "out" => curation.draft = "archived"
       /\ curation.moved = "in" => curation.draft = "active"
  /\ curation.moved = "in" => active /\ curation.saw = "archived"
  /\ curation.pc = "removing" /\ curation.moved # "mixed" => active

Moves == PromotionMoves /\ CurrentMoves /\ UtilityMoves /\ MovesAgree

\* A plan takes effect once, when its operation has been applied.
PlanOnce ==
  \A o \in Ops :
    /\ ops[o].status \in {"accepted", "applied"} => ops[o].applies = 0
    /\ ops[o].applies <= 1

\* What took effect is in the hands of a job until it is invalidated, or until
\* that job has failed.
RecordedByJob ==
  \A o \in Ops :
    ops[o].status \in {"downstream", "governed"} =>
      \E d \in Jobs : OpOf[d] = o /\ (d \in RunningDownstream \/ jobs[d].broken)

\* While the skill is frozen and no eviction is due or was missed, no answer
\* offers it but those that an eviction has met.
HintsEvicted ==
  state = "frozen" /\ (\A k \in Calls : api[k] = "idle") /\ ~missed =>
    cache # "offers" /\ \A r \in Requests : hints[r] # "offers"

IInv ==
  /\ TypeOK /\ AttemptsLeft /\ DraftCurrent /\ PassShape /\ Moves
  /\ PlanOnce /\ RecordedByJob /\ HintsEvicted

-----------------------------------------------------------------------------
(* What each part of the system leaves alone *)

\* The writer takes no lock and writes no database row.
LEMMA WriterFrame ==
  WriterNext => UNCHANGED <<state, scored, api, missed, ops, jobs>>
  BY DEF WriterNext, WriterUnchanged, TakeAway, MoveIn

\* The control API touches no files and no job.
LEMMA ControlFrame ==
  ControlNext => UNCHANGED <<filesVars, scored, curation, ops, jobs>>
  BY DEF ControlNext, ControlUnchanged, Freeze, RecordCritical, Unfreeze, Call, Proceed, Record,
     CallFails, Revoke

\* Curation knows neither the control calls nor topology.
LEMMA CurationFrame ==
  CurationNext => UNCHANGED <<api, missed, ops, jobs>>
  BY DEF CurationNext, CurationUnchanged, Curate, Rollup, BeginCuration, FilesPresent,
     FindSnapshot,
     NotPromoted, Restore, Promote, PromotionRefused, ChooseSkill, NotChosen, NothingToCopy, Copy,
     Remove, Archive, ArchiveRefused, FilesFail, Commit, CurationFails, CurationCrash

\* A downstream job touches no files.
LEMMA TopologyFrame ==
  TopologyNext => UNCHANGED <<filesVars, scored, curation, api, missed>>
  BY DEF TopologyNext, TopologyUnchanged, ApplyOperation, ApplyDownstream, DownstreamBlocked,
     Govern, Invalidate, DownstreamFails, DownstreamCrash

\* The broker reads the lifecycle and changes nothing of it but its own call.
LEMMA BrokerFrame ==
  BrokerNext => UNCHANGED <<state, filesVars, scored, curation, ops, jobs>>
  BY DEF BrokerNext, ControlUnchanged, Proceed, Retrieve, StoreHint, HintFails, Expire,
     EvictHints, Evict, ApiRestart, ApiCrash, vars

-----------------------------------------------------------------------------
(* Types *)

\* Where a run can be.
Places == {"idle", "promoting", "restoring", "promoted", "choosing", "copying", "removing",
           "removed", "committing"}

\* The run's record without the step that a pass ends with.
LEMMA OnwardFields ==
  ASSUME curation \in CurationRecord
  PROVE  /\ Onward \in CurationRecord
         /\ Onward.pc = IF curation.pass = "utility" THEN "committing" ELSE "choosing"
         /\ curation.pass = "promote" => Onward.pass = "current"
         /\ curation.pass # "promote" => Onward.pass = "utility"
         /\ Onward.saw = curation.saw /\ Onward.draft = curation.draft
         /\ Onward.snap = curation.snap /\ Onward.moved = curation.moved
  <1> DEFINE c == [curation EXCEPT !.pc = "committing"]
  <1> DEFINE d(pass) == [curation EXCEPT !.pc = "choosing", !.pass = pass]
  <1>1. curation.pass \in {"promote", "current", "utility"}
    BY DEF CurationRecord, Following
  <1>2. CASE curation.pass = "utility"
    <2>1. Onward = c
      BY <1>2 DEF Onward, Following
    <2> QED
      BY <1>2, <2>1 DEF CurationRecord
  <1>3. CASE curation.pass = "promote"
    <2>1. Onward = d("current")
      BY <1>3 DEF Onward, Following
    <2>2. "current" \in DOMAIN Following
      BY DEF Following
    <2> QED
      BY <1>3, <2>1, <2>2 DEF CurationRecord
  <1>4. CASE curation.pass = "current"
    <2>1. Onward = d("utility")
      BY <1>4 DEF Onward, Following
    <2>2. "utility" \in DOMAIN Following
      BY DEF Following
    <2> QED
      BY <1>4, <2>1, <2>2 DEF CurationRecord
  <1> QED
    BY <1>1, <1>2, <1>3, <1>4

\* A move of the files, and the move that undoes it, in a run's record.
LEMMA MovesTyped ==
  ASSUME NEW m \in {"none", "in", "out", "mixed"}
  PROVE  In(m) \in {"none", "in", "out", "mixed"} /\ Out(m) \in {"none", "in", "out", "mixed"}
  BY DEF In, Out

\* The ways in which a run's record changes keep its shape.
LEMMA CurationUpdates ==
  ASSUME NEW c \in CurationRecord, NEW pc \in Places,
         NEW s \in States, NEW v \in BOOLEAN, NEW m \in {"none", "in", "out", "mixed"}
  PROVE  /\ [c EXCEPT !.pc = pc] \in CurationRecord
         /\ [c EXCEPT !.moved = m] \in CurationRecord
         /\ \A seen \in States :
              [c EXCEPT !.pc = pc, !.saw = seen, !.draft = s] \in CurationRecord
         /\ [c EXCEPT !.pc = pc, !.draft = s] \in CurationRecord
         /\ [c EXCEPT !.pc = pc, !.snap = v] \in CurationRecord
         /\ [c EXCEPT !.pc = pc, !.moved = m] \in CurationRecord
         /\ [c EXCEPT !.draft = s] \in CurationRecord
         /\ [c EXCEPT !.draft = s, !.snap = v] \in CurationRecord
  BY DEF CurationRecord, Places

\* A run that has not begun.
LEMMA IdleTyped == IdleCuration \in CurationRecord
  BY DEF IdleCuration, CurationRecord, Following, States

\* The record of the run keeps its shape.
LEMMA CurationTyped == TypeOK /\ CurationNext => curation' \in CurationRecord
  <1> SUFFICES ASSUME TypeOK, CurationNext PROVE curation' \in CurationRecord
    OBVIOUS
  <1> USE DEF TypeOK, LifecycleTypeOK
  <1>1. ASSUME NEW c \in Curators, Rollup(c) PROVE curation' \in CurationRecord
    BY <1>1 DEF Rollup
  <1>2. ASSUME NEW c \in Curators, BeginCuration(c) PROVE curation' \in CurationRecord
    <2>1. scored[c] \in States
      BY <1>2 DEF BeginCuration
    <2> QED
      BY <1>2, <2>1, CurationUpdates, IdleTyped DEF BeginCuration, Places
  <1>3. CASE FilesPresent
    BY <1>3, CurationUpdates DEF FilesPresent, Curate, Places
  <1>4. CASE FindSnapshot
    BY <1>4, CurationUpdates DEF FindSnapshot, Curate, Places
  <1>5. CASE NotPromoted
    BY <1>5, CurationUpdates, OnwardFields DEF NotPromoted, Curate, Places
  <1>6. CASE Restore
    BY <1>6, CurationUpdates DEF Restore, Curate, In, Places
  <1>7. CASE Promote
    <2>1. Onward \in CurationRecord
      BY OnwardFields
    <2>2. [Onward EXCEPT !.draft = "active", !.snap = FALSE] \in CurationRecord
      BY <2>1 DEF CurationRecord, States
    <2> QED
      BY <1>7, <2>1, <2>2 DEF Promote, Curate
  <1>8. CASE PromotionRefused
    BY <1>8, CurationUpdates, OnwardFields DEF PromotionRefused, Curate, Places
  <1>9. CASE ChooseSkill
    BY <1>9, CurationUpdates DEF ChooseSkill, Curate, Places
  <1>10. CASE NotChosen
    BY <1>10, CurationUpdates, OnwardFields DEF NotChosen, Curate, Places
  <1>11. CASE NothingToCopy
    BY <1>11, CurationUpdates, OnwardFields DEF NothingToCopy, Curate, Places
  <1>12. CASE Copy
    BY <1>12, CurationUpdates DEF Copy, Curate, Places
  <1>13. CASE Remove
    <2> DEFINE m == IF active THEN Out(curation.moved) ELSE curation.moved
    <2>1. Onward \in CurationRecord
      BY OnwardFields
    <2>2. m \in {"none", "in", "out", "mixed"}
      BY MovesTyped DEF CurationRecord
    <2>3. \/ curation' = [Onward EXCEPT !.moved = m]
          \/ curation' = [curation EXCEPT !.pc = "removed", !.moved = m]
      BY <1>13 DEF Remove, Curate, CurationRecord
    <2> HIDE DEF m
    <2> QED
      BY <2>1, <2>2, <2>3 DEF CurationRecord, Places
  <1>14. CASE Archive
    <2>1. Onward \in CurationRecord
      BY OnwardFields
    <2>2. [Onward EXCEPT !.draft = "archived"] \in CurationRecord
      BY <2>1 DEF CurationRecord, States
    <2> QED
      BY <1>14, <2>1, <2>2 DEF Archive, Curate
  <1>15. CASE ArchiveRefused
    <2>1. Onward \in CurationRecord
      BY OnwardFields
    <2>2. In(Onward.moved) \in {"none", "in", "out", "mixed"}
      BY <2>1, MovesTyped DEF CurationRecord
    <2>3. \/ curation' = [Onward EXCEPT !.moved = Onward.moved]
          \/ curation' = [Onward EXCEPT !.moved = In(Onward.moved)]
      BY <1>15 DEF ArchiveRefused, Curate
    <2> QED
      BY <2>1, <2>2, <2>3 DEF CurationRecord
  <1>16. CASE FilesFail
    <2>1. Onward \in CurationRecord
      BY OnwardFields
    <2>2. curation' = [Onward EXCEPT !.moved = "mixed"]
      BY <1>16 DEF FilesFail, Curate
    <2> QED
      BY <2>1, <2>2 DEF CurationRecord
  <1>17. CASE Commit
    BY <1>17, IdleTyped DEF Commit
  <1>18. CASE CurationFails
    BY <1>18, IdleTyped DEF CurationFails
  <1>19. CASE CurationCrash
    BY <1>19, IdleTyped DEF CurationCrash
  <1> HIDE DEF TypeOK, LifecycleTypeOK
  <1> QED
    BY <1>1, <1>2, <1>3, <1>4, <1>5, <1>6, <1>7, <1>8, <1>9, <1>10, <1>11, <1>12, <1>13,
       <1>14, <1>15, <1>16, <1>17, <1>18, <1>19 DEF CurationNext

\* The writer keeps the shape of what it writes.
LEMMA WriterTypes == TypeOK /\ WriterNext => LifecycleTypeOK'
  <1> SUFFICES ASSUME TypeOK, WriterNext PROVE LifecycleTypeOK'
    OBVIOUS
  <1> USE DEF TypeOK, LifecycleTypeOK, WriterUnchanged
  <1>1. CASE TakeAway
    <2>1. curation' \in CurationRecord
      BY <1>1 DEF TakeAway, CurationRecord
    <2> QED
      BY <1>1, <2>1 DEF TakeAway
  <1>2. CASE MoveIn
    BY <1>2 DEF MoveIn
  <1> HIDE DEF TypeOK, LifecycleTypeOK, WriterUnchanged
  <1> QED
    BY <1>1, <1>2 DEF WriterNext

\* So does the control API.
LEMMA ControlTypes == TypeOK /\ ControlNext => LifecycleTypeOK'
  <1> SUFFICES ASSUME TypeOK, ControlNext PROVE LifecycleTypeOK'
    OBVIOUS
  <1> USE DEF TypeOK, LifecycleTypeOK
  <1>1. ASSUME NEW k \in Calls, Freeze(k) PROVE LifecycleTypeOK'
    BY <1>1 DEF Freeze, Call, ControlUnchanged, filesVars, States
  <1>2. ASSUME NEW k \in Calls, RecordCritical(k) PROVE LifecycleTypeOK'
    BY <1>2 DEF RecordCritical, Call, ControlUnchanged, filesVars, States
  <1>3. ASSUME NEW k \in Calls, Unfreeze(k) PROVE LifecycleTypeOK'
    BY <1>3, BoundAssumption DEF Unfreeze, Call, ControlUnchanged, filesVars, States
  <1>4. ASSUME NEW k \in Calls, Record(k) PROVE LifecycleTypeOK'
    BY <1>4 DEF Record, Proceed, ControlUnchanged, filesVars
  <1>5. ASSUME NEW k \in Calls, CallFails(k) PROVE LifecycleTypeOK'
    BY <1>5 DEF CallFails, Proceed, ControlUnchanged, filesVars
  <1>6. CASE Revoke
    BY <1>6 DEF Revoke, ControlUnchanged, filesVars, States
  <1> HIDE DEF TypeOK, LifecycleTypeOK
  <1> QED
    BY <1>1, <1>2, <1>3, <1>4, <1>5, <1>6 DEF ControlNext

\* So does curation.
LEMMA CurationTypes == TypeOK /\ CurationNext => LifecycleTypeOK'
  <1> SUFFICES ASSUME TypeOK, CurationNext, curation' \in CurationRecord
               PROVE  LifecycleTypeOK'
    BY CurationTyped
  <1> USE DEF TypeOK, LifecycleTypeOK
  <1>1. ASSUME NEW c \in Curators, Rollup(c) PROVE LifecycleTypeOK'
    BY <1>1 DEF Rollup, CurationUnchanged, filesVars
  <1>2. ASSUME NEW c \in Curators, BeginCuration(c) PROVE LifecycleTypeOK'
    BY <1>2 DEF BeginCuration, CurationUnchanged, filesVars
  <1>3. CASE FilesPresent
    BY <1>3 DEF FilesPresent, Curate, CurationUnchanged, filesVars
  <1>4. CASE FindSnapshot
    BY <1>4 DEF FindSnapshot, Curate, CurationUnchanged, filesVars
  <1>5. CASE NotPromoted
    BY <1>5 DEF NotPromoted, Curate, CurationUnchanged, filesVars
  <1>6. CASE Restore
    BY <1>6 DEF Restore, Curate, CurationUnchanged, CurationRecord
  <1>7. CASE Promote
    BY <1>7 DEF Promote, Curate, CurationUnchanged, filesVars
  <1>8. CASE PromotionRefused
    BY <1>8 DEF PromotionRefused, Curate, CurationUnchanged, filesVars
  <1>9. CASE ChooseSkill
    BY <1>9 DEF ChooseSkill, Curate, CurationUnchanged, filesVars
  <1>10. CASE NotChosen
    BY <1>10 DEF NotChosen, Curate, CurationUnchanged, filesVars
  <1>11. CASE NothingToCopy
    BY <1>11 DEF NothingToCopy, Curate, CurationUnchanged, filesVars
  <1>12. CASE Copy
    BY <1>12 DEF Copy, Curate, CurationUnchanged
  <1>13. CASE Remove
    BY <1>13 DEF Remove, Curate, CurationUnchanged
  <1>14. CASE Archive
    BY <1>14 DEF Archive, Curate, CurationUnchanged, filesVars
  <1>15. CASE ArchiveRefused
    BY <1>15 DEF ArchiveRefused, Curate, CurationUnchanged, CurationRecord, PutBack
  <1>16. CASE FilesFail
    BY <1>16 DEF FilesFail, Curate, CurationUnchanged, filesVars
  <1>17. CASE Commit
    BY <1>17 DEF Commit, CurationUnchanged, filesVars, CurationRecord
  <1>18. CASE CurationFails
    BY <1>18 DEF CurationFails, CurationUnchanged, filesVars
  <1>19. CASE CurationCrash
    BY <1>19 DEF CurationCrash, CurationUnchanged, filesVars
  <1> HIDE DEF TypeOK, LifecycleTypeOK
  <1> QED
    BY <1>1, <1>2, <1>3, <1>4, <1>5, <1>6, <1>7, <1>8, <1>9, <1>10, <1>11, <1>12, <1>13,
       <1>14, <1>15, <1>16, <1>17, <1>18, <1>19 DEF CurationNext

\* A plan that takes effect is counted.
LEMMA OpUpdate ==
  ASSUME NEW r \in OpRecord, NEW n \in Nat
  PROVE  [r EXCEPT !.status = "downstream", !.applies = n] \in OpRecord
  BY DEF OpRecord

\* A job that fails, or dies, keeps its shape.
LEMMA BrokenTyped ==
  ASSUME NEW job \in JobRecord PROVE Broken(job) \in JobRecord
  BY DEF Broken, Retried, JobRecord

\* So does topology: a job that is claimed has an attempt left.
LEMMA TopologyTypes == TypeOK /\ AttemptsLeft /\ TopologyNext => LifecycleTypeOK'
  <1> SUFFICES ASSUME TypeOK, AttemptsLeft, TopologyNext PROVE LifecycleTypeOK'
    OBVIOUS
  <1> USE DEF TypeOK, LifecycleTypeOK
  <1>1. ASSUME NEW o \in Ops, ApplyOperation(o) PROVE LifecycleTypeOK'
    BY <1>1, BoundAssumption, RoleAssumption DEF ApplyOperation, TopologyUnchanged, filesVars,
       States, OpRecord, JobRecord
  <1>2. ASSUME NEW d \in Jobs, ApplyDownstream(d) PROVE LifecycleTypeOK'
    <2>1. OpOf[d] \in Ops /\ Target[OpOf[d]] \in States
      BY RoleAssumption DEF States
    <2>2. state' \in States
      BY <1>2, <2>1 DEF ApplyDownstream
    <2>3. ops' = [ops EXCEPT ![OpOf[d]] =
            [ops[OpOf[d]] EXCEPT !.status = "downstream", !.applies = ops[OpOf[d]].applies + 1]]
      BY <1>2 DEF ApplyDownstream
    <2>4. ops' \in [Ops -> OpRecord]
      <3>1. ops[OpOf[d]] \in OpRecord /\ ops[OpOf[d]].applies + 1 \in Nat
        BY <2>1 DEF OpRecord
      <3>2. [ops[OpOf[d]] EXCEPT !.status = "downstream", !.applies = ops[OpOf[d]].applies + 1]
              \in OpRecord
        BY <3>1, OpUpdate
      <3> QED
        BY <2>3, <3>2
    <2>5. jobs' \in [Jobs -> JobRecord]
      <3>1. jobs[d] \in JobRecord /\ jobs[d].attempts + 1 \in 0..MaxAttempts
        BY <1>2, BoundAssumption DEF ApplyDownstream, Claimable, AttemptsLeft, JobRecord
      <3>2. Claimed(jobs[d], "governing") \in JobRecord
        BY <3>1 DEF Claimed, JobRecord
      <3> QED
        BY <1>2, <3>2 DEF ApplyDownstream
    <2> QED
      BY <1>2, <2>2, <2>4, <2>5 DEF ApplyDownstream, TopologyUnchanged, filesVars
  <1>3. ASSUME NEW d \in Jobs, DownstreamBlocked(d) PROVE LifecycleTypeOK'
    <2>1. jobs[d] \in JobRecord /\ jobs[d].attempts + 1 \in 0..MaxAttempts
      BY <1>3, BoundAssumption DEF DownstreamBlocked, Claimable, AttemptsLeft, JobRecord
    <2>2. Retried(Claimed(jobs[d], "queued")) \in JobRecord
      BY <2>1 DEF Retried, Claimed, JobRecord
    <2>3. jobs' \in [Jobs -> JobRecord]
      BY <1>3, <2>2 DEF DownstreamBlocked
    <2> QED
      BY <1>3, <2>3 DEF DownstreamBlocked, TopologyUnchanged, filesVars
  <1>4. ASSUME NEW d \in Jobs, Govern(d) PROVE LifecycleTypeOK'
    <2>1. ops' = [ops EXCEPT ![OpOf[d]] = [ops[OpOf[d]] EXCEPT !.status = "governed"]]
      BY <1>4 DEF Govern
    <2>2. ops' \in [Ops -> OpRecord]
      BY <2>1, RoleAssumption DEF OpRecord
    <2>3. jobs' \in [Jobs -> JobRecord]
      BY <1>4 DEF Govern, JobRecord
    <2> QED
      BY <1>4, <2>2, <2>3 DEF Govern, TopologyUnchanged, filesVars
  <1>5. ASSUME NEW d \in Jobs, Invalidate(d) PROVE LifecycleTypeOK'
    <2>1. ops' = [ops EXCEPT ![OpOf[d]] = [ops[OpOf[d]] EXCEPT !.status = "invalidated"]]
      BY <1>5 DEF Invalidate
    <2>2. ops' \in [Ops -> OpRecord]
      BY <2>1, RoleAssumption DEF OpRecord
    <2>3. jobs' \in [Jobs -> JobRecord]
      BY <1>5 DEF Invalidate, JobRecord
    <2> QED
      BY <1>5, <2>2, <2>3 DEF Invalidate, TopologyUnchanged, filesVars
  <1>6. ASSUME NEW d \in Jobs, DownstreamFails(d) PROVE LifecycleTypeOK'
    <2>1. jobs' \in [Jobs -> JobRecord]
      BY <1>6, BrokenTyped DEF DownstreamFails
    <2> QED
      BY <1>6, <2>1 DEF DownstreamFails, TopologyUnchanged, filesVars
  <1>7. CASE DownstreamCrash
    <2>1. jobs' \in [Jobs -> JobRecord]
      BY <1>7, BrokenTyped DEF DownstreamCrash
    <2> QED
      BY <1>7, <2>1 DEF DownstreamCrash, TopologyUnchanged, filesVars
  <1> HIDE DEF TypeOK, LifecycleTypeOK
  <1> QED
    BY <1>1, <1>2, <1>3, <1>4, <1>5, <1>6, <1>7 DEF TopologyNext

\* So does the broker.
LEMMA BrokerTypes == TypeOK /\ BrokerNext => TypeOK'
  <1> SUFFICES ASSUME TypeOK, BrokerNext PROVE TypeOK'
    OBVIOUS
  <1> USE DEF TypeOK, LifecycleTypeOK
  <1>1. ASSUME NEW r \in Requests, Retrieve(r) PROVE TypeOK'
    BY <1>1 DEF Retrieve, filesVars, vars
  <1>2. ASSUME NEW r \in Requests, StoreHint(r) PROVE TypeOK'
    BY <1>2 DEF StoreHint, filesVars, vars
  <1>3. ASSUME NEW r \in Requests, HintFails(r) PROVE TypeOK'
    BY <1>3 DEF HintFails, filesVars, vars
  <1>4. CASE Expire
    BY <1>4 DEF Expire, filesVars, vars
  <1>5. ASSUME NEW k \in Calls, EvictHints(k) PROVE TypeOK'
    BY <1>5 DEF EvictHints, Evict, Proceed, Evicted, ControlUnchanged, filesVars
  <1>6. CASE ApiRestart
    BY <1>6 DEF ApiRestart, ApiCrash, ControlUnchanged, filesVars
  <1> HIDE DEF TypeOK, LifecycleTypeOK
  <1> QED
    BY <1>1, <1>2, <1>3, <1>4, <1>5, <1>6 DEF BrokerNext

\* Every step keeps the shapes.
LEMMA TypeStep == IInv /\ [Next]_exposureVars => TypeOK'
  <1> SUFFICES ASSUME IInv, [Next]_exposureVars PROVE TypeOK'
    OBVIOUS
  <1>1. CASE WriterNext /\ UNCHANGED <<cache, hints>>
    BY <1>1, WriterTypes DEF IInv, TypeOK
  <1>2. CASE ControlNext /\ UNCHANGED <<cache, hints>>
    BY <1>2, ControlTypes DEF IInv, TypeOK
  <1>3. CASE CurationNext /\ UNCHANGED <<cache, hints>>
    BY <1>3, CurationTypes DEF IInv, TypeOK
  <1>4. CASE TopologyNext /\ UNCHANGED <<cache, hints>>
    BY <1>4, TopologyTypes DEF IInv, TypeOK
  <1>5. CASE BrokerNext
    BY <1>5, BrokerTypes DEF IInv
  <1>6. CASE UNCHANGED exposureVars
    BY <1>6 DEF exposureVars, vars, filesVars, IInv, TypeOK, LifecycleTypeOK
  <1> QED
    BY <1>1, <1>2, <1>3, <1>4, <1>5, <1>6 DEF Next, LifecycleNext

-----------------------------------------------------------------------------
(* Downstream jobs *)

\* A failure queues a job again only if an attempt is left.
LEMMA TopologyAttempts == TypeOK /\ AttemptsLeft /\ TopologyNext => AttemptsLeft'
  <1> SUFFICES ASSUME TypeOK, AttemptsLeft, TopologyNext PROVE AttemptsLeft'
    OBVIOUS
  <1> USE DEF TypeOK, LifecycleTypeOK, AttemptsLeft
  <1>1. ASSUME NEW o \in Ops, ApplyOperation(o) PROVE AttemptsLeft'
    BY <1>1, BoundAssumption DEF ApplyOperation, JobRecord
  <1>2. ASSUME NEW d \in Jobs, ApplyDownstream(d) PROVE AttemptsLeft'
    BY <1>2, BoundAssumption DEF ApplyDownstream, Claimable, Claimed, JobRecord
  <1>3. ASSUME NEW d \in Jobs, DownstreamBlocked(d) PROVE AttemptsLeft'
    BY <1>3, BoundAssumption DEF DownstreamBlocked, Claimable, Claimed, Retried, JobRecord
  <1>4. ASSUME NEW d \in Jobs, Govern(d) PROVE AttemptsLeft'
    BY <1>4, BoundAssumption DEF Govern, JobRecord
  <1>5. ASSUME NEW d \in Jobs, Invalidate(d) PROVE AttemptsLeft'
    BY <1>5, BoundAssumption DEF Invalidate, JobRecord
  <1>6. ASSUME NEW d \in Jobs, DownstreamFails(d) PROVE AttemptsLeft'
    BY <1>6, BoundAssumption DEF DownstreamFails, Broken, RunningDownstream, Retried, JobRecord
  <1>7. CASE DownstreamCrash
    BY <1>7, BoundAssumption DEF DownstreamCrash, Broken, RunningDownstream, Retried, JobRecord
  <1> HIDE DEF TypeOK, LifecycleTypeOK, AttemptsLeft
  <1> QED
    BY <1>1, <1>2, <1>3, <1>4, <1>5, <1>6, <1>7 DEF TopologyNext

\* No other step touches the jobs.
LEMMA AttemptsStep == IInv /\ [Next]_exposureVars => AttemptsLeft'
  <1> SUFFICES ASSUME IInv, [Next]_exposureVars PROVE AttemptsLeft'
    OBVIOUS
  <1>1. CASE WriterNext /\ UNCHANGED <<cache, hints>>
    BY <1>1, WriterFrame DEF filesVars, IInv, AttemptsLeft
  <1>2. CASE ControlNext /\ UNCHANGED <<cache, hints>>
    BY <1>2, ControlFrame DEF filesVars, IInv, AttemptsLeft
  <1>3. CASE CurationNext /\ UNCHANGED <<cache, hints>>
    BY <1>3, CurationFrame DEF filesVars, IInv, AttemptsLeft
  <1>4. CASE TopologyNext /\ UNCHANGED <<cache, hints>>
    BY <1>4, TopologyAttempts DEF IInv
  <1>5. CASE BrokerNext
    BY <1>5, BrokerFrame DEF filesVars, IInv, AttemptsLeft
  <1>6. CASE UNCHANGED exposureVars
    BY <1>6 DEF exposureVars, vars, filesVars, IInv, AttemptsLeft
  <1> QED
    BY <1>1, <1>2, <1>3, <1>4, <1>5, <1>6 DEF Next, LifecycleNext

\* A plan takes effect when its operation is applied, and leaves it applied no
\* longer.
LEMMA TopologyApplies == TypeOK /\ PlanOnce /\ TopologyNext => PlanOnce'
  <1> SUFFICES ASSUME TypeOK, PlanOnce, TopologyNext PROVE PlanOnce'
    OBVIOUS
  <1> USE DEF TypeOK, LifecycleTypeOK, PlanOnce
  <1>1. ASSUME NEW o \in Ops, ApplyOperation(o) PROVE PlanOnce'
    BY <1>1, RoleAssumption DEF ApplyOperation, OpRecord
  <1>2. ASSUME NEW d \in Jobs, ApplyDownstream(d) PROVE PlanOnce'
    BY <1>2, RoleAssumption DEF ApplyDownstream, Claimable, Claimed, OpRecord, Unblocked
  <1>3. ASSUME NEW d \in Jobs, DownstreamBlocked(d) PROVE PlanOnce'
    BY <1>3, RoleAssumption DEF DownstreamBlocked, Claimable, Claimed, Retried, OpRecord,
       Unblocked
  <1>4. ASSUME NEW d \in Jobs, Govern(d) PROVE PlanOnce'
    BY <1>4, RoleAssumption DEF Govern, OpRecord
  <1>5. ASSUME NEW d \in Jobs, Invalidate(d) PROVE PlanOnce'
    BY <1>5, RoleAssumption DEF Invalidate, OpRecord
  <1>6. ASSUME NEW d \in Jobs, DownstreamFails(d) PROVE PlanOnce'
    BY <1>6, RoleAssumption DEF DownstreamFails, Broken, RunningDownstream, Retried, OpRecord
  <1>7. CASE DownstreamCrash
    BY <1>7, RoleAssumption DEF DownstreamCrash, Broken, RunningDownstream, Retried, OpRecord
  <1> HIDE DEF TypeOK, LifecycleTypeOK, PlanOnce
  <1> QED
    BY <1>1, <1>2, <1>3, <1>4, <1>5, <1>6, <1>7 DEF TopologyNext

\* No other step touches the operations.
LEMMA PlanStep == IInv /\ [Next]_exposureVars => PlanOnce'
  <1> SUFFICES ASSUME IInv, [Next]_exposureVars PROVE PlanOnce'
    OBVIOUS
  <1>1. CASE WriterNext /\ UNCHANGED <<cache, hints>>
    BY <1>1, WriterFrame DEF filesVars, IInv, PlanOnce
  <1>2. CASE ControlNext /\ UNCHANGED <<cache, hints>>
    BY <1>2, ControlFrame DEF filesVars, IInv, PlanOnce
  <1>3. CASE CurationNext /\ UNCHANGED <<cache, hints>>
    BY <1>3, CurationFrame DEF filesVars, IInv, PlanOnce
  <1>4. CASE TopologyNext /\ UNCHANGED <<cache, hints>>
    BY <1>4, TopologyApplies DEF IInv
  <1>5. CASE BrokerNext
    BY <1>5, BrokerFrame DEF filesVars, IInv, PlanOnce
  <1>6. CASE UNCHANGED exposureVars
    BY <1>6 DEF exposureVars, vars, filesVars, IInv, PlanOnce
  <1> QED
    BY <1>1, <1>2, <1>3, <1>4, <1>5, <1>6 DEF Next, LifecycleNext

\* Only a failure takes the job away.
LEMMA TopologyRecords ==
  TypeOK /\ RecordedByJob /\ TopologyNext => RecordedByJob'
  <1> SUFFICES ASSUME TypeOK, RecordedByJob, TopologyNext PROVE RecordedByJob'
    OBVIOUS
  <1> USE DEF TypeOK, LifecycleTypeOK, RecordedByJob, RunningDownstream
  <1>1. ASSUME NEW o \in Ops, ApplyOperation(o) PROVE RecordedByJob'
    BY <1>1, RoleAssumption DEF ApplyOperation, OpRecord, JobRecord
  <1>2. ASSUME NEW d \in Jobs, ApplyDownstream(d) PROVE RecordedByJob'
    BY <1>2, RoleAssumption DEF ApplyDownstream, Claimable, Claimed, OpRecord, JobRecord
  <1>3. ASSUME NEW d \in Jobs, DownstreamBlocked(d) PROVE RecordedByJob'
    BY <1>3, RoleAssumption DEF DownstreamBlocked, Claimable, Claimed, Retried, OpRecord,
       JobRecord
  <1>4. ASSUME NEW d \in Jobs, Govern(d) PROVE RecordedByJob'
    BY <1>4, RoleAssumption DEF Govern, OpRecord, JobRecord
  <1>5. ASSUME NEW d \in Jobs, Invalidate(d) PROVE RecordedByJob'
    BY <1>5, RoleAssumption DEF Invalidate, OpRecord, JobRecord
  <1>6. ASSUME NEW d \in Jobs, DownstreamFails(d) PROVE RecordedByJob'
    BY <1>6, RoleAssumption DEF DownstreamFails, Broken, Retried, OpRecord, JobRecord
  <1>7. CASE DownstreamCrash
    <2> SUFFICES ASSUME NEW o \in Ops, ops[o].status \in {"downstream", "governed"}
                 PROVE  \E d \in Jobs : OpOf[d] = o /\ jobs'[d].broken
      BY <1>7 DEF DownstreamCrash
    <2>1. PICK d \in Jobs : OpOf[d] = o /\ (d \in RunningDownstream \/ jobs[d].broken)
      OBVIOUS
    <2>2. jobs'[d] = IF d \in RunningDownstream THEN Broken(jobs[d]) ELSE jobs[d]
      BY <1>7 DEF DownstreamCrash
    <2>3. d \in RunningDownstream => jobs'[d].broken
      <3>1. Retried(jobs[d]) = [jobs[d] EXCEPT !.pc = Retried(jobs[d]).pc]
        BY DEF Retried, JobRecord
      <3> QED
        BY <2>2, <3>1 DEF Broken, JobRecord
    <2> QED
      BY <2>1, <2>2, <2>3
  <1> HIDE DEF TypeOK, LifecycleTypeOK, RecordedByJob, RunningDownstream
  <1> QED
    BY <1>1, <1>2, <1>3, <1>4, <1>5, <1>6, <1>7 DEF TopologyNext

\* No other step touches the operations or the jobs.
LEMMA RecordedStep == IInv /\ [Next]_exposureVars => RecordedByJob'
  <1> SUFFICES ASSUME IInv, [Next]_exposureVars PROVE RecordedByJob'
    OBVIOUS
  <1>1. CASE WriterNext /\ UNCHANGED <<cache, hints>>
    BY <1>1, WriterFrame DEF filesVars, IInv, RecordedByJob, RunningDownstream
  <1>2. CASE ControlNext /\ UNCHANGED <<cache, hints>>
    BY <1>2, ControlFrame DEF filesVars, IInv, RecordedByJob, RunningDownstream
  <1>3. CASE CurationNext /\ UNCHANGED <<cache, hints>>
    BY <1>3, CurationFrame DEF filesVars, IInv, RecordedByJob, RunningDownstream
  <1>4. CASE TopologyNext /\ UNCHANGED <<cache, hints>>
    BY <1>4, TopologyRecords DEF IInv
  <1>5. CASE BrokerNext
    BY <1>5, BrokerFrame DEF filesVars, IInv, RecordedByJob, RunningDownstream
  <1>6. CASE UNCHANGED exposureVars
    BY <1>6 DEF exposureVars, vars, filesVars, IInv, RecordedByJob, RunningDownstream
  <1> QED
    BY <1>1, <1>2, <1>3, <1>4, <1>5, <1>6 DEF Next, LifecycleNext

-----------------------------------------------------------------------------
(* Curation *)

\* What the writer takes away marks the run.
LEMMA WriterCuration ==
  TypeOK /\ PassShape /\ DraftCurrent /\ WriterNext => (PassShape /\ DraftCurrent)'
  <1> SUFFICES ASSUME TypeOK, PassShape, DraftCurrent, WriterNext
               PROVE  (PassShape /\ DraftCurrent)'
    OBVIOUS
  <1> USE DEF TypeOK, LifecycleTypeOK, PassShape, DraftCurrent, RowFree, WriterUnchanged
  <1>1. CASE TakeAway
    BY <1>1 DEF TakeAway, CurationRecord
  <1>2. CASE MoveIn
    BY <1>2 DEF MoveIn
  <1> HIDE DEF TypeOK, LifecycleTypeOK, PassShape, DraftCurrent, RowFree, WriterUnchanged
  <1> QED
    BY <1>1, <1>2 DEF WriterNext

\* Each pass hands on to the next.
LEMMA CurationPasses == TypeOK /\ PassShape /\ CurationNext => PassShape'
  <1> SUFFICES ASSUME TypeOK, PassShape, CurationNext PROVE PassShape'
    OBVIOUS
  <1> USE DEF TypeOK, LifecycleTypeOK, PassShape
  <1>1. ASSUME NEW c \in Curators, Rollup(c) PROVE PassShape'
    BY <1>1 DEF Rollup
  <1>2. ASSUME NEW c \in Curators, BeginCuration(c) PROVE PassShape'
    BY <1>2 DEF BeginCuration, IdleCuration
  <1>3. CASE FilesPresent
    BY <1>3 DEF FilesPresent, Curate, CurationRecord
  <1>4. CASE FindSnapshot
    BY <1>4 DEF FindSnapshot, Curate, CurationRecord
  <1>5. CASE NotPromoted
    BY <1>5, OnwardFields DEF NotPromoted, Curate, CurationRecord
  <1>6. CASE Restore
    BY <1>6 DEF Restore, Curate, CurationRecord
  <1>7. CASE Promote
    BY <1>7, OnwardFields DEF Promote, Curate, CurationRecord
  <1>8. CASE PromotionRefused
    BY <1>8, OnwardFields DEF PromotionRefused, Curate, CurationRecord
  <1>9. CASE ChooseSkill
    BY <1>9 DEF ChooseSkill, Curate, CurationRecord
  <1>10. CASE NotChosen
    BY <1>10, OnwardFields DEF NotChosen, Curate, CurationRecord
  <1>11. CASE NothingToCopy
    BY <1>11, OnwardFields DEF NothingToCopy, Curate, CurationRecord, Following
  <1>12. CASE Copy
    BY <1>12 DEF Copy, Curate, CurationRecord
  <1>13. CASE Remove
    <2> DEFINE m == IF active THEN Out(curation.moved) ELSE curation.moved
    <2>1. Onward \in CurationRecord
      BY OnwardFields
    <2>2. CASE curation.pass = "promote"
      <3>1. curation' = [Onward EXCEPT !.moved = m]
        BY <1>13, <2>2 DEF Remove, Curate, CurationRecord
      <3> QED
        BY <2>1, <2>2, <3>1, OnwardFields DEF CurationRecord
    <2>3. CASE curation.pass # "promote"
      <3>1. curation' = [curation EXCEPT !.pc = "removed", !.moved = m]
        BY <1>13, <2>3 DEF Remove, Curate, CurationRecord
      <3> QED
        BY <2>3, <3>1 DEF CurationRecord, Following
    <2> QED
      BY <2>2, <2>3
  <1>14. CASE Archive
    BY <1>14, OnwardFields DEF Archive, Curate, CurationRecord
  <1>15. CASE ArchiveRefused
    BY <1>15, OnwardFields DEF ArchiveRefused, Curate, CurationRecord
  <1>16. CASE FilesFail
    BY <1>16, OnwardFields DEF FilesFail, Curate, CurationRecord
  <1>17. CASE Commit
    BY <1>17 DEF Commit, CurationRecord, IdleCuration
  <1>18. CASE CurationFails
    BY <1>18 DEF CurationFails, CurationRecord, IdleCuration
  <1>19. CASE CurationCrash
    BY <1>19 DEF CurationCrash, CurationRecord, IdleCuration
  <1> HIDE DEF TypeOK, LifecycleTypeOK, PassShape
  <1> QED
    BY <1>1, <1>2, <1>3, <1>4, <1>5, <1>6, <1>7, <1>8, <1>9, <1>10, <1>11, <1>12, <1>13,
       <1>14, <1>15, <1>16, <1>17, <1>18, <1>19 DEF CurationNext

\* Only a change from the one of active and archived to the other is committed.
LEMMA CurationDraft == TypeOK /\ DraftCurrent /\ CurationNext => DraftCurrent'
  <1> SUFFICES ASSUME TypeOK, DraftCurrent, CurationNext PROVE DraftCurrent'
    OBVIOUS
  <1> USE DEF TypeOK, LifecycleTypeOK, DraftCurrent, RowFree
  <1>1. ASSUME NEW c \in Curators, Rollup(c) PROVE DraftCurrent'
    BY <1>1 DEF Rollup, CurationRecord, IdleCuration, CurationUnchanged
  <1>2. ASSUME NEW c \in Curators, BeginCuration(c) PROVE DraftCurrent'
    BY <1>2 DEF BeginCuration, Curate, CurationRecord, CurationUnchanged
  <1>3. CASE FilesPresent
    BY <1>3 DEF FilesPresent, Curate, CurationRecord, CurationUnchanged
  <1>4. CASE FindSnapshot
    BY <1>4 DEF FindSnapshot, Curate, CurationRecord, CurationUnchanged
  <1>5. CASE NotPromoted
    BY <1>5, OnwardFields DEF NotPromoted, Curate, CurationRecord,
       CurationUnchanged
  <1>6. CASE Restore
    BY <1>6 DEF Restore, Curate, CurationRecord, CurationUnchanged
  <1>7. CASE Promote
    BY <1>7, OnwardFields DEF Promote, Curate, CurationRecord, FromState,
       CurationUnchanged
  <1>8. CASE PromotionRefused
    BY <1>8, OnwardFields DEF PromotionRefused, Curate, CurationRecord,
       FromState, CurationUnchanged
  <1>9. CASE ChooseSkill
    BY <1>9 DEF ChooseSkill, Curate, CurationRecord, CurationUnchanged
  <1>10. CASE NotChosen
    BY <1>10, OnwardFields DEF NotChosen, Curate, CurationRecord, CurationUnchanged
  <1>11. CASE NothingToCopy
    BY <1>11, OnwardFields DEF NothingToCopy, Curate, CurationRecord,
       CurationUnchanged
  <1>12. CASE Copy
    BY <1>12 DEF Copy, Curate, CurationRecord, CurationUnchanged
  <1>13. CASE Remove
    BY <1>13, OnwardFields DEF Remove, Curate, CurationRecord, CurationUnchanged
  <1>14. CASE Archive
    BY <1>14, OnwardFields DEF Archive, Curate, CurationRecord, FromState,
       CurationUnchanged
  <1>15. CASE ArchiveRefused
    BY <1>15, OnwardFields DEF ArchiveRefused, Curate, CurationRecord,
       FromState, CurationUnchanged
  <1>16. CASE FilesFail
    BY <1>16, OnwardFields DEF FilesFail, Curate, CurationRecord,
       FromState, CurationUnchanged
  <1>17. CASE Commit
    BY <1>17 DEF Commit, CurationRecord, IdleCuration, CurationUnchanged
  <1>18. CASE CurationFails
    BY <1>18 DEF CurationFails, CurationRecord, IdleCuration,
       CurationUnchanged
  <1>19. CASE CurationCrash
    BY <1>19 DEF CurationCrash, CurationRecord, IdleCuration
  <1> HIDE DEF TypeOK, LifecycleTypeOK, DraftCurrent, RowFree
  <1> QED
    BY <1>1, <1>2, <1>3, <1>4, <1>5, <1>6, <1>7, <1>8, <1>9, <1>10, <1>11, <1>12, <1>13,
       <1>14, <1>15, <1>16, <1>17, <1>18, <1>19 DEF CurationNext

\* The control calls wait for the workspace row.
LEMMA ControlDraft == TypeOK /\ DraftCurrent /\ ControlNext => DraftCurrent'
  <1> SUFFICES ASSUME TypeOK, DraftCurrent, ControlNext PROVE DraftCurrent'
    OBVIOUS
  <1> USE DEF DraftCurrent, RowFree
  <1>1. ASSUME NEW k \in Calls, Freeze(k) PROVE DraftCurrent'
    BY <1>1 DEF Freeze, Call, ControlUnchanged
  <1>2. ASSUME NEW k \in Calls, RecordCritical(k) PROVE DraftCurrent'
    BY <1>2 DEF RecordCritical, Call, ControlUnchanged
  <1>3. ASSUME NEW k \in Calls, Unfreeze(k) PROVE DraftCurrent'
    BY <1>3 DEF Unfreeze, Call, ControlUnchanged
  <1>4. ASSUME NEW k \in Calls, Record(k) \/ CallFails(k) PROVE DraftCurrent'
    BY <1>4 DEF Record, CallFails, Proceed, ControlUnchanged
  <1>5. CASE Revoke
    BY <1>5 DEF Revoke, ControlUnchanged
  <1> HIDE DEF DraftCurrent, RowFree
  <1> QED
    BY <1>1, <1>2, <1>3, <1>4, <1>5 DEF ControlNext

\* So do the downstream jobs.
LEMMA TopologyDraft == TypeOK /\ DraftCurrent /\ TopologyNext => DraftCurrent'
  <1> SUFFICES ASSUME TypeOK, DraftCurrent, TopologyNext PROVE DraftCurrent'
    OBVIOUS
  <1> USE DEF DraftCurrent, RowFree
  <1>1. ASSUME NEW o \in Ops, ApplyOperation(o) PROVE DraftCurrent'
    BY <1>1 DEF ApplyOperation, TopologyUnchanged
  <1>2. ASSUME NEW d \in Jobs, ApplyDownstream(d) PROVE DraftCurrent'
    BY <1>2 DEF ApplyDownstream, Claimable, Claimed, TopologyUnchanged
  <1>3. ASSUME NEW d \in Jobs, DownstreamBlocked(d) PROVE DraftCurrent'
    BY <1>3 DEF DownstreamBlocked, Claimable, Claimed, Retried, TopologyUnchanged
  <1>4. ASSUME NEW d \in Jobs, Govern(d) PROVE DraftCurrent'
    BY <1>4 DEF Govern, TopologyUnchanged
  <1>5. ASSUME NEW d \in Jobs, Invalidate(d) PROVE DraftCurrent'
    BY <1>5 DEF Invalidate, TopologyUnchanged
  <1>6. ASSUME NEW d \in Jobs, DownstreamFails(d) PROVE DraftCurrent'
    BY <1>6 DEF DownstreamFails, Broken, RunningDownstream, Retried, TopologyUnchanged
  <1>7. CASE DownstreamCrash
    BY <1>7 DEF DownstreamCrash, Broken, RunningDownstream, Retried, TopologyUnchanged
  <1> HIDE DEF DraftCurrent, RowFree
  <1> QED
    BY <1>1, <1>2, <1>3, <1>4, <1>5, <1>6, <1>7 DEF TopologyNext

\* Every step keeps the shape of a run, its view of the state and its snapshot.
LEMMA PassStep == IInv /\ [Next]_exposureVars => PassShape'
  <1> SUFFICES ASSUME IInv, [Next]_exposureVars PROVE PassShape'
    OBVIOUS
  <1>1. CASE WriterNext /\ UNCHANGED <<cache, hints>>
    BY <1>1, WriterCuration DEF IInv
  <1>2. CASE ControlNext /\ UNCHANGED <<cache, hints>>
    BY <1>2, ControlFrame DEF filesVars, IInv, PassShape
  <1>3. CASE CurationNext /\ UNCHANGED <<cache, hints>>
    BY <1>3, CurationPasses DEF IInv
  <1>4. CASE TopologyNext /\ UNCHANGED <<cache, hints>>
    BY <1>4, TopologyFrame DEF filesVars, IInv, PassShape
  <1>5. CASE BrokerNext
    BY <1>5, BrokerFrame DEF filesVars, IInv, PassShape
  <1>6. CASE UNCHANGED exposureVars
    BY <1>6 DEF exposureVars, vars, filesVars, IInv, PassShape
  <1> QED
    BY <1>1, <1>2, <1>3, <1>4, <1>5, <1>6 DEF Next, LifecycleNext

\* The state in the transaction stays the committed one while the row is held.
LEMMA DraftStep == IInv /\ [Next]_exposureVars => DraftCurrent'
  <1> SUFFICES ASSUME IInv, [Next]_exposureVars PROVE DraftCurrent'
    OBVIOUS
  <1>1. CASE WriterNext /\ UNCHANGED <<cache, hints>>
    BY <1>1, WriterCuration DEF IInv
  <1>2. CASE ControlNext /\ UNCHANGED <<cache, hints>>
    BY <1>2, ControlDraft DEF IInv
  <1>3. CASE CurationNext /\ UNCHANGED <<cache, hints>>
    BY <1>3, CurationDraft DEF IInv
  <1>4. CASE TopologyNext /\ UNCHANGED <<cache, hints>>
    BY <1>4, TopologyDraft DEF IInv
  <1>5. CASE BrokerNext
    BY <1>5, BrokerFrame DEF filesVars, IInv, DraftCurrent, RowFree
  <1>6. CASE UNCHANGED exposureVars
    BY <1>6 DEF exposureVars, vars, filesVars, IInv, DraftCurrent, RowFree
  <1> QED
    BY <1>1, <1>2, <1>3, <1>4, <1>5, <1>6 DEF Next, LifecycleNext

-----------------------------------------------------------------------------
(* Files and states *)

\* A new version is there, and of what the writer took away the run knows nothing.
LEMMA WriterMoves == TypeOK /\ PassShape /\ Moves /\ WriterNext => Moves'
  <1> SUFFICES ASSUME TypeOK, PassShape, Moves, WriterNext PROVE Moves'
    OBVIOUS
  <1> USE DEF TypeOK, LifecycleTypeOK, PassShape, Moves, PromotionMoves, CurrentMoves,
     UtilityMoves, MovesAgree
  <1>1. CASE TakeAway
    BY <1>1 DEF TakeAway, RowFree, CurationRecord
  <1>2. CASE MoveIn
    BY <1>2 DEF MoveIn
  <1> HIDE DEF TypeOK, LifecycleTypeOK, PassShape, Moves, PromotionMoves, CurrentMoves,
     UtilityMoves, MovesAgree
  <1> QED
    BY <1>1, <1>2 DEF WriterNext

\* A run moves the files as the states move, or knows that it did not.
LEMMA CurationMoves ==
  TypeOK /\ PassShape /\ Moves /\ CurationNext => Moves'
  <1> SUFFICES ASSUME TypeOK, PassShape, Moves, CurationNext PROVE Moves'
    OBVIOUS
  <1> USE DEF TypeOK, LifecycleTypeOK, PassShape, Moves, PromotionMoves, CurrentMoves,
     UtilityMoves, MovesAgree
  <1>1. ASSUME NEW c \in Curators, Rollup(c) PROVE Moves'
    BY <1>1 DEF Rollup, filesVars
  <1>2. ASSUME NEW c \in Curators, BeginCuration(c) PROVE Moves'
    BY <1>2 DEF BeginCuration, IdleCuration, filesVars
  <1>3. CASE FilesPresent
    BY <1>3 DEF FilesPresent, Curate, CurationRecord
  <1>4. CASE FindSnapshot
    BY <1>4 DEF FindSnapshot, Curate, Promotable
  <1>5. CASE NotPromoted
    BY <1>5, OnwardFields DEF NotPromoted, Curate, CurationRecord
  <1>6. CASE Restore
    BY <1>6 DEF Restore, Curate, In, CurationRecord
  <1>7. CASE Promote
    <2>1. /\ curation'.pc = Onward.pc /\ curation'.pass = Onward.pass
          /\ curation'.saw = curation.saw /\ curation'.moved = curation.moved
          /\ curation'.draft = "active" /\ ~curation'.snap
          /\ curation.pc = "promoted" /\ active' = active
      BY <1>7, OnwardFields DEF Promote, Curate, CurationRecord, filesVars
    <2> QED
      BY <2>1, OnwardFields
  <1>8. CASE PromotionRefused
    <2>1. CASE curation.snap
      BY <1>8, <2>1 DEF PromotionRefused, Curate, CurationRecord, filesVars
    <2>2. CASE ~curation.snap
      <3>1. curation' = Onward /\ curation.pc = "promoted" /\ active' = active
        BY <1>8, <2>2 DEF PromotionRefused, Curate, filesVars
      <3> QED
        BY <2>2, <3>1, OnwardFields
    <2> QED
      BY <2>1, <2>2
  <1>9. CASE ChooseSkill
    BY <1>9 DEF ChooseSkill, Curate, Chosen, CurationRecord, filesVars, Following
  <1>10. CASE NotChosen
    <2>1. curation' = Onward /\ curation.pc = "choosing" /\ active' = active
      BY <1>10 DEF NotChosen, Curate, filesVars
    <2> QED
      BY <2>1, OnwardFields
  <1>11. CASE NothingToCopy
    BY <1>11, OnwardFields DEF NothingToCopy, Curate, CurationRecord
  <1>12. CASE Copy
    BY <1>12 DEF Copy, Curate, CurationRecord
  <1>13. CASE Remove
    BY <1>13, OnwardFields DEF Remove, Curate, CurationRecord, Out
  <1>14. CASE Archive
    BY <1>14, OnwardFields DEF Archive, Curate, CurationRecord, FromState
  <1>15. CASE ArchiveRefused
    <2>1. /\ curation'.pc = Onward.pc /\ curation'.pass = Onward.pass
          /\ curation'.saw = curation.saw /\ curation'.draft = curation.draft
          /\ curation.pc = "removed" /\ curation.draft # "active"
          /\ \/ /\ ~curation.snap
                /\ curation'.moved = curation.moved /\ active' = active
             \/ /\ curation.snap
                /\ curation'.moved = In(curation.moved) /\ active'
      BY <1>15, OnwardFields DEF ArchiveRefused, Curate, CurationRecord, FromState, PutBack
    <2>2. curation.moved \in {"out", "mixed"} => In(curation.moved) \in {"none", "mixed"}
      BY DEF In
    <2> QED
      BY <2>1, <2>2, OnwardFields DEF CurationRecord, Following
  <1>16. CASE FilesFail
    <2>1. /\ curation'.pc = Onward.pc /\ curation'.pass = Onward.pass
          /\ curation'.draft = curation.draft /\ curation'.saw = curation.saw
          /\ curation'.moved = "mixed"
      BY <1>16, OnwardFields DEF FilesFail, Curate, CurationRecord
    <2>2. Onward.pc \in {"choosing", "committing"}
      BY OnwardFields
    <2> QED
      BY <2>1, <2>2
  <1>17. CASE Commit
    BY <1>17 DEF Commit, CurationRecord, IdleCuration
  <1>18. CASE CurationFails
    BY <1>18 DEF CurationFails, CurationRecord, IdleCuration
  <1>19. CASE CurationCrash
    BY <1>19 DEF CurationCrash, CurationRecord, IdleCuration
  <1> HIDE DEF TypeOK, LifecycleTypeOK, PassShape, Moves, PromotionMoves, CurrentMoves,
     UtilityMoves, MovesAgree
  <1> QED
    BY <1>1, <1>2, <1>3, <1>4, <1>5, <1>6, <1>7, <1>8, <1>9, <1>10, <1>11, <1>12, <1>13,
       <1>14, <1>15, <1>16, <1>17, <1>18, <1>19 DEF CurationNext

\* No other step moves files, or the run.
LEMMA MovesStep == IInv /\ [Next]_exposureVars => Moves'
  <1> SUFFICES ASSUME IInv, [Next]_exposureVars PROVE Moves'
    OBVIOUS
  <1> USE DEF IInv
  <1>1. CASE WriterNext
    BY <1>1, WriterMoves
  <1>2. CASE CurationNext
    BY <1>2, CurationMoves
  <1>3. CASE UNCHANGED <<filesVars, curation>>
    BY <1>3 DEF filesVars, Moves, PromotionMoves, CurrentMoves, UtilityMoves, MovesAgree
  <1>4. UNCHANGED exposureVars => UNCHANGED <<filesVars, curation>>
    BY DEF exposureVars, vars
  <1> QED
    BY <1>1, <1>2, <1>3, <1>4, ControlFrame, TopologyFrame, BrokerFrame DEF Next, LifecycleNext

-----------------------------------------------------------------------------
(* Hints *)

\* A call that freezes the skill has its eviction before it.
LEMMA ControlHints ==
  TypeOK /\ HintsEvicted /\ ControlNext /\ UNCHANGED <<cache, hints>> => HintsEvicted'
  <1> SUFFICES ASSUME TypeOK, HintsEvicted, UNCHANGED <<cache, hints>>, ControlNext
               PROVE  HintsEvicted'
    OBVIOUS
  <1> USE DEF TypeOK, LifecycleTypeOK, HintsEvicted
  <1>1. ASSUME NEW k \in Calls, Freeze(k) PROVE HintsEvicted'
    <2>1. api'[k] # "idle"
      BY <1>1 DEF Freeze, Call
    <2> QED
      BY <2>1
  <1>2. ASSUME NEW k \in Calls, RecordCritical(k) PROVE HintsEvicted'
    <2>1. api'[k] # "idle"
      BY <1>2 DEF RecordCritical, Call
    <2> QED
      BY <2>1
  <1>3. ASSUME NEW k \in Calls, Unfreeze(k) PROVE HintsEvicted'
    BY <1>3, BoundAssumption DEF Unfreeze, Call
  <1>4. ASSUME NEW k \in Calls, Record(k) PROVE HintsEvicted'
    <2>1. api'[k] # "idle"
      BY <1>4 DEF Record, Proceed
    <2> QED
      BY <2>1
  <1>5. ASSUME NEW k \in Calls, CallFails(k) PROVE HintsEvicted'
    BY <1>5 DEF CallFails
  <1>6. CASE Revoke
    BY <1>6 DEF Revoke
  <1> HIDE DEF TypeOK, LifecycleTypeOK, HintsEvicted
  <1> QED
    BY <1>1, <1>2, <1>3, <1>4, <1>5, <1>6 DEF ControlNext

\* A downstream job freezes nothing.
LEMMA TopologyHints ==
  /\ TypeOK /\ HintsEvicted /\ TopologyNext
  /\ UNCHANGED <<cache, hints>>
  => HintsEvicted'
  <1> SUFFICES ASSUME TypeOK, HintsEvicted, UNCHANGED <<cache, hints>>, TopologyNext
               PROVE  HintsEvicted'
    OBVIOUS
  <1> USE DEF TypeOK, LifecycleTypeOK, HintsEvicted
  <1>1. ASSUME NEW o \in Ops, ApplyOperation(o) PROVE HintsEvicted'
    BY <1>1, RoleAssumption DEF ApplyOperation, TopologyUnchanged
  <1>2. ASSUME NEW d \in Jobs, ApplyDownstream(d) PROVE HintsEvicted'
    BY <1>2, RoleAssumption DEF ApplyDownstream, Claimable, Claimed, TopologyUnchanged, HeldBack
  <1>3. ASSUME NEW d \in Jobs, DownstreamBlocked(d) PROVE HintsEvicted'
    BY <1>3, RoleAssumption DEF DownstreamBlocked, Claimable, Claimed, Retried, TopologyUnchanged
  <1>4. ASSUME NEW d \in Jobs, Govern(d) PROVE HintsEvicted'
    BY <1>4, RoleAssumption DEF Govern, TopologyUnchanged
  <1>5. ASSUME NEW d \in Jobs, Invalidate(d) PROVE HintsEvicted'
    BY <1>5, RoleAssumption DEF Invalidate, TopologyUnchanged
  <1>6. ASSUME NEW d \in Jobs, DownstreamFails(d) PROVE HintsEvicted'
    BY <1>6, RoleAssumption DEF DownstreamFails, Broken, RunningDownstream, Retried,
       TopologyUnchanged
  <1>7. CASE DownstreamCrash
    BY <1>7, RoleAssumption DEF DownstreamCrash, Broken, RunningDownstream, Retried,
       TopologyUnchanged
  <1> HIDE DEF TypeOK, LifecycleTypeOK, HintsEvicted
  <1> QED
    BY <1>1, <1>2, <1>3, <1>4, <1>5, <1>6, <1>7 DEF TopologyNext

\* Curation freezes nothing that is not frozen.
LEMMA CurationHints ==
  /\ TypeOK /\ DraftCurrent /\ HintsEvicted /\ CurationNext
  /\ UNCHANGED <<cache, hints>>
  => HintsEvicted'
  <1> SUFFICES ASSUME TypeOK, DraftCurrent, HintsEvicted,
                      UNCHANGED <<cache, hints>>, CurationNext
               PROVE  HintsEvicted'
    OBVIOUS
  <1> USE DEF TypeOK, LifecycleTypeOK, HintsEvicted
  <1>1. ASSUME NEW c \in Curators, Rollup(c) PROVE HintsEvicted'
    BY <1>1 DEF Rollup, CurationUnchanged
  <1>2. ASSUME NEW c \in Curators, BeginCuration(c) PROVE HintsEvicted'
    BY <1>2 DEF BeginCuration, CurationUnchanged
  <1>3. CASE FilesPresent
    BY <1>3 DEF FilesPresent, Curate, CurationUnchanged
  <1>4. CASE FindSnapshot
    BY <1>4 DEF FindSnapshot, Curate, CurationUnchanged
  <1>5. CASE NotPromoted
    BY <1>5 DEF NotPromoted, Curate, CurationUnchanged
  <1>6. CASE Restore
    BY <1>6 DEF Restore, Curate, CurationUnchanged
  <1>7. CASE Promote
    BY <1>7 DEF Promote, Curate, CurationUnchanged
  <1>8. CASE PromotionRefused
    BY <1>8 DEF PromotionRefused, Curate, CurationUnchanged
  <1>9. CASE ChooseSkill
    BY <1>9 DEF ChooseSkill, Curate, CurationUnchanged
  <1>10. CASE NotChosen
    BY <1>10 DEF NotChosen, Curate, CurationUnchanged
  <1>11. CASE NothingToCopy
    BY <1>11 DEF NothingToCopy, Curate, CurationUnchanged
  <1>12. CASE Copy
    BY <1>12 DEF Copy, Curate, CurationUnchanged
  <1>13. CASE Remove
    BY <1>13 DEF Remove, Curate, CurationUnchanged
  <1>14. CASE Archive
    BY <1>14 DEF Archive, Curate, CurationUnchanged
  <1>15. CASE ArchiveRefused
    BY <1>15 DEF ArchiveRefused, Curate, CurationUnchanged
  <1>16. CASE FilesFail
    BY <1>16 DEF FilesFail, Curate, CurationUnchanged
  <1>17. CASE Commit
    BY <1>17 DEF Commit, RowFree, CurationUnchanged, DraftCurrent
  <1>18. CASE CurationFails
    BY <1>18 DEF CurationFails, CurationUnchanged
  <1>19. CASE CurationCrash
    BY <1>19 DEF CurationCrash, CurationUnchanged
  <1> HIDE DEF TypeOK, LifecycleTypeOK, HintsEvicted
  <1> QED
    BY <1>1, <1>2, <1>3, <1>4, <1>5, <1>6, <1>7, <1>8, <1>9, <1>10, <1>11, <1>12, <1>13,
       <1>14, <1>15, <1>16, <1>17, <1>18, <1>19 DEF CurationNext

\* A frozen skill is not retrieved, and an eviction leaves none of its hints.
LEMMA BrokerHints == TypeOK /\ HintsEvicted /\ BrokerNext => HintsEvicted'
  <1> SUFFICES ASSUME TypeOK, HintsEvicted, BrokerNext PROVE HintsEvicted'
    OBVIOUS
  <1> USE DEF TypeOK, LifecycleTypeOK, HintsEvicted
  <1>1. ASSUME NEW r \in Requests, Retrieve(r) PROVE HintsEvicted'
    BY <1>1 DEF Retrieve, vars, RuntimeVisible
  <1>2. ASSUME NEW r \in Requests, StoreHint(r) PROVE HintsEvicted'
    BY <1>2 DEF StoreHint, vars
  <1>3. ASSUME NEW r \in Requests, HintFails(r) PROVE HintsEvicted'
    BY <1>3 DEF HintFails, vars
  <1>4. CASE Expire
    BY <1>4 DEF Expire, vars
  <1>5. ASSUME NEW k \in Calls, EvictHints(k) PROVE HintsEvicted'
    BY <1>5 DEF EvictHints, Evict, Proceed, Evicted, ControlUnchanged
  <1>6. CASE ApiRestart
    BY <1>6 DEF ApiRestart, ApiCrash, ControlUnchanged
  <1> HIDE DEF TypeOK, LifecycleTypeOK, HintsEvicted
  <1> QED
    BY <1>1, <1>2, <1>3, <1>4, <1>5, <1>6 DEF BrokerNext

\* Every step keeps what a freeze has achieved.
LEMMA HintsStep == IInv /\ [Next]_exposureVars => HintsEvicted'
  <1> SUFFICES ASSUME IInv, [Next]_exposureVars PROVE HintsEvicted'
    OBVIOUS
  <1>1. CASE WriterNext /\ UNCHANGED <<cache, hints>>
    BY <1>1, WriterFrame DEF filesVars, IInv, HintsEvicted
  <1>2. CASE ControlNext /\ UNCHANGED <<cache, hints>>
    BY <1>2, ControlHints DEF IInv
  <1>3. CASE CurationNext /\ UNCHANGED <<cache, hints>>
    BY <1>3, CurationHints DEF IInv
  <1>4. CASE TopologyNext /\ UNCHANGED <<cache, hints>>
    BY <1>4, TopologyHints DEF IInv
  <1>5. CASE BrokerNext
    BY <1>5, BrokerHints DEF IInv
  <1>6. CASE UNCHANGED exposureVars
    BY <1>6 DEF exposureVars, vars, filesVars, IInv, HintsEvicted
  <1> QED
    BY <1>1, <1>2, <1>3, <1>4, <1>5, <1>6 DEF Next, LifecycleNext

-----------------------------------------------------------------------------
(* The results *)

\* The skill is active and installed, and nothing is offered.
LEMMA InitEstablishes == ExposureInit => IInv
  <1> SUFFICES ASSUME ExposureInit PROVE IInv
    OBVIOUS
  <1> USE DEF ExposureInit, Init
  <1>1. TypeOK
    <2>1. LifecycleTypeOK
      <3>1. scored \in [Curators -> States \cup {"none"}]
        OBVIOUS
      <3>2. ops \in [Ops -> OpRecord] /\ jobs \in [Jobs -> JobRecord]
        BY BoundAssumption DEF OpRecord, JobRecord
      <3> QED
        BY <3>1, <3>2, IdleTyped DEF LifecycleTypeOK, States
    <2> QED
      BY <2>1 DEF TypeOK
  <1>2. AttemptsLeft /\ PlanOnce /\ RecordedByJob
    BY BoundAssumption DEF AttemptsLeft, PlanOnce, RecordedByJob
  <1>3. DraftCurrent /\ PassShape
    BY DEF DraftCurrent, PassShape, IdleCuration, RowFree
  <1>4. Moves
    BY DEF Moves, PromotionMoves, CurrentMoves, UtilityMoves, MovesAgree, IdleCuration
  <1>5. HintsEvicted
    BY DEF HintsEvicted
  <1> QED
    BY <1>1, <1>2, <1>3, <1>4, <1>5 DEF IInv

\* Every step keeps the inductive invariant.
LEMMA StepKeeps == IInv /\ [Next]_exposureVars => IInv'
  BY TypeStep, AttemptsStep, DraftStep, PassStep, MovesStep, PlanStep, RecordedStep, HintsStep
  DEF IInv

\* The inductive invariant holds in every reachable state.
THEOREM InductiveInvariant == Spec => []IInv
  <1>1. ExposureInit => IInv
    BY InitEstablishes
  <1>2. IInv /\ [Next]_exposureVars => IInv'
    BY StepKeeps
  <1> QED
    BY <1>1, <1>2, PTL DEF Spec

\* Every row, directory, job, call and hint has its declared shape.
THEOREM TypeCorrect == Spec => []TypeOK
  <1>1. IInv => TypeOK
    BY DEF IInv
  <1> QED
    BY <1>1, InductiveInvariant, PTL

\* A curation commits files and states that agree, whatever happened since its
\* rollup, unless a file operation of its own failed or the writer took the
\* directory away.
THEOREM FilesAgree == Spec => []FilesFollowState
  <1>1. IInv => FilesFollowState
    BY DEF IInv, Moves, MovesAgree, FilesFollowState
  <1> QED
    BY <1>1, InductiveInvariant, PTL

\* A downstream plan takes effect once, and is recorded and invalidated unless
\* the job that did it failed or died.
THEOREM PlanTakesEffectOnce == Spec => []DownstreamOnce
  <1>1. IInv => DownstreamOnce
    BY DEF IInv, PlanOnce, RecordedByJob, DownstreamOnce
  <1> QED
    BY <1>1, InductiveInvariant, PTL

\* While the skill is frozen, no eviction is due and none was missed, the cache
\* offers it only through a request that was being answered during an eviction.
THEOREM FreezeEvicts == Spec => []FrozenHintIsLate
  <1>1. IInv => FrozenHintIsLate
    BY DEF IInv, HintsEvicted, FrozenHintIsLate
  <1> QED
    BY <1>1, InductiveInvariant, PTL

\* What is frozen or revoked is lifted by an operator's unfreeze alone.
THEOREM OperatorLifts == Spec => OnlyOperatorLifts
  <1> DEFINE Lifted == HeldBack /\ ~HeldBack' => \E k \in Calls : Unfreeze(k)
  <1>1. IInv /\ [Next]_exposureVars => [Lifted]_vars
    <2> SUFFICES ASSUME IInv, Next, HeldBack, ~HeldBack' PROVE \E k \in Calls : Unfreeze(k)
      BY DEF exposureVars
    <2> USE DEF HeldBack
    <2>1. CASE WriterNext
      BY <2>1, WriterFrame
    <2>2. CASE ControlNext
      BY <2>2 DEF ControlNext, Freeze, RecordCritical, Call, Record, Proceed, CallFails, Revoke
    <2>3. CASE CurationNext
      <3>1. CASE Commit
        BY <3>1 DEF Commit, IInv, DraftCurrent, RowFree
      <3>2. CASE UNCHANGED state
        BY <3>2
      <3> QED
        BY <2>3, <3>1, <3>2 DEF CurationNext, Curate, Rollup, BeginCuration, FilesPresent,
           FindSnapshot, NotPromoted, Restore, Promote, PromotionRefused, ChooseSkill, NotChosen,
           NothingToCopy, Copy, Remove, Archive, ArchiveRefused, FilesFail, CurationFails,
           CurationCrash
    <2>4. CASE TopologyNext
      BY <2>4 DEF TopologyNext, ApplyOperation, ApplyDownstream, DownstreamBlocked, Govern,
         Invalidate, DownstreamFails, DownstreamCrash
    <2>5. CASE BrokerNext
      BY <2>5, BrokerFrame
    <2> QED
      BY <2>1, <2>2, <2>3, <2>4, <2>5 DEF Next, LifecycleNext
  <1> QED
    BY <1>1, InductiveInvariant, PTL DEF Spec, OnlyOperatorLifts
=============================================================================
