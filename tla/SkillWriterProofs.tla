------------------------- MODULE SkillWriterProofs -------------------------
(***************************************************************************)
(* Safety of the writer of active skills, for any number of transactions,  *)
(* attempts, crashes and failures.  The shape of the state and the         *)
(* validity of the rollback pointers hold for any concurrency of the       *)
(* worker and any handlers that a renewal left behind; what becomes of the *)
(* versions holds as long as no handler is started beside another one.     *)
(***************************************************************************)
EXTENDS SkillWriter, TLAPS

PCs == {"idle"} \cup InFileCode \cup AtAwait

SlotRecord ==
  [pc : PCs, tx : Txs \cup {None}, before : Content \cup {Absent}, aside : Content \cup {Absent},
   orphan : BOOLEAN]

JobRecord ==
  [status : {"queued", "running", "done", "failed"}, attempts : 0..MaxAttempts]

RestTyped ==
  /\ active \in Content \cup {Absent}
  /\ archive \in [Txs -> Content \cup {Absent, Partial}]
  /\ status \in [Txs -> {"planned", "staged", "applying", "applied", "failed"}]
  /\ undo \in [Txs -> {"none", "delete", "restore"}]
  /\ jobs \in [Txs -> JobRecord]
  /\ requests \in [Txs -> {"none", "queued", "processing", "completed", "failed"}]
  /\ rollback \in [Txs -> {"none", "rolling_back", "rolled_back"}]
  /\ stops \in 0..MaxStops /\ faults \in 0..MaxFaults

SlotsTyped ==
  /\ slots \in [Slots -> SlotRecord]
  /\ \A w \in Slots : slots[w].pc # "idle" => slots[w].tx \in Txs

\* The type of all but the history variables.
StateTyped == RestTyped /\ SlotsTyped

AttemptsLeft == \A t \in Txs : jobs[t].status = "queued" => jobs[t].attempts < MaxAttempts

\* No two slots are between file operations.
OneInFiles ==
  \A v, w \in Slots : slots[v].pc \in InFileCode /\ slots[w].pc \in InFileCode => v = w

\* What the place of a slot says of the files and the records.
PlaceOf(w) ==
  LET s == slots[w] IN
  /\ s.before # Absent => s.tx \in Txs /\ Complete(s.tx)
  /\ s.pc \in {"recorded", "applied"} => undo[s.tx] # "none"
  /\ s.pc = "archiving" => active \in Content /\ archive[s.tx] = Partial
  /\ s.pc = "swapped" => active \in Content
  /\ s.pc = "restoring" => s.before # Absent
  /\ s.pc = "rbRestoring" => Complete(s.tx)

\* The manifest in a directory points to a complete archive, if to any.
Pointing(c) == c \in Content /\ c.from # None => Complete(c.from)

Pointers ==
  /\ Pointing(active)
  /\ \A t \in Txs : Pointing(archive[t])
  /\ \A w \in Slots : Pointing(slots[w].aside)

UndoKnown ==
  \A t \in Txs :
    /\ status[t] = "applied" => undo[t] # "none"
    /\ undo[t] = "restore" => Complete(t)

IInv ==
  /\ StateTyped /\ AttemptsLeft /\ OneInFiles
  /\ \A w \in Slots : PlaceOf(w)
  /\ Pointers /\ UndoKnown

-----------------------------------------------------------------------------
(* Slots and jobs *)

\* No version is in a directory that is absent or not complete.
LEMMA Apart ==
  /\ Absent \notin Content /\ Partial \notin Content
  /\ \A c \in Content : c.ver \in Txs
  /\ Absent.ver = None /\ Partial.ver = None /\ Absent.from = None
  <1>1. Absent.ver = None /\ Partial.ver = None /\ Absent.from = None
    BY DEF Absent, Partial
  <1>2. \A c \in Content : c.ver \in Txs
    BY DEF Content
  <1> QED
    BY <1>1, <1>2, NoneAssumption

Others(w) == \A v \in Slots \ {w} : slots'[v] = slots[v]
Quiet(w) == \A v \in Slots \ {w} : slots[v].pc \notin InFileCode

\* The slot goes on with its transaction.
TurnTo(w, pc, before, aside) ==
  /\ SlotsTyped' /\ Others(w)
  /\ slots'[w].pc = pc /\ slots'[w].tx = slots[w].tx
  /\ slots'[w].before = before /\ slots'[w].aside = aside

\* The slot begins with t, or with None, at pc.
BeginAt(w, pc, t) ==
  /\ SlotsTyped' /\ Others(w)
  /\ slots'[w].pc = pc /\ slots'[w].tx = t
  /\ slots'[w].before = Absent /\ slots'[w].aside = Absent

\* A slot that goes on to another place.
LEMMA GoToTurns ==
  ASSUME SlotsTyped, NEW w \in Slots, slots[w].pc # "idle", NEW pc \in PCs, GoTo(w, pc)
  PROVE  TurnTo(w, pc, slots[w].before, slots[w].aside)
  <1> DEFINE r == [slots[w] EXCEPT !.pc = pc]
  <1>1. slots[w] \in SlotRecord /\ slots[w].tx \in Txs
    BY DEF SlotsTyped
  <1>2. /\ r \in SlotRecord /\ r.pc = pc /\ r.tx = slots[w].tx
        /\ r.before = slots[w].before /\ r.aside = slots[w].aside
    BY <1>1 DEF SlotRecord
  <1>3. slots' = [slots EXCEPT ![w] = r]
    BY DEF GoTo
  <1> HIDE DEF r
  <1> QED
    BY <1>1, <1>2, <1>3 DEF SlotsTyped, TurnTo, Others

\* A slot that also takes the directory aside.
LEMMA AsideTurns ==
  ASSUME SlotsTyped, NEW w \in Slots, slots[w].pc # "idle", NEW pc \in PCs,
         NEW aside \in Content \cup {Absent},
         slots' = [slots EXCEPT ![w].pc = pc, ![w].aside = aside]
  PROVE  TurnTo(w, pc, slots[w].before, aside)
  <1> DEFINE r == [slots[w] EXCEPT !.pc = pc, !.aside = aside]
  <1>1. slots[w] \in SlotRecord /\ slots[w].tx \in Txs
    BY DEF SlotsTyped
  <1>2. /\ r \in SlotRecord /\ r.pc = pc /\ r.tx = slots[w].tx
        /\ r.before = slots[w].before /\ r.aside = aside
    BY <1>1 DEF SlotRecord
  <1>3. slots' = [slots EXCEPT ![w] = r]
    BY <1>1 DEF SlotsTyped
  <1> HIDE DEF r
  <1> QED
    BY <1>1, <1>2, <1>3 DEF SlotsTyped, TurnTo, Others

\* A slot that also takes note of what it archived.
LEMMA BeforeTurns ==
  ASSUME SlotsTyped, NEW w \in Slots, slots[w].pc # "idle", NEW pc \in PCs,
         NEW before \in Content \cup {Absent},
         slots' = [slots EXCEPT ![w].pc = pc, ![w].before = before]
  PROVE  TurnTo(w, pc, before, slots[w].aside)
  <1> DEFINE r == [slots[w] EXCEPT !.pc = pc, !.before = before]
  <1>1. slots[w] \in SlotRecord /\ slots[w].tx \in Txs
    BY DEF SlotsTyped
  <1>2. /\ r \in SlotRecord /\ r.pc = pc /\ r.tx = slots[w].tx
        /\ r.before = before /\ r.aside = slots[w].aside
    BY <1>1 DEF SlotRecord
  <1>3. slots' = [slots EXCEPT ![w] = r]
    BY <1>1 DEF SlotsTyped
  <1> HIDE DEF r
  <1> QED
    BY <1>1, <1>2, <1>3 DEF SlotsTyped, TurnTo, Others

\* A slot that is released.
LEMMA ReleaseTurns ==
  ASSUME SlotsTyped, NEW w \in Slots, Release(w)
  PROVE  BeginAt(w, "idle", None)
  <1>1. /\ IdleSlot \in SlotRecord /\ IdleSlot.pc = "idle" /\ IdleSlot.tx = None
        /\ IdleSlot.before = Absent /\ IdleSlot.aside = Absent
    BY DEF IdleSlot, SlotRecord, PCs
  <1>2. slots' = [slots EXCEPT ![w] = IdleSlot]
    BY DEF Release
  <1> QED
    BY <1>1, <1>2 DEF SlotsTyped, BeginAt, Others

\* A slot that takes a transaction.
LEMMA TakeTurns ==
  ASSUME SlotsTyped, NEW w \in Slots, NEW t \in Txs, NEW pc \in PCs,
         slots' = [slots EXCEPT ![w] = [IdleSlot EXCEPT !.pc = pc, !.tx = t]]
  PROVE  BeginAt(w, pc, t)
  <1> DEFINE r == [IdleSlot EXCEPT !.pc = pc, !.tx = t]
  <1>1. /\ r \in SlotRecord /\ r.pc = pc /\ r.tx = t
        /\ r.before = Absent /\ r.aside = Absent
    BY DEF IdleSlot, SlotRecord
  <1>2. slots' = [slots EXCEPT ![w] = r]
    OBVIOUS
  <1> HIDE DEF r
  <1> QED
    BY <1>1, <1>2 DEF SlotsTyped, BeginAt, Others

\* A job is only queued again with an attempt left.
LEMMA RetriedShape ==
  ASSUME NEW j \in JobRecord
  PROVE  /\ Retried(j) \in JobRecord
         /\ Retried(j).status = "queued" => Retried(j).attempts < MaxAttempts
  <1> DEFINE s == IF j.attempts < MaxAttempts THEN "queued" ELSE "failed"
  <1>1. Retried(j) = [j EXCEPT !.status = s]
    BY DEF Retried
  <1>2. s \in {"queued", "failed"} /\ (s = "queued" => j.attempts < MaxAttempts)
    OBVIOUS
  <1> HIDE DEF s
  <1> QED
    BY <1>1, <1>2 DEF JobRecord

JobsKept == jobs' \in [Txs -> JobRecord] /\ AttemptsLeft'

\* A handler that fails gives its job back, and its slot.
LEMMA FailJobTurns ==
  ASSUME IInv, NEW w \in Slots, FailJob(w)
  PROVE  BeginAt(w, "idle", None) /\ JobsKept
  <1>1. RestTyped /\ SlotsTyped /\ AttemptsLeft
    BY DEF IInv, StateTyped
  <1>2. BeginAt(w, "idle", None)
    BY <1>1, ReleaseTurns DEF FailJob
  <1>3. CASE slots[w].orphan
    BY <1>1, <1>2, <1>3 DEF FailJob, JobsKept, RestTyped, AttemptsLeft
  <1>4. CASE ~slots[w].orphan
    <2> DEFINE t == slots[w].tx
    <2>0. jobs' = [jobs EXCEPT ![t] = Retried(jobs[t])]
      BY <1>4 DEF FailJob
    <2>1. jobs \in [Txs -> JobRecord]
      BY <1>1 DEF RestTyped
    <2>2. \A u \in Txs : jobs'[u] = IF u = t THEN Retried(jobs[t]) ELSE jobs[u]
      BY <2>0, <2>1
    <2>3. DOMAIN jobs' = Txs /\ jobs' = [u \in Txs |-> jobs'[u]]
      BY <2>0, <2>1
    <2>4. \A u \in Txs :
            /\ jobs'[u] \in JobRecord
            /\ jobs'[u].status = "queued" => jobs'[u].attempts < MaxAttempts
      BY <1>1, <2>1, <2>2, RetriedShape DEF AttemptsLeft
    <2> QED
      BY <1>2, <2>3, <2>4 DEF JobsKept, AttemptsLeft
  <1> QED
    BY <1>3, <1>4

\* A job that leaves the queue, or is done.
LEMMA JobMoves ==
  ASSUME IInv, NEW t, NEW r \in JobRecord, r.status # "queued", jobs' = [jobs EXCEPT ![t] = r]
  PROVE  JobsKept
  BY DEF JobsKept, IInv, StateTyped, RestTyped, AttemptsLeft

\* A handler that succeeds is done with its job, and gives its slot back.
LEMMA JobDoneTurns ==
  ASSUME IInv, NEW w \in Slots, slots[w].pc # "idle", JobDone(w)
  PROVE  BeginAt(w, "idle", None) /\ JobsKept
  <1>1. RestTyped /\ SlotsTyped /\ AttemptsLeft /\ slots[w].tx \in Txs
    BY DEF IInv, StateTyped, SlotsTyped
  <1>2. BeginAt(w, "idle", None)
    BY <1>1, ReleaseTurns DEF JobDone
  <1>3. CASE slots[w].orphan
    BY <1>1, <1>2, <1>3 DEF JobDone, JobsKept, RestTyped, AttemptsLeft
  <1>4. CASE ~slots[w].orphan
    <2> DEFINE r == [jobs[slots[w].tx] EXCEPT !.status = "done"]
    <2>1. jobs[slots[w].tx] \in JobRecord
      BY <1>1 DEF RestTyped
    <2>2. r \in JobRecord /\ r.status # "queued"
      BY <2>1 DEF JobRecord
    <2>3. jobs' = [jobs EXCEPT ![slots[w].tx] = r]
      BY <1>4 DEF JobDone
    <2> HIDE DEF r
    <2> QED
      BY <1>2, <2>2, <2>3, JobMoves
  <1> QED
    BY <1>3, <1>4

-----------------------------------------------------------------------------
(* The inductive step, for any number of slots *)

\* A step of one slot, while no other is between file operations.
LEMMA Assemble ==
  ASSUME IInv, NEW w \in Slots, Quiet(w), SlotsTyped', Others(w), RestTyped', AttemptsLeft',
         \A t \in Txs : Complete(t) => Complete(t)',
         \A t \in Txs : undo[t] # "none" => undo'[t] # "none",
         \A t \in Txs : undo'[t] = "restore" => Complete(t)',
         \A t \in Txs : status'[t] = "applied" => undo'[t] # "none",
         Pointing(active)', \A t \in Txs : Pointing(archive[t])', Pointing(slots[w].aside)',
         PlaceOf(w)'
  PROVE  IInv'
  <1>1. StateTyped' /\ SlotsTyped
    BY DEF IInv, StateTyped
  <1>2. OneInFiles'
    BY DEF OneInFiles, Quiet, Others
  <1>3. ASSUME NEW v \in Slots PROVE PlaceOf(v)'
    <2>1. CASE v = w
      BY <2>1
    <2>2. CASE v # w
      <3>1. slots'[v] = slots[v] /\ slots[v].pc \notin InFileCode /\ PlaceOf(v)
        BY <2>2 DEF Quiet, Others, IInv
      <3>2. slots[v].before # Absent => slots[v].tx \in Txs /\ Complete(slots[v].tx)'
        BY <3>1 DEF PlaceOf
      <3>3. slots[v].pc \in {"recorded", "applied"} => undo'[slots[v].tx] # "none"
        BY <1>1, <3>1 DEF PlaceOf, SlotsTyped
      <3> QED
        BY <3>1, <3>2, <3>3 DEF PlaceOf, InFileCode
    <2> QED
      BY <2>1, <2>2
  <1>4. Pointers'
    <2>1. ASSUME NEW v \in Slots PROVE Pointing(slots[v].aside)'
      <3>1. CASE v = w
        BY <3>1
      <3>2. CASE v # w
        <4>1. slots'[v] = slots[v] /\ Pointing(slots[v].aside)
          BY <3>2 DEF Others, IInv, Pointers
        <4> QED
          BY <4>1 DEF Pointing, Content
      <3> QED
        BY <3>1, <3>2
    <2> QED
      BY <2>1 DEF Pointers
  <1>5. UndoKnown'
    BY DEF UndoKnown
  <1> QED
    BY <1>1, <1>2, <1>3, <1>4, <1>5 DEF IInv

\* A step of one slot that leaves the files alone, and comes to no place that
\* says something of them.
LEMMA RecordsStep ==
  ASSUME IInv, NEW w \in Slots, Quiet(w), SlotsTyped', Others(w), RestTyped', AttemptsLeft',
         UNCHANGED <<active, archive>>,
         \/ slots'[w].before = Absent /\ slots'[w].aside = Absent
         \/ /\ slots'[w].tx = slots[w].tx /\ slots'[w].before = slots[w].before
            /\ slots'[w].aside = slots[w].aside,
         slots'[w].pc \notin {"archiving", "swapped", "restoring", "rbRestoring"},
         slots'[w].pc \in {"recorded", "applied"} => undo'[slots'[w].tx] # "none",
         \A t \in Txs : undo[t] # "none" => undo'[t] # "none",
         \A t \in Txs : undo'[t] = "restore" => Complete(t),
         \A t \in Txs : status'[t] = "applied" => undo'[t] # "none"
  PROVE  IInv'
  <1>1. \A t : Complete(t)' = Complete(t)
    BY DEF Complete
  <1>2. \A c : Pointing(c) => (c \in Content /\ c.from # None => Complete(c.from)')
    BY <1>1 DEF Pointing
  <1>3. Pointing(active)' /\ \A t \in Txs : Pointing(archive[t])'
    BY <1>2 DEF IInv, Pointers, Pointing
  <1>4. Pointing(slots[w].aside)'
    <2>1. slots'[w].aside = Absent \/ slots'[w].aside = slots[w].aside
      OBVIOUS
    <2> QED
      BY <1>2, <2>1, Apart DEF IInv, Pointers, Pointing
  <1>5. PlaceOf(w)'
    <2>1. PlaceOf(w)
      BY DEF IInv
    <2>2. slots'[w].before # Absent => slots'[w].tx \in Txs /\ archive'[slots'[w].tx] \in Content
      BY <2>1 DEF PlaceOf, Complete
    <2> QED
      BY <2>2 DEF PlaceOf, Complete
  <1> QED
    BY <1>1, <1>3, <1>4, <1>5, Assemble

\* What the invariant says of the slot that moves.
LEMMA SlotFacts ==
  ASSUME IInv, NEW w \in Slots
  PROVE  /\ RestTyped /\ SlotsTyped /\ AttemptsLeft /\ UndoKnown /\ PlaceOf(w)
         /\ slots[w].pc # "idle" => slots[w].tx \in Txs
         /\ slots[w].before \in Content \cup {Absent} /\ slots[w].aside \in Content \cup {Absent}
  BY DEF IInv, StateTyped, SlotsTyped, SlotRecord

\* A slot that claims a job.
LEMMA ClaimApplyKeeps ==
  ASSUME IInv, NEW w \in Slots, NEW t \in Txs, ClaimApply(w, t)
  PROVE  IInv'
  <1>0. /\ RestTyped /\ SlotsTyped /\ AttemptsLeft /\ UndoKnown /\ PlaceOf(w)
        /\ slots[w].pc # "idle" => slots[w].tx \in Txs
    BY SlotFacts
  <1>1. /\ Quiet(w)
        /\ jobs[t].status = "queued"
        /\ jobs' = [jobs EXCEPT ![t] = [status |-> "running", attempts |-> jobs[t].attempts + 1]]
        /\ slots' = [slots EXCEPT ![w] = [IdleSlot EXCEPT !.pc = "starting", !.tx = t]]
        /\ UNCHANGED <<active, archive, status, undo, requests, rollback, stops, faults>>
    BY DEF ClaimApply, At, Quiet, Files, Database
  <1>2. BeginAt(w, "starting", t)
    BY <1>0, <1>1, TakeTurns DEF PCs, AtAwait
  <1>3. JobsKept
    <2> DEFINE r == [status |-> "running", attempts |-> jobs[t].attempts + 1]
    <2>1. jobs[t] \in JobRecord /\ jobs[t].attempts < MaxAttempts
      BY <1>0, <1>1 DEF RestTyped, AttemptsLeft
    <2>2. r \in JobRecord /\ r.status # "queued"
      BY <2>1, BoundAssumption DEF JobRecord
    <2>3. jobs' = [jobs EXCEPT ![t] = r]
      BY <1>1
    <2> HIDE DEF r
    <2> QED
      BY <2>2, <2>3, JobMoves
  <1>4. RestTyped'
    BY <1>0, <1>1, <1>3 DEF RestTyped, JobsKept
  <1> QED
    BY <1>0, <1>1, <1>2, <1>3, <1>4, RecordsStep DEF BeginAt, JobsKept, UndoKnown

\* A slot that claims a revocation.
LEMMA ClaimRollbackKeeps ==
  ASSUME IInv, NEW w \in Slots, NEW t \in Txs, ClaimRollback(w, t)
  PROVE  IInv'
  <1>0. /\ RestTyped /\ SlotsTyped /\ AttemptsLeft /\ UndoKnown /\ PlaceOf(w)
        /\ slots[w].pc # "idle" => slots[w].tx \in Txs
    BY SlotFacts
  <1>1. /\ Quiet(w)
        /\ requests' = [requests EXCEPT ![t] = "processing"]
        /\ slots' = [slots EXCEPT ![w] = [IdleSlot EXCEPT !.pc = "claimed", !.tx = t]]
        /\ UNCHANGED <<active, archive, status, undo, jobs, rollback, stops, faults>>
    BY DEF ClaimRollback, At, Quiet, Files, Database
  <1>2. BeginAt(w, "claimed", t)
    BY <1>0, <1>1, TakeTurns DEF PCs, AtAwait
  <1>3. RestTyped' /\ AttemptsLeft'
    BY <1>0, <1>1 DEF RestTyped, AttemptsLeft
  <1> QED
    BY <1>0, <1>1, <1>2, <1>3, RecordsStep DEF BeginAt, UndoKnown

\* An apply that waits for its window.
LEMMA DeferApplyKeeps ==
  ASSUME IInv, NEW w \in Slots, DeferApply(w)
  PROVE  IInv'
  <1>0. /\ RestTyped /\ SlotsTyped /\ AttemptsLeft /\ UndoKnown /\ PlaceOf(w)
        /\ slots[w].pc # "idle" => slots[w].tx \in Txs
    BY SlotFacts
  <1>1. /\ Quiet(w)
        /\ slots[w].pc # "idle" /\ JobDone(w)
        /\ status' = [status EXCEPT ![slots[w].tx] = "staged"]
        /\ UNCHANGED <<active, archive, undo, requests, rollback, stops, faults>>
    BY DEF DeferApply, At, Quiet, Files, Database
  <1>2. BeginAt(w, "idle", None) /\ JobsKept
    BY <1>1, JobDoneTurns
  <1>3. RestTyped'
    BY <1>0, <1>1, <1>2 DEF RestTyped, JobsKept
  <1>4. \A t \in Txs : status'[t] = "applied" => status[t] = "applied"
    BY <1>0, <1>1 DEF RestTyped
  <1> QED
    BY <1>0, <1>1, <1>2, <1>3, <1>4, RecordsStep DEF BeginAt, JobsKept, UndoKnown

\* An apply that is done.
LEMMA FinishApplyKeeps ==
  ASSUME IInv, NEW w \in Slots, FinishApply(w)
  PROVE  IInv'
  <1>0. /\ RestTyped /\ SlotsTyped /\ AttemptsLeft /\ UndoKnown /\ PlaceOf(w)
        /\ slots[w].pc # "idle" => slots[w].tx \in Txs
    BY SlotFacts
  <1>1. /\ Quiet(w)
        /\ slots[w].pc # "idle" /\ JobDone(w)
        /\ UNCHANGED <<active, archive, status, undo, requests, rollback, stops, faults>>
    BY DEF FinishApply, At, Quiet, Files, Database
  <1>2. BeginAt(w, "idle", None) /\ JobsKept
    BY <1>1, JobDoneTurns
  <1>3. RestTyped'
    BY <1>0, <1>1, <1>2 DEF RestTyped, JobsKept
  <1>4. \A t \in Txs : status'[t] = "applied" => status[t] = "applied"
    BY <1>0, <1>1 DEF RestTyped
  <1> QED
    BY <1>0, <1>1, <1>2, <1>3, <1>4, RecordsStep DEF BeginAt, JobsKept, UndoKnown

\* An apply that starts.
LEMMA StartApplyKeeps ==
  ASSUME IInv, NEW w \in Slots, StartApply(w)
  PROVE  IInv'
  <1>0. /\ RestTyped /\ SlotsTyped /\ AttemptsLeft /\ UndoKnown /\ PlaceOf(w)
        /\ slots[w].pc # "idle" => slots[w].tx \in Txs
    BY SlotFacts
  <1>1. /\ Quiet(w)
        /\ slots[w].pc = "starting" /\ GoTo(w, "applying")
        /\ status' = [status EXCEPT ![slots[w].tx] = "applying"]
        /\ UNCHANGED <<active, archive, undo, jobs, requests, rollback, stops, faults>>
    BY DEF StartApply, At, Quiet, Files, Database
  <1>2. TurnTo(w, "applying", slots[w].before, slots[w].aside)
    BY <1>0, <1>1, GoToTurns DEF PCs, AtAwait, InFileCode
  <1>3. RestTyped' /\ AttemptsLeft'
    BY <1>0, <1>1 DEF RestTyped, AttemptsLeft
  <1>4. \A t \in Txs : status'[t] = "applied" => status[t] = "applied"
    BY <1>0, <1>1 DEF RestTyped
  <1> QED
    BY <1>0, <1>1, <1>2, <1>3, <1>4, RecordsStep DEF TurnTo, UndoKnown

\* An apply of the first version.
LEMMA NothingToArchiveKeeps ==
  ASSUME IInv, NEW w \in Slots, NothingToArchive(w)
  PROVE  IInv'
  <1>0. /\ RestTyped /\ SlotsTyped /\ AttemptsLeft /\ UndoKnown /\ PlaceOf(w)
        /\ slots[w].pc # "idle" => slots[w].tx \in Txs
    BY SlotFacts
  <1>1. /\ Quiet(w)
        /\ slots[w].pc = "applying" /\ GoTo(w, "ready")
        /\ UNCHANGED <<active, archive, status, undo, jobs, requests, rollback, stops, faults>>
    BY DEF NothingToArchive, At, Quiet, Files, Database
  <1>2. TurnTo(w, "ready", slots[w].before, slots[w].aside)
    BY <1>0, <1>1, GoToTurns DEF PCs, AtAwait, InFileCode
  <1>3. RestTyped' /\ AttemptsLeft'
    BY <1>0, <1>1 DEF RestTyped, AttemptsLeft
  <1> QED
    BY <1>0, <1>1, <1>2, <1>3, RecordsStep DEF TurnTo, UndoKnown

\* The rollback that is recorded restores what the slot has archived.
LEMMA RecordItemsKeeps ==
  ASSUME IInv, NEW w \in Slots, RecordItems(w)
  PROVE  IInv'
  <1>0. /\ RestTyped /\ SlotsTyped /\ AttemptsLeft /\ UndoKnown /\ PlaceOf(w)
        /\ slots[w].pc # "idle" => slots[w].tx \in Txs
    BY SlotFacts
  <1>1. /\ Quiet(w)
        /\ slots[w].pc = "recording" /\ GoTo(w, "recorded")
        /\ undo' = [undo EXCEPT ![slots[w].tx] = UndoOf(slots[w].before)]
        /\ UNCHANGED <<active, archive, status, jobs, requests, rollback, stops, faults>>
    BY DEF RecordItems, At, Quiet, Files, Database
  <1>2. TurnTo(w, "recorded", slots[w].before, slots[w].aside)
    BY <1>0, <1>1, GoToTurns DEF PCs, AtAwait, InFileCode
  <1>3. RestTyped' /\ AttemptsLeft'
    BY <1>0, <1>1 DEF RestTyped, AttemptsLeft, UndoOf
  <1>4. /\ undo'[slots[w].tx] = UndoOf(slots[w].before)
        /\ \A t \in Txs : t # slots[w].tx => undo'[t] = undo[t]
    BY <1>0, <1>1 DEF RestTyped
  <1>5. /\ UndoOf(slots[w].before) \in {"delete", "restore"}
        /\ UndoOf(slots[w].before) = "restore" => Complete(slots[w].tx)
    BY <1>0 DEF UndoOf, PlaceOf
  <1>6. /\ \A t \in Txs : undo[t] # "none" => undo'[t] # "none"
        /\ \A t \in Txs : undo'[t] = "restore" => Complete(t)
        /\ undo'[slots[w].tx] # "none"
    BY <1>0, <1>4, <1>5 DEF UndoKnown
  <1> QED
    BY <1>0, <1>1, <1>2, <1>3, <1>6, RecordsStep DEF TurnTo, UndoKnown

\* A version is applied once its rollback is recorded.
LEMMA MarkAppliedKeeps ==
  ASSUME IInv, NEW w \in Slots, MarkApplied(w)
  PROVE  IInv'
  <1>0. /\ RestTyped /\ SlotsTyped /\ AttemptsLeft /\ UndoKnown /\ PlaceOf(w)
        /\ slots[w].pc # "idle" => slots[w].tx \in Txs
    BY SlotFacts
  <1>1. /\ Quiet(w)
        /\ slots[w].pc = "recorded" /\ GoTo(w, "applied")
        /\ status' = [status EXCEPT ![slots[w].tx] = "applied"]
        /\ UNCHANGED <<active, archive, undo, jobs, requests, rollback, stops, faults>>
    BY DEF MarkApplied, At, Quiet, Files, Database
  <1>2. TurnTo(w, "applied", slots[w].before, slots[w].aside)
    BY <1>0, <1>1, GoToTurns DEF PCs, AtAwait, InFileCode
  <1>3. RestTyped' /\ AttemptsLeft'
    BY <1>0, <1>1 DEF RestTyped, AttemptsLeft
  <1>4. undo[slots[w].tx] # "none"
    BY <1>0, <1>1 DEF PlaceOf
  <1>5. \A t \in Txs : status'[t] = "applied" => undo'[t] # "none"
    BY <1>0, <1>1, <1>4 DEF RestTyped, UndoKnown
  <1> QED
    BY <1>0, <1>1, <1>2, <1>3, <1>4, <1>5, RecordsStep DEF TurnTo, UndoKnown

\* An apply whose manifest or record fails.
LEMMA RecordFailsKeeps ==
  ASSUME IInv, NEW w \in Slots, RecordFails(w)
  PROVE  IInv'
  <1>0. /\ RestTyped /\ SlotsTyped /\ AttemptsLeft /\ UndoKnown /\ PlaceOf(w)
        /\ slots[w].pc # "idle" => slots[w].tx \in Txs
    BY SlotFacts
  <1>1. /\ Quiet(w)
        /\ slots[w].pc # "idle" /\ GoTo(w, "recovering")
        /\ faults < MaxFaults /\ faults' = faults + 1
        /\ UNCHANGED <<active, archive, status, undo, jobs, requests, rollback, stops>>
    BY DEF RecordFails, At, Quiet, Files, Database, Fault
  <1>2. TurnTo(w, "recovering", slots[w].before, slots[w].aside)
    BY <1>0, <1>1, GoToTurns DEF PCs, AtAwait, InFileCode
  <1>3. RestTyped' /\ AttemptsLeft'
    BY <1>0, <1>1, BoundAssumption DEF RestTyped, AttemptsLeft
  <1> QED
    BY <1>0, <1>1, <1>2, <1>3, RecordsStep DEF TurnTo, UndoKnown

\* A rollback that starts.
LEMMA StartRollbackKeeps ==
  ASSUME IInv, NEW w \in Slots, StartRollback(w)
  PROVE  IInv'
  <1>0. /\ RestTyped /\ SlotsTyped /\ AttemptsLeft /\ UndoKnown /\ PlaceOf(w)
        /\ slots[w].pc # "idle" => slots[w].tx \in Txs
    BY SlotFacts
  <1>1. /\ Quiet(w)
        /\ slots[w].pc = "claimed" /\ GoTo(w, "rollingBack")
        /\ rollback' = [rollback EXCEPT ![slots[w].tx] = "rolling_back"]
        /\ UNCHANGED <<active, archive, status, undo, jobs, requests, stops, faults>>
    BY DEF StartRollback, At, Quiet, Files, Database
  <1>2. TurnTo(w, "rollingBack", slots[w].before, slots[w].aside)
    BY <1>0, <1>1, GoToTurns DEF PCs, AtAwait, InFileCode
  <1>3. RestTyped' /\ AttemptsLeft'
    BY <1>0, <1>1 DEF RestTyped, AttemptsLeft
  <1> QED
    BY <1>0, <1>1, <1>2, <1>3, RecordsStep DEF TurnTo, UndoKnown

\* A rollback that is recorded.
LEMMA RecordRollbackKeeps ==
  ASSUME IInv, NEW w \in Slots, RecordRollback(w)
  PROVE  IInv'
  <1>0. /\ RestTyped /\ SlotsTyped /\ AttemptsLeft /\ UndoKnown /\ PlaceOf(w)
        /\ slots[w].pc # "idle" => slots[w].tx \in Txs
    BY SlotFacts
  <1>1. /\ Quiet(w)
        /\ slots[w].pc = "restored" /\ GoTo(w, "rolledBack")
        /\ rollback' = [rollback EXCEPT ![slots[w].tx] = "rolled_back"]
        /\ UNCHANGED <<active, archive, status, undo, jobs, requests, stops, faults>>
    BY DEF RecordRollback, At, Quiet, Files, Database
  <1>2. TurnTo(w, "rolledBack", slots[w].before, slots[w].aside)
    BY <1>0, <1>1, GoToTurns DEF PCs, AtAwait, InFileCode
  <1>3. RestTyped' /\ AttemptsLeft'
    BY <1>0, <1>1 DEF RestTyped, AttemptsLeft
  <1> QED
    BY <1>0, <1>1, <1>2, <1>3, RecordsStep DEF TurnTo, UndoKnown

\* An apply that finds an archive of its own.
LEMMA ArchiveExistsKeeps ==
  ASSUME IInv, NEW w \in Slots, ArchiveExists(w)
  PROVE  IInv'
  <1>0. /\ RestTyped /\ SlotsTyped /\ AttemptsLeft /\ UndoKnown /\ PlaceOf(w)
        /\ slots[w].pc # "idle" => slots[w].tx \in Txs
    BY SlotFacts
  <1>1. /\ Quiet(w)
        /\ FailJob(w)
        /\ UNCHANGED <<active, archive, status, undo, requests, rollback, stops, faults>>
    BY DEF ArchiveExists, At, Quiet, Files, Database
  <1>2. BeginAt(w, "idle", None) /\ JobsKept
    BY <1>1, FailJobTurns
  <1>3. RestTyped' /\ AttemptsLeft'
    BY <1>0, <1>1, <1>2 DEF RestTyped, JobsKept
  <1>4. \A t \in Txs : status'[t] = "applied" => status[t] = "applied"
    BY <1>0, <1>1 DEF RestTyped
  <1> QED
    BY <1>0, <1>1, <1>2, <1>3, <1>4, RecordsStep DEF BeginAt, UndoKnown

\* An apply that has been recovered from.
LEMMA MarkFailedKeeps ==
  ASSUME IInv, NEW w \in Slots, MarkFailed(w)
  PROVE  IInv'
  <1>0. /\ RestTyped /\ SlotsTyped /\ AttemptsLeft /\ UndoKnown /\ PlaceOf(w)
        /\ slots[w].pc # "idle" => slots[w].tx \in Txs
    BY SlotFacts
  <1>1. /\ Quiet(w)
        /\ FailJob(w)
        /\ status' = [status EXCEPT ![slots[w].tx] = "failed"]
        /\ UNCHANGED <<active, archive, undo, requests, rollback, stops, faults>>
    BY DEF MarkFailed, At, Quiet, Files, Database
  <1>2. BeginAt(w, "idle", None) /\ JobsKept
    BY <1>1, FailJobTurns
  <1>3. RestTyped' /\ AttemptsLeft'
    BY <1>0, <1>1, <1>2 DEF RestTyped, JobsKept
  <1>4. \A t \in Txs : status'[t] = "applied" => status[t] = "applied"
    BY <1>0, <1>1 DEF RestTyped
  <1> QED
    BY <1>0, <1>1, <1>2, <1>3, <1>4, RecordsStep DEF BeginAt, UndoKnown

\* A revocation that is completed.
LEMMA CompleteRollbackKeeps ==
  ASSUME IInv, NEW w \in Slots, CompleteRollback(w)
  PROVE  IInv'
  <1>0. /\ RestTyped /\ SlotsTyped /\ AttemptsLeft /\ UndoKnown /\ PlaceOf(w)
        /\ slots[w].pc # "idle" => slots[w].tx \in Txs
    BY SlotFacts
  <1>1. /\ Quiet(w)
        /\ requests' = [requests EXCEPT ![slots[w].tx] = "completed"] /\ Release(w)
        /\ UNCHANGED <<active, archive, status, undo, jobs, rollback, stops, faults>>
    BY DEF CompleteRollback, EndRequest, At, Quiet, Files, Database
  <1>2. BeginAt(w, "idle", None)
    BY <1>0, <1>1, ReleaseTurns
  <1>3. RestTyped' /\ AttemptsLeft'
    BY <1>0, <1>1 DEF RestTyped, AttemptsLeft
  <1> QED
    BY <1>0, <1>1, <1>2, <1>3, RecordsStep DEF BeginAt, UndoKnown

\* A revocation with nothing to roll back.
LEMMA NoRollbackKeeps ==
  ASSUME IInv, NEW w \in Slots, NoRollback(w)
  PROVE  IInv'
  <1>0. /\ RestTyped /\ SlotsTyped /\ AttemptsLeft /\ UndoKnown /\ PlaceOf(w)
        /\ slots[w].pc # "idle" => slots[w].tx \in Txs
    BY SlotFacts
  <1>1. /\ Quiet(w)
        /\ requests' = [requests EXCEPT ![slots[w].tx] = "failed"] /\ Release(w)
        /\ UNCHANGED <<active, archive, status, undo, jobs, rollback, stops, faults>>
    BY DEF NoRollback, EndRequest, At, Quiet, Files, Database
  <1>2. BeginAt(w, "idle", None)
    BY <1>0, <1>1, ReleaseTurns
  <1>3. RestTyped' /\ AttemptsLeft'
    BY <1>0, <1>1 DEF RestTyped, AttemptsLeft
  <1> QED
    BY <1>0, <1>1, <1>2, <1>3, RecordsStep DEF BeginAt, UndoKnown

\* A step of one slot that changes the active directory and no archive.
LEMMA ActiveStep ==
  ASSUME IInv, NEW w \in Slots, Quiet(w), SlotsTyped', Others(w), RestTyped', AttemptsLeft',
         UNCHANGED <<archive, undo, status>>,
         Pointing(active'), Pointing(slots'[w].aside), PlaceOf(w)'
  PROVE  IInv'
  <1>1. \A t : Complete(t)' = Complete(t)
    BY DEF Complete
  <1>2. Pointing(active)' /\ Pointing(slots[w].aside)'
    BY <1>1 DEF Pointing
  <1>3. \A t \in Txs : Pointing(archive[t])'
    BY <1>1 DEF IInv, Pointers, Pointing
  <1>4. UndoKnown
    BY DEF IInv
  <1> QED
    BY <1>1, <1>2, <1>3, <1>4, Assemble DEF UndoKnown

\* What a slot may put into place points to a complete archive.
LEMMA PointingFacts ==
  ASSUME IInv, NEW w \in Slots
  PROVE  /\ Pointing(Absent) /\ Pointing(active) /\ Pointing(slots[w].aside)
         /\ \A t \in Txs : Pointing(archive[t])
  BY Apart DEF IInv, Pointers, Pointing

\* A slot that fails and leaves or puts back what was active.
LEMMA FailedStep ==
  ASSUME IInv, NEW w \in Slots, Quiet(w), BeginAt(w, "idle", None), JobsKept,
         active' = active \/ active' = slots[w].aside, faults < MaxFaults, faults' = faults + 1,
         requests' \in [Txs -> {"none", "queued", "processing", "completed", "failed"}],
         UNCHANGED <<archive, undo, status, rollback, stops>>
  PROVE  IInv'
  <1>1. /\ RestTyped /\ SlotsTyped /\ slots[w].aside \in Content \cup {Absent}
    BY SlotFacts
  <1>2. RestTyped' /\ AttemptsLeft'
    BY <1>1, BoundAssumption DEF RestTyped, JobsKept
  <1>3. Pointing(active') /\ Pointing(slots'[w].aside)
    BY PointingFacts DEF BeginAt
  <1>4. PlaceOf(w)'
    BY DEF PlaceOf, BeginAt
  <1> QED
    BY <1>2, <1>3, <1>4, ActiveStep DEF BeginAt

\* An apply that fails between two file operations.
LEMMA ApplyFailsKeeps ==
  ASSUME IInv, NEW w \in Slots, ApplyFails(w)
  PROVE  IInv'
  <1>1. /\ Quiet(w) /\ FailJob(w) /\ (active' = active \/ active' = slots[w].aside)
        /\ faults < MaxFaults /\ faults' = faults + 1
        /\ UNCHANGED <<archive, status, undo, requests, rollback, stops>>
    BY DEF ApplyFails, PutBack, At, Quiet, Files, Database, Fault
  <1>2. BeginAt(w, "idle", None) /\ JobsKept
    BY <1>1, FailJobTurns
  <1>3. requests' \in [Txs -> {"none", "queued", "processing", "completed", "failed"}]
    BY <1>1, SlotFacts DEF RestTyped
  <1> QED
    BY <1>1, <1>2, <1>3, FailedStep

\* A handler that fails with what was active back in place.
LEMMA HandlerFailsKeeps ==
  ASSUME IInv, NEW w \in Slots, HandlerFails(w)
  PROVE  IInv'
  <1>1. /\ Quiet(w) /\ FailJob(w) /\ (active' = active \/ active' = slots[w].aside)
        /\ faults < MaxFaults /\ faults' = faults + 1
        /\ UNCHANGED <<archive, status, undo, requests, rollback, stops>>
    BY DEF HandlerFails, PutBack, At, Quiet, Files, Database, Fault
  <1>2. BeginAt(w, "idle", None) /\ JobsKept
    BY <1>1, FailJobTurns
  <1>3. requests' \in [Txs -> {"none", "queued", "processing", "completed", "failed"}]
    BY <1>1, SlotFacts DEF RestTyped
  <1> QED
    BY <1>1, <1>2, <1>3, FailedStep

\* A rollback that fails with what was active back in place.
LEMMA RollbackFailsKeeps ==
  ASSUME IInv, NEW w \in Slots, RollbackFails(w)
  PROVE  IInv'
  <1>1. /\ Quiet(w) /\ Release(w) /\ (active' = active \/ active' = slots[w].aside)
        /\ requests' = [requests EXCEPT ![slots[w].tx] = "failed"]
        /\ faults < MaxFaults /\ faults' = faults + 1
        /\ UNCHANGED <<archive, status, undo, jobs, rollback, stops>>
    BY DEF RollbackFails, PutBack, EndRequest, At, Quiet, Files, Database, Fault
  <1>2. /\ BeginAt(w, "idle", None) /\ JobsKept
        /\ requests' \in [Txs -> {"none", "queued", "processing", "completed", "failed"}]
    BY <1>1, SlotFacts, ReleaseTurns DEF RestTyped, JobsKept, AttemptsLeft
  <1> QED
    BY <1>1, <1>2, FailedStep

\* The directory of an archive is begun; there was none.
LEMMA BeginArchiveKeeps ==
  ASSUME IInv, NEW w \in Slots, BeginArchive(w)
  PROVE  IInv'
  <1> DEFINE t == slots[w].tx
  <1>0. /\ RestTyped /\ SlotsTyped /\ AttemptsLeft /\ UndoKnown /\ PlaceOf(w)
        /\ slots[w].pc # "idle" => t \in Txs
    BY SlotFacts
  <1>1. /\ Quiet(w) /\ slots[w].pc = "applying" /\ active # Absent /\ archive[t] = Absent
        /\ archive' = [archive EXCEPT ![t] = Partial] /\ GoTo(w, "archiving")
        /\ UNCHANGED <<active, status, undo, jobs, requests, rollback, stops, faults>>
    BY DEF BeginArchive, ArchiveFree, At, Quiet, Files, Database
  <1>2. TurnTo(w, "archiving", slots[w].before, slots[w].aside)
    BY <1>0, <1>1, GoToTurns DEF PCs, InFileCode
  <1>3. RestTyped' /\ AttemptsLeft'
    BY <1>0, <1>1 DEF RestTyped, AttemptsLeft
  <1>4. t \in Txs /\ archive'[t] = Partial /\ \A u \in Txs : u # t => archive'[u] = archive[u]
    BY <1>0, <1>1 DEF RestTyped
  <1>5. ~Complete(t) /\ \A u \in Txs : Complete(u) <=> Complete(u)'
    <2>1. archive[t] \notin Content /\ archive'[t] \notin Content
      BY <1>1, <1>4, Apart
    <2>2. \A u \in Txs : archive[u] \in Content <=> archive'[u] \in Content
      BY <1>4, <2>1
    <2> QED
      BY <2>1, <2>2 DEF Complete
  <1>6. Pointing(active)' /\ (\A u \in Txs : Pointing(archive[u])') /\ Pointing(slots[w].aside)'
    <2>1. \A c : Pointing(c) => (c \in Content /\ c.from # None => Complete(c.from)')
      BY <1>5 DEF Pointing, Content
    <2>2. Pointing(active)'
      BY <1>1, <2>1, PointingFacts DEF Pointing
    <2>3. Pointing(slots[w].aside)'
      BY <1>2, <2>1, PointingFacts DEF Pointing, TurnTo
    <2>4. \A u \in Txs : Pointing(archive[u])'
      BY <1>4, <2>1, PointingFacts, Apart DEF Pointing
    <2> QED
      BY <2>2, <2>3, <2>4
  <1>7. PlaceOf(w)'
    <2>1. slots[w].before = Absent
      BY <1>0, <1>5 DEF PlaceOf
    <2>2. active' \in Content
      BY <1>0, <1>1 DEF RestTyped
    <2> QED
      BY <1>2, <1>4, <2>1, <2>2 DEF PlaceOf, TurnTo
  <1> QED
    BY <1>0, <1>1, <1>2, <1>3, <1>5, <1>6, <1>7, Assemble DEF TurnTo, UndoKnown

\* An archive is finished; its directory was begun.
LEMMA FinishArchiveKeeps ==
  ASSUME IInv, NEW w \in Slots, FinishArchive(w)
  PROVE  IInv'
  <1> DEFINE t == slots[w].tx
  <1>0. /\ RestTyped /\ SlotsTyped /\ AttemptsLeft /\ UndoKnown /\ PlaceOf(w)
        /\ slots[w].pc # "idle" => t \in Txs
    BY SlotFacts
  <1>1. /\ Quiet(w) /\ slots[w].pc = "archiving" /\ archive' = [archive EXCEPT ![t] = active]
        /\ slots' = [slots EXCEPT ![w].pc = "archived", ![w].before = active]
        /\ UNCHANGED <<active, status, undo, jobs, requests, rollback, stops, faults>>
    BY DEF FinishArchive, At, Quiet, Files, Database
  <1>2. active \in Content /\ archive[t] = Partial /\ t \in Txs
    BY <1>0, <1>1 DEF PlaceOf
  <1>3. TurnTo(w, "archived", active, slots[w].aside)
    BY <1>0, <1>1, <1>2, BeforeTurns DEF PCs, InFileCode
  <1>4. RestTyped' /\ AttemptsLeft'
    BY <1>0, <1>1, <1>2 DEF RestTyped, AttemptsLeft
  <1>5. archive'[t] = active /\ \A u \in Txs : u # t => archive'[u] = archive[u]
    BY <1>0, <1>1, <1>2 DEF RestTyped
  <1>6. archive'[t] \in Content /\ \A u \in Txs : Complete(u) => Complete(u)'
    <2>1. \A u \in Txs : archive[u] \in Content => archive'[u] \in Content
      BY <1>2, <1>5
    <2> QED
      BY <1>2, <1>5, <2>1 DEF Complete
  <1>7. Pointing(active)' /\ (\A u \in Txs : Pointing(archive[u])') /\ Pointing(slots[w].aside)'
    <2>1. \A c : Pointing(c) => (c \in Content /\ c.from # None => Complete(c.from)')
      BY <1>6 DEF Pointing, Content
    <2>2. Pointing(active)'
      BY <1>1, <2>1, PointingFacts DEF Pointing
    <2>3. Pointing(slots[w].aside)'
      BY <1>3, <2>1, PointingFacts DEF Pointing, TurnTo
    <2>4. \A u \in Txs : Pointing(archive[u])'
      BY <1>5, <2>1, PointingFacts DEF Pointing
    <2> QED
      BY <2>2, <2>3, <2>4
  <1>8. PlaceOf(w)'
    BY <1>2, <1>3, <1>6 DEF PlaceOf, TurnTo, Complete
  <1> QED
    BY <1>0, <1>1, <1>3, <1>4, <1>6, <1>7, <1>8, Assemble DEF TurnTo, UndoKnown

\* The active directory is moved aside.
LEMMA RetireKeeps ==
  ASSUME IInv, NEW w \in Slots, Retire(w)
  PROVE  IInv'
  <1> DEFINE t == slots[w].tx
  <1>0. /\ RestTyped /\ SlotsTyped /\ AttemptsLeft /\ UndoKnown /\ PlaceOf(w)
        /\ slots[w].pc # "idle" => t \in Txs
        /\ slots[w].aside \in Content \cup {Absent} /\ active \in Content \cup {Absent}
    BY SlotFacts DEF RestTyped
  <1>1. /\ Quiet(w) /\ slots[w].pc = "archived"
        /\ slots' = [slots EXCEPT ![w].pc = "ready", ![w].aside = active]
        /\ active' = Absent
        /\ UNCHANGED <<archive, status, undo, jobs, requests, rollback, stops, faults>>
    BY DEF Retire, At, Quiet, Files, Database
  <1>2. TurnTo(w, "ready", slots[w].before, active)
    BY <1>0, <1>1, AsideTurns DEF PCs, InFileCode, AtAwait
  <1>3. RestTyped' /\ AttemptsLeft'
    <2>1. active' \in Content \cup {Absent}
      BY <1>1
    <2> QED
      BY <1>0, <1>1, <2>1 DEF RestTyped, AttemptsLeft
  <1>4. Pointing(active') /\ Pointing(slots'[w].aside)
    BY <1>0, <1>1, <1>2, PointingFacts DEF TurnTo
  <1>5. PlaceOf(w)'
    BY <1>0, <1>1, <1>2 DEF PlaceOf, TurnTo, Complete
  <1> QED
    BY <1>1, <1>2, <1>3, <1>4, <1>5, ActiveStep DEF TurnTo

\* The new directory comes into place, with no manifest yet.
LEMMA SwapKeeps ==
  ASSUME IInv, NEW w \in Slots, Swap(w)
  PROVE  IInv'
  <1> DEFINE t == slots[w].tx
  <1>0. /\ RestTyped /\ SlotsTyped /\ AttemptsLeft /\ UndoKnown /\ PlaceOf(w)
        /\ slots[w].pc # "idle" => t \in Txs
        /\ slots[w].aside \in Content \cup {Absent} /\ active \in Content \cup {Absent}
    BY SlotFacts DEF RestTyped
  <1>1. /\ Quiet(w) /\ slots[w].pc = "ready"
        /\ GoTo(w, "swapped")
        /\ active' = [ver |-> t, from |-> None]
        /\ UNCHANGED <<archive, status, undo, jobs, requests, rollback, stops, faults>>
    BY DEF Swap, At, Quiet, Files, Database
  <1>2. TurnTo(w, "swapped", slots[w].before, slots[w].aside)
    BY <1>0, <1>1, GoToTurns DEF PCs, InFileCode, AtAwait
  <1>3. RestTyped' /\ AttemptsLeft'
    <2>1. active' \in Content \cup {Absent}
      BY <1>0, <1>1 DEF Content
    <2> QED
      BY <1>0, <1>1, <2>1 DEF RestTyped, AttemptsLeft
  <1>4. Pointing(active') /\ Pointing(slots'[w].aside)
    BY <1>0, <1>1, <1>2, PointingFacts DEF TurnTo, Pointing, Content
  <1>5. PlaceOf(w)'
    BY <1>0, <1>1, <1>2 DEF PlaceOf, TurnTo, Complete, Content
  <1> QED
    BY <1>1, <1>2, <1>3, <1>4, <1>5, ActiveStep DEF TurnTo

\* The manifest points to the archive, which is complete.
LEMMA WriteManifestKeeps ==
  ASSUME IInv, NEW w \in Slots, WriteManifest(w)
  PROVE  IInv'
  <1> DEFINE t == slots[w].tx
  <1>0. /\ RestTyped /\ SlotsTyped /\ AttemptsLeft /\ UndoKnown /\ PlaceOf(w)
        /\ slots[w].pc # "idle" => t \in Txs
        /\ slots[w].aside \in Content \cup {Absent} /\ active \in Content \cup {Absent}
    BY SlotFacts DEF RestTyped
  <1>1. /\ Quiet(w) /\ slots[w].pc = "swapped"
        /\ GoTo(w, "recording")
        /\ active' = [active EXCEPT !.from = IF slots[w].before = Absent THEN None ELSE t]
        /\ UNCHANGED <<archive, status, undo, jobs, requests, rollback, stops, faults>>
    BY DEF WriteManifest, At, Quiet, Files, Database
  <1>2. TurnTo(w, "recording", slots[w].before, slots[w].aside)
    BY <1>0, <1>1, GoToTurns DEF PCs, InFileCode, AtAwait
  <1>6. /\ active' \in Content /\ active'.ver = active.ver
        /\ active'.from = IF slots[w].before = Absent THEN None ELSE t
    BY <1>0, <1>1 DEF PlaceOf, Content
  <1>3. RestTyped' /\ AttemptsLeft'
    <2>1. active' \in Content \cup {Absent}
      BY <1>0, <1>1, <1>6
    <2> QED
      BY <1>0, <1>1, <2>1 DEF RestTyped, AttemptsLeft
  <1>4. Pointing(active') /\ Pointing(slots'[w].aside)
    <2>1. Pointing(active')
      <3>1. CASE slots[w].before = Absent
        BY <1>6, <3>1 DEF Pointing
      <3>2. CASE slots[w].before # Absent
        BY <1>0, <1>6, <3>2 DEF Pointing, PlaceOf
      <3> QED
        BY <3>1, <3>2
    <2> QED
      BY <1>0, <1>1, <1>2, <2>1, PointingFacts DEF TurnTo
  <1>5. PlaceOf(w)'
    BY <1>0, <1>1, <1>2 DEF PlaceOf, TurnTo, Complete
  <1> QED
    BY <1>1, <1>2, <1>3, <1>4, <1>5, ActiveStep DEF TurnTo

\* The new directory is taken away.
LEMMA BeginRecoveryKeeps ==
  ASSUME IInv, NEW w \in Slots, BeginRecovery(w)
  PROVE  IInv'
  <1> DEFINE t == slots[w].tx
             next == IF slots[w].before = Absent THEN "recovered" ELSE "restoring"
  <1>0. /\ RestTyped /\ SlotsTyped /\ AttemptsLeft /\ UndoKnown /\ PlaceOf(w)
        /\ slots[w].pc # "idle" => t \in Txs
        /\ slots[w].aside \in Content \cup {Absent} /\ active \in Content \cup {Absent}
    BY SlotFacts DEF RestTyped
  <1>1. /\ Quiet(w) /\ slots[w].pc = "recovering"
        /\ slots' = [slots EXCEPT ![w].pc = next, ![w].aside = active]
        /\ active' = Absent
        /\ UNCHANGED <<archive, status, undo, jobs, requests, rollback, stops, faults>>
    BY DEF BeginRecovery, At, Quiet, Files, Database
  <1>2. TurnTo(w, next, slots[w].before, active)
    BY <1>0, <1>1, AsideTurns DEF PCs, InFileCode, AtAwait
  <1>3. RestTyped' /\ AttemptsLeft'
    <2>1. active' \in Content \cup {Absent}
      BY <1>1
    <2> QED
      BY <1>0, <1>1, <2>1 DEF RestTyped, AttemptsLeft
  <1>4. Pointing(active') /\ Pointing(slots'[w].aside)
    BY <1>0, <1>1, <1>2, PointingFacts DEF TurnTo
  <1>5. PlaceOf(w)'
    BY <1>0, <1>1, <1>2 DEF PlaceOf, TurnTo, Complete
  <1> QED
    BY <1>1, <1>2, <1>3, <1>4, <1>5, ActiveStep DEF TurnTo

\* The archived directory comes back.
LEMMA RestoreArchivedKeeps ==
  ASSUME IInv, NEW w \in Slots, RestoreArchived(w)
  PROVE  IInv'
  <1> DEFINE t == slots[w].tx
  <1>0. /\ RestTyped /\ SlotsTyped /\ AttemptsLeft /\ UndoKnown /\ PlaceOf(w)
        /\ slots[w].pc # "idle" => t \in Txs
        /\ slots[w].aside \in Content \cup {Absent} /\ active \in Content \cup {Absent}
    BY SlotFacts DEF RestTyped
  <1>1. /\ Quiet(w) /\ slots[w].pc = "restoring"
        /\ GoTo(w, "recovered")
        /\ active' = archive[t]
        /\ UNCHANGED <<archive, status, undo, jobs, requests, rollback, stops, faults>>
    BY DEF RestoreArchived, At, Quiet, Files, Database
  <1>2. TurnTo(w, "recovered", slots[w].before, slots[w].aside)
    BY <1>0, <1>1, GoToTurns DEF PCs, InFileCode, AtAwait
  <1>3. RestTyped' /\ AttemptsLeft'
    <2>1. active' \in Content \cup {Absent}
      BY <1>0, <1>1 DEF PlaceOf, Complete
    <2> QED
      BY <1>0, <1>1, <2>1 DEF RestTyped, AttemptsLeft
  <1>4. Pointing(active') /\ Pointing(slots'[w].aside)
    BY <1>0, <1>1, <1>2, PointingFacts DEF TurnTo
  <1>5. PlaceOf(w)'
    BY <1>0, <1>1, <1>2 DEF PlaceOf, TurnTo, Complete
  <1> QED
    BY <1>1, <1>2, <1>3, <1>4, <1>5, ActiveStep DEF TurnTo

\* What replaced nothing is deleted.
LEMMA DeleteActiveKeeps ==
  ASSUME IInv, NEW w \in Slots, DeleteActive(w)
  PROVE  IInv'
  <1> DEFINE t == slots[w].tx
  <1>0. /\ RestTyped /\ SlotsTyped /\ AttemptsLeft /\ UndoKnown /\ PlaceOf(w)
        /\ slots[w].pc # "idle" => t \in Txs
        /\ slots[w].aside \in Content \cup {Absent} /\ active \in Content \cup {Absent}
    BY SlotFacts DEF RestTyped
  <1>1. /\ Quiet(w) /\ slots[w].pc = "rollingBack"
        /\ GoTo(w, "restored")
        /\ active' = Absent
        /\ UNCHANGED <<archive, status, undo, jobs, requests, rollback, stops, faults>>
    BY DEF DeleteActive, At, Quiet, Files, Database
  <1>2. TurnTo(w, "restored", slots[w].before, slots[w].aside)
    BY <1>0, <1>1, GoToTurns DEF PCs, InFileCode, AtAwait
  <1>3. RestTyped' /\ AttemptsLeft'
    <2>1. active' \in Content \cup {Absent}
      BY <1>1
    <2> QED
      BY <1>0, <1>1, <2>1 DEF RestTyped, AttemptsLeft
  <1>4. Pointing(active') /\ Pointing(slots'[w].aside)
    BY <1>0, <1>1, <1>2, PointingFacts DEF TurnTo
  <1>5. PlaceOf(w)'
    BY <1>0, <1>1, <1>2 DEF PlaceOf, TurnTo, Complete
  <1> QED
    BY <1>1, <1>2, <1>3, <1>4, <1>5, ActiveStep DEF TurnTo

\* The directory to roll back is moved aside.
LEMMA RetireForRollbackKeeps ==
  ASSUME IInv, NEW w \in Slots, RetireForRollback(w)
  PROVE  IInv'
  <1> DEFINE t == slots[w].tx
  <1>0. /\ RestTyped /\ SlotsTyped /\ AttemptsLeft /\ UndoKnown /\ PlaceOf(w)
        /\ slots[w].pc # "idle" => t \in Txs
        /\ slots[w].aside \in Content \cup {Absent} /\ active \in Content \cup {Absent}
    BY SlotFacts DEF RestTyped
  <1>1. /\ Quiet(w) /\ slots[w].pc = "rollingBack"
        /\ slots' = [slots EXCEPT ![w].pc = "rbRestoring", ![w].aside = active]
        /\ active' = Absent /\ Complete(t)
        /\ UNCHANGED <<archive, status, undo, jobs, requests, rollback, stops, faults>>
    BY DEF RetireForRollback, At, Quiet, Files, Database
  <1>2. TurnTo(w, "rbRestoring", slots[w].before, active)
    BY <1>0, <1>1, AsideTurns DEF PCs, InFileCode, AtAwait
  <1>3. RestTyped' /\ AttemptsLeft'
    <2>1. active' \in Content \cup {Absent}
      BY <1>1
    <2> QED
      BY <1>0, <1>1, <2>1 DEF RestTyped, AttemptsLeft
  <1>4. Pointing(active') /\ Pointing(slots'[w].aside)
    BY <1>0, <1>1, <1>2, PointingFacts DEF TurnTo
  <1>5. PlaceOf(w)'
    BY <1>0, <1>1, <1>2 DEF PlaceOf, TurnTo, Complete
  <1> QED
    BY <1>1, <1>2, <1>3, <1>4, <1>5, ActiveStep DEF TurnTo

\* The snapshot comes back.
LEMMA RestoreSnapshotKeeps ==
  ASSUME IInv, NEW w \in Slots, RestoreSnapshot(w)
  PROVE  IInv'
  <1> DEFINE t == slots[w].tx
  <1>0. /\ RestTyped /\ SlotsTyped /\ AttemptsLeft /\ UndoKnown /\ PlaceOf(w)
        /\ slots[w].pc # "idle" => t \in Txs
        /\ slots[w].aside \in Content \cup {Absent} /\ active \in Content \cup {Absent}
    BY SlotFacts DEF RestTyped
  <1>1. /\ Quiet(w) /\ slots[w].pc = "rbRestoring"
        /\ GoTo(w, "restored")
        /\ active' = archive[t]
        /\ UNCHANGED <<archive, status, undo, jobs, requests, rollback, stops, faults>>
    BY DEF RestoreSnapshot, At, Quiet, Files, Database, Snapshot
  <1>2. TurnTo(w, "restored", slots[w].before, slots[w].aside)
    BY <1>0, <1>1, GoToTurns DEF PCs, InFileCode, AtAwait
  <1>3. RestTyped' /\ AttemptsLeft'
    <2>1. active' \in Content \cup {Absent}
      BY <1>0, <1>1 DEF PlaceOf, Complete
    <2> QED
      BY <1>0, <1>1, <2>1 DEF RestTyped, AttemptsLeft
  <1>4. Pointing(active') /\ Pointing(slots'[w].aside)
    BY <1>0, <1>1, <1>2, PointingFacts DEF TurnTo
  <1>5. PlaceOf(w)'
    BY <1>0, <1>1, <1>2 DEF PlaceOf, TurnTo, Complete
  <1> QED
    BY <1>1, <1>2, <1>3, <1>4, <1>5, ActiveStep DEF TurnTo

\* A rollback that is asked for.
LEMMA RequestRollbackKeeps ==
  ASSUME IInv, NEW t \in Txs, RequestRollback(t)
  PROVE  IInv'
  <1>1. /\ requests' = [requests EXCEPT ![t] = "queued"]
        /\ UNCHANGED <<active, archive, status, undo, jobs, rollback, slots, stops, faults>>
    BY DEF RequestRollback, Files
  <1>2. StateTyped'
    BY <1>1 DEF IInv, StateTyped, RestTyped, SlotsTyped
  <1> QED
    BY <1>1, <1>2 DEF IInv, AttemptsLeft, OneInFiles, PlaceOf, Complete, Pointers, Pointing,
       UndoKnown

\* A handler that is left behind goes on with its transaction.
LEMMA OrphanTurns ==
  ASSUME SlotsTyped, NEW w \in Slots, slots[w].pc # "idle",
         slots' = [slots EXCEPT ![w].orphan = TRUE]
  PROVE  TurnTo(w, slots[w].pc, slots[w].before, slots[w].aside)
  <1> DEFINE r == [slots[w] EXCEPT !.orphan = TRUE]
  <1>1. slots[w] \in SlotRecord /\ slots[w].tx \in Txs
    BY DEF SlotsTyped
  <1>2. /\ r \in SlotRecord /\ r.pc = slots[w].pc /\ r.tx = slots[w].tx
        /\ r.before = slots[w].before /\ r.aside = slots[w].aside
    BY <1>1 DEF SlotRecord
  <1>3. slots' = [slots EXCEPT ![w] = r]
    BY <1>1 DEF SlotsTyped
  <1> HIDE DEF r
  <1> QED
    BY <1>1, <1>2, <1>3 DEF SlotsTyped, TurnTo, Others

\* Its job is recorded as failed, or it has none.
LEMMA RenewalRaisesJobs ==
  ASSUME IInv, NEW w \in Slots, RenewalRaises(w)
  PROVE  JobsKept
  <1> DEFINE t == slots[w].tx
  <1>1. RestTyped /\ AttemptsLeft
    BY DEF IInv, StateTyped
  <1>2. jobs \in [Txs -> JobRecord]
    BY <1>1 DEF RestTyped
  <1>3. CASE jobs' = jobs
    BY <1>1, <1>2, <1>3 DEF JobsKept, AttemptsLeft
  <1>4. CASE jobs' = [jobs EXCEPT ![t] = Retried(jobs[t])]
    <2>1. \A u \in Txs : jobs'[u] = IF u = t THEN Retried(jobs[t]) ELSE jobs[u]
      BY <1>2, <1>4
    <2>2. DOMAIN jobs' = Txs /\ jobs' = [u \in Txs |-> jobs'[u]]
      BY <1>2, <1>4
    <2>3. \A u \in Txs :
            /\ jobs'[u] \in JobRecord
            /\ jobs'[u].status = "queued" => jobs'[u].attempts < MaxAttempts
      BY <1>1, <1>2, <2>1, RetriedShape DEF AttemptsLeft
    <2> QED
      BY <2>2, <2>3 DEF JobsKept, AttemptsLeft
  <1> QED
    BY <1>3, <1>4 DEF RenewalRaises

\* A handler whose renewal raised.
LEMMA RenewalRaisesKeeps ==
  ASSUME IInv, NEW w \in Slots, RenewalRaises(w)
  PROVE  IInv'
  <1>0. /\ RestTyped /\ SlotsTyped /\ AttemptsLeft /\ UndoKnown /\ PlaceOf(w)
        /\ slots[w].pc # "idle" => slots[w].tx \in Txs
    BY SlotFacts
  <1>1. /\ Quiet(w) /\ slots[w].pc \in AtAwait
        /\ slots' = [slots EXCEPT ![w].orphan = TRUE]
        /\ faults < MaxFaults /\ faults' = faults + 1
        /\ UNCHANGED <<active, archive, status, undo, requests, rollback, stops>>
    BY DEF RenewalRaises, At, Quiet, Files, Database, Fault
  <1>2. TurnTo(w, slots[w].pc, slots[w].before, slots[w].aside)
    BY <1>0, <1>1, OrphanTurns DEF AtAwait
  <1>3. JobsKept
    BY RenewalRaisesJobs
  <1>4. RestTyped'
    BY <1>0, <1>1, <1>3, BoundAssumption DEF RestTyped, JobsKept
  <1>5. slots[w].pc \in {"recorded", "applied"} => undo'[slots[w].tx] # "none"
    BY <1>0, <1>1 DEF PlaceOf
  <1>6. slots[w].pc \notin {"archiving", "swapped", "restoring", "rbRestoring"}
    BY <1>1 DEF AtAwait
  <1> QED
    BY <1>0, <1>1, <1>2, <1>3, <1>4, <1>5, <1>6, RecordsStep DEF TurnTo, JobsKept, UndoKnown

\* Slots that stop lose what they were doing, and nothing else.
LEMMA StopKeeps ==
  ASSUME IInv, NEW ws \in SUBSET Slots, Stop(ws)
  PROVE  IInv'
  <1>0. RestTyped /\ SlotsTyped /\ AttemptsLeft
    BY DEF IInv, StateTyped
  <1>1. /\ stops < MaxStops /\ stops' = stops + 1
        /\ slots' = [w \in Slots |-> IF w \in ws THEN IdleSlot ELSE slots[w]]
        /\ UNCHANGED <<active, archive, status, undo, requests, rollback, faults>>
    BY DEF Stop, Files, Database
  <1>2. /\ IdleSlot \in SlotRecord /\ IdleSlot.pc = "idle"
        /\ IdleSlot.before = Absent /\ IdleSlot.aside = Absent
    BY DEF IdleSlot, SlotRecord, PCs
  <1>3. /\ \A t \in Txs : jobs'[t] = jobs[t] \/ jobs'[t] = Retried(jobs[t])
        /\ DOMAIN jobs' = Txs /\ jobs' = [t \in Txs |-> jobs'[t]]
    BY DEF Stop
  <1>4. \A t \in Txs :
            /\ jobs'[t] \in JobRecord
            /\ jobs'[t].status = "queued" => jobs'[t].attempts < MaxAttempts
    BY <1>0, <1>3, RetriedShape DEF RestTyped, AttemptsLeft
  <1>5. StateTyped' /\ AttemptsLeft'
    <2>1. jobs' \in [Txs -> JobRecord]
      BY <1>3, <1>4
    <2>2. stops' \in 0..MaxStops
      BY <1>0, <1>1, BoundAssumption DEF RestTyped
    <2>3. RestTyped'
      BY <1>0, <1>1, <2>1, <2>2 DEF RestTyped
    <2>4. SlotsTyped'
      BY <1>0, <1>1, <1>2 DEF SlotsTyped
    <2> QED
      BY <1>4, <2>3, <2>4 DEF StateTyped, AttemptsLeft
  <1>6. OneInFiles'
    BY <1>1, <1>2 DEF IInv, OneInFiles, InFileCode
  <1>7. \A w \in Slots : PlaceOf(w)' /\ Pointing(slots[w].aside)'
    <2> SUFFICES ASSUME NEW w \in Slots PROVE PlaceOf(w)' /\ Pointing(slots[w].aside)'
      OBVIOUS
    <2>1. CASE w \in ws
      BY <1>1, <1>2, <2>1, Apart DEF PlaceOf, Pointing
    <2>2. CASE w \notin ws
      BY <1>1, <2>2 DEF IInv, Pointers, PlaceOf, Pointing, Complete
    <2> QED
      BY <2>1, <2>2
  <1>8. Pointers' /\ UndoKnown'
    BY <1>1, <1>7 DEF IInv, Pointers, UndoKnown, Pointing, Complete
  <1> QED
    BY <1>5, <1>6, <1>7, <1>8 DEF IInv

\* Every step keeps the invariant.
LEMMA NextKeeps ==
  ASSUME IInv, [Next]_vars
  PROVE  IInv'
  <1>1. ASSUME NEW w \in Slots, NEW t \in Txs, ClaimApply(w, t) \/ ClaimRollback(w, t) PROVE IInv'
    BY <1>1, ClaimApplyKeeps, ClaimRollbackKeeps
  <1>2. ASSUME NEW w \in Slots,
               \/ DeferApply(w) \/ StartApply(w)
               \/ BeginArchive(w) \/ NothingToArchive(w) \/ ArchiveExists(w) \/ FinishArchive(w)
               \/ Retire(w) \/ Swap(w) \/ ApplyFails(w) \/ WriteManifest(w)
               \/ RecordItems(w) \/ MarkApplied(w) \/ FinishApply(w)
        PROVE  IInv'
    BY <1>2, DeferApplyKeeps, StartApplyKeeps, BeginArchiveKeeps, NothingToArchiveKeeps,
       ArchiveExistsKeeps, FinishArchiveKeeps, RetireKeeps, SwapKeeps, ApplyFailsKeeps,
       WriteManifestKeeps, RecordItemsKeeps, MarkAppliedKeeps, FinishApplyKeeps
  <1>3. ASSUME NEW w \in Slots,
               \/ RecordFails(w) \/ BeginRecovery(w) \/ RestoreArchived(w) \/ MarkFailed(w)
               \/ HandlerFails(w)
        PROVE  IInv'
    BY <1>3, RecordFailsKeeps, BeginRecoveryKeeps, RestoreArchivedKeeps, MarkFailedKeeps,
       HandlerFailsKeeps
  <1>4. ASSUME NEW w \in Slots,
               \/ StartRollback(w) \/ DeleteActive(w) \/ RetireForRollback(w) \/ RestoreSnapshot(w)
               \/ RecordRollback(w) \/ CompleteRollback(w) \/ NoRollback(w) \/ RollbackFails(w)
        PROVE  IInv'
    BY <1>4, StartRollbackKeeps, DeleteActiveKeeps, RetireForRollbackKeeps, RestoreSnapshotKeeps,
       RecordRollbackKeeps, CompleteRollbackKeeps, NoRollbackKeeps, RollbackFailsKeeps
  <1>5. ASSUME NEW w \in Slots, Cancel(w) \/ RenewalRaises(w) PROVE IInv'
    BY <1>5, StopKeeps, RenewalRaisesKeeps DEF Cancel
  <1>6. ASSUME NEW t \in Txs, RequestRollback(t) PROVE IInv'
    BY <1>6, RequestRollbackKeeps
  <1>7. CASE Crash
    BY <1>7, StopKeeps DEF Crash
  <1>8. CASE UNCHANGED vars
    <2>1. UNCHANGED <<active, archive, status, undo, jobs, requests, rollback, slots, stops, faults>>
      BY <1>8 DEF vars
    <2> QED
      BY <2>1 DEF IInv, StateTyped, RestTyped, SlotsTyped, AttemptsLeft, OneInFiles, PlaceOf,
         Complete, Pointers, Pointing,
         UndoKnown
  <1> QED
    BY <1>1, <1>2, <1>3, <1>4, <1>5, <1>6, <1>7, <1>8 DEF Next

\* Nothing has begun.
LEMMA InitEstablishes == Init => IInv
  <1> SUFFICES ASSUME Init PROVE IInv
    OBVIOUS
  <1>1. /\ IdleSlot \in SlotRecord /\ IdleSlot.pc = "idle"
        /\ IdleSlot.before = Absent /\ IdleSlot.aside = Absent
    BY DEF IdleSlot, SlotRecord, PCs
  <1>2. RestTyped /\ AttemptsLeft
    BY BoundAssumption DEF Init, RestTyped, JobRecord, AttemptsLeft
  <1>3. SlotsTyped
    BY <1>1 DEF Init, SlotsTyped
  <1>4. OneInFiles /\ (\A w \in Slots : PlaceOf(w)) /\ Pointers /\ UndoKnown
    BY <1>1, Apart DEF Init, OneInFiles, InFileCode, PlaceOf, Pointers, Pointing, UndoKnown
  <1> QED
    BY <1>2, <1>3, <1>4 DEF IInv, StateTyped

HistoryTyped ==
  /\ crossed \in BOOLEAN
  /\ replaced \in [Txs -> Content \cup {Absent, Partial}]

\* What a step does to the history.
LEMMA HistoryMoves ==
  ASSUME [Next]_vars
  PROVE  (crossed' = crossed \/ Started) /\ (replaced' = replaced \/ \E t : Replaces(t))
  <1> DEFINE Moved ==
        (crossed' = crossed \/ Started) /\ (replaced' = replaced \/ \E t : Replaces(t))
  <1>0. history' = history => Moved
    BY DEF history
  <1>1. ASSUME NEW w \in Slots, NEW t \in Txs, ClaimApply(w, t) \/ ClaimRollback(w, t)
        PROVE  Moved
    BY <1>1 DEF ClaimApply, ClaimRollback
  <1>2. ASSUME NEW w \in Slots, BeginArchive(w) \/ NothingToArchive(w)
        PROVE  Moved
    BY <1>2 DEF BeginArchive, NothingToArchive
  <1>3. ASSUME NEW w \in Slots,
               \/ DeferApply(w) \/ StartApply(w) \/ ArchiveExists(w) \/ FinishArchive(w)
               \/ Retire(w) \/ Swap(w) \/ ApplyFails(w) \/ WriteManifest(w)
               \/ RecordItems(w) \/ MarkApplied(w) \/ FinishApply(w)
               \/ RecordFails(w) \/ BeginRecovery(w) \/ RestoreArchived(w) \/ MarkFailed(w)
               \/ HandlerFails(w)
        PROVE  Moved
    BY <1>0, <1>3 DEF DeferApply, StartApply, ArchiveExists, FinishArchive, Retire, Swap,
       ApplyFails,
       WriteManifest, RecordItems, MarkApplied, FinishApply, RecordFails, BeginRecovery,
       RestoreArchived, MarkFailed, HandlerFails
  <1>4. ASSUME NEW w \in Slots,
               \/ StartRollback(w) \/ DeleteActive(w) \/ RetireForRollback(w) \/ RestoreSnapshot(w)
               \/ RecordRollback(w) \/ CompleteRollback(w) \/ NoRollback(w) \/ RollbackFails(w)
               \/ Cancel(w) \/ RenewalRaises(w)
        PROVE  Moved
    BY <1>0, <1>4 DEF StartRollback, DeleteActive, RetireForRollback, RestoreSnapshot,
       RecordRollback,
       CompleteRollback, NoRollback, RollbackFails, Cancel, RenewalRaises, Stop
  <1>5. ASSUME (\E t \in Txs : RequestRollback(t)) \/ Crash \/ UNCHANGED vars
        PROVE  Moved
    BY <1>0, <1>5 DEF RequestRollback, Crash, Stop, vars
  <1> HIDE DEF Moved
  <1>6. Moved
    BY <1>1, <1>2, <1>3, <1>4, <1>5 DEF Next
  <1> QED
    BY <1>6 DEF Moved

\* The history keeps its shape.
LEMMA HistoryKeeps ==
  ASSUME IInv, HistoryTyped, [Next]_vars
  PROVE  HistoryTyped'
  <1>1. active \in Content \cup {Absent}
    BY DEF IInv, StateTyped, RestTyped
  <1>2. crossed' \in BOOLEAN
    BY HistoryMoves DEF HistoryTyped, Started
  <1>3. ASSUME NEW t, Replaces(t) PROVE replaced' \in [Txs -> Content \cup {Absent, Partial}]
    <2>1. replaced' = [replaced EXCEPT ![t] = replaced'[t]] \/ t \notin Txs
      BY <1>3 DEF HistoryTyped, Replaces
    <2>2. t \in Txs => replaced'[t] \in Content \cup {Absent, Partial}
      BY <1>1, <1>3 DEF HistoryTyped, Replaces
    <2>3. t \notin Txs => replaced' = replaced
      BY <1>3 DEF HistoryTyped, Replaces
    <2> QED
      BY <2>1, <2>2, <2>3 DEF HistoryTyped
  <1> QED
    BY <1>2, <1>3, HistoryMoves DEF HistoryTyped

\* Nothing is known of what is replaced.
LEMMA InitHistory == Init => HistoryTyped
  <1> SUFFICES ASSUME Init PROVE HistoryTyped
    OBVIOUS
  <1>1. crossed = FALSE /\ replaced = [t \in Txs |-> Partial]
    BY DEF Init
  <1> QED
    BY <1>1 DEF HistoryTyped

\* The inductive invariant.
THEOREM InductiveInvariant == Spec => []IInv
  <1>1. IInv /\ [Next]_vars => IInv'
    BY NextKeeps
  <1> QED
    BY <1>1, InitEstablishes, PTL DEF Spec

\* Directories, rows, jobs and slots keep their shape.
THEOREM TypeCorrect == Spec => []TypeOK
  <1>1. Init => IInv /\ HistoryTyped
    BY InitEstablishes, InitHistory
  <1>2. IInv /\ HistoryTyped /\ [Next]_vars => (IInv /\ HistoryTyped)'
    BY NextKeeps, HistoryKeeps
  <1>3. IInv /\ HistoryTyped => TypeOK
    BY DEF IInv, StateTyped, RestTyped, SlotsTyped, HistoryTyped, TypeOK, SlotRecord, PCs,
       JobRecord
  <1> QED
    BY <1>1, <1>2, <1>3, PTL DEF Spec

\* Whatever is interrupted, retried or fails, and however many slots there
\* are, what is applied can be rolled back to a complete archive.
THEOREM PointersValid == Spec => []RollbackPointersValid
  <1>1. IInv => RollbackPointersValid
    BY DEF IInv, RollbackPointersValid, UndoKnown, Pointers, Pointing, Stored
  <1> QED
    BY <1>1, InductiveInvariant, PTL

-----------------------------------------------------------------------------
(* A handler beside which no other is started *)

\* Nobody else runs.
Lone(w) == \A v \in Slots \ {w} : slots[v].pc = "idle"

InApply ==
  {"applying", "archiving", "archived", "ready", "swapped", "recording", "recorded",
   "recovering", "restoring", "recovered"}

\* What a handler that nobody disturbs knows besides.
Undisturbed(w) ==
  LET s == slots[w] IN
  /\ s.pc \in InApply => status[s.tx] = "applying"
  /\ s.pc \in {"starting", "applying"} => s.before = Absent /\ s.aside = Absent
  /\ s.pc = "archived" => active \in Content /\ s.before = active /\ archive[s.tx] = active
  /\ s.pc = "ready" => active = Absent /\ s.aside = s.before
  /\ s.pc \in {"swapped", "recording", "recorded", "applied", "recovering"} =>
       active \in Content /\ active.ver = s.tx
  /\ s.pc = "restoring" => active = Absent /\ s.aside \in Content
  /\ s.pc \in InRollback => requests[s.tx] = "processing"
  /\ s.pc = "rbRestoring" => active = Absent /\ undo[s.tx] = "restore"
  /\ s.pc \in {"restored", "rolledBack"} =>
       active = IF undo[s.tx] = "restore" THEN archive[s.tx] ELSE Absent
  /\ s.pc = "rolledBack" => rollback[s.tx] = "rolled_back"

\* A skill that must be there: applied, not crashed into, not deleted.
Owed ==
  /\ stops = 0
  /\ \A t \in Txs : Claimed(t) => undo[t] # "delete"
  /\ \E t \in Txs : status[t] = "applied"

\* From here the slot may remove what it has put into place.
Placed == {"ready", "swapped", "recording", "recorded", "recovering", "recovered"}

\* A skill that must be there is there, or the slot can put it there.
NoGap(w) ==
  Owed =>
    /\ active # Absent \/ slots[w].pc \in InFileCode
    /\ slots[w].pc \in Placed => slots[w].before # Absent
    /\ slots[w].pc = "rbRestoring" => slots[w].aside # Absent

Kept(t) == active.ver = t \/ \E u \in Txs : archive[u].ver = t

\* What AppliedVersionKept says of a handler that is alone.
Held == (\A t \in Txs : ~Claimed(t)) => \A t \in Txs : status[t] = "applied" => Kept(t)

Sole(w) == Lone(w) /\ Undisturbed(w) /\ NoGap(w) /\ Held

\* Stored is what is active or archived.
LEMMA KeptStored ==
  AppliedVersionKept <=> (~crossed => Held)
  <1>1. \A t : Kept(t) <=> \E c \in Stored : c.ver = t
    BY DEF Kept, Stored
  <1> QED
    BY <1>1 DEF AppliedVersionKept, Held

\* A step of the only handler leaves it the only one.
LEMMA StillSole ==
  ASSUME NEW w \in Slots, Sole(w), Others(w), Undisturbed(w)', NoGap(w)', Held'
  PROVE  Sole(w)'
  BY DEF Sole, Lone, Others

\* What the invariants say of the only handler.
LEMMA AloneFacts ==
  ASSUME IInv, NEW w \in Slots, Sole(w)
  PROVE  /\ RestTyped /\ SlotsTyped /\ PlaceOf(w) /\ Undisturbed(w) /\ NoGap(w) /\ Held
         /\ slots[w].pc # "idle" => slots[w].tx \in Txs
         /\ slots[w].before \in Content \cup {Absent} /\ slots[w].aside \in Content \cup {Absent}
  BY SlotFacts DEF Sole

\* A skill was owed before, unless a version has become applied or a rollback
\* other than a deletion was recorded.
LEMMA OwedBefore ==
  ASSUME stops' = stops, undo' = undo, \A t \in Txs : Claimed(t) => Claimed(t)',
         \A t \in Txs : status'[t] = "applied" => status[t] = "applied"
  PROVE  Owed' => Owed
  BY DEF Owed

\* A step that leaves the files alone keeps the versions.
LEMMA RecordsKeepVersions ==
  ASSUME Held, UNCHANGED <<active, archive>>,
         \A t \in Txs : Claimed(t) => Claimed(t)',
         \A t \in Txs : status'[t] = "applied" => status[t] = "applied" \/ active.ver = t
  PROVE  Held'
  <1>1. \A t : Kept(t)' <=> Kept(t)
    BY DEF Kept
  <1>2. \A t : active.ver = t => Kept(t)
    BY DEF Kept
  <1> QED
    BY <1>1, <1>2 DEF Held

\* A step that changes files keeps the versions that it finds.
LEMMA FilesKeepVersions ==
  ASSUME Held, UNCHANGED status, \A t \in Txs : Claimed(t) => Claimed(t)',
         \/ \E t \in Txs : Claimed(t)
         \/ \A t \in Txs : status[t] = "applied" /\ Kept(t) => Kept(t)'
  PROVE  Held'
  BY DEF Held

\* A step that leaves the files alone, of the only handler.
LEMMA RecordsAlone ==
  ASSUME IInv, NEW w \in Slots, Sole(w), Others(w), UNCHANGED <<active, archive, undo>>,
         stops' = stops \/ stops' > stops,
         \A t \in Txs : Claimed(t) => Claimed(t)',
         \A t \in Txs : status'[t] = "applied" => status[t] = "applied",
         slots[w].pc \in InFileCode => slots'[w].pc \in InFileCode \/ active # Absent,
         slots'[w].pc \in Placed => slots[w].pc \in Placed /\ slots'[w].before = slots[w].before,
         slots'[w].pc # "rbRestoring",
         Undisturbed(w)'
  PROVE  Sole(w)'
  <1>1. Held'
    BY AloneFacts, RecordsKeepVersions
  <1>2. NoGap(w)'
    <2> SUFFICES ASSUME Owed'
                 PROVE  /\ active # Absent \/ slots'[w].pc \in InFileCode
                        /\ slots'[w].pc \in Placed => slots'[w].before # Absent
      BY DEF NoGap
    <2>1. stops \in Nat /\ stops' = 0
      BY AloneFacts, BoundAssumption DEF RestTyped, Owed
    <2>2. Owed
      BY <2>1, OwedBefore
    <2> QED
      BY <2>2, AloneFacts DEF NoGap
  <1> QED
    BY <1>1, <1>2, AloneFacts, StillSole

\* A job that is claimed.
LEMMA ClaimApplyAlone ==
  ASSUME IInv, NEW w \in Slots, Sole(w), NEW t \in Txs, ClaimApply(w, t)
  PROVE  Sole(w)'
  <1>0. /\ RestTyped /\ SlotsTyped /\ PlaceOf(w) /\ Undisturbed(w) /\ NoGap(w) /\ Held
        /\ slots[w].pc # "idle" => slots[w].tx \in Txs
        /\ slots[w].before \in Content \cup {Absent} /\ slots[w].aside \in Content \cup {Absent}
    BY AloneFacts
  <1>1. /\ slots[w].pc = "idle"
        /\ slots' = [slots EXCEPT ![w] = [IdleSlot EXCEPT !.pc = "starting", !.tx = t]]
        /\ UNCHANGED <<active, archive, status, undo, requests, rollback, stops, faults>>
    BY DEF ClaimApply, At, Files, Database
  <1>2. BeginAt(w, "starting", t)
    BY <1>0, <1>1, TakeTurns DEF PCs, AtAwait
  <1>3. \A u \in Txs : Claimed(u) => Claimed(u)'
    BY <1>0, <1>1 DEF Claimed, RestTyped
  <1>4. \A u \in Txs : status'[u] = "applied" => status[u] = "applied"
    BY <1>0, <1>1 DEF RestTyped
  <1>5. Undisturbed(w)'
    BY <1>0, <1>1, <1>2 DEF Undisturbed, BeginAt, TurnTo, InApply, InRollback, RestTyped
  <1> QED
    BY <1>0, <1>1, <1>2, <1>3, <1>4, <1>5, RecordsAlone DEF BeginAt, TurnTo, Placed, InFileCode

\* A revocation that is claimed.
LEMMA ClaimRollbackAlone ==
  ASSUME IInv, NEW w \in Slots, Sole(w), NEW t \in Txs, ClaimRollback(w, t)
  PROVE  Sole(w)'
  <1>0. /\ RestTyped /\ SlotsTyped /\ PlaceOf(w) /\ Undisturbed(w) /\ NoGap(w) /\ Held
        /\ slots[w].pc # "idle" => slots[w].tx \in Txs
        /\ slots[w].before \in Content \cup {Absent} /\ slots[w].aside \in Content \cup {Absent}
    BY AloneFacts
  <1>1. /\ slots[w].pc = "idle" /\ requests[t] = "queued"
        /\ requests' = [requests EXCEPT ![t] = "processing"]
        /\ slots' = [slots EXCEPT ![w] = [IdleSlot EXCEPT !.pc = "claimed", !.tx = t]]
        /\ UNCHANGED <<active, archive, status, undo, jobs, rollback, stops, faults>>
    BY DEF ClaimRollback, At, Quiet, Files, Database
  <1>2. BeginAt(w, "claimed", t)
    BY <1>0, <1>1, TakeTurns DEF PCs, AtAwait
  <1>3. \A u \in Txs : Claimed(u) => Claimed(u)'
    BY <1>0, <1>1 DEF Claimed, RestTyped
  <1>4. \A u \in Txs : status'[u] = "applied" => status[u] = "applied"
    BY <1>0, <1>1 DEF RestTyped
  <1>5. Undisturbed(w)'
    BY <1>0, <1>1, <1>2 DEF Undisturbed, BeginAt, TurnTo, InApply, InRollback, RestTyped
  <1> QED
    BY <1>0, <1>1, <1>2, <1>3, <1>4, <1>5, RecordsAlone DEF BeginAt, TurnTo, Placed, InFileCode

\* An apply that waits for its window.
LEMMA DeferApplyAlone ==
  ASSUME IInv, NEW w \in Slots, Sole(w), DeferApply(w)
  PROVE  Sole(w)'
  <1>0. /\ RestTyped /\ SlotsTyped /\ PlaceOf(w) /\ Undisturbed(w) /\ NoGap(w) /\ Held
        /\ slots[w].pc # "idle" => slots[w].tx \in Txs
        /\ slots[w].before \in Content \cup {Absent} /\ slots[w].aside \in Content \cup {Absent}
    BY AloneFacts
  <1>1. /\ slots[w].pc = "starting" /\ Release(w)
        /\ status' = [status EXCEPT ![slots[w].tx] = "staged"]
        /\ UNCHANGED <<active, archive, undo, requests, rollback, stops, faults>>
    BY DEF DeferApply, JobDone, At, Quiet, Files, Database
  <1>2. BeginAt(w, "idle", None)
    BY <1>0, <1>1, ReleaseTurns
  <1>3. \A u \in Txs : Claimed(u) => Claimed(u)'
    BY <1>0, <1>1 DEF Claimed, RestTyped
  <1>4. \A u \in Txs : status'[u] = "applied" => status[u] = "applied"
    BY <1>0, <1>1 DEF RestTyped
  <1>5. Undisturbed(w)'
    BY <1>0, <1>1, <1>2 DEF Undisturbed, BeginAt, TurnTo, InApply, InRollback, RestTyped
  <1> QED
    BY <1>0, <1>1, <1>2, <1>3, <1>4, <1>5, RecordsAlone DEF BeginAt, TurnTo, Placed, InFileCode

\* An apply that is done.
LEMMA FinishApplyAlone ==
  ASSUME IInv, NEW w \in Slots, Sole(w), FinishApply(w)
  PROVE  Sole(w)'
  <1>0. /\ RestTyped /\ SlotsTyped /\ PlaceOf(w) /\ Undisturbed(w) /\ NoGap(w) /\ Held
        /\ slots[w].pc # "idle" => slots[w].tx \in Txs
        /\ slots[w].before \in Content \cup {Absent} /\ slots[w].aside \in Content \cup {Absent}
    BY AloneFacts
  <1>1. /\ slots[w].pc = "applied" /\ Release(w)
        /\ UNCHANGED <<active, archive, status, undo, requests, rollback, stops, faults>>
    BY DEF FinishApply, JobDone, At, Quiet, Files, Database
  <1>2. BeginAt(w, "idle", None)
    BY <1>0, <1>1, ReleaseTurns
  <1>3. \A u \in Txs : Claimed(u) => Claimed(u)'
    BY <1>0, <1>1 DEF Claimed, RestTyped
  <1>4. \A u \in Txs : status'[u] = "applied" => status[u] = "applied"
    BY <1>0, <1>1 DEF RestTyped
  <1>5. Undisturbed(w)'
    BY <1>0, <1>1, <1>2 DEF Undisturbed, BeginAt, TurnTo, InApply, InRollback, RestTyped
  <1> QED
    BY <1>0, <1>1, <1>2, <1>3, <1>4, <1>5, RecordsAlone DEF BeginAt, TurnTo, Placed, InFileCode

\* An apply that finds an archive of its own.
LEMMA ArchiveExistsAlone ==
  ASSUME IInv, NEW w \in Slots, Sole(w), ArchiveExists(w)
  PROVE  Sole(w)'
  <1>0. /\ RestTyped /\ SlotsTyped /\ PlaceOf(w) /\ Undisturbed(w) /\ NoGap(w) /\ Held
        /\ slots[w].pc # "idle" => slots[w].tx \in Txs
        /\ slots[w].before \in Content \cup {Absent} /\ slots[w].aside \in Content \cup {Absent}
    BY AloneFacts
  <1>1. /\ slots[w].pc = "applying" /\ FailJob(w)
        /\ UNCHANGED <<active, archive, status, undo, requests, rollback, stops, faults>>
    BY DEF ArchiveExists, At, Quiet, Files, Database
  <1>2. BeginAt(w, "idle", None)
    BY <1>1, FailJobTurns
  <1>3. \A u \in Txs : Claimed(u) => Claimed(u)'
    BY <1>0, <1>1 DEF Claimed, RestTyped
  <1>4. \A u \in Txs : status'[u] = "applied" => status[u] = "applied"
    BY <1>0, <1>1 DEF RestTyped
  <1>5. Undisturbed(w)'
    BY <1>0, <1>1, <1>2 DEF Undisturbed, BeginAt, TurnTo, InApply, InRollback, RestTyped
  <1> QED
    BY <1>0, <1>1, <1>2, <1>3, <1>4, <1>5, RecordsAlone DEF BeginAt, TurnTo, Placed, InFileCode

\* An apply that has been recovered from.
LEMMA MarkFailedAlone ==
  ASSUME IInv, NEW w \in Slots, Sole(w), MarkFailed(w)
  PROVE  Sole(w)'
  <1>0. /\ RestTyped /\ SlotsTyped /\ PlaceOf(w) /\ Undisturbed(w) /\ NoGap(w) /\ Held
        /\ slots[w].pc # "idle" => slots[w].tx \in Txs
        /\ slots[w].before \in Content \cup {Absent} /\ slots[w].aside \in Content \cup {Absent}
    BY AloneFacts
  <1>1. /\ slots[w].pc = "recovered" /\ FailJob(w)
        /\ status' = [status EXCEPT ![slots[w].tx] = "failed"]
        /\ UNCHANGED <<active, archive, undo, requests, rollback, stops, faults>>
    BY DEF MarkFailed, At, Quiet, Files, Database
  <1>2. BeginAt(w, "idle", None)
    BY <1>1, FailJobTurns
  <1>3. \A u \in Txs : Claimed(u) => Claimed(u)'
    BY <1>0, <1>1 DEF Claimed, RestTyped
  <1>4. \A u \in Txs : status'[u] = "applied" => status[u] = "applied"
    BY <1>0, <1>1 DEF RestTyped
  <1>5. Undisturbed(w)'
    BY <1>0, <1>1, <1>2 DEF Undisturbed, BeginAt, TurnTo, InApply, InRollback, RestTyped
  <1> QED
    BY <1>0, <1>1, <1>2, <1>3, <1>4, <1>5, RecordsAlone DEF BeginAt, TurnTo, Placed, InFileCode

\* A revocation that is completed.
LEMMA CompleteRollbackAlone ==
  ASSUME IInv, NEW w \in Slots, Sole(w), CompleteRollback(w)
  PROVE  Sole(w)'
  <1>0. /\ RestTyped /\ SlotsTyped /\ PlaceOf(w) /\ Undisturbed(w) /\ NoGap(w) /\ Held
        /\ slots[w].pc # "idle" => slots[w].tx \in Txs
        /\ slots[w].before \in Content \cup {Absent} /\ slots[w].aside \in Content \cup {Absent}
    BY AloneFacts
  <1>1. /\ slots[w].pc = "rolledBack" /\ Release(w)
        /\ requests' = [requests EXCEPT ![slots[w].tx] = "completed"]
        /\ UNCHANGED <<active, archive, status, undo, jobs, rollback, stops, faults>>
    BY DEF CompleteRollback, EndRequest, At, Quiet, Files, Database
  <1>2. BeginAt(w, "idle", None)
    BY <1>0, <1>1, ReleaseTurns
  <1>3. \A u \in Txs : Claimed(u) => Claimed(u)'
    BY <1>0, <1>1 DEF Claimed, RestTyped
  <1>4. \A u \in Txs : status'[u] = "applied" => status[u] = "applied"
    BY <1>0, <1>1 DEF RestTyped
  <1>5. Undisturbed(w)'
    BY <1>0, <1>1, <1>2 DEF Undisturbed, BeginAt, TurnTo, InApply, InRollback, RestTyped
  <1> QED
    BY <1>0, <1>1, <1>2, <1>3, <1>4, <1>5, RecordsAlone DEF BeginAt, TurnTo, Placed, InFileCode

\* A revocation with nothing to roll back.
LEMMA NoRollbackAlone ==
  ASSUME IInv, NEW w \in Slots, Sole(w), NoRollback(w)
  PROVE  Sole(w)'
  <1>0. /\ RestTyped /\ SlotsTyped /\ PlaceOf(w) /\ Undisturbed(w) /\ NoGap(w) /\ Held
        /\ slots[w].pc # "idle" => slots[w].tx \in Txs
        /\ slots[w].before \in Content \cup {Absent} /\ slots[w].aside \in Content \cup {Absent}
    BY AloneFacts
  <1>1. /\ slots[w].pc = "claimed" /\ Release(w)
        /\ requests' = [requests EXCEPT ![slots[w].tx] = "failed"]
        /\ UNCHANGED <<active, archive, status, undo, jobs, rollback, stops, faults>>
    BY DEF NoRollback, EndRequest, At, Quiet, Files, Database
  <1>2. BeginAt(w, "idle", None)
    BY <1>0, <1>1, ReleaseTurns
  <1>3. \A u \in Txs : Claimed(u) => Claimed(u)'
    BY <1>0, <1>1 DEF Claimed, RestTyped
  <1>4. \A u \in Txs : status'[u] = "applied" => status[u] = "applied"
    BY <1>0, <1>1 DEF RestTyped
  <1>5. Undisturbed(w)'
    BY <1>0, <1>1, <1>2 DEF Undisturbed, BeginAt, TurnTo, InApply, InRollback, RestTyped
  <1> QED
    BY <1>0, <1>1, <1>2, <1>3, <1>4, <1>5, RecordsAlone DEF BeginAt, TurnTo, Placed, InFileCode

\* An apply that starts.
LEMMA StartApplyAlone ==
  ASSUME IInv, NEW w \in Slots, Sole(w), StartApply(w)
  PROVE  Sole(w)'
  <1>0. /\ RestTyped /\ SlotsTyped /\ PlaceOf(w) /\ Undisturbed(w) /\ NoGap(w) /\ Held
        /\ slots[w].pc # "idle" => slots[w].tx \in Txs
        /\ slots[w].before \in Content \cup {Absent} /\ slots[w].aside \in Content \cup {Absent}
    BY AloneFacts
  <1>1. /\ slots[w].pc = "starting" /\ GoTo(w, "applying")
        /\ status' = [status EXCEPT ![slots[w].tx] = "applying"]
        /\ UNCHANGED <<active, archive, undo, jobs, requests, rollback, stops, faults>>
    BY DEF StartApply, At, Quiet, Files, Database
  <1>2. TurnTo(w, "applying", slots[w].before, slots[w].aside)
    BY <1>0, <1>1, GoToTurns DEF PCs, AtAwait, InFileCode
  <1>3. \A u \in Txs : Claimed(u) => Claimed(u)'
    BY <1>0, <1>1 DEF Claimed, RestTyped
  <1>4. \A u \in Txs : status'[u] = "applied" => status[u] = "applied"
    BY <1>0, <1>1 DEF RestTyped
  <1>5. Undisturbed(w)'
    BY <1>0, <1>1, <1>2 DEF Undisturbed, BeginAt, TurnTo, InApply, InRollback, RestTyped
  <1> QED
    BY <1>0, <1>1, <1>2, <1>3, <1>4, <1>5, RecordsAlone DEF BeginAt, TurnTo, Placed, InFileCode

\* An apply whose manifest or record fails.
LEMMA RecordFailsAlone ==
  ASSUME IInv, NEW w \in Slots, Sole(w), RecordFails(w)
  PROVE  Sole(w)'
  <1>0. /\ RestTyped /\ SlotsTyped /\ PlaceOf(w) /\ Undisturbed(w) /\ NoGap(w) /\ Held
        /\ slots[w].pc # "idle" => slots[w].tx \in Txs
        /\ slots[w].before \in Content \cup {Absent} /\ slots[w].aside \in Content \cup {Absent}
    BY AloneFacts
  <1>1. /\ slots[w].pc \in {"swapped", "recording", "recorded"} /\ GoTo(w, "recovering")
        /\ UNCHANGED <<active, archive, status, undo, jobs, requests, rollback, stops>>
    BY DEF RecordFails, At, Quiet, Files, Database
  <1>2. TurnTo(w, "recovering", slots[w].before, slots[w].aside)
    BY <1>0, <1>1, GoToTurns DEF PCs, AtAwait, InFileCode
  <1>3. \A u \in Txs : Claimed(u) => Claimed(u)'
    BY <1>0, <1>1 DEF Claimed, RestTyped
  <1>4. \A u \in Txs : status'[u] = "applied" => status[u] = "applied"
    BY <1>0, <1>1 DEF RestTyped
  <1>5. Undisturbed(w)'
    BY <1>0, <1>1, <1>2 DEF Undisturbed, BeginAt, TurnTo, InApply, InRollback, RestTyped
  <1> QED
    BY <1>0, <1>1, <1>2, <1>3, <1>4, <1>5, RecordsAlone DEF BeginAt, TurnTo, Placed, InFileCode

\* A rollback that starts.
LEMMA StartRollbackAlone ==
  ASSUME IInv, NEW w \in Slots, Sole(w), StartRollback(w)
  PROVE  Sole(w)'
  <1>0. /\ RestTyped /\ SlotsTyped /\ PlaceOf(w) /\ Undisturbed(w) /\ NoGap(w) /\ Held
        /\ slots[w].pc # "idle" => slots[w].tx \in Txs
        /\ slots[w].before \in Content \cup {Absent} /\ slots[w].aside \in Content \cup {Absent}
    BY AloneFacts
  <1>1. /\ slots[w].pc = "claimed" /\ GoTo(w, "rollingBack")
        /\ UNCHANGED <<active, archive, status, undo, jobs, requests, stops, faults>>
    BY DEF StartRollback, At, Quiet, Files, Database
  <1>2. TurnTo(w, "rollingBack", slots[w].before, slots[w].aside)
    BY <1>0, <1>1, GoToTurns DEF PCs, AtAwait, InFileCode
  <1>3. \A u \in Txs : Claimed(u) => Claimed(u)'
    BY <1>0, <1>1 DEF Claimed, RestTyped
  <1>4. \A u \in Txs : status'[u] = "applied" => status[u] = "applied"
    BY <1>0, <1>1 DEF RestTyped
  <1>5. Undisturbed(w)'
    BY <1>0, <1>1, <1>2 DEF Undisturbed, BeginAt, TurnTo, InApply, InRollback, RestTyped
  <1> QED
    BY <1>0, <1>1, <1>2, <1>3, <1>4, <1>5, RecordsAlone DEF BeginAt, TurnTo, Placed, InFileCode

\* A rollback that is recorded.
LEMMA RecordRollbackAlone ==
  ASSUME IInv, NEW w \in Slots, Sole(w), RecordRollback(w)
  PROVE  Sole(w)'
  <1>0. /\ RestTyped /\ SlotsTyped /\ PlaceOf(w) /\ Undisturbed(w) /\ NoGap(w) /\ Held
        /\ slots[w].pc # "idle" => slots[w].tx \in Txs
        /\ slots[w].before \in Content \cup {Absent} /\ slots[w].aside \in Content \cup {Absent}
    BY AloneFacts
  <1>1. /\ slots[w].pc = "restored" /\ GoTo(w, "rolledBack")
        /\ rollback' = [rollback EXCEPT ![slots[w].tx] = "rolled_back"]
        /\ UNCHANGED <<active, archive, status, undo, jobs, requests, stops, faults>>
    BY DEF RecordRollback, At, Quiet, Files, Database
  <1>2. TurnTo(w, "rolledBack", slots[w].before, slots[w].aside)
    BY <1>0, <1>1, GoToTurns DEF PCs, AtAwait, InFileCode
  <1>3. \A u \in Txs : Claimed(u) => Claimed(u)'
    BY <1>0, <1>1 DEF Claimed, RestTyped
  <1>4. \A u \in Txs : status'[u] = "applied" => status[u] = "applied"
    BY <1>0, <1>1 DEF RestTyped
  <1>5. Undisturbed(w)'
    BY <1>0, <1>1, <1>2 DEF Undisturbed, BeginAt, TurnTo, InApply, InRollback, RestTyped
  <1> QED
    BY <1>0, <1>1, <1>2, <1>3, <1>4, <1>5, RecordsAlone DEF BeginAt, TurnTo, Placed, InFileCode

\* An apply of the first version finds none applied.
LEMMA NothingToArchiveAlone ==
  ASSUME IInv, NEW w \in Slots, Sole(w), NothingToArchive(w)
  PROVE  Sole(w)'
  <1>0. /\ RestTyped /\ SlotsTyped /\ PlaceOf(w) /\ Undisturbed(w) /\ NoGap(w) /\ Held
        /\ slots[w].pc # "idle" => slots[w].tx \in Txs
        /\ slots[w].before \in Content \cup {Absent} /\ slots[w].aside \in Content \cup {Absent}
    BY AloneFacts
  <1>1. /\ slots[w].pc = "applying" /\ active = Absent /\ GoTo(w, "ready")
        /\ UNCHANGED <<active, archive, status, undo, jobs, requests, rollback, stops, faults>>
    BY DEF NothingToArchive, At, Quiet, Files, Database
  <1>2. TurnTo(w, "ready", slots[w].before, slots[w].aside)
    BY <1>0, <1>1, GoToTurns DEF PCs, AtAwait, InFileCode
  <1>3. slots[w].before = Absent /\ slots[w].aside = Absent
    BY <1>0, <1>1 DEF Undisturbed
  <1>5. Undisturbed(w)'
    BY <1>0, <1>1, <1>2, <1>3 DEF Undisturbed, PlaceOf, Complete, TurnTo, BeginAt, InApply,
       InRollback, RestTyped
  <1>6. Held'
    <2>1. \A u \in Txs : status[u] = "applied" /\ Kept(u) => Kept(u)'
      BY <1>1 DEF Kept
    <2>2. \A u \in Txs : Claimed(u) => Claimed(u)'
      BY <1>0, <1>1 DEF Claimed, RestTyped
    <2> QED
      BY <1>0, <1>1, <2>1, <2>2, FilesKeepVersions
  <1>7. NoGap(w)'
    <2>1. Owed' => Owed
      BY <1>1 DEF Owed, Claimed
    <2> QED
      BY <1>0, <1>1, <1>2, <2>1, Apart DEF NoGap, TurnTo, BeginAt, Placed, InFileCode, PlaceOf,
         Undisturbed, RestTyped
  <1> QED
    BY <1>2, <1>5, <1>6, <1>7, StillSole DEF TurnTo, BeginAt

\* The archive that is begun held nothing.
LEMMA BeginArchiveAlone ==
  ASSUME IInv, NEW w \in Slots, Sole(w), BeginArchive(w)
  PROVE  Sole(w)'
  <1>0. /\ RestTyped /\ SlotsTyped /\ PlaceOf(w) /\ Undisturbed(w) /\ NoGap(w) /\ Held
        /\ slots[w].pc # "idle" => slots[w].tx \in Txs
        /\ slots[w].before \in Content \cup {Absent} /\ slots[w].aside \in Content \cup {Absent}
    BY AloneFacts
  <1>1. /\ slots[w].pc = "applying" /\ active # Absent /\ archive[slots[w].tx] = Absent
        /\ archive' = [archive EXCEPT ![slots[w].tx] = Partial] /\ GoTo(w, "archiving")
        /\ UNCHANGED <<active, status, undo, jobs, requests, rollback, stops, faults>>
    BY DEF BeginArchive, ArchiveFree, At, Quiet, Files, Database
  <1>2. TurnTo(w, "archiving", slots[w].before, slots[w].aside)
    BY <1>0, <1>1, GoToTurns DEF PCs, AtAwait, InFileCode
  <1>5. Undisturbed(w)'
    BY <1>0, <1>1, <1>2 DEF Undisturbed, PlaceOf, Complete, TurnTo, BeginAt, InApply,
       InRollback, RestTyped
  <1>6. Held'
    <2>1. \A u \in Txs : status[u] = "applied" /\ Kept(u) => Kept(u)'
      <3>1. \A v \in Txs : archive[v].ver \in Txs => archive'[v] = archive[v]
        BY <1>0, <1>1, Apart, NoneAssumption DEF RestTyped
      <3> QED
        BY <1>1, <3>1 DEF Kept
    <2>2. \A u \in Txs : Claimed(u) => Claimed(u)'
      BY <1>0, <1>1 DEF Claimed, RestTyped
    <2> QED
      BY <1>0, <1>1, <2>1, <2>2, FilesKeepVersions
  <1>7. NoGap(w)'
    <2>1. Owed' => Owed
      BY <1>1 DEF Owed, Claimed
    <2> QED
      BY <1>0, <1>1, <1>2, <2>1, Apart DEF NoGap, TurnTo, BeginAt, Placed, InFileCode, PlaceOf,
         Undisturbed, RestTyped
  <1> QED
    BY <1>2, <1>5, <1>6, <1>7, StillSole DEF TurnTo, BeginAt

\* The archive that is finished was begun.
LEMMA FinishArchiveAlone ==
  ASSUME IInv, NEW w \in Slots, Sole(w), FinishArchive(w)
  PROVE  Sole(w)'
  <1>0. /\ RestTyped /\ SlotsTyped /\ PlaceOf(w) /\ Undisturbed(w) /\ NoGap(w) /\ Held
        /\ slots[w].pc # "idle" => slots[w].tx \in Txs
        /\ slots[w].before \in Content \cup {Absent} /\ slots[w].aside \in Content \cup {Absent}
    BY AloneFacts
  <1>1. /\ slots[w].pc = "archiving" /\ archive' = [archive EXCEPT ![slots[w].tx] = active]
        /\ slots' = [slots EXCEPT ![w].pc = "archived", ![w].before = active]
        /\ UNCHANGED <<active, status, undo, jobs, requests, rollback, stops, faults>>
    BY DEF FinishArchive, At, Quiet, Files, Database
  <1>2. TurnTo(w, "archived", active, slots[w].aside)
    BY <1>0, <1>1, BeforeTurns DEF PlaceOf, PCs, InFileCode
  <1>3. active \in Content /\ archive[slots[w].tx] = Partial /\ archive'[slots[w].tx] = active
    BY <1>0, <1>1 DEF PlaceOf, RestTyped
  <1>5. Undisturbed(w)'
    BY <1>0, <1>1, <1>2, <1>3 DEF Undisturbed, PlaceOf, Complete, TurnTo, BeginAt, InApply,
       InRollback, RestTyped
  <1>6. Held'
    <2>1. \A u \in Txs : status[u] = "applied" /\ Kept(u) => Kept(u)'
      <3>1. \A v \in Txs : archive[v].ver \in Txs => archive'[v] = archive[v]
        BY <1>0, <1>1, <1>3, Apart, NoneAssumption DEF RestTyped
      <3> QED
        BY <1>1, <3>1 DEF Kept
    <2>2. \A u \in Txs : Claimed(u) => Claimed(u)'
      BY <1>0, <1>1 DEF Claimed, RestTyped
    <2> QED
      BY <1>0, <1>1, <2>1, <2>2, FilesKeepVersions
  <1>7. NoGap(w)'
    <2>1. Owed' => Owed
      BY <1>1 DEF Owed, Claimed
    <2> QED
      BY <1>0, <1>1, <1>2, <2>1, Apart DEF NoGap, TurnTo, BeginAt, Placed, InFileCode, PlaceOf,
         Undisturbed, RestTyped
  <1> QED
    BY <1>2, <1>5, <1>6, <1>7, StillSole DEF TurnTo, BeginAt

\* What is moved aside has been archived.
LEMMA RetireAlone ==
  ASSUME IInv, NEW w \in Slots, Sole(w), Retire(w)
  PROVE  Sole(w)'
  <1>0. /\ RestTyped /\ SlotsTyped /\ PlaceOf(w) /\ Undisturbed(w) /\ NoGap(w) /\ Held
        /\ slots[w].pc # "idle" => slots[w].tx \in Txs
        /\ slots[w].before \in Content \cup {Absent} /\ slots[w].aside \in Content \cup {Absent}
    BY AloneFacts
  <1>1. /\ slots[w].pc = "archived" /\ active' = Absent
        /\ slots' = [slots EXCEPT ![w].pc = "ready", ![w].aside = active]
        /\ UNCHANGED <<archive, status, undo, jobs, requests, rollback, stops, faults>>
    BY DEF Retire, At, Quiet, Files, Database
  <1>2. TurnTo(w, "ready", slots[w].before, active)
    BY <1>0, <1>1, AsideTurns DEF RestTyped, PCs, InFileCode, AtAwait
  <1>5. Undisturbed(w)'
    BY <1>0, <1>1, <1>2 DEF Undisturbed, PlaceOf, Complete, TurnTo, BeginAt, InApply,
       InRollback, RestTyped
  <1>6. Held'
    <2>1. \A u \in Txs : status[u] = "applied" /\ Kept(u) => Kept(u)'
      <3>1. archive[slots[w].tx] = active
        BY <1>0, <1>1 DEF Undisturbed
      <3> QED
        BY <1>0, <1>1, <3>1 DEF Kept
    <2>2. \A u \in Txs : Claimed(u) => Claimed(u)'
      BY <1>0, <1>1 DEF Claimed, RestTyped
    <2> QED
      BY <1>0, <1>1, <2>1, <2>2, FilesKeepVersions
  <1>7. NoGap(w)'
    <2>1. Owed' => Owed
      BY <1>1 DEF Owed, Claimed
    <2> QED
      BY <1>0, <1>1, <1>2, <2>1, Apart DEF NoGap, TurnTo, BeginAt, Placed, InFileCode, PlaceOf,
         Undisturbed, RestTyped
  <1> QED
    BY <1>2, <1>5, <1>6, <1>7, StillSole DEF TurnTo, BeginAt

\* The new directory takes the place of none.
LEMMA SwapAlone ==
  ASSUME IInv, NEW w \in Slots, Sole(w), Swap(w)
  PROVE  Sole(w)'
  <1>0. /\ RestTyped /\ SlotsTyped /\ PlaceOf(w) /\ Undisturbed(w) /\ NoGap(w) /\ Held
        /\ slots[w].pc # "idle" => slots[w].tx \in Txs
        /\ slots[w].before \in Content \cup {Absent} /\ slots[w].aside \in Content \cup {Absent}
    BY AloneFacts
  <1>1. /\ slots[w].pc = "ready" /\ active' = [ver |-> slots[w].tx, from |-> None] /\ GoTo(w, "swapped")
        /\ UNCHANGED <<archive, status, undo, jobs, requests, rollback, stops, faults>>
    BY DEF Swap, At, Quiet, Files, Database
  <1>2. TurnTo(w, "swapped", slots[w].before, slots[w].aside)
    BY <1>0, <1>1, GoToTurns DEF PCs, AtAwait, InFileCode
  <1>3. active' \in Content /\ active'.ver = slots[w].tx
    BY <1>0, <1>1 DEF Content
  <1>5. Undisturbed(w)'
    BY <1>0, <1>1, <1>2, <1>3 DEF Undisturbed, PlaceOf, Complete, TurnTo, BeginAt, InApply,
       InRollback, RestTyped
  <1>6. Held'
    <2>1. \A u \in Txs : status[u] = "applied" /\ Kept(u) => Kept(u)'
      <3>1. active.ver = None
        BY <1>0, <1>1, Apart DEF Undisturbed
      <3> QED
        BY <1>1, <3>1, NoneAssumption DEF Kept
    <2>2. \A u \in Txs : Claimed(u) => Claimed(u)'
      BY <1>0, <1>1 DEF Claimed, RestTyped
    <2> QED
      BY <1>0, <1>1, <2>1, <2>2, FilesKeepVersions
  <1>7. NoGap(w)'
    <2>1. Owed' => Owed
      BY <1>1 DEF Owed, Claimed
    <2> QED
      BY <1>0, <1>1, <1>2, <1>3, <2>1, Apart DEF NoGap, TurnTo, BeginAt, Placed, InFileCode,
         PlaceOf, Undisturbed, RestTyped
  <1> QED
    BY <1>2, <1>5, <1>6, <1>7, StillSole DEF TurnTo, BeginAt

\* A manifest changes no version.
LEMMA WriteManifestAlone ==
  ASSUME IInv, NEW w \in Slots, Sole(w), WriteManifest(w)
  PROVE  Sole(w)'
  <1>0. /\ RestTyped /\ SlotsTyped /\ PlaceOf(w) /\ Undisturbed(w) /\ NoGap(w) /\ Held
        /\ slots[w].pc # "idle" => slots[w].tx \in Txs
        /\ slots[w].before \in Content \cup {Absent} /\ slots[w].aside \in Content \cup {Absent}
    BY AloneFacts
  <1>1. /\ slots[w].pc = "swapped" /\ GoTo(w, "recording")
        /\ active' = [active EXCEPT !.from = IF slots[w].before = Absent THEN None ELSE slots[w].tx]
        /\ UNCHANGED <<archive, status, undo, jobs, requests, rollback, stops, faults>>
    BY DEF WriteManifest, At, Quiet, Files, Database
  <1>2. TurnTo(w, "recording", slots[w].before, slots[w].aside)
    BY <1>0, <1>1, GoToTurns DEF PCs, AtAwait, InFileCode
  <1>3. active' \in Content /\ active'.ver = active.ver
    BY <1>0, <1>1 DEF PlaceOf, Content
  <1>5. Undisturbed(w)'
    BY <1>0, <1>1, <1>2, <1>3 DEF Undisturbed, PlaceOf, Complete, TurnTo, BeginAt, InApply,
       InRollback, RestTyped
  <1>6. Held'
    <2>1. \A u \in Txs : status[u] = "applied" /\ Kept(u) => Kept(u)'
      BY <1>1, <1>3 DEF Kept
    <2>2. \A u \in Txs : Claimed(u) => Claimed(u)'
      BY <1>0, <1>1 DEF Claimed, RestTyped
    <2> QED
      BY <1>0, <1>1, <2>1, <2>2, FilesKeepVersions
  <1>7. NoGap(w)'
    <2>1. Owed' => Owed
      BY <1>1 DEF Owed, Claimed
    <2> QED
      BY <1>0, <1>1, <1>2, <1>3, <2>1, Apart DEF NoGap, TurnTo, BeginAt, Placed, InFileCode,
         PlaceOf, Undisturbed, RestTyped
  <1> QED
    BY <1>2, <1>5, <1>6, <1>7, StillSole DEF TurnTo, BeginAt

\* What a recovery takes away has not been applied.
LEMMA BeginRecoveryAlone ==
  ASSUME IInv, NEW w \in Slots, Sole(w), BeginRecovery(w)
  PROVE  Sole(w)'
  <1>0. /\ RestTyped /\ SlotsTyped /\ PlaceOf(w) /\ Undisturbed(w) /\ NoGap(w) /\ Held
        /\ slots[w].pc # "idle" => slots[w].tx \in Txs
        /\ slots[w].before \in Content \cup {Absent} /\ slots[w].aside \in Content \cup {Absent}
    BY AloneFacts
  <1>1. /\ slots[w].pc = "recovering" /\ active' = Absent
        /\ slots' = [slots EXCEPT
             ![w].pc = IF slots[w].before = Absent THEN "recovered" ELSE "restoring",
             ![w].aside = active]
        /\ UNCHANGED <<archive, status, undo, jobs, requests, rollback, stops, faults>>
    BY DEF BeginRecovery, At, Quiet, Files, Database
  <1> DEFINE next == IF slots[w].before = Absent THEN "recovered" ELSE "restoring"
  <1>2. TurnTo(w, next, slots[w].before, active)
    BY <1>0, <1>1, AsideTurns DEF RestTyped, PCs, InFileCode, AtAwait
  <1>5. Undisturbed(w)'
    BY <1>0, <1>1, <1>2 DEF Undisturbed, PlaceOf, Complete, TurnTo, BeginAt, InApply,
       InRollback, RestTyped
  <1>6. Held'
    <2>1. \A u \in Txs : status[u] = "applied" /\ Kept(u) => Kept(u)'
      <3>1. active.ver = slots[w].tx /\ status[slots[w].tx] = "applying"
        BY <1>0, <1>1 DEF Undisturbed, InApply
      <3> QED
        BY <1>1, <3>1 DEF Kept
    <2>2. \A u \in Txs : Claimed(u) => Claimed(u)'
      BY <1>0, <1>1 DEF Claimed, RestTyped
    <2> QED
      BY <1>0, <1>1, <2>1, <2>2, FilesKeepVersions
  <1>7. NoGap(w)'
    <2>1. Owed' => Owed
      BY <1>1 DEF Owed, Claimed
    <2> QED
      BY <1>0, <1>1, <1>2, <2>1, Apart DEF NoGap, TurnTo, BeginAt, Placed, InFileCode, PlaceOf,
         Undisturbed, RestTyped
  <1> QED
    BY <1>2, <1>5, <1>6, <1>7, StillSole DEF TurnTo, BeginAt

\* The archive comes back in the place of nothing.
LEMMA RestoreArchivedAlone ==
  ASSUME IInv, NEW w \in Slots, Sole(w), RestoreArchived(w)
  PROVE  Sole(w)'
  <1>0. /\ RestTyped /\ SlotsTyped /\ PlaceOf(w) /\ Undisturbed(w) /\ NoGap(w) /\ Held
        /\ slots[w].pc # "idle" => slots[w].tx \in Txs
        /\ slots[w].before \in Content \cup {Absent} /\ slots[w].aside \in Content \cup {Absent}
    BY AloneFacts
  <1>1. /\ slots[w].pc = "restoring" /\ active' = archive[slots[w].tx] /\ GoTo(w, "recovered")
        /\ UNCHANGED <<archive, status, undo, jobs, requests, rollback, stops, faults>>
    BY DEF RestoreArchived, At, Quiet, Files, Database
  <1>2. TurnTo(w, "recovered", slots[w].before, slots[w].aside)
    BY <1>0, <1>1, GoToTurns DEF PCs, AtAwait, InFileCode
  <1>3. active' \in Content
    BY <1>0, <1>1 DEF PlaceOf, Complete
  <1>5. Undisturbed(w)'
    BY <1>0, <1>1, <1>2 DEF Undisturbed, PlaceOf, Complete, TurnTo, BeginAt, InApply,
       InRollback, RestTyped
  <1>6. Held'
    <2>1. \A u \in Txs : status[u] = "applied" /\ Kept(u) => Kept(u)'
      <3>1. active.ver = None
        BY <1>0, <1>1, Apart DEF Undisturbed
      <3> QED
        BY <1>1, <3>1, NoneAssumption DEF Kept
    <2>2. \A u \in Txs : Claimed(u) => Claimed(u)'
      BY <1>0, <1>1 DEF Claimed, RestTyped
    <2> QED
      BY <1>0, <1>1, <2>1, <2>2, FilesKeepVersions
  <1>7. NoGap(w)'
    <2>1. Owed' => Owed
      BY <1>1 DEF Owed, Claimed
    <2> QED
      BY <1>0, <1>1, <1>2, <1>3, <2>1, Apart DEF NoGap, TurnTo, BeginAt, Placed, InFileCode,
         PlaceOf, Undisturbed, RestTyped
  <1> QED
    BY <1>2, <1>5, <1>6, <1>7, StillSole DEF TurnTo, BeginAt

\* What is deleted was to be rolled back.
LEMMA DeleteActiveAlone ==
  ASSUME IInv, NEW w \in Slots, Sole(w), DeleteActive(w)
  PROVE  Sole(w)'
  <1>0. /\ RestTyped /\ SlotsTyped /\ PlaceOf(w) /\ Undisturbed(w) /\ NoGap(w) /\ Held
        /\ slots[w].pc # "idle" => slots[w].tx \in Txs
        /\ slots[w].before \in Content \cup {Absent} /\ slots[w].aside \in Content \cup {Absent}
    BY AloneFacts
  <1>1. /\ slots[w].pc = "rollingBack" /\ undo[slots[w].tx] = "delete" /\ active' = Absent
        /\ GoTo(w, "restored") /\ UNCHANGED <<archive, status, undo, jobs, requests, rollback, stops, faults>>
    BY DEF DeleteActive, At, Quiet, Files, Database
  <1>2. TurnTo(w, "restored", slots[w].before, slots[w].aside)
    BY <1>0, <1>1, GoToTurns DEF PCs, AtAwait, InFileCode
  <1>5. Undisturbed(w)'
    BY <1>0, <1>1, <1>2 DEF Undisturbed, PlaceOf, Complete, TurnTo, BeginAt, InApply,
       InRollback, RestTyped
  <1>6. Held'
    <2>1. requests[slots[w].tx] = "processing"
      BY <1>0, <1>1 DEF Undisturbed, InRollback
    <2>2. Claimed(slots[w].tx)
      BY <2>1 DEF Claimed
    <2>3. \A u \in Txs : Claimed(u) => Claimed(u)'
      BY <1>0, <1>1 DEF Claimed, RestTyped
    <2> QED
      BY <1>0, <1>1, <2>2, <2>3, FilesKeepVersions
  <1>7. NoGap(w)'
    <2>1. requests'[slots[w].tx] = "processing"
      BY <1>0, <1>1 DEF Undisturbed, InRollback
    <2>2. ~Owed'
      BY <1>0, <1>1, <2>1 DEF Owed, Claimed
    <2> QED
      BY <2>2 DEF NoGap
  <1> QED
    BY <1>2, <1>5, <1>6, <1>7, StillSole DEF TurnTo, BeginAt

\* What is moved aside was to be rolled back.
LEMMA RetireForRollbackAlone ==
  ASSUME IInv, NEW w \in Slots, Sole(w), RetireForRollback(w)
  PROVE  Sole(w)'
  <1>0. /\ RestTyped /\ SlotsTyped /\ PlaceOf(w) /\ Undisturbed(w) /\ NoGap(w) /\ Held
        /\ slots[w].pc # "idle" => slots[w].tx \in Txs
        /\ slots[w].before \in Content \cup {Absent} /\ slots[w].aside \in Content \cup {Absent}
    BY AloneFacts
  <1>1. /\ slots[w].pc = "rollingBack" /\ undo[slots[w].tx] = "restore" /\ active' = Absent
        /\ slots' = [slots EXCEPT ![w].pc = "rbRestoring", ![w].aside = active]
        /\ UNCHANGED <<archive, status, undo, jobs, requests, rollback, stops, faults>>
    BY DEF RetireForRollback, At, Quiet, Files, Database
  <1>2. TurnTo(w, "rbRestoring", slots[w].before, active)
    BY <1>0, <1>1, AsideTurns DEF RestTyped, PCs, InFileCode, AtAwait
  <1>5. Undisturbed(w)'
    BY <1>0, <1>1, <1>2 DEF Undisturbed, PlaceOf, Complete, TurnTo, BeginAt, InApply,
       InRollback, RestTyped
  <1>6. Held'
    <2>1. requests[slots[w].tx] = "processing"
      BY <1>0, <1>1 DEF Undisturbed, InRollback
    <2>2. Claimed(slots[w].tx)
      BY <2>1 DEF Claimed
    <2>3. \A u \in Txs : Claimed(u) => Claimed(u)'
      BY <1>0, <1>1 DEF Claimed, RestTyped
    <2> QED
      BY <1>0, <1>1, <2>2, <2>3, FilesKeepVersions
  <1>7. NoGap(w)'
    <2>1. Owed' => Owed
      BY <1>1 DEF Owed, Claimed
    <2> QED
      BY <1>0, <1>1, <1>2, <2>1, Apart DEF NoGap, TurnTo, BeginAt, Placed, InFileCode, PlaceOf,
         Undisturbed, RestTyped
  <1> QED
    BY <1>2, <1>5, <1>6, <1>7, StillSole DEF TurnTo, BeginAt

\* The snapshot comes back in the place of nothing.
LEMMA RestoreSnapshotAlone ==
  ASSUME IInv, NEW w \in Slots, Sole(w), RestoreSnapshot(w)
  PROVE  Sole(w)'
  <1>0. /\ RestTyped /\ SlotsTyped /\ PlaceOf(w) /\ Undisturbed(w) /\ NoGap(w) /\ Held
        /\ slots[w].pc # "idle" => slots[w].tx \in Txs
        /\ slots[w].before \in Content \cup {Absent} /\ slots[w].aside \in Content \cup {Absent}
    BY AloneFacts
  <1>1. /\ slots[w].pc = "rbRestoring" /\ active' = archive[slots[w].tx] /\ GoTo(w, "restored")
        /\ UNCHANGED <<archive, status, undo, jobs, requests, rollback, stops, faults>>
    BY DEF RestoreSnapshot, Snapshot, At, Quiet, Files, Database
  <1>2. TurnTo(w, "restored", slots[w].before, slots[w].aside)
    BY <1>0, <1>1, GoToTurns DEF PCs, AtAwait, InFileCode
  <1>3. active' \in Content
    BY <1>0, <1>1 DEF PlaceOf, Complete
  <1>5. Undisturbed(w)'
    BY <1>0, <1>1, <1>2 DEF Undisturbed, PlaceOf, Complete, TurnTo, BeginAt, InApply,
       InRollback, RestTyped
  <1>6. Held'
    <2>1. requests[slots[w].tx] = "processing"
      BY <1>0, <1>1 DEF Undisturbed, InRollback
    <2>2. Claimed(slots[w].tx)
      BY <2>1 DEF Claimed
    <2>3. \A u \in Txs : Claimed(u) => Claimed(u)'
      BY <1>0, <1>1 DEF Claimed, RestTyped
    <2> QED
      BY <1>0, <1>1, <2>2, <2>3, FilesKeepVersions
  <1>7. NoGap(w)'
    <2>1. Owed' => Owed
      BY <1>1 DEF Owed, Claimed
    <2> QED
      BY <1>0, <1>1, <1>2, <1>3, <2>1, Apart DEF NoGap, TurnTo, BeginAt, Placed, InFileCode,
         PlaceOf, Undisturbed, RestTyped
  <1> QED
    BY <1>2, <1>5, <1>6, <1>7, StillSole DEF TurnTo, BeginAt

\* A failed apply leaves or puts back what there was.
LEMMA ApplyFailsAlone ==
  ASSUME IInv, NEW w \in Slots, Sole(w), ApplyFails(w)
  PROVE  Sole(w)'
  <1>0. /\ RestTyped /\ SlotsTyped /\ PlaceOf(w) /\ Undisturbed(w) /\ NoGap(w) /\ Held
        /\ slots[w].pc # "idle" => slots[w].tx \in Txs
        /\ slots[w].before \in Content \cup {Absent} /\ slots[w].aside \in Content \cup {Absent}
    BY AloneFacts
  <1>1. /\ slots[w].pc \in {"applying", "archiving", "archived", "ready", "swapped"}
        /\ active' = (IF slots[w].pc = "ready" THEN slots[w].aside ELSE active) /\ FailJob(w)
        /\ UNCHANGED <<archive, status, undo, requests, rollback, stops>>
    BY DEF ApplyFails, PutBack, EndRequest, Fault, At, Quiet, Files, Database
  <1>2. BeginAt(w, "idle", None)
    BY <1>1, FailJobTurns
  <1>5. Undisturbed(w)'
    BY <1>0, <1>1, <1>2 DEF Undisturbed, PlaceOf, Complete, TurnTo, BeginAt, InApply,
       InRollback, RestTyped
  <1>6. Held'
    <2>1. ASSUME slots[w].pc = "ready" PROVE active.ver = None
      BY <1>0, <2>1, Apart DEF Undisturbed
    <2>2. \A u \in Txs : status[u] = "applied" /\ Kept(u) => Kept(u)'
      BY <1>1, <2>1, NoneAssumption DEF Kept
    <2>3. \A u \in Txs : Claimed(u) => Claimed(u)'
      BY <1>0, <1>1 DEF Claimed, RestTyped
    <2> QED
      BY <1>0, <1>1, <2>2, <2>3, FilesKeepVersions
  <1>7. NoGap(w)'
    <2>1. Owed' => Owed
      BY <1>0, <1>1 DEF Owed, Claimed, RestTyped
    <2>2. slots'[w].pc = "idle"
      BY <1>2 DEF BeginAt
    <2>3. CASE slots[w].pc = "ready"
      BY <1>0, <1>1, <2>1, <2>2, <2>3, Apart DEF NoGap, Placed, InFileCode, Undisturbed
    <2>4. CASE slots[w].pc # "ready"
      BY <1>0, <1>1, <2>1, <2>2, <2>4, Apart DEF NoGap, Placed, InFileCode, Undisturbed, PlaceOf
    <2> QED
      BY <2>3, <2>4
  <1> QED
    BY <1>2, <1>5, <1>6, <1>7, StillSole DEF TurnTo, BeginAt

\* A failed recovery puts back what it took away.
LEMMA HandlerFailsAlone ==
  ASSUME IInv, NEW w \in Slots, Sole(w), HandlerFails(w)
  PROVE  Sole(w)'
  <1>0. /\ RestTyped /\ SlotsTyped /\ PlaceOf(w) /\ Undisturbed(w) /\ NoGap(w) /\ Held
        /\ slots[w].pc # "idle" => slots[w].tx \in Txs
        /\ slots[w].before \in Content \cup {Absent} /\ slots[w].aside \in Content \cup {Absent}
    BY AloneFacts
  <1>1. /\ slots[w].pc \in {"starting", "recovering", "restoring", "recovered", "applied"}
        /\ active' = (IF slots[w].pc = "restoring" THEN slots[w].aside ELSE active) /\ FailJob(w)
        /\ UNCHANGED <<archive, status, undo, requests, rollback, stops>>
    BY DEF HandlerFails, PutBack, EndRequest, Fault, At, Quiet, Files, Database
  <1>2. BeginAt(w, "idle", None)
    BY <1>1, FailJobTurns
  <1>5. Undisturbed(w)'
    BY <1>0, <1>1, <1>2 DEF Undisturbed, PlaceOf, Complete, TurnTo, BeginAt, InApply,
       InRollback, RestTyped
  <1>6. Held'
    <2>1. ASSUME slots[w].pc = "restoring" PROVE active.ver = None
      BY <1>0, <2>1, Apart DEF Undisturbed
    <2>2. \A u \in Txs : status[u] = "applied" /\ Kept(u) => Kept(u)'
      BY <1>1, <2>1, NoneAssumption DEF Kept
    <2>3. \A u \in Txs : Claimed(u) => Claimed(u)'
      BY <1>0, <1>1 DEF Claimed, RestTyped
    <2> QED
      BY <1>0, <1>1, <2>2, <2>3, FilesKeepVersions
  <1>7. NoGap(w)'
    <2>1. Owed' => Owed
      BY <1>0, <1>1 DEF Owed, Claimed, RestTyped
    <2>2. slots'[w].pc = "idle"
      BY <1>2 DEF BeginAt
    <2>3. CASE slots[w].pc = "restoring"
      BY <1>0, <1>1, <2>1, <2>2, <2>3, Apart DEF NoGap, Placed, InFileCode, Undisturbed
    <2>4. CASE slots[w].pc # "restoring"
      BY <1>0, <1>1, <2>1, <2>2, <2>4, Apart DEF NoGap, Placed, InFileCode, Undisturbed, PlaceOf
    <2> QED
      BY <2>3, <2>4
  <1> QED
    BY <1>2, <1>5, <1>6, <1>7, StillSole DEF TurnTo, BeginAt

\* A failed rollback puts back what it took away.
LEMMA RollbackFailsAlone ==
  ASSUME IInv, NEW w \in Slots, Sole(w), RollbackFails(w)
  PROVE  Sole(w)'
  <1>0. /\ RestTyped /\ SlotsTyped /\ PlaceOf(w) /\ Undisturbed(w) /\ NoGap(w) /\ Held
        /\ slots[w].pc # "idle" => slots[w].tx \in Txs
        /\ slots[w].before \in Content \cup {Absent} /\ slots[w].aside \in Content \cup {Absent}
    BY AloneFacts
  <1>1. /\ slots[w].pc \in {"claimed", "rollingBack", "rbRestoring", "restored", "rolledBack"}
        /\ active' = (IF slots[w].pc = "rbRestoring" THEN slots[w].aside ELSE active) /\ Release(w)
        /\ requests' = [requests EXCEPT ![slots[w].tx] = "failed"]
        /\ UNCHANGED <<archive, status, undo, jobs, rollback, stops>>
    BY DEF RollbackFails, PutBack, EndRequest, Fault, At, Quiet, Files, Database
  <1>2. BeginAt(w, "idle", None)
    BY <1>0, <1>1, ReleaseTurns
  <1>5. Undisturbed(w)'
    BY <1>0, <1>1, <1>2 DEF Undisturbed, PlaceOf, Complete, TurnTo, BeginAt, InApply,
       InRollback, RestTyped
  <1>6. Held'
    <2>1. requests[slots[w].tx] = "processing"
      BY <1>0, <1>1 DEF Undisturbed, InRollback
    <2>2. Claimed(slots[w].tx)
      BY <2>1 DEF Claimed
    <2>3. \A u \in Txs : Claimed(u) => Claimed(u)'
      BY <1>0, <1>1 DEF Claimed, RestTyped
    <2> QED
      BY <1>0, <1>1, <2>2, <2>3, FilesKeepVersions
  <1>7. NoGap(w)'
    <2>1. Owed' => Owed
      BY <1>0, <1>1 DEF Owed, Claimed, RestTyped
    <2>2. slots'[w].pc = "idle"
      BY <1>2 DEF BeginAt
    <2>3. CASE slots[w].pc = "rbRestoring"
      BY <1>0, <1>1, <2>1, <2>2, <2>3, Apart DEF NoGap, Placed, InFileCode, Undisturbed
    <2>4. CASE slots[w].pc # "rbRestoring"
      BY <1>0, <1>1, <2>1, <2>2, <2>4, Apart DEF NoGap, Placed, InFileCode, Undisturbed, PlaceOf
    <2> QED
      BY <2>3, <2>4
  <1> QED
    BY <1>2, <1>5, <1>6, <1>7, StillSole DEF TurnTo, BeginAt

\* A version that becomes applied is active.
LEMMA MarkAppliedAlone ==
  ASSUME IInv, NEW w \in Slots, Sole(w), MarkApplied(w)
  PROVE  Sole(w)'
  <1>0. /\ RestTyped /\ SlotsTyped /\ PlaceOf(w) /\ Undisturbed(w) /\ NoGap(w) /\ Held
        /\ slots[w].pc # "idle" => slots[w].tx \in Txs
        /\ slots[w].before \in Content \cup {Absent} /\ slots[w].aside \in Content \cup {Absent}
    BY AloneFacts
  <1>1. /\ slots[w].pc = "recorded" /\ GoTo(w, "applied")
        /\ status' = [status EXCEPT ![slots[w].tx] = "applied"]
        /\ UNCHANGED <<active, archive, undo, jobs, requests, rollback, stops, faults>>
    BY DEF MarkApplied, At, Quiet, Files, Database
  <1>2. TurnTo(w, "applied", slots[w].before, slots[w].aside)
    BY <1>0, <1>1, GoToTurns DEF PCs, AtAwait, InFileCode
  <1>5. Undisturbed(w)'
    BY <1>0, <1>1, <1>2 DEF Undisturbed, PlaceOf, Complete, TurnTo, BeginAt, InApply,
       InRollback, RestTyped
  <1>6. Held'
    <2>1. active.ver = slots[w].tx
      BY <1>0, <1>1 DEF Undisturbed
    <2>2. \A u \in Txs : status'[u] = "applied" => status[u] = "applied" \/ active.ver = u
      BY <1>0, <1>1, <2>1 DEF RestTyped
    <2>3. \A u \in Txs : Claimed(u) => Claimed(u)'
      BY <1>1 DEF Claimed
    <2> QED
      BY <1>0, <1>1, <2>2, <2>3, RecordsKeepVersions
  <1>7. NoGap(w)'
    <2>1. active \in Content
      BY <1>0, <1>1 DEF Undisturbed
    <2> QED
      BY <1>1, <1>2, <2>1, Apart DEF NoGap, TurnTo, Placed
  <1> QED
    BY <1>2, <1>5, <1>6, <1>7, StillSole DEF TurnTo, BeginAt

\* A deletion is recorded only where nothing was replaced.
LEMMA RecordItemsAlone ==
  ASSUME IInv, NEW w \in Slots, Sole(w), RecordItems(w)
  PROVE  Sole(w)'
  <1>0. /\ RestTyped /\ SlotsTyped /\ PlaceOf(w) /\ Undisturbed(w) /\ NoGap(w) /\ Held
        /\ slots[w].pc # "idle" => slots[w].tx \in Txs
        /\ slots[w].before \in Content \cup {Absent} /\ slots[w].aside \in Content \cup {Absent}
    BY AloneFacts
  <1>1. /\ slots[w].pc = "recording" /\ GoTo(w, "recorded")
        /\ undo' = [undo EXCEPT ![slots[w].tx] = UndoOf(slots[w].before)]
        /\ UNCHANGED <<active, archive, status, jobs, requests, rollback, stops, faults>>
    BY DEF RecordItems, At, Quiet, Files, Database
  <1>2. TurnTo(w, "recorded", slots[w].before, slots[w].aside)
    BY <1>0, <1>1, GoToTurns DEF PCs, AtAwait, InFileCode
  <1>5. Undisturbed(w)'
    BY <1>0, <1>1, <1>2 DEF Undisturbed, PlaceOf, Complete, TurnTo, BeginAt, InApply,
       InRollback, RestTyped
  <1>6. Held'
    <2>1. \A u \in Txs : Claimed(u) => Claimed(u)'
      BY <1>1 DEF Claimed
    <2> QED
      BY <1>0, <1>1, <2>1, RecordsKeepVersions
  <1>7. NoGap(w)'
    <2>1. active \in Content
      BY <1>0, <1>1 DEF Undisturbed
    <2>2. ASSUME Owed', slots[w].before = Absent PROVE FALSE
      <3>1. /\ undo'[slots[w].tx] = "delete"
            /\ \A u \in Txs : u # slots[w].tx => undo'[u] = undo[u]
        BY <1>0, <1>1, <2>2 DEF UndoOf, RestTyped
      <3>2. ~Claimed(slots[w].tx)
        BY <1>0, <1>1, <2>2, <3>1 DEF Owed, Claimed
      <3>3. Owed
        BY <1>1, <2>2, <3>1, <3>2 DEF Owed, Claimed
      <3> QED
        BY <1>0, <1>1, <2>2, <3>3 DEF NoGap, Placed
    <2> QED
      BY <1>1, <1>2, <2>1, <2>2, Apart DEF NoGap, TurnTo
  <1> QED
    BY <1>2, <1>5, <1>6, <1>7, StillSole DEF TurnTo, BeginAt

\* A rollback that is asked for, of any transaction.
LEMMA RequestRollbackAlone ==
  ASSUME IInv, NEW w \in Slots, Sole(w), NEW t \in Txs, RequestRollback(t)
  PROVE  Sole(w)'
  <1>2. /\ requests[t] = "none" /\ requests' = [requests EXCEPT ![t] = "queued"]
        /\ UNCHANGED <<active, archive, status, undo, jobs, rollback, slots, stops, faults>>
    BY DEF RequestRollback, Files
  <1>3. RestTyped /\ Undisturbed(w) /\ Held
    BY AloneFacts
  <1>4. \A u \in Txs : Claimed(u) => Claimed(u)'
    BY <1>2, <1>3 DEF Claimed, RestTyped
  <1>5. \A u \in Txs : requests[u] = "processing" => requests'[u] = "processing"
    BY <1>2, <1>3 DEF RestTyped
  <1>6. Undisturbed(w)'
    <2>1. slots[w].pc # "idle" => slots[w].tx \in Txs
      BY AloneFacts
    <2> QED
      BY <1>2, <1>3, <1>5, <2>1 DEF Undisturbed, InRollback
  <1>7. NoGap(w)'
    <2>1. Owed' => Owed
      BY <1>2, <1>4, OwedBefore
    <2> QED
      BY <1>2, <2>1, AloneFacts DEF NoGap
  <1>8. Held'
    BY <1>2, <1>3, <1>4, RecordsKeepVersions
  <1>9. Others(w)
    BY <1>2 DEF Others
  <1> QED
    BY <1>6, <1>7, <1>8, <1>9, StillSole

\* A handler that is left behind goes on alone.
LEMMA RenewalRaisesAlone ==
  ASSUME IInv, NEW w \in Slots, Sole(w), RenewalRaises(w)
  PROVE  Sole(w)'
  <1>0. /\ RestTyped /\ SlotsTyped /\ PlaceOf(w) /\ Undisturbed(w) /\ NoGap(w) /\ Held
        /\ slots[w].pc # "idle" => slots[w].tx \in Txs
    BY AloneFacts
  <1>1. /\ slots[w].pc \in AtAwait /\ slots' = [slots EXCEPT ![w].orphan = TRUE]
        /\ UNCHANGED <<active, archive, status, undo, requests, rollback, stops>>
    BY DEF RenewalRaises, Files, Database
  <1>2. TurnTo(w, slots[w].pc, slots[w].before, slots[w].aside)
    BY <1>0, <1>1, OrphanTurns DEF AtAwait
  <1>3. Undisturbed(w)'
    BY <1>0, <1>1, <1>2 DEF Undisturbed, TurnTo
  <1>4. NoGap(w)'
    BY <1>0, <1>1, <1>2 DEF NoGap, TurnTo, Owed, Claimed
  <1>5. Held'
    BY <1>0, <1>1 DEF Held, Kept, Claimed
  <1> QED
    BY <1>2, <1>3, <1>4, <1>5, StillSole DEF TurnTo

\* Slots that are stopped: from there on nothing is owed.
LEMMA StopAlone ==
  ASSUME IInv, NEW w \in Slots, Sole(w), NEW ws, Stop(ws)
  PROVE  Sole(w)'
  <1>2. /\ stops' = stops + 1 /\ slots' = [v \in Slots |-> IF v \in ws THEN IdleSlot ELSE slots[v]]
        /\ UNCHANGED <<active, archive, status, undo, requests, rollback, faults>>
    BY DEF Stop, Files, Database
  <1>3. RestTyped /\ Undisturbed(w) /\ Held
    BY AloneFacts
  <1>4. Undisturbed(w)'
    <2>1. CASE w \in ws
      <3>1. slots'[w].pc = "idle"
        BY <1>2, <2>1 DEF IdleSlot
      <3> QED
        BY <3>1 DEF Undisturbed, InApply, InRollback
    <2>2. CASE w \notin ws
      <3>1. slots'[w] = slots[w]
        BY <1>2, <2>2
      <3> QED
        BY <1>2, <1>3, <3>1 DEF Undisturbed
    <2> QED
      BY <2>1, <2>2
  <1>5. NoGap(w)'
    <2>1. stops' # 0
      BY <1>2, <1>3, BoundAssumption DEF RestTyped
    <2> QED
      BY <2>1 DEF NoGap, Owed
  <1>6. Held'
    <2>1. \A u \in Txs : Claimed(u) => Claimed(u)'
      BY <1>2 DEF Claimed
    <2> QED
      BY <1>2, <1>3, <2>1, RecordsKeepVersions
  <1>7. Lone(w)'
    BY <1>2 DEF Sole, Lone, IdleSlot
  <1> QED
    BY <1>4, <1>5, <1>6, <1>7 DEF Sole

-----------------------------------------------------------------------------
(* What a transaction replaced *)

\* In these places the first attempt has not recorded how to undo it,
BeforeRecord ==
  {"starting", "applying", "archiving", "archived", "ready", "swapped", "recording"}
InSwap == {"archived", "ready", "swapped", "recording"}
\* and in these a rollback has found it recorded.
Undoing == {"rollingBack", "rbRestoring", "restored", "rolledBack"}

\* What is recorded of t would bring back what it replaced.
Original(t) == replaced[t] = IF undo[t] = "restore" THEN archive[t] ELSE Absent

\* Of the first attempts, the finished ones and the one of w.
Untried == \A t \in Txs : jobs[t].attempts = 0 => replaced[t] = Partial /\ undo[t] = "none"
TriedOnce == \A t \in Txs : jobs[t].attempts = 1 /\ undo[t] # "none" => Original(t)
FirstAttempt(w) ==
  LET t == slots[w].tx IN
  /\ slots[w].pc \in Undoing => undo[t] # "none"
  /\ slots[w].pc \in BeforeRecord => jobs[t].attempts # 0
  /\ slots[w].pc \in BeforeRecord /\ jobs[t].attempts = 1 =>
       /\ undo[t] = "none"
       /\ slots[w].pc \in {"starting", "applying"} => replaced[t] = Partial
       /\ slots[w].pc = "archiving" => replaced[t] = active
       /\ slots[w].pc \in InSwap =>
            /\ replaced[t] = slots[w].before
            /\ slots[w].before # Absent => archive[t] = slots[w].before

Traced(w) == Untried /\ TriedOnce /\ FirstAttempt(w)

\* A step that changes no count, record, archive or history.
LEMMA TracedStep ==
  ASSUME Untried, TriedOnce, UNCHANGED <<undo, archive, replaced>>,
         \A t \in Txs : jobs'[t].attempts = jobs[t].attempts
  PROVE  Untried' /\ TriedOnce'
  BY DEF Untried, TriedOnce, Original

\* How a handler ended does not count as another attempt.
LEMMA AttemptsStay ==
  ASSUME RestTyped, NEW t \in Txs,
         \/ jobs' = jobs
         \/ jobs' = [jobs EXCEPT ![t] = Retried(jobs[t])]
         \/ jobs' = [jobs EXCEPT ![t].status = "done"]
  PROVE  \A u \in Txs : jobs'[u].attempts = jobs[u].attempts
  <1>1. jobs \in [Txs -> JobRecord]
    BY DEF RestTyped
  <1>2. \A j \in JobRecord : Retried(j).attempts = j.attempts
    BY DEF Retried, JobRecord
  <1>3. CASE jobs' = jobs
    BY <1>3
  <1>4. CASE jobs' = [jobs EXCEPT ![t] = Retried(jobs[t])]
    BY <1>1, <1>2, <1>4
  <1>5. CASE jobs' = [jobs EXCEPT ![t].status = "done"]
    BY <1>1, <1>5 DEF JobRecord
  <1> QED
    BY <1>3, <1>4, <1>5

\* A handler that ends.
LEMMA EndTraced ==
  ASSUME IInv, NEW w \in Slots, Traced(w), slots[w].pc # "idle",
         FailJob(w) \/ JobDone(w) \/ (Release(w) /\ jobs' = jobs),
         UNCHANGED <<undo, archive, history>>
  PROVE  Traced(w)'
  <1>1. RestTyped /\ SlotsTyped /\ slots[w].tx \in Txs
    BY SlotFacts
  <1>2. slots'[w].pc = "idle"
    <2>1. BeginAt(w, "idle", None)
      BY <1>1, ReleaseTurns DEF FailJob, JobDone
    <2> QED
      BY <2>1 DEF BeginAt
  <1>3. \A u \in Txs : jobs'[u].attempts = jobs[u].attempts
    BY <1>1, AttemptsStay DEF FailJob, JobDone
  <1>4. Untried' /\ TriedOnce'
    BY <1>3, TracedStep DEF Traced, history
  <1> QED
    BY <1>2, <1>4 DEF Traced, FirstAttempt, Undoing, BeforeRecord

\* A handler that goes on to a place where less is known.
LEMMA MoveTraced ==
  ASSUME IInv, NEW w \in Slots, Traced(w), slots[w].pc # "idle",
         \A t \in Txs : jobs'[t].attempts = jobs[t].attempts,
         UNCHANGED <<undo, archive, history>>,
         slots'[w].tx = slots[w].tx, slots'[w].before = slots[w].before,
         slots'[w].pc \in Undoing => undo[slots[w].tx] # "none",
         slots'[w].pc \in BeforeRecord =>
           /\ slots[w].pc \in BeforeRecord
           /\ slots'[w].pc = "archiving" => slots[w].pc = "archiving" /\ active' = active
           /\ slots'[w].pc \in {"starting", "applying"} => slots[w].pc \in {"starting", "applying"}
           /\ slots'[w].pc \in InSwap => slots[w].pc \in InSwap
  PROVE  Traced(w)'
  <1>1. Untried' /\ TriedOnce'
    BY TracedStep DEF Traced, history
  <1>2. slots[w].tx \in Txs
    BY SlotFacts
  <1>3. jobs'[slots[w].tx].attempts = jobs[slots[w].tx].attempts
    BY <1>2
  <1>4. FirstAttempt(w)'
    BY <1>3 DEF Traced, FirstAttempt, history
  <1> QED
    BY <1>1, <1>4 DEF Traced

\* A job that is claimed.
LEMMA ClaimApplyTraced ==
  ASSUME IInv, NEW w \in Slots, Traced(w), NEW t \in Txs, ClaimApply(w, t)
  PROVE  Traced(w)'
  <1>0. RestTyped /\ SlotsTyped
    BY SlotFacts
  <1>1. /\ jobs' = [jobs EXCEPT ![t] = [status |-> "running", attempts |-> jobs[t].attempts + 1]]
        /\ slots' = [slots EXCEPT ![w] = [IdleSlot EXCEPT !.pc = "starting", !.tx = t]]
        /\ UNCHANGED <<archive, undo, replaced>>
    BY DEF ClaimApply, Files, Database
  <1>2. slots'[w].pc = "starting" /\ slots'[w].tx = t
    <2>1. BeginAt(w, "starting", t)
      BY <1>0, <1>1, TakeTurns DEF PCs, AtAwait
    <2> QED
      BY <2>1 DEF BeginAt
  <1>3. /\ jobs[t].attempts \in Nat /\ jobs'[t].attempts = jobs[t].attempts + 1
        /\ \A u \in Txs : u # t => jobs'[u].attempts = jobs[u].attempts
    BY <1>0, <1>1, BoundAssumption DEF RestTyped, JobRecord
  <1>4. jobs'[t].attempts # 0 /\ (jobs'[t].attempts = 1 => jobs[t].attempts = 0)
    BY <1>3
  <1>5. jobs'[t].attempts = 1 => replaced[t] = Partial /\ undo[t] = "none"
    BY <1>4 DEF Traced, Untried
  <1>6. Untried' /\ TriedOnce'
    BY <1>1, <1>3, <1>4, <1>5 DEF Traced, Untried, TriedOnce, Original
  <1>7. FirstAttempt(w)'
    BY <1>1, <1>2, <1>4, <1>5 DEF FirstAttempt, Undoing, BeforeRecord, InSwap
  <1> QED
    BY <1>6, <1>7 DEF Traced

\* A revocation that is claimed.
LEMMA ClaimRollbackTraced ==
  ASSUME IInv, NEW w \in Slots, Traced(w), NEW t \in Txs, ClaimRollback(w, t)
  PROVE  Traced(w)'
  <1>0. RestTyped /\ SlotsTyped
    BY SlotFacts
  <1>1. /\ slots' = [slots EXCEPT ![w] = [IdleSlot EXCEPT !.pc = "claimed", !.tx = t]]
        /\ UNCHANGED <<archive, undo, replaced, jobs>>
    BY DEF ClaimRollback, Files, Database
  <1>2. slots'[w].pc = "claimed"
    <2>1. BeginAt(w, "claimed", t)
      BY <1>0, <1>1, TakeTurns DEF PCs, AtAwait
    <2> QED
      BY <2>1 DEF BeginAt
  <1>3. Untried' /\ TriedOnce'
    BY <1>1, TracedStep DEF Traced
  <1> QED
    BY <1>2, <1>3 DEF Traced, FirstAttempt, Undoing, BeforeRecord

\* The first attempt takes note of what is active.
LEMMA ReplacesFirst ==
  ASSUME IInv, HistoryTyped, NEW t \in Txs, Replaces(t), UNCHANGED <<jobs, undo>>,
         Untried, TriedOnce, jobs[t].attempts # 0,
         \A u \in Txs : undo[u] # "none" /\ jobs[u].attempts = 1 => archive'[u] = archive[u],
         jobs[t].attempts = 1 => undo[t] = "none" /\ replaced[t] = Partial
  PROVE  Untried' /\ TriedOnce' /\ (jobs[t].attempts = 1 => replaced'[t] = active)
  <1>1. /\ \A u \in Txs : u # t => replaced'[u] = replaced[u]
        /\ replaced[t] = Partial => replaced'[t] = active
    BY DEF Replaces, HistoryTyped
  <1>2. Untried'
    BY <1>1 DEF Untried
  <1>3. TriedOnce'
    BY <1>1 DEF TriedOnce, Original
  <1> QED
    BY <1>1, <1>2, <1>3

\* What is archived is what the transaction replaces.
LEMMA BeginArchiveTraced ==
  ASSUME IInv, HistoryTyped, NEW w \in Slots, Traced(w), BeginArchive(w)
  PROVE  Traced(w)'
  <1> DEFINE t == slots[w].tx
  <1>0. RestTyped /\ SlotsTyped /\ UndoKnown /\ (slots[w].pc # "idle" => t \in Txs)
    BY SlotFacts
  <1>1. /\ slots[w].pc = "applying" /\ archive[t] = Absent /\ Replaces(t)
        /\ archive' = [archive EXCEPT ![t] = Partial] /\ GoTo(w, "archiving")
        /\ UNCHANGED <<active, undo, jobs>>
    BY DEF BeginArchive, ArchiveFree, At, Files, Database
  <1>2. slots'[w].pc = "archiving" /\ slots'[w].tx = t /\ t \in Txs
    <2>1. TurnTo(w, "archiving", slots[w].before, slots[w].aside)
      BY <1>0, <1>1, GoToTurns DEF PCs, InFileCode
    <2> QED
      BY <1>0, <1>1, <2>1 DEF TurnTo
  <1>3. jobs[t].attempts # 0 /\ (jobs[t].attempts = 1 => undo[t] = "none" /\ replaced[t] = Partial)
    BY <1>1 DEF Traced, FirstAttempt, BeforeRecord
  <1>4. \A u \in Txs : undo[u] # "none" /\ jobs[u].attempts = 1 => archive'[u] = archive[u]
    BY <1>0, <1>1, <1>3 DEF RestTyped
  <1>5. Untried' /\ TriedOnce' /\ (jobs[t].attempts = 1 => replaced'[t] = active)
    BY <1>1, <1>2, <1>3, <1>4, ReplacesFirst DEF Traced
  <1>6. FirstAttempt(w)'
    BY <1>1, <1>2, <1>3, <1>5 DEF FirstAttempt, Undoing, BeforeRecord, InSwap
  <1> QED
    BY <1>5, <1>6 DEF Traced

\* Nothing is replaced where nothing is active.
LEMMA NothingToArchiveTraced ==
  ASSUME IInv, HistoryTyped, NEW w \in Slots, Sole(w), Traced(w), NothingToArchive(w)
  PROVE  Traced(w)'
  <1> DEFINE t == slots[w].tx
  <1>0. RestTyped /\ SlotsTyped /\ Undisturbed(w) /\ (slots[w].pc # "idle" => t \in Txs)
    BY AloneFacts
  <1>1. /\ slots[w].pc = "applying" /\ active = Absent /\ Replaces(t) /\ GoTo(w, "ready")
        /\ UNCHANGED <<archive, undo, jobs>>
    BY DEF NothingToArchive, At, Files, Database
  <1>2. slots'[w].pc = "ready" /\ slots'[w].tx = t /\ slots'[w].before = Absent /\ t \in Txs
    <2>1. TurnTo(w, "ready", slots[w].before, slots[w].aside)
      BY <1>0, <1>1, GoToTurns DEF PCs, InFileCode
    <2> QED
      BY <1>0, <1>1, <2>1 DEF TurnTo, Undisturbed
  <1>3. jobs[t].attempts # 0 /\ (jobs[t].attempts = 1 => undo[t] = "none" /\ replaced[t] = Partial)
    BY <1>1 DEF Traced, FirstAttempt, BeforeRecord
  <1>5. Untried' /\ TriedOnce' /\ (jobs[t].attempts = 1 => replaced'[t] = active)
    BY <1>1, <1>2, <1>3, ReplacesFirst DEF Traced
  <1>6. FirstAttempt(w)'
    BY <1>1, <1>2, <1>3, <1>5 DEF FirstAttempt, Undoing, BeforeRecord, InSwap
  <1> QED
    BY <1>5, <1>6 DEF Traced

\* The archive is a copy of what is replaced.
LEMMA FinishArchiveTraced ==
  ASSUME IInv, NEW w \in Slots, Traced(w), FinishArchive(w)
  PROVE  Traced(w)'
  <1> DEFINE t == slots[w].tx
  <1>0. RestTyped /\ SlotsTyped /\ PlaceOf(w) /\ UndoKnown /\ (slots[w].pc # "idle" => t \in Txs)
    BY SlotFacts
  <1>1. /\ slots[w].pc = "archiving" /\ archive' = [archive EXCEPT ![t] = active]
        /\ slots' = [slots EXCEPT ![w].pc = "archived", ![w].before = active]
        /\ UNCHANGED <<active, undo, jobs, replaced>>
    BY DEF FinishArchive, At, Files, Database, history
  <1>2. slots'[w].pc = "archived" /\ slots'[w].tx = t /\ slots'[w].before = active /\ t \in Txs
    <2>1. TurnTo(w, "archived", active, slots[w].aside)
      BY <1>0, <1>1, BeforeTurns DEF PlaceOf, PCs, InFileCode
    <2> QED
      BY <1>0, <1>1, <2>1 DEF TurnTo
  <1>3. /\ jobs[t].attempts # 0
        /\ jobs[t].attempts = 1 => undo[t] = "none" /\ replaced[t] = active
    BY <1>1 DEF Traced, FirstAttempt, BeforeRecord
  <1>4. archive'[t] = active /\ \A u \in Txs : u # t => archive'[u] = archive[u]
    BY <1>0, <1>1, <1>2 DEF RestTyped
  <1>5. Untried' /\ TriedOnce'
    BY <1>1, <1>3, <1>4 DEF Traced, Untried, TriedOnce, Original
  <1>6. FirstAttempt(w)'
    BY <1>1, <1>2, <1>3, <1>4 DEF FirstAttempt, Undoing, BeforeRecord, InSwap
  <1> QED
    BY <1>5, <1>6 DEF Traced

\* What is recorded undoes what was done.
LEMMA RecordItemsTraced ==
  ASSUME IInv, NEW w \in Slots, Traced(w), RecordItems(w)
  PROVE  Traced(w)'
  <1> DEFINE t == slots[w].tx
  <1>0. RestTyped /\ SlotsTyped /\ (slots[w].pc # "idle" => t \in Txs)
    BY SlotFacts
  <1>1. /\ slots[w].pc = "recording" /\ GoTo(w, "recorded")
        /\ undo' = [undo EXCEPT ![t] = UndoOf(slots[w].before)]
        /\ UNCHANGED <<archive, jobs, replaced>>
    BY DEF RecordItems, At, Files, history
  <1>2. slots'[w].pc = "recorded" /\ t \in Txs
    <2>1. TurnTo(w, "recorded", slots[w].before, slots[w].aside)
      BY <1>0, <1>1, GoToTurns DEF PCs, AtAwait, InFileCode
    <2> QED
      BY <1>0, <1>1, <2>1 DEF TurnTo
  <1>3. /\ jobs[t].attempts # 0
        /\ jobs[t].attempts = 1 =>
             replaced[t] = slots[w].before /\ (slots[w].before # Absent => archive[t] = slots[w].before)
    BY <1>1 DEF Traced, FirstAttempt, BeforeRecord, InSwap
  <1>4. /\ undo'[t] = IF slots[w].before = Absent THEN "delete" ELSE "restore"
        /\ \A u \in Txs : u # t => undo'[u] = undo[u]
    BY <1>0, <1>1, <1>2 DEF RestTyped, UndoOf
  <1>5. Untried'
    BY <1>1, <1>3, <1>4 DEF Traced, Untried
  <1>6. TriedOnce'
    BY <1>1, <1>3, <1>4 DEF Traced, TriedOnce, Original
  <1>7. FirstAttempt(w)'
    BY <1>2 DEF FirstAttempt, Undoing, BeforeRecord
  <1> QED
    BY <1>5, <1>6, <1>7 DEF Traced

\* The handlers that end.
LEMMA EndsTraced ==
  ASSUME IInv, NEW w \in Slots, Traced(w),
         \/ DeferApply(w) \/ ArchiveExists(w) \/ ApplyFails(w) \/ FinishApply(w) \/ MarkFailed(w)
         \/ HandlerFails(w) \/ CompleteRollback(w) \/ NoRollback(w) \/ RollbackFails(w)
  PROVE  Traced(w)'
  <1>1. /\ slots[w].pc # "idle"
        /\ FailJob(w) \/ JobDone(w) \/ (Release(w) /\ jobs' = jobs)
    BY DEF DeferApply, ArchiveExists, ApplyFails, FinishApply, MarkFailed, HandlerFails,
       CompleteRollback, NoRollback, RollbackFails, EndRequest, At
  <1>2. UNCHANGED <<undo, archive, history>>
    BY DEF DeferApply, ArchiveExists, ApplyFails, FinishApply, MarkFailed, HandlerFails,
       CompleteRollback, NoRollback, RollbackFails, Files, Database
  <1> QED
    BY <1>1, <1>2, EndTraced

\* The steps of an apply between the archive and the record.
LEMMA ApplyTraced ==
  ASSUME IInv, NEW w \in Slots, Traced(w),
         \/ StartApply(w) \/ Retire(w) \/ Swap(w) \/ WriteManifest(w) \/ MarkApplied(w)
         \/ RecordFails(w) \/ BeginRecovery(w) \/ RestoreArchived(w)
  PROVE  Traced(w)'
  <1>0. /\ RestTyped /\ SlotsTyped /\ active \in Content \cup {Absent}
    BY SlotFacts DEF RestTyped
  <1>1. slots[w].pc # "idle" /\ UNCHANGED <<undo, archive, history, jobs>>
    BY DEF StartApply, Retire, Swap, WriteManifest, MarkApplied, RecordFails, BeginRecovery,
       RestoreArchived, At, Files, Database
  <1>2. CASE StartApply(w)
    <2>1. slots[w].pc = "starting" /\ TurnTo(w, "applying", slots[w].before, slots[w].aside)
      BY <1>0, <1>2, GoToTurns DEF StartApply, At, PCs, AtAwait
    <2> QED
      BY <1>1, <2>1, MoveTraced DEF TurnTo, Undoing, BeforeRecord, InSwap
  <1>3. CASE Retire(w)
    <2>1. slots[w].pc = "archived" /\ TurnTo(w, "ready", slots[w].before, active)
      BY <1>0, <1>3, AsideTurns DEF Retire, At, PCs, InFileCode
    <2> QED
      BY <1>1, <2>1, MoveTraced DEF TurnTo, Undoing, BeforeRecord, InSwap
  <1>4. CASE Swap(w)
    <2>1. slots[w].pc = "ready" /\ TurnTo(w, "swapped", slots[w].before, slots[w].aside)
      BY <1>0, <1>4, GoToTurns DEF Swap, At, PCs, InFileCode
    <2> QED
      BY <1>1, <2>1, MoveTraced DEF TurnTo, Undoing, BeforeRecord, InSwap
  <1>5. CASE WriteManifest(w)
    <2>1. slots[w].pc = "swapped" /\ TurnTo(w, "recording", slots[w].before, slots[w].aside)
      BY <1>0, <1>5, GoToTurns DEF WriteManifest, At, PCs, AtAwait
    <2> QED
      BY <1>1, <2>1, MoveTraced DEF TurnTo, Undoing, BeforeRecord, InSwap
  <1>6. CASE MarkApplied(w)
    <2>1. TurnTo(w, "applied", slots[w].before, slots[w].aside)
      BY <1>0, <1>1, <1>6, GoToTurns DEF MarkApplied, PCs, AtAwait
    <2> QED
      BY <1>1, <2>1, MoveTraced DEF TurnTo, Undoing, BeforeRecord
  <1>7. CASE RecordFails(w)
    <2>1. TurnTo(w, "recovering", slots[w].before, slots[w].aside)
      BY <1>0, <1>1, <1>7, GoToTurns DEF RecordFails, PCs, InFileCode
    <2> QED
      BY <1>1, <2>1, MoveTraced DEF TurnTo, Undoing, BeforeRecord
  <1>8. CASE BeginRecovery(w)
    <2> DEFINE next == IF slots[w].before = Absent THEN "recovered" ELSE "restoring"
    <2>1. TurnTo(w, next, slots[w].before, active)
      BY <1>0, <1>1, <1>8, AsideTurns DEF BeginRecovery, PCs, InFileCode, AtAwait
    <2> QED
      BY <1>1, <2>1, MoveTraced DEF TurnTo, Undoing, BeforeRecord
  <1>9. CASE RestoreArchived(w)
    <2>1. TurnTo(w, "recovered", slots[w].before, slots[w].aside)
      BY <1>0, <1>1, <1>9, GoToTurns DEF RestoreArchived, PCs, AtAwait
    <2> QED
      BY <1>1, <2>1, MoveTraced DEF TurnTo, Undoing, BeforeRecord
  <1> QED
    BY <1>2, <1>3, <1>4, <1>5, <1>6, <1>7, <1>8, <1>9

\* The steps of a rollback, and of a handler that is left behind.
LEMMA RollbackTraced ==
  ASSUME IInv, NEW w \in Slots, Traced(w),
         \/ StartRollback(w) \/ DeleteActive(w) \/ RetireForRollback(w) \/ RestoreSnapshot(w)
         \/ RecordRollback(w)
  PROVE  Traced(w)'
  <1>0. /\ RestTyped /\ SlotsTyped /\ active \in Content \cup {Absent}
    BY SlotFacts DEF RestTyped
  <1>1. slots[w].pc # "idle" /\ UNCHANGED <<undo, archive, history, jobs>>
    BY DEF StartRollback, DeleteActive, RetireForRollback, RestoreSnapshot, RecordRollback, At,
       Files, Database
  <1>2. undo[slots[w].tx] # "none"
    BY DEF Traced, FirstAttempt, Undoing, StartRollback, DeleteActive, RetireForRollback,
       RestoreSnapshot, RecordRollback, At
  <1>3. PICK pc \in Undoing, aside \in Content \cup {Absent} : TurnTo(w, pc, slots[w].before, aside)
    <2>1. CASE StartRollback(w)
      BY <1>0, <1>1, <2>1, GoToTurns, SlotFacts DEF StartRollback, PCs, AtAwait, Undoing
    <2>2. CASE DeleteActive(w)
      BY <1>0, <1>1, <2>2, GoToTurns, SlotFacts DEF DeleteActive, PCs, AtAwait, Undoing
    <2>3. CASE RetireForRollback(w)
      BY <1>0, <1>1, <2>3, AsideTurns DEF RetireForRollback, PCs, InFileCode, Undoing
    <2>4. CASE RestoreSnapshot(w)
      BY <1>0, <1>1, <2>4, GoToTurns, SlotFacts DEF RestoreSnapshot, PCs, AtAwait, Undoing
    <2>5. CASE RecordRollback(w)
      BY <1>0, <1>1, <2>5, GoToTurns, SlotFacts DEF RecordRollback, PCs, AtAwait, Undoing
    <2> QED
      BY <2>1, <2>2, <2>3, <2>4, <2>5
  <1> QED
    BY <1>1, <1>2, <1>3, MoveTraced DEF TurnTo, Undoing, BeforeRecord

\* A handler that is left behind; its job keeps its count.
LEMMA RenewalRaisesTraced ==
  ASSUME IInv, NEW w \in Slots, Traced(w), RenewalRaises(w)
  PROVE  Traced(w)'
  <1>0. RestTyped /\ SlotsTyped /\ slots[w].pc \in AtAwait /\ slots[w].tx \in Txs
    BY SlotFacts DEF RenewalRaises, AtAwait
  <1>1. /\ slots' = [slots EXCEPT ![w].orphan = TRUE]
        /\ UNCHANGED <<undo, archive, history>>
    BY DEF RenewalRaises, Files, Database
  <1>2. \A u \in Txs : jobs'[u].attempts = jobs[u].attempts
    BY <1>0, AttemptsStay DEF RenewalRaises
  <1>3. slots[w].pc # "idle" /\ slots[w].pc # "archiving"
    BY <1>0 DEF AtAwait
  <1>4. TurnTo(w, slots[w].pc, slots[w].before, slots[w].aside)
    BY <1>0, <1>1, <1>3, OrphanTurns
  <1>5. slots[w].pc \in Undoing => undo[slots[w].tx] # "none"
    BY DEF Traced, FirstAttempt
  <1> QED
    BY <1>1, <1>2, <1>3, <1>4, <1>5, MoveTraced DEF TurnTo

\* A rollback that is asked for, and slots that are stopped.
LEMMA OthersTraced ==
  ASSUME IInv, NEW w \in Slots, Traced(w),
         (\E t \in Txs : RequestRollback(t)) \/ (\E ws : Stop(ws)) \/ UNCHANGED vars
  PROVE  Traced(w)'
  <1>0. RestTyped
    BY SlotFacts
  <1>1. UNCHANGED <<undo, archive, history, active>>
    BY DEF RequestRollback, Stop, Files, Database, vars
  <1>2. \A u \in Txs : jobs'[u].attempts = jobs[u].attempts
    <2>1. CASE \E ws : Stop(ws)
      <3>1. \A u \in Txs : jobs'[u] = jobs[u] \/ jobs'[u] = Retried(jobs[u])
        BY <2>1 DEF Stop
      <3>2. \A j \in JobRecord : Retried(j).attempts = j.attempts
        BY DEF Retried, JobRecord
      <3> QED
        BY <1>0, <3>1, <3>2 DEF RestTyped
    <2>2. CASE (\E t \in Txs : RequestRollback(t)) \/ UNCHANGED vars
      BY <2>2 DEF RequestRollback, vars
    <2> QED
      BY <2>1, <2>2
  <1>3. slots'[w] = slots[w] \/ slots'[w].pc = "idle"
    <2>1. CASE \E ws : Stop(ws)
      BY <2>1 DEF Stop, IdleSlot
    <2>2. CASE (\E t \in Txs : RequestRollback(t)) \/ UNCHANGED vars
      BY <2>2 DEF RequestRollback, vars
    <2> QED
      BY <2>1, <2>2
  <1>4. Untried' /\ TriedOnce'
    BY <1>1, <1>2, TracedStep DEF Traced, history
  <1>5. slots[w].pc # "idle" => slots[w].tx \in Txs
    BY SlotFacts
  <1>6. FirstAttempt(w)'
    <2>1. CASE slots'[w].pc = "idle"
      BY <2>1 DEF FirstAttempt, Undoing, BeforeRecord
    <2>2. CASE slots'[w] = slots[w] /\ slots[w].pc # "idle"
      BY <1>1, <1>2, <1>5, <2>2 DEF Traced, FirstAttempt, history
    <2> QED
      BY <1>3, <2>1, <2>2
  <1> QED
    BY <1>4, <1>6 DEF Traced

-----------------------------------------------------------------------------
(* The invariant of a handler that is alone *)

\* Either two handlers have run at once, or the state is as the only one knows it.
AInv == crossed \/ \E w \in Slots : Sole(w) /\ Traced(w)

\* A handler that does something is the only one that can.
LEMMA TheSole ==
  ASSUME NEW u \in Slots, Sole(u), NEW w \in Slots, slots[w].pc # "idle"
  PROVE  w = u
  BY DEF Sole, Lone

\* Where nobody runs, any slot is as good as another.
LEMMA AnySole ==
  ASSUME NEW u \in Slots, Sole(u), Traced(u), Busy = {}, NEW w \in Slots
  PROVE  Sole(w) /\ Traced(w)
  <1>1. \A v \in Slots : slots[v].pc = "idle"
    BY DEF Busy
  <1>2. Lone(w) /\ Undisturbed(w)
    BY <1>1 DEF Lone, Undisturbed, InApply, InRollback
  <1>3. NoGap(w)
    BY <1>1 DEF Sole, NoGap, InFileCode, Placed
  <1>4. FirstAttempt(w)
    BY <1>1 DEF FirstAttempt, Undoing, BeforeRecord
  <1> QED
    BY <1>2, <1>3, <1>4 DEF Sole, Traced

\* A claim beside which nobody runs.
LEMMA ClaimKeepsAlone ==
  ASSUME IInv, AInv, NEW w \in Slots, NEW t \in Txs, ClaimApply(w, t) \/ ClaimRollback(w, t)
  PROVE  AInv'
  <1>1. crossed' = (crossed \/ Busy # {})
    BY DEF ClaimApply, ClaimRollback, Started
  <1>2. CASE crossed \/ Busy # {}
    BY <1>1, <1>2 DEF AInv
  <1>3. CASE ~crossed /\ Busy = {}
    <2>1. PICK u \in Slots : Sole(u) /\ Traced(u)
      BY <1>3 DEF AInv
    <2>2. Sole(w) /\ Traced(w)
      BY <1>3, <2>1, AnySole
    <2> QED
      BY <2>2, ClaimApplyAlone, ClaimRollbackAlone, ClaimApplyTraced, ClaimRollbackTraced DEF AInv
  <1> QED
    BY <1>2, <1>3

\* The steps of an apply.
LEMMA ApplyKeepsAlone ==
  ASSUME IInv, HistoryTyped, NEW w \in Slots, Sole(w), Traced(w),
         \/ DeferApply(w) \/ StartApply(w)
         \/ BeginArchive(w) \/ NothingToArchive(w) \/ ArchiveExists(w) \/ FinishArchive(w)
         \/ Retire(w) \/ Swap(w) \/ ApplyFails(w) \/ WriteManifest(w)
         \/ RecordItems(w) \/ MarkApplied(w) \/ FinishApply(w)
         \/ RecordFails(w) \/ BeginRecovery(w) \/ RestoreArchived(w) \/ MarkFailed(w)
         \/ HandlerFails(w)
  PROVE  Sole(w)' /\ Traced(w)'
  <1>1. Sole(w)'
    BY DeferApplyAlone, StartApplyAlone, BeginArchiveAlone, NothingToArchiveAlone,
       ArchiveExistsAlone, FinishArchiveAlone, RetireAlone, SwapAlone, ApplyFailsAlone,
       WriteManifestAlone, RecordItemsAlone, MarkAppliedAlone, FinishApplyAlone, RecordFailsAlone,
       BeginRecoveryAlone, RestoreArchivedAlone, MarkFailedAlone, HandlerFailsAlone
  <1>2. Traced(w)'
    BY EndsTraced, ApplyTraced, BeginArchiveTraced, NothingToArchiveTraced, FinishArchiveTraced,
       RecordItemsTraced
  <1> QED
    BY <1>1, <1>2

\* The steps of a rollback, and a renewal that raises.
LEMMA RollbackKeepsAlone ==
  ASSUME IInv, NEW w \in Slots, Sole(w), Traced(w),
         \/ StartRollback(w) \/ DeleteActive(w) \/ RetireForRollback(w) \/ RestoreSnapshot(w)
         \/ RecordRollback(w) \/ CompleteRollback(w) \/ NoRollback(w) \/ RollbackFails(w)
         \/ RenewalRaises(w)
  PROVE  Sole(w)' /\ Traced(w)'
  <1>1. Sole(w)'
    BY StartRollbackAlone, DeleteActiveAlone, RetireForRollbackAlone, RestoreSnapshotAlone,
       RecordRollbackAlone, CompleteRollbackAlone, NoRollbackAlone, RollbackFailsAlone,
       RenewalRaisesAlone
  <1>2. Traced(w)'
    BY EndsTraced, RollbackTraced, RenewalRaisesTraced
  <1> QED
    BY <1>1, <1>2

\* No slot that is idle takes one of these steps.
LEMMA BusySteps ==
  ASSUME NEW w \in Slots,
         \/ DeferApply(w) \/ StartApply(w)
         \/ BeginArchive(w) \/ NothingToArchive(w) \/ ArchiveExists(w) \/ FinishArchive(w)
         \/ Retire(w) \/ Swap(w) \/ ApplyFails(w) \/ WriteManifest(w)
         \/ RecordItems(w) \/ MarkApplied(w) \/ FinishApply(w)
         \/ RecordFails(w) \/ BeginRecovery(w) \/ RestoreArchived(w) \/ MarkFailed(w)
         \/ HandlerFails(w)
         \/ StartRollback(w) \/ DeleteActive(w) \/ RetireForRollback(w) \/ RestoreSnapshot(w)
         \/ RecordRollback(w) \/ CompleteRollback(w) \/ NoRollback(w) \/ RollbackFails(w)
         \/ RenewalRaises(w)
  PROVE  slots[w].pc # "idle"
  BY DEF DeferApply, StartApply, BeginArchive, NothingToArchive, ArchiveExists, FinishArchive,
     Retire, Swap, ApplyFails, WriteManifest, RecordItems, MarkApplied, FinishApply, RecordFails,
     BeginRecovery, RestoreArchived, MarkFailed, HandlerFails, StartRollback, DeleteActive,
     RetireForRollback, RestoreSnapshot, RecordRollback, CompleteRollback, NoRollback,
     RollbackFails, RenewalRaises, At, AtAwait

\* Every step leaves the state as the only handler knows it, or starts another.
LEMMA NextKeepsAlone ==
  ASSUME IInv, HistoryTyped, AInv, [Next]_vars
  PROVE  AInv'
  <1>1. CASE crossed
    BY <1>1, HistoryMoves DEF AInv, Started
  <1>2. CASE ~crossed
    <2>1. PICK u \in Slots : Sole(u) /\ Traced(u)
      BY <1>2 DEF AInv
    <2>2. ASSUME NEW w \in Slots, NEW t \in Txs, ClaimApply(w, t) \/ ClaimRollback(w, t)
          PROVE  AInv'
      BY <2>2, ClaimKeepsAlone
    <2>3. ASSUME NEW w \in Slots,
                 \/ DeferApply(w) \/ StartApply(w)
                 \/ BeginArchive(w) \/ NothingToArchive(w) \/ ArchiveExists(w) \/ FinishArchive(w)
                 \/ Retire(w) \/ Swap(w) \/ ApplyFails(w) \/ WriteManifest(w)
                 \/ RecordItems(w) \/ MarkApplied(w) \/ FinishApply(w)
                 \/ RecordFails(w) \/ BeginRecovery(w) \/ RestoreArchived(w) \/ MarkFailed(w)
                 \/ HandlerFails(w)
          PROVE  AInv'
      <3>1. w = u
        BY <2>1, <2>3, BusySteps, TheSole
      <3> QED
        BY <2>1, <2>3, <3>1, ApplyKeepsAlone DEF AInv
    <2>4. ASSUME NEW w \in Slots,
                 \/ StartRollback(w) \/ DeleteActive(w) \/ RetireForRollback(w)
                 \/ RestoreSnapshot(w) \/ RecordRollback(w) \/ CompleteRollback(w)
                 \/ NoRollback(w) \/ RollbackFails(w) \/ RenewalRaises(w)
          PROVE  AInv'
      <3>1. w = u
        BY <2>1, <2>4, BusySteps, TheSole
      <3> QED
        BY <2>1, <2>4, <3>1, RollbackKeepsAlone DEF AInv
    <2>5. ASSUME NEW ws, Stop(ws) PROVE AInv'
      BY <2>1, <2>5, StopAlone, OthersTraced DEF AInv
    <2>6. ASSUME NEW t \in Txs, RequestRollback(t) PROVE AInv'
      BY <2>1, <2>6, RequestRollbackAlone, OthersTraced DEF AInv
    <2>7. CASE UNCHANGED vars
      <3>1. UNCHANGED <<active, archive, status, undo, requests, rollback, slots, stops>>
        BY <2>7 DEF vars
      <3>2. Sole(u)'
        BY <2>1, <3>1 DEF Sole, Lone, Undisturbed, NoGap, Owed, Claimed, Held, Kept
      <3> QED
        BY <2>1, <2>7, <3>2, OthersTraced DEF AInv
    <2> QED
      BY <2>2, <2>3, <2>4, <2>5, <2>6, <2>7 DEF Next, Cancel, Crash
  <1> QED
    BY <1>1, <1>2

\* Nothing is applied in the beginning.
LEMMA InitAlone == Init => AInv
  <1> SUFFICES ASSUME Init PROVE AInv
    OBVIOUS
  <1>1. PICK w : w \in Slots
    BY BoundAssumption
  <1>2. \A t \in Txs : status[t] # "applied" /\ replaced[t] = Partial /\ undo[t] = "none"
    BY DEF Init
  <1>3. \A v \in Slots : slots[v].pc = "idle"
    BY DEF Init, IdleSlot
  <1>4. Lone(w) /\ Undisturbed(w)
    BY <1>1, <1>3 DEF Lone, Undisturbed, InApply, InRollback
  <1>5. NoGap(w) /\ Held
    BY <1>2 DEF NoGap, Owed, Held
  <1>6. Traced(w)
    BY <1>1, <1>2, <1>3 DEF Traced, Untried, TriedOnce, FirstAttempt, Undoing, BeforeRecord
  <1> QED
    BY <1>1, <1>4, <1>5, <1>6 DEF AInv, Sole

\* As long as no handler is started beside another one, the one that runs
\* knows at every step what it has changed; afterwards IInv still holds.
THEOREM AloneInvariant == Spec => [](IInv /\ HistoryTyped /\ AInv)
  <1>1. Init => IInv /\ HistoryTyped /\ AInv
    BY InitEstablishes, InitHistory, InitAlone
  <1>2. IInv /\ HistoryTyped /\ AInv /\ [Next]_vars => (IInv /\ HistoryTyped /\ AInv)'
    BY NextKeeps, HistoryKeeps, NextKeepsAlone
  <1> QED
    BY <1>1, <1>2, PTL DEF Spec

\* AppliedVersionKept: no crash, retry or recovery loses the version of an
\* applied transaction, unless a handler is started while another one runs
\* (writer.py, apply_staged_manifest and rollback_active_skill).
THEOREM VersionsKept == Spec => []AppliedVersionKept
  <1>1. AInv => AppliedVersionKept
    BY KeptStored DEF AInv, Sole
  <1> QED
    BY <1>1, AloneInvariant, PTL

\* NoGapFromErrors: the errors that the handlers of writer.py catch leave a
\* skill that has been applied in its place, unless a handler is started
\* while another one runs.
THEOREM NoGaps == Spec => []NoGapFromErrors
  <1>1. AInv => NoGapFromErrors
    <2> SUFFICES ASSUME AInv, ~crossed, Owed, \A w \in Slots : slots[w].pc \notin InFileCode
                 PROVE  active # Absent
      BY DEF NoGapFromErrors, Owed
    <2>1. PICK w \in Slots : NoGap(w)
      BY DEF Sole, AInv
    <2> QED
      BY <2>1 DEF NoGap
  <1> QED
    BY <1>1, AloneInvariant, PTL

\* A request is completed by the slot that recorded its rollback.
LEMMA CompletedByOne ==
  ASSUME IInv, [Next]_vars, NEW t \in Txs, requests[t] = "processing", requests'[t] = "completed"
  PROVE  \E w \in Slots : CompleteRollback(w) /\ slots[w].tx = t
  <1>1. requests' # requests
    OBVIOUS
  <1>2. RestTyped
    BY DEF IInv, StateTyped
  <1>3. ASSUME NEW v \in Txs, NEW s \in {"queued", "processing", "failed"}
        PROVE  requests' # [requests EXCEPT ![v] = s]
    BY <1>2, <1>3 DEF RestTyped
  <1>4. ASSUME NEW w \in Slots, CompleteRollback(w)
        PROVE  slots[w].tx = t
    <2>1. requests' = [requests EXCEPT ![slots[w].tx] = "completed"]
      BY <1>4 DEF CompleteRollback, EndRequest
    <2> QED
      BY <1>2, <2>1 DEF RestTyped
  <1>5. \A w \in Slots : slots[w].pc # "idle" => slots[w].tx \in Txs
    BY DEF IInv, StateTyped, SlotsTyped
  <1>6. ASSUME NEW w \in Slots
        PROVE  /\ \A v \in Txs : ~ClaimApply(w, v) /\ ~ClaimRollback(w, v)
               /\ ~DeferApply(w) /\ ~StartApply(w) /\ ~BeginArchive(w) /\ ~NothingToArchive(w)
               /\ ~ArchiveExists(w) /\ ~FinishArchive(w) /\ ~Retire(w) /\ ~Swap(w)
               /\ ~ApplyFails(w) /\ ~WriteManifest(w) /\ ~RecordItems(w) /\ ~MarkApplied(w)
               /\ ~FinishApply(w)
    BY <1>1, <1>3 DEF ClaimApply, ClaimRollback, DeferApply, StartApply, BeginArchive,
       NothingToArchive, ArchiveExists, FinishArchive, Retire, Swap, ApplyFails, WriteManifest,
       RecordItems, MarkApplied, FinishApply, Database
  <1>7. ASSUME NEW w \in Slots
        PROVE  /\ ~RecordFails(w) /\ ~BeginRecovery(w) /\ ~RestoreArchived(w) /\ ~MarkFailed(w)
               /\ ~HandlerFails(w) /\ ~StartRollback(w) /\ ~DeleteActive(w)
               /\ ~RetireForRollback(w) /\ ~RestoreSnapshot(w) /\ ~RecordRollback(w)
               /\ ~Cancel(w) /\ ~RenewalRaises(w)
    BY <1>1 DEF RecordFails, BeginRecovery, RestoreArchived, MarkFailed, HandlerFails,
       StartRollback, DeleteActive, RetireForRollback, RestoreSnapshot, RecordRollback,
       Cancel, RenewalRaises, Stop, Database
  <1>8. ASSUME NEW w \in Slots PROVE ~NoRollback(w) /\ ~RollbackFails(w)
    <2>1. ASSUME slots[w].tx \in Txs, EndRequest(w, "failed") PROVE FALSE
      BY <1>3, <2>1 DEF EndRequest
    <2>2. NoRollback(w) => EndRequest(w, "failed") /\ slots[w].pc # "idle"
      BY DEF NoRollback, At
    <2>3. RollbackFails(w) => EndRequest(w, "failed") /\ slots[w].pc # "idle"
      BY DEF RollbackFails, At
    <2> QED
      BY <1>5, <2>1, <2>2, <2>3
  <1>9. ~Crash /\ ~UNCHANGED vars /\ \A v \in Txs : ~RequestRollback(v)
    BY <1>1, <1>3 DEF Crash, Stop, Database, vars, RequestRollback
  <1> QED
    BY <1>4, <1>6, <1>7, <1>8, <1>9 DEF Next

\* CompletedRollbackTookEffect: a rollback that is reported completed is
\* recorded, and what its transaction replaced is active again, unless the
\* apply was tried again or a handler is started while another one runs
\* (worker.py, _execute_rollback_revocation).
THEOREM RollbacksTakeEffect == Spec => CompletedRollbackTookEffect
  <1>1. ASSUME IInv, AInv, [Next]_vars, NEW t \in Txs,
               requests[t] = "processing", requests'[t] = "completed",
               ~crossed, jobs[t].attempts = 1
        PROVE  rollback[t] = "rolled_back" /\ active = replaced[t]
    <2>1. PICK w \in Slots : slots[w].tx = t /\ slots[w].pc = "rolledBack"
      BY <1>1, CompletedByOne DEF CompleteRollback, At
    <2>2. PICK u \in Slots : Sole(u) /\ Traced(u)
      BY <1>1 DEF AInv
    <2>3. Undisturbed(w) /\ Traced(w)
      BY <2>1, <2>2, TheSole DEF Sole
    <2>4. undo[t] # "none"
      BY <2>1, <2>3 DEF Traced, FirstAttempt, Undoing
    <2>5. Original(t)
      BY <1>1, <2>3, <2>4 DEF Traced, TriedOnce
    <2> QED
      BY <2>1, <2>3, <2>5 DEF Undisturbed, Original
  <1>2. IInv /\ AInv /\ [Next]_vars =>
          [\A t \in Txs :
             /\ requests[t] = "processing" /\ requests'[t] = "completed"
             /\ ~crossed /\ jobs[t].attempts = 1
             => rollback[t] = "rolled_back" /\ active = replaced[t]]_vars
    BY <1>1
  <1> QED
    BY <1>2, AloneInvariant, PTL DEF Spec, CompletedRollbackTookEffect
=============================================================================
