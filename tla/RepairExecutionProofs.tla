------------------------ MODULE RepairExecutionProofs ------------------------
(***************************************************************************)
(* Safety of the repairs for any number of sources and workers: a source   *)
(* is handed on once, is recorded as queued when a job was made for it, is *)
(* not stranded while nothing fails, and does not reopen once an operator  *)
(* has called it a false positive.                                         *)
(***************************************************************************)
EXTENDS RepairExecution, TLAPS

\* What is claimed once in its life; a diagnostic record can be armed again.
Once == Actions \cup Events

\* A worker has a source in hand from Take to CompleteSource.
InHand ==
  \A w \in Workers :
    /\ workers[w].pc \in {"started", "planned", "enqueued", "completing"} <=>
         workers[w].source \in Sources
    /\ workers[w].pc # "completing" => workers[w].outcome = "none"

\* No job was ever made for s.
Untouched(s) == rows[s] = 0 /\ \A k \in JobKinds : queue[s][k] = "none"

\* What can still be claimed is in no one's hands and was never handed on.
FreshIsFree ==
  \A s \in Once :
    status[s] \in {"planned", "absent", "open"} =>
      Untouched(s) /\ \A w \in Workers : ~Holds(w, s)

\* A claimed action or event is in the hands of one worker, which has it to
\* do or in work, and has no job until that worker enqueues it.
OneHolder ==
  \A s \in Once : \A w \in Workers :
    /\ s \in workers[w].todo => Untouched(s) /\ workers[w].source # s
    /\ workers[w].source = s /\ workers[w].pc \in {"started", "planned"} => Untouched(s)
    /\ Holds(w, s) => \A v \in Workers \ {w} : ~Holds(v, s)

\* A row is a job; the writer is never given a diagnostic record.
RowIsJob ==
  /\ \A s \in Sources : rows[s] # 0 => \E k \in JobKinds : queue[s][k] # "none"
  /\ \A s \in Momenta : queue[s]["writer.apply"] = "none"

\* What a worker is about to record as queued has a job that was made for it.
EnqueuedIsOwn ==
  \A w \in Workers :
    /\ workers[w].outcome = "queued" => workers[w].source \in Sources
    /\ workers[w].pc = "enqueued" \/ workers[w].outcome = "queued" =>
         workers[w].created \/ workers[w].source \notin Once

\* The writer has answered only for the job that it has done.
SettledIsDone == \A s \in Sources : tx[s] = "settled" => queue[s]["writer.apply"] = "done"

IInv ==
  /\ TypeOK /\ InHand /\ FreshIsFree /\ OneHolder /\ RowIsJob /\ EnqueuedIsOwn
  /\ SettledIsDone /\ RepairedOnce

-----------------------------------------------------------------------------

\* Nothing has been claimed or handed on at the start.
LEMMA InitEstablishes == Init => IInv /\ NothingStranded /\ FalsePositiveNeverOpens
  <1> SUFFICES ASSUME Init PROVE IInv /\ NothingStranded /\ FalsePositiveNeverOpens
    OBVIOUS
  <1> USE DEF Init
  <1>1. TypeOK
    BY SourceAssumption, BoundAssumption
    DEF TypeOK, StatusesOf, WorkerRecord, WorkerPcs, Idle, Sources, Family
  <1>2. InHand
    BY SourceAssumption DEF InHand, Idle
  <1>3. FreshIsFree /\ OneHolder
    BY SourceAssumption DEF FreshIsFree, OneHolder, Untouched, Holds, Idle, Once, Sources
  <1>4. RowIsJob /\ EnqueuedIsOwn /\ SettledIsDone
    BY DEF RowIsJob, EnqueuedIsOwn, SettledIsDone, Idle, JobKinds, Sources
  <1>5. RepairedOnce
    BY DEF RepairedOnce
  <1>6. NothingStranded /\ FalsePositiveNeverOpens
    BY DEF NothingStranded, FalsePositiveNeverOpens, Claimed
  <1> QED
    BY <1>1, <1>2, <1>3, <1>4, <1>5, <1>6 DEF IInv

-----------------------------------------------------------------------------
(* The inductive step. *)

\* The ways in which a worker's record changes keep its shape.
LEMMA RecordUpdates ==
  ASSUME NEW r \in WorkerRecord, NEW s \in Sources, NEW pc \in WorkerPcs,
         NEW outcome \in {"none", "queued", "blocked"}, NEW created \in BOOLEAN
  PROVE  /\ [r EXCEPT !.pc = pc] \in WorkerRecord
         /\ [r EXCEPT !.pc = pc, !.outcome = outcome] \in WorkerRecord
         /\ [r EXCEPT !.source = s, !.todo = @ \ {s}] \in WorkerRecord
         /\ [r EXCEPT !.pc = pc, !.created = created] \in WorkerRecord
  BY DEF WorkerRecord

\* A claim adds to what a worker has to do.
LEMMA ClaimUpdate ==
  ASSUME NEW r \in WorkerRecord, NEW pc \in WorkerPcs, NEW batch \in SUBSET Sources
  PROVE  [r EXCEPT !.pc = pc, !.todo = @ \cup batch] \in WorkerRecord
  BY DEF WorkerRecord

\* Every action writes statuses that its store knows, and whole records.
LEMMA TypeStep == IInv /\ [Next]_vars => TypeOK'
  <1> SUFFICES ASSUME IInv, [Next]_vars PROVE TypeOK'
    OBVIOUS
  <1> USE DEF IInv, TypeOK, WorkerRecord, WorkerPcs, StatusesOf, Family, JobKinds, Sources,
     InHand
  <1>1. CASE MarkFalsePositive
    BY <1>1, SourceAssumption DEF MarkFalsePositive, Closed, ContractUnchanged
  <1>2. CASE ExtractContracts
    BY <1>2 DEF ExtractContracts, ContractUnchanged
  <1>3. CASE SkipContract
    BY <1>3, SourceAssumption DEF SkipContract, Closed, ContractUnchanged
  <1>4. ASSUME NEW e \in Events, ContractViolated(e) PROVE TypeOK'
    BY <1>4, SourceAssumption DEF ContractViolated, ContractUnchanged
  <1>5. ASSUME NEW m \in Momenta, SignalDrift(m) PROVE TypeOK'
    BY <1>5, SourceAssumption, BoundAssumption DEF SignalDrift, Signal, NewStatus, NextStatus
  <1>6. ASSUME NEW m \in Momenta, PostSignal(m) PROVE TypeOK'
    BY <1>6, SourceAssumption, BoundAssumption DEF PostSignal, Signal, NewStatus, NextStatus
  <1>7. CASE SignalLost
    BY <1>7, BoundAssumption DEF SignalLost, Fault, Stop
  <1>8. ASSUME NEW w \in Workers, Claim(w) PROVE TypeOK'
    <2> DEFINE pc == workers[w].pc
    <2> DEFINE batch == {s \in Family[pc] : Claimable(s)}
    <2>1. pc \in {"idle", "events", "momenta"}
      BY <1>8 DEF Claim
    <2>2. /\ Family[pc] \subseteq Sources /\ NextClaim[pc] \in WorkerPcs
          /\ \A s \in Family[pc] : ClaimedStatus[pc] \in StatusesOf(s)
      BY <2>1, SourceAssumption DEF NextClaim, ClaimedStatus
    <2>3. workers' \in [Workers -> WorkerRecord]
      <3>1. workers[w] \in WorkerRecord /\ NextClaim[pc] \in WorkerPcs /\ batch \in SUBSET
         Sources
        BY <2>2
      <3> HIDE DEF WorkerRecord, WorkerPcs, Sources, Family
      <3> QED
        BY <3>1, <1>8, ClaimUpdate DEF Claim
    <2>4. \A s \in Sources :
            status'[s] = IF s \in batch THEN ClaimedStatus[pc] ELSE status[s]
      BY <1>8 DEF Claim
    <2>5. \A s \in Sources : status'[s] \in StatusesOf(s)
      <3> HIDE DEF StatusesOf, Family, Sources
      <3> QED
        BY <2>2, <2>4
    <2>6. status' \in [Sources -> UNION {StatusesOf(s) : s \in Sources}]
      <3>1. status' = [s \in Sources |-> status'[s]]
        BY <1>8 DEF Claim
      <3> HIDE DEF StatusesOf, Sources
      <3> QED
        BY <2>5, <3>1
    <2>7. /\ UNCHANGED <<tx, queue, rows, faults, momentum, contract, checker, signals, stops>>
          /\ runs' \in 0..MaxRuns
      BY <1>8, BoundAssumption DEF Claim, RepairUnchanged
    <2> HIDE DEF StatusesOf, Family, Sources, WorkerRecord
    <2> QED
      BY <2>3, <2>5, <2>6, <2>7
  <1>9. ASSUME NEW w \in Workers, NEW s \in Sources, MemoryRefused(w, s) PROVE TypeOK'
    <2>1. workers' \in [Workers -> WorkerRecord]
      <3>1. workers[w] \in WorkerRecord /\ "completing" \in WorkerPcs
        OBVIOUS
      <3> HIDE DEF WorkerRecord, WorkerPcs, Sources
      <3> QED
        BY <3>1, <1>9, RecordUpdates DEF MemoryRefused, Take, SourceBlocked, Outcome
    <2> QED
      BY <2>1, <1>9 DEF MemoryRefused, Take, NextSources, SourceBlocked, Outcome,
         RepairUnchanged
  <1>10. ASSUME NEW w \in Workers, NEW s \in Sources, StartTransaction(w, s) PROVE TypeOK'
    <2>1. workers' \in [Workers -> WorkerRecord]
      <3>1. workers[w] \in WorkerRecord /\ "started" \in WorkerPcs
        OBVIOUS
      <3> HIDE DEF WorkerRecord, WorkerPcs, Sources
      <3> QED
        BY <3>1, <1>10, RecordUpdates DEF StartTransaction, Take
    <2> QED
      BY <2>1, <1>10 DEF StartTransaction, Take, NextSources, RepairUnchanged
  <1>11. ASSUME NEW w \in Workers, NEW s \in Sources, StartFails(w, s) PROVE TypeOK'
    <2>1. workers' \in [Workers -> WorkerRecord]
      <3>1. workers[w] \in WorkerRecord /\ "completing" \in WorkerPcs
        OBVIOUS
      <3> HIDE DEF WorkerRecord, WorkerPcs, Sources
      <3> QED
        BY <3>1, <1>11, RecordUpdates DEF StartFails, Take, SourceBlocked, Outcome
    <2> QED
      BY <2>1, <1>11, BoundAssumption DEF StartFails, Take, NextSources, SourceBlocked,
         Outcome, RepairUnchanged, Fault
  <1>12. ASSUME NEW w \in Workers, Plan(w) PROVE TypeOK'
    BY <1>12, SourceAssumption DEF Plan, Step, RepairUnchanged
  <1>13. ASSUME NEW w \in Workers, RecordQueued(w) PROVE TypeOK'
    <2>1. workers' \in [Workers -> WorkerRecord]
      <3>1. workers[w] \in WorkerRecord /\ "completing" \in WorkerPcs
        OBVIOUS
      <3> HIDE DEF WorkerRecord, WorkerPcs, Sources
      <3> QED
        BY <3>1, <1>13, RecordUpdates DEF RecordQueued, Outcome
    <2> QED
      BY <2>1, <1>13 DEF RecordQueued, Outcome, RepairUnchanged
  <1>14. ASSUME NEW w \in Workers, ExecuteFails(w) PROVE TypeOK'
    <2>1. workers' \in [Workers -> WorkerRecord]
      <3>1. workers[w] \in WorkerRecord /\ "completing" \in WorkerPcs
        OBVIOUS
      <3> HIDE DEF WorkerRecord, WorkerPcs, Sources
      <3> QED
        BY <3>1, <1>14, RecordUpdates DEF ExecuteFails, SourceBlocked, Outcome
    <2> QED
      BY <2>1, <1>14, BoundAssumption DEF ExecuteFails, SourceBlocked, Outcome,
         RepairUnchanged, Fault
  <1>15. ASSUME NEW w \in Workers, NEW k \in JobKinds, EnqueueRepair(w, k) PROVE TypeOK'
    <2> DEFINE created == KeyFree(workers[w].source, k)
    <2>1. workers' \in [Workers -> WorkerRecord]
      <3>1. /\ workers[w] \in WorkerRecord /\ "enqueued" \in WorkerPcs /\ created \in BOOLEAN
            /\ workers \in [Workers -> WorkerRecord] /\ workers[w].source \in Sources
        BY <1>15 DEF KeyFree, EnqueueRepair
      <3>2. workers' = [workers EXCEPT ![w] = [workers[w] EXCEPT !.pc = "enqueued",
                                                                !.created = created]]
        BY <1>15 DEF EnqueueRepair
      <3> HIDE DEF WorkerRecord, WorkerPcs, Sources, created
      <3> QED
        BY <3>1, <3>2, RecordUpdates
    <2>2. /\ queue' \in [Sources -> [JobKinds -> {"none", "queued", "applying", "done"}]]
          /\ rows' \in [Sources -> Nat]
      BY <1>15 DEF EnqueueRepair, QueuedKinds
    <2> QED
      BY <2>1, <2>2, <1>15 DEF EnqueueRepair, RepairUnchanged
  <1>16. ASSUME NEW w \in Workers, CompleteSource(w) PROVE TypeOK'
    <2> DEFINE s == workers[w].source
    <2>1. s \in Sources
      BY <1>16 DEF CompleteSource
    <2>2. CompletedStatus(s, workers[w].outcome) \in StatusesOf(s)
      BY <2>1, SourceAssumption DEF CompletedStatus
    <2>3. workers' \in [Workers -> WorkerRecord]
      BY <1>16 DEF CompleteSource, Idle
    <2> QED
      BY <2>1, <2>2, <2>3, <1>16, BoundAssumption DEF CompleteSource, RepairUnchanged
  <1>17. ASSUME NEW w \in Workers, Done(w) PROVE TypeOK'
    BY <1>17 DEF Done, Idle, RepairUnchanged
  <1>18. ASSUME NEW w \in Workers, JobFails(w) PROVE TypeOK'
    BY <1>18, SourceAssumption, BoundAssumption DEF JobFails, Idle, RepairUnchanged, Fault
  <1>19. ASSUME NEW w \in Workers, WorkerCrash(w) PROVE TypeOK'
    BY <1>19, SourceAssumption, BoundAssumption DEF WorkerCrash, Idle, Stop
  <1>20. ASSUME NEW s \in Sources, WriterDeclines(s) PROVE TypeOK'
    BY <1>20 DEF WriterDeclines, WriterTx, QueueUnchanged
  <1>21. ASSUME NEW s \in Sources, WriterApplies(s) PROVE TypeOK'
    BY <1>21 DEF WriterApplies, WriterTx, QueueUnchanged
  <1>22. ASSUME NEW s \in Sources, WriterEnds(s) PROVE TypeOK'
    <2>1. /\ tx' \in [Sources -> {"none", "planned", "planning", "queued", "applying",
                                  "settled"}]
          /\ queue' \in [Sources -> [JobKinds -> {"none", "queued", "applying", "done"}]]
      BY <1>22 DEF WriterEnds, WriterTx
    <2> QED
      BY <2>1, <1>22 DEF WriterEnds, WriterTx, QueueUnchanged
  <1>24. ASSUME NEW s \in Sources, GateEnds(s) PROVE TypeOK'
    BY <1>24 DEF GateEnds, QueueUnchanged
  <1>23. CASE UNCHANGED vars
    BY <1>23 DEF vars
  <1> HIDE DEF TypeOK, WorkerRecord, WorkerPcs, StatusesOf, Family, JobKinds, Sources, InHand
  <1> QED
    BY <1>1, <1>2, <1>3, <1>4, <1>5, <1>6, <1>7, <1>8, <1>9, <1>10, <1>11, <1>12, <1>13,
       <1>14, <1>15, <1>16, <1>17, <1>18, <1>19, <1>20, <1>21, <1>22, <1>23, <1>24 DEF Next,
       ContractNext, SignalNext, RepairNext, QueueNext

\* Take alone puts a source in hand; what ends the work on it clears it.
LEMMA InHandStep == IInv /\ [Next]_vars => InHand'
  <1> SUFFICES ASSUME IInv, [Next]_vars PROVE InHand'
    OBVIOUS
  <1> USE DEF IInv, InHand, TypeOK, WorkerRecord, WorkerPcs, Family
  <1>1. CASE MarkFalsePositive
    BY <1>1 DEF MarkFalsePositive, Closed, ContractUnchanged
  <1>2. CASE ExtractContracts
    BY <1>2 DEF ExtractContracts, ContractUnchanged
  <1>3. CASE SkipContract
    BY <1>3 DEF SkipContract, Closed, ContractUnchanged
  <1>4. ASSUME NEW e \in Events, ContractViolated(e) PROVE InHand'
    BY <1>4 DEF ContractViolated, ContractUnchanged
  <1>5. ASSUME NEW m \in Momenta, SignalDrift(m) PROVE InHand'
    BY <1>5 DEF SignalDrift, Signal, NewStatus, NextStatus
  <1>6. ASSUME NEW m \in Momenta, PostSignal(m) PROVE InHand'
    BY <1>6 DEF PostSignal, Signal, NewStatus, NextStatus
  <1>7. CASE SignalLost
    BY <1>7 DEF SignalLost, Fault, Stop
  <1>8. ASSUME NEW w \in Workers, Claim(w) PROVE InHand'
    BY <1>8 DEF Claim, Claimable, Family, ClaimedStatus, NextClaim, RepairUnchanged
  <1>9. ASSUME NEW w \in Workers, NEW s \in Sources, MemoryRefused(w, s) PROVE InHand'
    BY <1>9 DEF MemoryRefused, Take, NextSources, SourceBlocked, Outcome, RepairUnchanged
  <1>10. ASSUME NEW w \in Workers, NEW s \in Sources, StartTransaction(w, s) PROVE InHand'
    BY <1>10 DEF StartTransaction, Take, NextSources, RepairUnchanged
  <1>11. ASSUME NEW w \in Workers, NEW s \in Sources, StartFails(w, s) PROVE InHand'
    BY <1>11 DEF StartFails, Take, NextSources, SourceBlocked, Outcome, RepairUnchanged, Fault
  <1>12. ASSUME NEW w \in Workers, Plan(w) PROVE InHand'
    BY <1>12 DEF Plan, Step, RepairUnchanged
  <1>13. ASSUME NEW w \in Workers, RecordQueued(w) PROVE InHand'
    BY <1>13 DEF RecordQueued, Outcome, RepairUnchanged
  <1>14. ASSUME NEW w \in Workers, ExecuteFails(w) PROVE InHand'
    BY <1>14 DEF ExecuteFails, SourceBlocked, Outcome, RepairUnchanged, Fault
  <1>15. ASSUME NEW w \in Workers, NEW k \in JobKinds, EnqueueRepair(w, k) PROVE InHand'
    BY <1>15 DEF EnqueueRepair, QueuedKinds, KeyFree, RepairUnchanged
  <1>16. ASSUME NEW w \in Workers, CompleteSource(w) PROVE InHand'
    BY <1>16, SourceAssumption DEF CompleteSource, CompletedStatus, Idle, RepairUnchanged
  <1>17. ASSUME NEW w \in Workers, Done(w) PROVE InHand'
    BY <1>17 DEF Done, Idle, RepairUnchanged
  <1>18. ASSUME NEW w \in Workers, JobFails(w) PROVE InHand'
    BY <1>18, SourceAssumption DEF JobFails, Idle, RepairUnchanged, Fault
  <1>19. ASSUME NEW w \in Workers, WorkerCrash(w) PROVE InHand'
    BY <1>19, SourceAssumption DEF WorkerCrash, Idle, Stop
  <1>20. ASSUME NEW s \in Sources, WriterDeclines(s) PROVE InHand'
    BY <1>20 DEF WriterDeclines, WriterTx, QueueUnchanged
  <1>21. ASSUME NEW s \in Sources, WriterApplies(s) PROVE InHand'
    BY <1>21 DEF WriterApplies, WriterTx, QueueUnchanged
  <1>22. ASSUME NEW s \in Sources, WriterEnds(s) PROVE InHand'
    BY <1>22 DEF WriterEnds, WriterTx, QueueUnchanged
  <1>24. ASSUME NEW s \in Sources, GateEnds(s) PROVE InHand'
    BY <1>24 DEF GateEnds, QueueUnchanged
  <1>23. CASE UNCHANGED vars
    BY <1>23 DEF vars
  <1> QED
    BY <1>1, <1>2, <1>3, <1>4, <1>5, <1>6, <1>7, <1>8, <1>9, <1>10, <1>11, <1>12, <1>13,
       <1>14, <1>15, <1>16, <1>17, <1>18, <1>19, <1>20, <1>21, <1>22, <1>23, <1>24 DEF Next,
       ContractNext, SignalNext, RepairNext, QueueNext

\* A claim takes what can be claimed and leaves the rest as it is.
LEMMA ClaimEffect ==
  ASSUME IInv, NEW w \in Workers, Claim(w)
  PROVE  \E batch \in SUBSET Sources :
           /\ \A s \in batch : Claimable(s) /\ status'[s] \in Claimed
           /\ \A s \in Sources \ batch : status'[s] = status[s]
           /\ workers'[w].todo = workers[w].todo \cup batch
           /\ workers'[w].source = workers[w].source
           /\ workers'[w].outcome = workers[w].outcome
           /\ workers[w].pc \in {"idle", "events", "momenta"}
           /\ workers'[w].pc \in {"events", "momenta", "choosing"}
           /\ \A v \in Workers \ {w} : workers'[v] = workers[v]
           /\ UNCHANGED <<momentum, contract, checker, tx, queue, rows, signals, stops, faults>>
  <1> DEFINE pc == workers[w].pc
  <1> DEFINE batch == {s \in Family[pc] : Claimable(s)}
  <1>1. pc \in {"idle", "events", "momenta"}
    BY DEF Claim, Family
  <1>2. batch \in SUBSET Sources /\ ClaimedStatus[pc] \in Claimed
    BY <1>1 DEF Family, ClaimedStatus, Claimed, Sources
  <1>3. NextClaim[pc] \in {"events", "momenta", "choosing"}
    BY <1>1 DEF NextClaim
  <1>4. \A s \in Sources :
          status'[s] = IF s \in batch THEN ClaimedStatus[pc] ELSE status[s]
    BY DEF Claim
  <1>5. /\ workers'[w].todo = workers[w].todo \cup batch
        /\ workers'[w].source = workers[w].source
        /\ workers'[w].outcome = workers[w].outcome
        /\ workers'[w].pc = NextClaim[pc]
        /\ \A v \in Workers \ {w} : workers'[v] = workers[v]
    BY DEF Claim, IInv, TypeOK, WorkerRecord
  <1>6. UNCHANGED <<momentum, contract, checker, tx, queue, rows, signals, stops, faults>>
    BY DEF Claim, RepairUnchanged
  <1>7. \A s \in batch : Claimable(s)
    OBVIOUS
  <1> HIDE DEF batch, pc
  <1>8. workers[w].pc \in {"idle", "events", "momenta"}
    BY <1>1 DEF pc
  <1> QED
    BY <1>2, <1>3, <1>4, <1>5, <1>6, <1>7, <1>8

\* Nothing makes a source claimable again once it was claimed or handed on.
LEMMA FreshStep == IInv /\ [Next]_vars => FreshIsFree'
  <1> SUFFICES ASSUME IInv, [Next]_vars PROVE FreshIsFree'
    OBVIOUS
  <1> USE DEF IInv, TypeOK, WorkerRecord, WorkerPcs, Family, JobKinds, InHand, FreshIsFree,
     OneHolder, Untouched, Holds, Once, Sources
  <1>1. CASE MarkFalsePositive
    BY <1>1 DEF MarkFalsePositive, Closed, ContractUnchanged
  <1>2. CASE ExtractContracts
    BY <1>2 DEF ExtractContracts, ContractUnchanged
  <1>3. CASE SkipContract
    BY <1>3 DEF SkipContract, Closed, ContractUnchanged
  <1>4. ASSUME NEW e \in Events, ContractViolated(e) PROVE FreshIsFree'
    BY <1>4 DEF ContractViolated, ContractUnchanged
  <1>5. ASSUME NEW m \in Momenta, SignalDrift(m) PROVE FreshIsFree'
    BY <1>5 DEF SignalDrift, Signal, NewStatus, NextStatus
  <1>6. ASSUME NEW m \in Momenta, PostSignal(m) PROVE FreshIsFree'
    BY <1>6 DEF PostSignal, Signal, NewStatus, NextStatus
  <1>7. CASE SignalLost
    BY <1>7 DEF SignalLost, Fault, Stop
  <1>8. ASSUME NEW w \in Workers, Claim(w) PROVE FreshIsFree'
    <2>1. PICK batch \in SUBSET Sources :
             /\ \A s \in batch : Claimable(s) /\ status'[s] \in Claimed
             /\ \A s \in Sources \ batch : status'[s] = status[s]
             /\ workers'[w].todo = workers[w].todo \cup batch
             /\ workers'[w].source = workers[w].source
             /\ workers'[w].outcome = workers[w].outcome
             /\ workers[w].pc \in {"idle", "events", "momenta"}
             /\ workers'[w].pc \in {"events", "momenta", "choosing"}
             /\ \A v \in Workers \ {w} : workers'[v] = workers[v]
             /\ UNCHANGED <<momentum, contract, checker, tx, queue, rows, signals, stops,
                faults>>
      BY <1>8, ClaimEffect
    <2>2. ASSUME NEW s \in Once, status'[s] \in {"planned", "absent", "open"}
          PROVE  Untouched(s)' /\ \A v \in Workers : ~Holds(v, s)'
      <3>1. s \notin batch /\ status'[s] = status[s]
        BY <2>1, <2>2 DEF Claimed
      <3>2. Untouched(s) /\ \A v \in Workers : ~Holds(v, s)
        BY <2>2, <3>1
      <3>3. \A v \in Workers : s \notin workers'[v].todo /\ workers'[v].source # s
        BY <2>1, <3>1, <3>2
      <3> QED
        BY <2>1, <3>2, <3>3
    <2> QED
      BY <2>2
  <1>9. ASSUME NEW w \in Workers, NEW s \in Sources, MemoryRefused(w, s) PROVE FreshIsFree'
    BY <1>9 DEF MemoryRefused, Take, NextSources, SourceBlocked, Outcome, RepairUnchanged
  <1>10. ASSUME NEW w \in Workers, NEW s \in Sources, StartTransaction(w, s) PROVE FreshIsFree'
    BY <1>10 DEF StartTransaction, Take, NextSources, RepairUnchanged
  <1>11. ASSUME NEW w \in Workers, NEW s \in Sources, StartFails(w, s) PROVE FreshIsFree'
    BY <1>11 DEF StartFails, Take, NextSources, SourceBlocked, Outcome, RepairUnchanged, Fault
  <1>12. ASSUME NEW w \in Workers, Plan(w) PROVE FreshIsFree'
    BY <1>12 DEF Plan, Step, RepairUnchanged
  <1>13. ASSUME NEW w \in Workers, RecordQueued(w) PROVE FreshIsFree'
    BY <1>13 DEF RecordQueued, Outcome, RepairUnchanged
  <1>14. ASSUME NEW w \in Workers, ExecuteFails(w) PROVE FreshIsFree'
    BY <1>14 DEF ExecuteFails, SourceBlocked, Outcome, RepairUnchanged, Fault
  <1>15. ASSUME NEW w \in Workers, NEW k \in JobKinds, EnqueueRepair(w, k) PROVE FreshIsFree'
    BY <1>15 DEF EnqueueRepair, QueuedKinds, KeyFree, RepairUnchanged
  <1>16. ASSUME NEW w \in Workers, CompleteSource(w) PROVE FreshIsFree'
    BY <1>16, SourceAssumption DEF CompleteSource, CompletedStatus, Idle, RepairUnchanged
  <1>17. ASSUME NEW w \in Workers, Done(w) PROVE FreshIsFree'
    BY <1>17 DEF Done, Idle, RepairUnchanged
  <1>18. ASSUME NEW w \in Workers, JobFails(w) PROVE FreshIsFree'
    BY <1>18, SourceAssumption DEF JobFails, Idle, RepairUnchanged, Fault
  <1>19. ASSUME NEW w \in Workers, WorkerCrash(w) PROVE FreshIsFree'
    BY <1>19, SourceAssumption DEF WorkerCrash, Idle, Stop
  <1>20. ASSUME NEW s \in Sources, WriterDeclines(s) PROVE FreshIsFree'
    BY <1>20 DEF WriterDeclines, WriterTx, QueueUnchanged
  <1>21. ASSUME NEW s \in Sources, WriterApplies(s) PROVE FreshIsFree'
    BY <1>21 DEF WriterApplies, WriterTx, QueueUnchanged
  <1>22. ASSUME NEW s \in Sources, WriterEnds(s) PROVE FreshIsFree'
    BY <1>22 DEF WriterEnds, WriterTx, QueueUnchanged
  <1>24. ASSUME NEW s \in Sources, GateEnds(s) PROVE FreshIsFree'
    BY <1>24 DEF GateEnds, QueueUnchanged
  <1>23. CASE UNCHANGED vars
    BY <1>23 DEF vars
  <1> HIDE DEF IInv, TypeOK, WorkerRecord, WorkerPcs, Family, JobKinds, InHand, FreshIsFree,
     OneHolder, Untouched, Holds, Once, Sources
  <1> QED
    BY <1>1, <1>2, <1>3, <1>4, <1>5, <1>6, <1>7, <1>8, <1>9, <1>10, <1>11, <1>12, <1>13,
       <1>14, <1>15, <1>16, <1>17, <1>18, <1>19, <1>20, <1>21, <1>22, <1>23, <1>24 DEF Next,
       ContractNext, SignalNext, RepairNext, QueueNext

\* A claim reaches sources that nobody holds; a source moves from the list to
\* the hand of one and the same worker.
LEMMA HolderStep == IInv /\ [Next]_vars => OneHolder'
  <1> SUFFICES ASSUME IInv, [Next]_vars PROVE OneHolder'
    OBVIOUS
  <1> USE DEF IInv, TypeOK, WorkerRecord, WorkerPcs, Family, JobKinds, InHand, FreshIsFree,
     OneHolder, Untouched, Holds, Once, Sources
  <1>1. CASE MarkFalsePositive
    BY <1>1 DEF MarkFalsePositive, Closed, ContractUnchanged
  <1>2. CASE ExtractContracts
    BY <1>2 DEF ExtractContracts, ContractUnchanged
  <1>3. CASE SkipContract
    BY <1>3 DEF SkipContract, Closed, ContractUnchanged
  <1>4. ASSUME NEW e \in Events, ContractViolated(e) PROVE OneHolder'
    BY <1>4 DEF ContractViolated, ContractUnchanged
  <1>5. ASSUME NEW m \in Momenta, SignalDrift(m) PROVE OneHolder'
    BY <1>5 DEF SignalDrift, Signal, NewStatus, NextStatus
  <1>6. ASSUME NEW m \in Momenta, PostSignal(m) PROVE OneHolder'
    BY <1>6 DEF PostSignal, Signal, NewStatus, NextStatus
  <1>7. CASE SignalLost
    BY <1>7 DEF SignalLost, Fault, Stop
  <1>8. ASSUME NEW w \in Workers, Claim(w) PROVE OneHolder'
    <2>1. PICK batch \in SUBSET Sources :
             /\ \A s \in batch : Claimable(s) /\ status'[s] \in Claimed
             /\ \A s \in Sources \ batch : status'[s] = status[s]
             /\ workers'[w].todo = workers[w].todo \cup batch
             /\ workers'[w].source = workers[w].source
             /\ workers'[w].outcome = workers[w].outcome
             /\ workers[w].pc \in {"idle", "events", "momenta"}
             /\ workers'[w].pc \in {"events", "momenta", "choosing"}
             /\ \A v \in Workers \ {w} : workers'[v] = workers[v]
             /\ UNCHANGED <<momentum, contract, checker, tx, queue, rows, signals, stops,
                faults>>
      BY <1>8, ClaimEffect
    <2>2. ASSUME NEW s \in Once, s \notin batch
          PROVE  \A v \in Workers : Holds(v, s)' <=> Holds(v, s)
      BY <2>1, <2>2
    <2>3. ASSUME NEW s \in Once, s \in batch
          PROVE  Untouched(s) /\ \A v \in Workers : ~Holds(v, s)
      <3>1. status[s] \in {"planned", "open"}
        BY <2>1, <2>3, SourceAssumption DEF Claimable
      <3> QED
        BY <3>1
    <2>4. ASSUME NEW s \in Once, NEW v \in Workers
          PROVE  /\ s \in workers'[v].todo => Untouched(s)' /\ workers'[v].source # s
                 /\ workers'[v].source = s /\ workers'[v].pc \in {"started", "planned"} =>
                      Untouched(s)'
                 /\ Holds(v, s)' => \A u \in Workers \ {v} : ~Holds(u, s)'
      <3>1. Untouched(s)' <=> Untouched(s)
        BY <2>1
      <3>2. workers'[v].source = workers[v].source
        BY <2>1
      <3>3. v # w => workers'[v] = workers[v]
        BY <2>1
      <3>4. CASE s \notin batch
        BY <2>1, <2>2, <2>4, <3>1, <3>2, <3>3, <3>4
      <3>5. CASE s \in batch
        BY <2>1, <2>3, <2>4, <3>1, <3>2, <3>3, <3>5
      <3> QED
        BY <3>4, <3>5
    <2> QED
      BY <2>4
  <1>9. ASSUME NEW w \in Workers, NEW s \in Sources, MemoryRefused(w, s) PROVE OneHolder'
    BY <1>9 DEF MemoryRefused, Take, NextSources, SourceBlocked, Outcome, RepairUnchanged
  <1>10. ASSUME NEW w \in Workers, NEW s \in Sources, StartTransaction(w, s) PROVE OneHolder'
    BY <1>10 DEF StartTransaction, Take, NextSources, RepairUnchanged
  <1>11. ASSUME NEW w \in Workers, NEW s \in Sources, StartFails(w, s) PROVE OneHolder'
    BY <1>11 DEF StartFails, Take, NextSources, SourceBlocked, Outcome, RepairUnchanged, Fault
  <1>12. ASSUME NEW w \in Workers, Plan(w) PROVE OneHolder'
    BY <1>12 DEF Plan, Step, RepairUnchanged
  <1>13. ASSUME NEW w \in Workers, RecordQueued(w) PROVE OneHolder'
    BY <1>13 DEF RecordQueued, Outcome, RepairUnchanged
  <1>14. ASSUME NEW w \in Workers, ExecuteFails(w) PROVE OneHolder'
    BY <1>14 DEF ExecuteFails, SourceBlocked, Outcome, RepairUnchanged, Fault
  <1>15. ASSUME NEW w \in Workers, NEW k \in JobKinds, EnqueueRepair(w, k) PROVE OneHolder'
    BY <1>15 DEF EnqueueRepair, QueuedKinds, KeyFree, RepairUnchanged
  <1>16. ASSUME NEW w \in Workers, CompleteSource(w) PROVE OneHolder'
    BY <1>16, SourceAssumption DEF CompleteSource, CompletedStatus, Idle, RepairUnchanged
  <1>17. ASSUME NEW w \in Workers, Done(w) PROVE OneHolder'
    BY <1>17 DEF Done, Idle, RepairUnchanged
  <1>18. ASSUME NEW w \in Workers, JobFails(w) PROVE OneHolder'
    BY <1>18, SourceAssumption DEF JobFails, Idle, RepairUnchanged, Fault
  <1>19. ASSUME NEW w \in Workers, WorkerCrash(w) PROVE OneHolder'
    BY <1>19, SourceAssumption DEF WorkerCrash, Idle, Stop
  <1>20. ASSUME NEW s \in Sources, WriterDeclines(s) PROVE OneHolder'
    BY <1>20 DEF WriterDeclines, WriterTx, QueueUnchanged
  <1>21. ASSUME NEW s \in Sources, WriterApplies(s) PROVE OneHolder'
    BY <1>21 DEF WriterApplies, WriterTx, QueueUnchanged
  <1>22. ASSUME NEW s \in Sources, WriterEnds(s) PROVE OneHolder'
    BY <1>22 DEF WriterEnds, WriterTx, QueueUnchanged
  <1>24. ASSUME NEW s \in Sources, GateEnds(s) PROVE OneHolder'
    BY <1>24 DEF GateEnds, QueueUnchanged
  <1>23. CASE UNCHANGED vars
    BY <1>23 DEF vars
  <1> HIDE DEF IInv, TypeOK, WorkerRecord, WorkerPcs, Family, JobKinds, InHand, FreshIsFree,
     OneHolder, Untouched, Holds, Once, Sources
  <1> QED
    BY <1>1, <1>2, <1>3, <1>4, <1>5, <1>6, <1>7, <1>8, <1>9, <1>10, <1>11, <1>12, <1>13,
       <1>14, <1>15, <1>16, <1>17, <1>18, <1>19, <1>20, <1>21, <1>22, <1>23, <1>24 DEF Next,
       ContractNext, SignalNext, RepairNext, QueueNext

\* A row is counted when its job is put into the queue, for the kinds of its source.
LEMMA RowStep == IInv /\ [Next]_vars => RowIsJob'
  <1> SUFFICES ASSUME IInv, [Next]_vars PROVE RowIsJob'
    OBVIOUS
  <1> USE DEF IInv, TypeOK, WorkerRecord, WorkerPcs, Family, JobKinds, InHand, RowIsJob
  <1>1. CASE MarkFalsePositive
    BY <1>1 DEF MarkFalsePositive, Closed, ContractUnchanged
  <1>2. CASE ExtractContracts
    BY <1>2 DEF ExtractContracts, ContractUnchanged
  <1>3. CASE SkipContract
    BY <1>3 DEF SkipContract, Closed, ContractUnchanged
  <1>4. ASSUME NEW e \in Events, ContractViolated(e) PROVE RowIsJob'
    BY <1>4 DEF ContractViolated, ContractUnchanged
  <1>5. ASSUME NEW m \in Momenta, SignalDrift(m) PROVE RowIsJob'
    BY <1>5 DEF SignalDrift, Signal, NewStatus, NextStatus
  <1>6. ASSUME NEW m \in Momenta, PostSignal(m) PROVE RowIsJob'
    BY <1>6 DEF PostSignal, Signal, NewStatus, NextStatus
  <1>7. CASE SignalLost
    BY <1>7 DEF SignalLost, Fault, Stop
  <1>8. ASSUME NEW w \in Workers, Claim(w) PROVE RowIsJob'
    BY <1>8 DEF Claim, Claimable, ClaimedStatus, NextClaim, RepairUnchanged
  <1>9. ASSUME NEW w \in Workers, NEW s \in Sources, MemoryRefused(w, s) PROVE RowIsJob'
    BY <1>9 DEF MemoryRefused, Take, NextSources, SourceBlocked, Outcome, RepairUnchanged
  <1>10. ASSUME NEW w \in Workers, NEW s \in Sources, StartTransaction(w, s) PROVE RowIsJob'
    BY <1>10 DEF StartTransaction, Take, NextSources, RepairUnchanged
  <1>11. ASSUME NEW w \in Workers, NEW s \in Sources, StartFails(w, s) PROVE RowIsJob'
    BY <1>11 DEF StartFails, Take, NextSources, SourceBlocked, Outcome, RepairUnchanged, Fault
  <1>12. ASSUME NEW w \in Workers, Plan(w) PROVE RowIsJob'
    BY <1>12 DEF Plan, Step, RepairUnchanged
  <1>13. ASSUME NEW w \in Workers, RecordQueued(w) PROVE RowIsJob'
    BY <1>13 DEF RecordQueued, Outcome, RepairUnchanged
  <1>14. ASSUME NEW w \in Workers, ExecuteFails(w) PROVE RowIsJob'
    BY <1>14 DEF ExecuteFails, SourceBlocked, Outcome, RepairUnchanged, Fault
  <1>15. ASSUME NEW w \in Workers, NEW k \in JobKinds, EnqueueRepair(w, k) PROVE RowIsJob'
    BY <1>15 DEF EnqueueRepair, QueuedKinds, KeyFree, RepairUnchanged
  <1>16. ASSUME NEW w \in Workers, CompleteSource(w) PROVE RowIsJob'
    BY <1>16 DEF CompleteSource, CompletedStatus, Idle, RepairUnchanged
  <1>17. ASSUME NEW w \in Workers, Done(w) PROVE RowIsJob'
    BY <1>17 DEF Done, Idle, RepairUnchanged
  <1>18. ASSUME NEW w \in Workers, JobFails(w) PROVE RowIsJob'
    BY <1>18 DEF JobFails, Idle, RepairUnchanged, Fault
  <1>19. ASSUME NEW w \in Workers, WorkerCrash(w) PROVE RowIsJob'
    BY <1>19 DEF WorkerCrash, Idle, Stop
  <1>20. ASSUME NEW s \in Sources, WriterDeclines(s) PROVE RowIsJob'
    BY <1>20 DEF WriterDeclines, WriterTx, QueueUnchanged
  <1>21. ASSUME NEW s \in Sources, WriterApplies(s) PROVE RowIsJob'
    BY <1>21 DEF WriterApplies, WriterTx, QueueUnchanged
  <1>22. ASSUME NEW s \in Sources, WriterEnds(s) PROVE RowIsJob'
    BY <1>22 DEF WriterEnds, WriterTx, QueueUnchanged
  <1>24. ASSUME NEW s \in Sources, GateEnds(s) PROVE RowIsJob'
    BY <1>24 DEF GateEnds, QueueUnchanged
  <1>23. CASE UNCHANGED vars
    BY <1>23 DEF vars
  <1> HIDE DEF IInv, TypeOK, WorkerRecord, WorkerPcs, Family, JobKinds, InHand, RowIsJob
  <1> QED
    BY <1>1, <1>2, <1>3, <1>4, <1>5, <1>6, <1>7, <1>8, <1>9, <1>10, <1>11, <1>12, <1>13,
       <1>14, <1>15, <1>16, <1>17, <1>18, <1>19, <1>20, <1>21, <1>22, <1>23, <1>24 DEF Next,
       ContractNext, SignalNext, RepairNext, QueueNext

\* The key of what is claimed once is free when its holder enqueues it.
LEMMA EnqueuedStep == IInv /\ [Next]_vars => EnqueuedIsOwn'
  <1> SUFFICES ASSUME IInv, [Next]_vars PROVE EnqueuedIsOwn'
    OBVIOUS
  <1> USE DEF IInv, TypeOK, WorkerRecord, WorkerPcs, Family, JobKinds, InHand, OneHolder,
     Untouched, Once, Sources, EnqueuedIsOwn
  <1>1. CASE MarkFalsePositive
    BY <1>1 DEF MarkFalsePositive, Closed, ContractUnchanged
  <1>2. CASE ExtractContracts
    BY <1>2 DEF ExtractContracts, ContractUnchanged
  <1>3. CASE SkipContract
    BY <1>3 DEF SkipContract, Closed, ContractUnchanged
  <1>4. ASSUME NEW e \in Events, ContractViolated(e) PROVE EnqueuedIsOwn'
    BY <1>4 DEF ContractViolated, ContractUnchanged
  <1>5. ASSUME NEW m \in Momenta, SignalDrift(m) PROVE EnqueuedIsOwn'
    BY <1>5 DEF SignalDrift, Signal, NewStatus, NextStatus
  <1>6. ASSUME NEW m \in Momenta, PostSignal(m) PROVE EnqueuedIsOwn'
    BY <1>6 DEF PostSignal, Signal, NewStatus, NextStatus
  <1>7. CASE SignalLost
    BY <1>7 DEF SignalLost, Fault, Stop
  <1>8. ASSUME NEW w \in Workers, Claim(w) PROVE EnqueuedIsOwn'
    BY <1>8 DEF Claim, Claimable, ClaimedStatus, NextClaim, RepairUnchanged
  <1>9. ASSUME NEW w \in Workers, NEW s \in Sources, MemoryRefused(w, s) PROVE EnqueuedIsOwn'
    BY <1>9 DEF MemoryRefused, Take, NextSources, SourceBlocked, Outcome, RepairUnchanged
  <1>10. ASSUME NEW w \in Workers, NEW s \in Sources, StartTransaction(w, s) PROVE
     EnqueuedIsOwn'
    BY <1>10 DEF StartTransaction, Take, NextSources, RepairUnchanged
  <1>11. ASSUME NEW w \in Workers, NEW s \in Sources, StartFails(w, s) PROVE EnqueuedIsOwn'
    BY <1>11 DEF StartFails, Take, NextSources, SourceBlocked, Outcome, RepairUnchanged, Fault
  <1>12. ASSUME NEW w \in Workers, Plan(w) PROVE EnqueuedIsOwn'
    BY <1>12 DEF Plan, Step, RepairUnchanged
  <1>13. ASSUME NEW w \in Workers, RecordQueued(w) PROVE EnqueuedIsOwn'
    BY <1>13 DEF RecordQueued, Outcome, RepairUnchanged
  <1>14. ASSUME NEW w \in Workers, ExecuteFails(w) PROVE EnqueuedIsOwn'
    BY <1>14 DEF ExecuteFails, SourceBlocked, Outcome, RepairUnchanged, Fault
  <1>15. ASSUME NEW w \in Workers, NEW k \in JobKinds, EnqueueRepair(w, k) PROVE EnqueuedIsOwn'
    BY <1>15 DEF EnqueueRepair, QueuedKinds, KeyFree, RepairUnchanged
  <1>16. ASSUME NEW w \in Workers, CompleteSource(w) PROVE EnqueuedIsOwn'
    BY <1>16 DEF CompleteSource, CompletedStatus, Idle, RepairUnchanged
  <1>17. ASSUME NEW w \in Workers, Done(w) PROVE EnqueuedIsOwn'
    BY <1>17 DEF Done, Idle, RepairUnchanged
  <1>18. ASSUME NEW w \in Workers, JobFails(w) PROVE EnqueuedIsOwn'
    BY <1>18 DEF JobFails, Idle, RepairUnchanged, Fault
  <1>19. ASSUME NEW w \in Workers, WorkerCrash(w) PROVE EnqueuedIsOwn'
    BY <1>19 DEF WorkerCrash, Idle, Stop
  <1>20. ASSUME NEW s \in Sources, WriterDeclines(s) PROVE EnqueuedIsOwn'
    BY <1>20 DEF WriterDeclines, WriterTx, QueueUnchanged
  <1>21. ASSUME NEW s \in Sources, WriterApplies(s) PROVE EnqueuedIsOwn'
    BY <1>21 DEF WriterApplies, WriterTx, QueueUnchanged
  <1>22. ASSUME NEW s \in Sources, WriterEnds(s) PROVE EnqueuedIsOwn'
    BY <1>22 DEF WriterEnds, WriterTx, QueueUnchanged
  <1>24. ASSUME NEW s \in Sources, GateEnds(s) PROVE EnqueuedIsOwn'
    BY <1>24 DEF GateEnds, QueueUnchanged
  <1>23. CASE UNCHANGED vars
    BY <1>23 DEF vars
  <1> HIDE DEF IInv, TypeOK, WorkerRecord, WorkerPcs, Family, JobKinds, InHand, OneHolder,
     Untouched, Once, Sources, EnqueuedIsOwn
  <1> QED
    BY <1>1, <1>2, <1>3, <1>4, <1>5, <1>6, <1>7, <1>8, <1>9, <1>10, <1>11, <1>12, <1>13,
       <1>14, <1>15, <1>16, <1>17, <1>18, <1>19, <1>20, <1>21, <1>22, <1>23, <1>24 DEF Next,
       ContractNext, SignalNext, RepairNext, QueueNext

\* The writer settles and ends its job in one step, and the job is not remade.
LEMMA SettledStep == IInv /\ [Next]_vars => SettledIsDone'
  <1> SUFFICES ASSUME IInv, [Next]_vars PROVE SettledIsDone'
    OBVIOUS
  <1> USE DEF IInv, TypeOK, WorkerRecord, WorkerPcs, Family, JobKinds, InHand, OneHolder,
     RowIsJob, SettledIsDone, Untouched, Once, Sources
  <1>1. CASE MarkFalsePositive
    BY <1>1 DEF MarkFalsePositive, Closed, ContractUnchanged
  <1>2. CASE ExtractContracts
    BY <1>2 DEF ExtractContracts, ContractUnchanged
  <1>3. CASE SkipContract
    BY <1>3 DEF SkipContract, Closed, ContractUnchanged
  <1>4. ASSUME NEW e \in Events, ContractViolated(e) PROVE SettledIsDone'
    BY <1>4 DEF ContractViolated, ContractUnchanged
  <1>5. ASSUME NEW m \in Momenta, SignalDrift(m) PROVE SettledIsDone'
    BY <1>5 DEF SignalDrift, Signal, NewStatus, NextStatus
  <1>6. ASSUME NEW m \in Momenta, PostSignal(m) PROVE SettledIsDone'
    BY <1>6 DEF PostSignal, Signal, NewStatus, NextStatus
  <1>7. CASE SignalLost
    BY <1>7 DEF SignalLost, Fault, Stop
  <1>8. ASSUME NEW w \in Workers, Claim(w) PROVE SettledIsDone'
    BY <1>8 DEF Claim, Claimable, ClaimedStatus, NextClaim, RepairUnchanged
  <1>9. ASSUME NEW w \in Workers, NEW s \in Sources, MemoryRefused(w, s) PROVE SettledIsDone'
    BY <1>9 DEF MemoryRefused, Take, NextSources, SourceBlocked, Outcome, RepairUnchanged
  <1>10. ASSUME NEW w \in Workers, NEW s \in Sources, StartTransaction(w, s) PROVE
     SettledIsDone'
    BY <1>10 DEF StartTransaction, Take, NextSources, RepairUnchanged
  <1>11. ASSUME NEW w \in Workers, NEW s \in Sources, StartFails(w, s) PROVE SettledIsDone'
    BY <1>11 DEF StartFails, Take, NextSources, SourceBlocked, Outcome, RepairUnchanged, Fault
  <1>12. ASSUME NEW w \in Workers, Plan(w) PROVE SettledIsDone'
    BY <1>12 DEF Plan, Step, RepairUnchanged
  <1>13. ASSUME NEW w \in Workers, RecordQueued(w) PROVE SettledIsDone'
    BY <1>13 DEF RecordQueued, Outcome, RepairUnchanged
  <1>14. ASSUME NEW w \in Workers, ExecuteFails(w) PROVE SettledIsDone'
    BY <1>14 DEF ExecuteFails, SourceBlocked, Outcome, RepairUnchanged, Fault
  <1>15. ASSUME NEW w \in Workers, NEW k \in JobKinds, EnqueueRepair(w, k) PROVE SettledIsDone'
    BY <1>15 DEF EnqueueRepair, QueuedKinds, KeyFree, RepairUnchanged
  <1>16. ASSUME NEW w \in Workers, CompleteSource(w) PROVE SettledIsDone'
    BY <1>16 DEF CompleteSource, CompletedStatus, Idle, RepairUnchanged
  <1>17. ASSUME NEW w \in Workers, Done(w) PROVE SettledIsDone'
    BY <1>17 DEF Done, Idle, RepairUnchanged
  <1>18. ASSUME NEW w \in Workers, JobFails(w) PROVE SettledIsDone'
    BY <1>18 DEF JobFails, Idle, RepairUnchanged, Fault
  <1>19. ASSUME NEW w \in Workers, WorkerCrash(w) PROVE SettledIsDone'
    BY <1>19 DEF WorkerCrash, Idle, Stop
  <1>20. ASSUME NEW s \in Sources, WriterDeclines(s) PROVE SettledIsDone'
    BY <1>20 DEF WriterDeclines, WriterTx, QueueUnchanged
  <1>21. ASSUME NEW s \in Sources, WriterApplies(s) PROVE SettledIsDone'
    BY <1>21 DEF WriterApplies, WriterTx, QueueUnchanged
  <1>22. ASSUME NEW s \in Sources, WriterEnds(s) PROVE SettledIsDone'
    BY <1>22 DEF WriterEnds, WriterTx, QueueUnchanged
  <1>24. ASSUME NEW s \in Sources, GateEnds(s) PROVE SettledIsDone'
    BY <1>24 DEF GateEnds, QueueUnchanged
  <1>23. CASE UNCHANGED vars
    BY <1>23 DEF vars
  <1> HIDE DEF IInv, TypeOK, WorkerRecord, WorkerPcs, Family, JobKinds, InHand, OneHolder,
     RowIsJob, SettledIsDone, Untouched, Once, Sources
  <1> QED
    BY <1>1, <1>2, <1>3, <1>4, <1>5, <1>6, <1>7, <1>8, <1>9, <1>10, <1>11, <1>12, <1>13,
       <1>14, <1>15, <1>16, <1>17, <1>18, <1>19, <1>20, <1>21, <1>22, <1>23, <1>24 DEF Next,
       ContractNext, SignalNext, RepairNext, QueueNext

\* EnqueueRepair comes upon a source without a job, or finds its key taken.
LEMMA OnceStep == IInv /\ [Next]_vars => RepairedOnce'
  <1> SUFFICES ASSUME IInv, [Next]_vars PROVE RepairedOnce'
    OBVIOUS
  <1> USE DEF IInv, TypeOK, WorkerRecord, WorkerPcs, Family, JobKinds, InHand, OneHolder,
     RowIsJob, RepairedOnce, Untouched, Once, Sources
  <1>1. CASE MarkFalsePositive
    BY <1>1 DEF MarkFalsePositive, Closed, ContractUnchanged
  <1>2. CASE ExtractContracts
    BY <1>2 DEF ExtractContracts, ContractUnchanged
  <1>3. CASE SkipContract
    BY <1>3 DEF SkipContract, Closed, ContractUnchanged
  <1>4. ASSUME NEW e \in Events, ContractViolated(e) PROVE RepairedOnce'
    BY <1>4 DEF ContractViolated, ContractUnchanged
  <1>5. ASSUME NEW m \in Momenta, SignalDrift(m) PROVE RepairedOnce'
    BY <1>5 DEF SignalDrift, Signal, NewStatus, NextStatus
  <1>6. ASSUME NEW m \in Momenta, PostSignal(m) PROVE RepairedOnce'
    BY <1>6 DEF PostSignal, Signal, NewStatus, NextStatus
  <1>7. CASE SignalLost
    BY <1>7 DEF SignalLost, Fault, Stop
  <1>8. ASSUME NEW w \in Workers, Claim(w) PROVE RepairedOnce'
    BY <1>8 DEF Claim, Claimable, ClaimedStatus, NextClaim, RepairUnchanged
  <1>9. ASSUME NEW w \in Workers, NEW s \in Sources, MemoryRefused(w, s) PROVE RepairedOnce'
    BY <1>9 DEF MemoryRefused, Take, NextSources, SourceBlocked, Outcome, RepairUnchanged
  <1>10. ASSUME NEW w \in Workers, NEW s \in Sources, StartTransaction(w, s) PROVE RepairedOnce'
    BY <1>10 DEF StartTransaction, Take, NextSources, RepairUnchanged
  <1>11. ASSUME NEW w \in Workers, NEW s \in Sources, StartFails(w, s) PROVE RepairedOnce'
    BY <1>11 DEF StartFails, Take, NextSources, SourceBlocked, Outcome, RepairUnchanged, Fault
  <1>12. ASSUME NEW w \in Workers, Plan(w) PROVE RepairedOnce'
    BY <1>12 DEF Plan, Step, RepairUnchanged
  <1>13. ASSUME NEW w \in Workers, RecordQueued(w) PROVE RepairedOnce'
    BY <1>13 DEF RecordQueued, Outcome, RepairUnchanged
  <1>14. ASSUME NEW w \in Workers, ExecuteFails(w) PROVE RepairedOnce'
    BY <1>14 DEF ExecuteFails, SourceBlocked, Outcome, RepairUnchanged, Fault
  <1>15. ASSUME NEW w \in Workers, NEW k \in JobKinds, EnqueueRepair(w, k) PROVE RepairedOnce'
    BY <1>15 DEF EnqueueRepair, QueuedKinds, KeyFree, RepairUnchanged
  <1>16. ASSUME NEW w \in Workers, CompleteSource(w) PROVE RepairedOnce'
    BY <1>16 DEF CompleteSource, CompletedStatus, Idle, RepairUnchanged
  <1>17. ASSUME NEW w \in Workers, Done(w) PROVE RepairedOnce'
    BY <1>17 DEF Done, Idle, RepairUnchanged
  <1>18. ASSUME NEW w \in Workers, JobFails(w) PROVE RepairedOnce'
    BY <1>18 DEF JobFails, Idle, RepairUnchanged, Fault
  <1>19. ASSUME NEW w \in Workers, WorkerCrash(w) PROVE RepairedOnce'
    BY <1>19 DEF WorkerCrash, Idle, Stop
  <1>20. ASSUME NEW s \in Sources, WriterDeclines(s) PROVE RepairedOnce'
    BY <1>20 DEF WriterDeclines, WriterTx, QueueUnchanged
  <1>21. ASSUME NEW s \in Sources, WriterApplies(s) PROVE RepairedOnce'
    BY <1>21 DEF WriterApplies, WriterTx, QueueUnchanged
  <1>22. ASSUME NEW s \in Sources, WriterEnds(s) PROVE RepairedOnce'
    BY <1>22 DEF WriterEnds, WriterTx, QueueUnchanged
  <1>24. ASSUME NEW s \in Sources, GateEnds(s) PROVE RepairedOnce'
    BY <1>24 DEF GateEnds, QueueUnchanged
  <1>23. CASE UNCHANGED vars
    BY <1>23 DEF vars
  <1> HIDE DEF IInv, TypeOK, WorkerRecord, WorkerPcs, Family, JobKinds, InHand, OneHolder,
     RowIsJob, RepairedOnce, Untouched, Once, Sources
  <1> QED
    BY <1>1, <1>2, <1>3, <1>4, <1>5, <1>6, <1>7, <1>8, <1>9, <1>10, <1>11, <1>12, <1>13,
       <1>14, <1>15, <1>16, <1>17, <1>18, <1>19, <1>20, <1>21, <1>22, <1>23, <1>24 DEF Next,
       ContractNext, SignalNext, RepairNext, QueueNext

\* What QueuedIsHandedOn says of one step
HandedOn ==
  \A s \in Actions \cup Events :
    status'[s] \in {"queued", "repair_queued"} /\ status'[s] # status[s] =>
      \E w \in Workers :
        workers[w].source = s /\ workers[w].outcome = "queued" /\ workers[w].created

\* "queued" is recorded by CompleteSource alone, after the insert.
LEMMA QueuedStep == IInv /\ [Next]_vars => HandedOn
  <1> SUFFICES ASSUME IInv, [Next]_vars PROVE HandedOn
    OBVIOUS
  <1> USE DEF IInv, TypeOK, WorkerRecord, WorkerPcs, Family, JobKinds, InHand, FreshIsFree,
     EnqueuedIsOwn, HandedOn, Once, Sources
  <1>1. CASE MarkFalsePositive
    BY <1>1 DEF MarkFalsePositive, Closed, ContractUnchanged
  <1>2. CASE ExtractContracts
    BY <1>2 DEF ExtractContracts, ContractUnchanged
  <1>3. CASE SkipContract
    BY <1>3 DEF SkipContract, Closed, ContractUnchanged
  <1>4. ASSUME NEW e \in Events, ContractViolated(e) PROVE HandedOn
    BY <1>4 DEF ContractViolated, ContractUnchanged
  <1>5. ASSUME NEW m \in Momenta, SignalDrift(m) PROVE HandedOn
    BY <1>5 DEF SignalDrift, Signal, NewStatus, NextStatus
  <1>6. ASSUME NEW m \in Momenta, PostSignal(m) PROVE HandedOn
    BY <1>6 DEF PostSignal, Signal, NewStatus, NextStatus
  <1>7. CASE SignalLost
    BY <1>7 DEF SignalLost, Fault, Stop
  <1>8. ASSUME NEW w \in Workers, Claim(w) PROVE HandedOn
    <2>1. PICK batch \in SUBSET Sources :
             /\ \A s \in batch : Claimable(s) /\ status'[s] \in Claimed
             /\ \A s \in Sources \ batch : status'[s] = status[s]
             /\ workers'[w].todo = workers[w].todo \cup batch
             /\ workers'[w].source = workers[w].source
             /\ workers'[w].outcome = workers[w].outcome
             /\ workers[w].pc \in {"idle", "events", "momenta"}
             /\ workers'[w].pc \in {"events", "momenta", "choosing"}
             /\ \A v \in Workers \ {w} : workers'[v] = workers[v]
             /\ UNCHANGED <<momentum, contract, checker, tx, queue, rows, signals, stops,
                faults>>
      BY <1>8, ClaimEffect
    <2>2. ASSUME NEW s \in Sources PROVE status'[s] \in Claimed \/ status'[s] = status[s]
      BY <2>1
    <2> QED
      BY <2>2 DEF Claimed
  <1>9. ASSUME NEW w \in Workers, NEW s \in Sources, MemoryRefused(w, s) PROVE HandedOn
    BY <1>9 DEF MemoryRefused, Take, NextSources, SourceBlocked, Outcome, RepairUnchanged
  <1>10. ASSUME NEW w \in Workers, NEW s \in Sources, StartTransaction(w, s) PROVE HandedOn
    BY <1>10 DEF StartTransaction, Take, NextSources, RepairUnchanged
  <1>11. ASSUME NEW w \in Workers, NEW s \in Sources, StartFails(w, s) PROVE HandedOn
    BY <1>11 DEF StartFails, Take, NextSources, SourceBlocked, Outcome, RepairUnchanged, Fault
  <1>12. ASSUME NEW w \in Workers, Plan(w) PROVE HandedOn
    BY <1>12 DEF Plan, Step, RepairUnchanged
  <1>13. ASSUME NEW w \in Workers, RecordQueued(w) PROVE HandedOn
    BY <1>13 DEF RecordQueued, Outcome, RepairUnchanged
  <1>14. ASSUME NEW w \in Workers, ExecuteFails(w) PROVE HandedOn
    BY <1>14 DEF ExecuteFails, SourceBlocked, Outcome, RepairUnchanged, Fault
  <1>15. ASSUME NEW w \in Workers, NEW k \in JobKinds, EnqueueRepair(w, k) PROVE HandedOn
    BY <1>15 DEF EnqueueRepair, QueuedKinds, KeyFree, RepairUnchanged
  <1>16. ASSUME NEW w \in Workers, CompleteSource(w) PROVE HandedOn
    BY <1>16 DEF CompleteSource, CompletedStatus, Idle, RepairUnchanged
  <1>17. ASSUME NEW w \in Workers, Done(w) PROVE HandedOn
    BY <1>17 DEF Done, Idle, RepairUnchanged
  <1>18. ASSUME NEW w \in Workers, JobFails(w) PROVE HandedOn
    BY <1>18 DEF JobFails, Idle, RepairUnchanged, Fault
  <1>19. ASSUME NEW w \in Workers, WorkerCrash(w) PROVE HandedOn
    BY <1>19 DEF WorkerCrash, Idle, Stop
  <1>20. ASSUME NEW s \in Sources, WriterDeclines(s) PROVE HandedOn
    BY <1>20 DEF WriterDeclines, WriterTx, QueueUnchanged
  <1>21. ASSUME NEW s \in Sources, WriterApplies(s) PROVE HandedOn
    BY <1>21 DEF WriterApplies, WriterTx, QueueUnchanged
  <1>22. ASSUME NEW s \in Sources, WriterEnds(s) PROVE HandedOn
    BY <1>22 DEF WriterEnds, WriterTx, QueueUnchanged
  <1>24. ASSUME NEW s \in Sources, GateEnds(s) PROVE HandedOn
    BY <1>24 DEF GateEnds, QueueUnchanged
  <1>23. CASE UNCHANGED vars
    BY <1>23 DEF vars
  <1> HIDE DEF IInv, TypeOK, WorkerRecord, WorkerPcs, Family, JobKinds, InHand, FreshIsFree,
     EnqueuedIsOwn, HandedOn, Once, Sources
  <1> QED
    BY <1>1, <1>2, <1>3, <1>4, <1>5, <1>6, <1>7, <1>8, <1>9, <1>10, <1>11, <1>12, <1>13,
       <1>14, <1>15, <1>16, <1>17, <1>18, <1>19, <1>20, <1>21, <1>22, <1>23, <1>24 DEF Next,
       ContractNext, SignalNext, RepairNext, QueueNext

\* A step that leaves the sources where they are strands none.
LEMMA HandsKept ==
  ASSUME NothingStranded, status' = status, stops' = stops, faults' = faults,
         \A v \in Workers :
           workers'[v].todo = workers[v].todo /\ workers'[v].source = workers[v].source
  PROVE  NothingStranded'
  <1>1. \A v \in Workers, s \in Sources : Holds(v, s) => Holds(v, s)'
    BY DEF Holds
  <1> QED
    BY <1>1 DEF NothingStranded

\* Only failures and deaths let go of a source that is still claimed.
LEMMA StrandedStep == IInv /\ NothingStranded /\ [Next]_vars => NothingStranded'
  <1> SUFFICES ASSUME IInv, NothingStranded, [Next]_vars PROVE NothingStranded'
    OBVIOUS
  <1> USE DEF IInv, TypeOK, WorkerRecord, WorkerPcs, Family, JobKinds, InHand, Holds,
     NothingStranded, Claimed
  <1>1. CASE MarkFalsePositive
    BY <1>1 DEF MarkFalsePositive, Closed, ContractUnchanged
  <1>2. CASE ExtractContracts
    BY <1>2 DEF ExtractContracts, ContractUnchanged
  <1>3. CASE SkipContract
    BY <1>3 DEF SkipContract, Closed, ContractUnchanged
  <1>4. ASSUME NEW e \in Events, ContractViolated(e) PROVE NothingStranded'
    BY <1>4 DEF ContractViolated, ContractUnchanged
  <1>5. ASSUME NEW m \in Momenta, SignalDrift(m) PROVE NothingStranded'
    BY <1>5 DEF SignalDrift, Signal, NewStatus, NextStatus
  <1>6. ASSUME NEW m \in Momenta, PostSignal(m) PROVE NothingStranded'
    BY <1>6 DEF PostSignal, Signal, NewStatus, NextStatus
  <1>7. CASE SignalLost
    BY <1>7 DEF SignalLost, Fault, Stop
  <1>8. ASSUME NEW w \in Workers, Claim(w) PROVE NothingStranded'
    <2>1. PICK batch \in SUBSET Sources :
             /\ \A s \in batch : Claimable(s) /\ status'[s] \in Claimed
             /\ \A s \in Sources \ batch : status'[s] = status[s]
             /\ workers'[w].todo = workers[w].todo \cup batch
             /\ workers'[w].source = workers[w].source
             /\ workers'[w].outcome = workers[w].outcome
             /\ workers[w].pc \in {"idle", "events", "momenta"}
             /\ workers'[w].pc \in {"events", "momenta", "choosing"}
             /\ \A v \in Workers \ {w} : workers'[v] = workers[v]
             /\ UNCHANGED <<momentum, contract, checker, tx, queue, rows, signals, stops,
                faults>>
      BY <1>8, ClaimEffect
    <2>2. ASSUME NEW s \in Sources, stops' = 0, faults' = 0, status'[s] \in Claimed
          PROVE  \E v \in Workers : Holds(v, s)'
      <3>1. CASE s \in batch
        BY <2>1, <3>1
      <3>2. CASE s \notin batch
        <4>1. PICK v \in Workers : Holds(v, s)
          BY <2>1, <2>2, <3>2
        <4>2. Holds(v, s)'
          BY <2>1, <4>1
        <4> QED
          BY <4>2
      <3> QED
        BY <3>1, <3>2
    <2> QED
      BY <2>2
  <1>9. ASSUME NEW w \in Workers, NEW s \in Sources, MemoryRefused(w, s) PROVE NothingStranded'
    <2>1. /\ stops' = stops /\ faults' = faults /\ status' = status
          /\ \A v \in Workers \ {w} : workers'[v] = workers[v]
          /\ workers[w].pc = "choosing" /\ workers'[w].source = s
          /\ workers'[w].todo = workers[w].todo \ {s}
      BY <1>9 DEF MemoryRefused, Take, NextSources, SourceBlocked, Outcome, RepairUnchanged
    <2>2. ASSUME NEW x \in Sources, stops = 0, faults = 0, status[x] \in Claimed
          PROVE  \E v \in Workers : Holds(v, x)'
      <3>1. PICK v \in Workers : Holds(v, x)
        BY <2>2
      <3>2. workers[w].source # x
        <4> HIDE DEF TypeOK, WorkerRecord, WorkerPcs, Family, JobKinds, NothingStranded, Holds
        <4> QED
          BY <2>1 DEF InHand
      <3>3. v = w => workers'[w].todo \cup {workers'[w].source} = workers[w].todo \cup {s}
        BY <2>1
      <3>4. Holds(v, x)'
        BY <2>1, <3>1, <3>2, <3>3
      <3> QED
        BY <3>4
    <2> QED
      BY <2>1, <2>2
  <1>10. ASSUME NEW w \in Workers, NEW s \in Sources, StartTransaction(w, s) PROVE
     NothingStranded'
    <2>1. /\ stops' = stops /\ faults' = faults /\ status' = status
          /\ \A v \in Workers \ {w} : workers'[v] = workers[v]
          /\ workers[w].pc = "choosing" /\ workers'[w].source = s
          /\ workers'[w].todo = workers[w].todo \ {s}
      BY <1>10 DEF StartTransaction, Take, NextSources, RepairUnchanged
    <2>2. ASSUME NEW x \in Sources, stops = 0, faults = 0, status[x] \in Claimed
          PROVE  \E v \in Workers : Holds(v, x)'
      <3>1. PICK v \in Workers : Holds(v, x)
        BY <2>2
      <3>2. workers[w].source # x
        <4> HIDE DEF TypeOK, WorkerRecord, WorkerPcs, Family, JobKinds, NothingStranded, Holds
        <4> QED
          BY <2>1 DEF InHand
      <3>3. v = w => workers'[w].todo \cup {workers'[w].source} = workers[w].todo \cup {s}
        BY <2>1
      <3>4. Holds(v, x)'
        BY <2>1, <3>1, <3>2, <3>3
      <3> QED
        BY <3>4
    <2> QED
      BY <2>1, <2>2
  <1>11. ASSUME NEW w \in Workers, NEW s \in Sources, StartFails(w, s) PROVE NothingStranded'
    BY <1>11 DEF StartFails, Take, NextSources, SourceBlocked, Outcome, RepairUnchanged, Fault
  <1>12. ASSUME NEW w \in Workers, Plan(w) PROVE NothingStranded'
    BY <1>12 DEF Plan, Step, RepairUnchanged
  <1>13. ASSUME NEW w \in Workers, RecordQueued(w) PROVE NothingStranded'
    <2>1. \A v \in Workers :
            workers'[v].todo = workers[v].todo /\ workers'[v].source = workers[v].source
      BY <1>13 DEF RecordQueued, Outcome
    <2>2. status' = status /\ stops' = stops /\ faults' = faults
      BY <1>13 DEF RecordQueued, RepairUnchanged
    <2> HIDE DEF IInv, TypeOK, WorkerRecord, WorkerPcs, Family, JobKinds, InHand, Holds,
       NothingStranded, Claimed
    <2> QED
      BY <2>1, <2>2, HandsKept
  <1>14. ASSUME NEW w \in Workers, ExecuteFails(w) PROVE NothingStranded'
    BY <1>14 DEF ExecuteFails, SourceBlocked, Outcome, RepairUnchanged, Fault
  <1>15. ASSUME NEW w \in Workers, NEW k \in JobKinds, EnqueueRepair(w, k) PROVE
     NothingStranded'
    <2>1. \A v \in Workers :
            workers'[v].todo = workers[v].todo /\ workers'[v].source = workers[v].source
      BY <1>15 DEF EnqueueRepair
    <2>2. status' = status /\ stops' = stops /\ faults' = faults
      BY <1>15 DEF EnqueueRepair, RepairUnchanged
    <2> HIDE DEF IInv, TypeOK, WorkerRecord, WorkerPcs, Family, JobKinds, InHand, Holds,
       NothingStranded, Claimed
    <2> QED
      BY <2>1, <2>2, HandsKept
  <1>16. ASSUME NEW w \in Workers, CompleteSource(w) PROVE NothingStranded'
    BY <1>16 DEF CompleteSource, CompletedStatus, Idle, RepairUnchanged
  <1>17. ASSUME NEW w \in Workers, Done(w) PROVE NothingStranded'
    <2>1. /\ stops' = stops /\ faults' = faults /\ status' = status
          /\ \A v \in Workers \ {w} : workers'[v] = workers[v]
          /\ workers[w].pc = "choosing" /\ workers[w].todo = {}
      BY <1>17 DEF Done, RepairUnchanged
    <2>2. workers[w].source \notin Sources
      <3> HIDE DEF TypeOK, WorkerRecord, WorkerPcs, Family, JobKinds, NothingStranded, Holds
      <3> QED
        BY <2>1 DEF InHand
    <2>3. \A x \in Sources : ~Holds(w, x)
      BY <2>1, <2>2
    <2>4. ASSUME NEW x \in Sources, stops = 0, faults = 0, status[x] \in Claimed
          PROVE  \E v \in Workers : Holds(v, x)'
      <3>1. PICK v \in Workers : Holds(v, x)
        BY <2>4
      <3>2. Holds(v, x)'
        BY <2>1, <2>3, <3>1
      <3> QED
        BY <3>2
    <2> QED
      BY <2>1, <2>4
  <1>18. ASSUME NEW w \in Workers, JobFails(w) PROVE NothingStranded'
    BY <1>18 DEF JobFails, Idle, RepairUnchanged, Fault
  <1>19. ASSUME NEW w \in Workers, WorkerCrash(w) PROVE NothingStranded'
    BY <1>19 DEF WorkerCrash, Idle, Stop
  <1>20. ASSUME NEW s \in Sources, WriterDeclines(s) PROVE NothingStranded'
    BY <1>20 DEF WriterDeclines, WriterTx, QueueUnchanged
  <1>21. ASSUME NEW s \in Sources, WriterApplies(s) PROVE NothingStranded'
    BY <1>21 DEF WriterApplies, WriterTx, QueueUnchanged
  <1>22. ASSUME NEW s \in Sources, WriterEnds(s) PROVE NothingStranded'
    BY <1>22 DEF WriterEnds, WriterTx, QueueUnchanged
  <1>24. ASSUME NEW s \in Sources, GateEnds(s) PROVE NothingStranded'
    BY <1>24 DEF GateEnds, QueueUnchanged
  <1>23. CASE UNCHANGED vars
    BY <1>23 DEF vars
  <1> HIDE DEF IInv, TypeOK, WorkerRecord, WorkerPcs, Family, JobKinds, InHand, Holds,
     NothingStranded, Claimed
  <1> QED
    BY <1>1, <1>2, <1>3, <1>4, <1>5, <1>6, <1>7, <1>8, <1>9, <1>10, <1>11, <1>12, <1>13,
       <1>14, <1>15, <1>16, <1>17, <1>18, <1>19, <1>20, <1>21, <1>22, <1>23, <1>24 DEF Next,
       ContractNext, SignalNext, RepairNext, QueueNext

\* Marking closes what is open, and a marked contract opens nothing.
LEMMA FalsePositiveStep == IInv /\ FalsePositiveNeverOpens /\ [Next]_vars =>
   FalsePositiveNeverOpens'
  <1> SUFFICES ASSUME IInv, FalsePositiveNeverOpens, [Next]_vars PROVE FalsePositiveNeverOpens'
    OBVIOUS
  <1> USE DEF IInv, TypeOK, WorkerRecord, WorkerPcs, Family, JobKinds,
     FalsePositiveNeverOpens, IsFalsePositive, InHand, Sources
  <1>1. CASE MarkFalsePositive
    BY <1>1 DEF MarkFalsePositive, Closed, ContractUnchanged
  <1>2. CASE ExtractContracts
    BY <1>2 DEF ExtractContracts, ContractUnchanged
  <1>3. CASE SkipContract
    BY <1>3 DEF SkipContract, Closed, ContractUnchanged
  <1>4. ASSUME NEW e \in Events, ContractViolated(e) PROVE FalsePositiveNeverOpens'
    BY <1>4 DEF ContractViolated, ContractUnchanged
  <1>5. ASSUME NEW m \in Momenta, SignalDrift(m) PROVE FalsePositiveNeverOpens'
    BY <1>5 DEF SignalDrift, Signal, NewStatus, NextStatus
  <1>6. ASSUME NEW m \in Momenta, PostSignal(m) PROVE FalsePositiveNeverOpens'
    BY <1>6 DEF PostSignal, Signal, NewStatus, NextStatus
  <1>7. CASE SignalLost
    BY <1>7 DEF SignalLost, Fault, Stop
  <1>8. ASSUME NEW w \in Workers, Claim(w) PROVE FalsePositiveNeverOpens'
    BY <1>8, SourceAssumption DEF Claim, Claimable, ClaimedStatus, NextClaim, RepairUnchanged
  <1>9. ASSUME NEW w \in Workers, NEW s \in Sources, MemoryRefused(w, s) PROVE
     FalsePositiveNeverOpens'
    BY <1>9 DEF MemoryRefused, Take, NextSources, SourceBlocked, Outcome, RepairUnchanged
  <1>10. ASSUME NEW w \in Workers, NEW s \in Sources, StartTransaction(w, s) PROVE
     FalsePositiveNeverOpens'
    BY <1>10 DEF StartTransaction, Take, NextSources, RepairUnchanged
  <1>11. ASSUME NEW w \in Workers, NEW s \in Sources, StartFails(w, s) PROVE
     FalsePositiveNeverOpens'
    BY <1>11 DEF StartFails, Take, NextSources, SourceBlocked, Outcome, RepairUnchanged, Fault
  <1>12. ASSUME NEW w \in Workers, Plan(w) PROVE FalsePositiveNeverOpens'
    BY <1>12 DEF Plan, Step, RepairUnchanged
  <1>13. ASSUME NEW w \in Workers, RecordQueued(w) PROVE FalsePositiveNeverOpens'
    BY <1>13 DEF RecordQueued, Outcome, RepairUnchanged
  <1>14. ASSUME NEW w \in Workers, ExecuteFails(w) PROVE FalsePositiveNeverOpens'
    BY <1>14 DEF ExecuteFails, SourceBlocked, Outcome, RepairUnchanged, Fault
  <1>15. ASSUME NEW w \in Workers, NEW k \in JobKinds, EnqueueRepair(w, k) PROVE
     FalsePositiveNeverOpens'
    BY <1>15 DEF EnqueueRepair, QueuedKinds, KeyFree, RepairUnchanged
  <1>16. ASSUME NEW w \in Workers, CompleteSource(w) PROVE FalsePositiveNeverOpens'
    BY <1>16 DEF CompleteSource, CompletedStatus, Idle, RepairUnchanged
  <1>17. ASSUME NEW w \in Workers, Done(w) PROVE FalsePositiveNeverOpens'
    BY <1>17 DEF Done, Idle, RepairUnchanged
  <1>18. ASSUME NEW w \in Workers, JobFails(w) PROVE FalsePositiveNeverOpens'
    BY <1>18 DEF JobFails, Idle, RepairUnchanged, Fault
  <1>19. ASSUME NEW w \in Workers, WorkerCrash(w) PROVE FalsePositiveNeverOpens'
    BY <1>19 DEF WorkerCrash, Idle, Stop
  <1>20. ASSUME NEW s \in Sources, WriterDeclines(s) PROVE FalsePositiveNeverOpens'
    BY <1>20 DEF WriterDeclines, WriterTx, QueueUnchanged
  <1>21. ASSUME NEW s \in Sources, WriterApplies(s) PROVE FalsePositiveNeverOpens'
    BY <1>21 DEF WriterApplies, WriterTx, QueueUnchanged
  <1>22. ASSUME NEW s \in Sources, WriterEnds(s) PROVE FalsePositiveNeverOpens'
    BY <1>22 DEF WriterEnds, WriterTx, QueueUnchanged
  <1>24. ASSUME NEW s \in Sources, GateEnds(s) PROVE FalsePositiveNeverOpens'
    BY <1>24 DEF GateEnds, QueueUnchanged
  <1>23. CASE UNCHANGED vars
    BY <1>23 DEF vars
  <1> HIDE DEF IInv, TypeOK, WorkerRecord, WorkerPcs, Family, JobKinds,
     FalsePositiveNeverOpens, IsFalsePositive, InHand, Sources
  <1> QED
    BY <1>1, <1>2, <1>3, <1>4, <1>5, <1>6, <1>7, <1>8, <1>9, <1>10, <1>11, <1>12, <1>13,
       <1>14, <1>15, <1>16, <1>17, <1>18, <1>19, <1>20, <1>21, <1>22, <1>23, <1>24 DEF Next,
       ContractNext, SignalNext, RepairNext, QueueNext

\* What OutcomeLostByQueuer says of one step
OutcomeKept ==
  \A s \in Sources :
    tx[s] = "settled" /\ tx'[s] # "settled" =>
      \E w \in Workers : workers[w].pc = "enqueued" /\ workers[w].source = s

\* A settled transaction is written by RecordQueued only: the source of a worker
\* in "started" has no job yet, and so no verdict.
LEMMA LostStep == IInv /\ [Next]_vars => OutcomeKept
  <1> SUFFICES ASSUME IInv, [Next]_vars PROVE OutcomeKept
    OBVIOUS
  <1> USE DEF IInv, TypeOK, WorkerRecord, WorkerPcs, Family, JobKinds, InHand, OneHolder,
     RowIsJob, SettledIsDone, Untouched, Once, Sources, OutcomeKept
  <1>1. CASE MarkFalsePositive
    BY <1>1 DEF MarkFalsePositive, Closed, ContractUnchanged
  <1>2. CASE ExtractContracts
    BY <1>2 DEF ExtractContracts, ContractUnchanged
  <1>3. CASE SkipContract
    BY <1>3 DEF SkipContract, Closed, ContractUnchanged
  <1>4. ASSUME NEW e \in Events, ContractViolated(e) PROVE OutcomeKept
    BY <1>4 DEF ContractViolated, ContractUnchanged
  <1>5. ASSUME NEW m \in Momenta, SignalDrift(m) PROVE OutcomeKept
    BY <1>5 DEF SignalDrift, Signal, NewStatus, NextStatus
  <1>6. ASSUME NEW m \in Momenta, PostSignal(m) PROVE OutcomeKept
    BY <1>6 DEF PostSignal, Signal, NewStatus, NextStatus
  <1>7. CASE SignalLost
    BY <1>7 DEF SignalLost, Fault, Stop
  <1>8. ASSUME NEW w \in Workers, Claim(w) PROVE OutcomeKept
    BY <1>8 DEF Claim, Claimable, ClaimedStatus, NextClaim, RepairUnchanged
  <1>9. ASSUME NEW w \in Workers, NEW s \in Sources, MemoryRefused(w, s) PROVE OutcomeKept
    BY <1>9 DEF MemoryRefused, Take, NextSources, SourceBlocked, Outcome, RepairUnchanged
  <1>10. ASSUME NEW w \in Workers, NEW s \in Sources, StartTransaction(w, s) PROVE OutcomeKept
    BY <1>10 DEF StartTransaction, Take, NextSources, RepairUnchanged
  <1>11. ASSUME NEW w \in Workers, NEW s \in Sources, StartFails(w, s) PROVE OutcomeKept
    BY <1>11 DEF StartFails, Take, NextSources, SourceBlocked, Outcome, RepairUnchanged, Fault
  <1>12. ASSUME NEW w \in Workers, Plan(w) PROVE OutcomeKept
    BY <1>12 DEF Plan, Step, RepairUnchanged
  <1>13. ASSUME NEW w \in Workers, RecordQueued(w) PROVE OutcomeKept
    BY <1>13 DEF RecordQueued, Outcome, RepairUnchanged
  <1>14. ASSUME NEW w \in Workers, ExecuteFails(w) PROVE OutcomeKept
    BY <1>14 DEF ExecuteFails, SourceBlocked, Outcome, RepairUnchanged, Fault
  <1>15. ASSUME NEW w \in Workers, NEW k \in JobKinds, EnqueueRepair(w, k) PROVE OutcomeKept
    BY <1>15 DEF EnqueueRepair, QueuedKinds, KeyFree, RepairUnchanged
  <1>16. ASSUME NEW w \in Workers, CompleteSource(w) PROVE OutcomeKept
    BY <1>16 DEF CompleteSource, CompletedStatus, Idle, RepairUnchanged
  <1>17. ASSUME NEW w \in Workers, Done(w) PROVE OutcomeKept
    BY <1>17 DEF Done, Idle, RepairUnchanged
  <1>18. ASSUME NEW w \in Workers, JobFails(w) PROVE OutcomeKept
    BY <1>18 DEF JobFails, Idle, RepairUnchanged, Fault
  <1>19. ASSUME NEW w \in Workers, WorkerCrash(w) PROVE OutcomeKept
    BY <1>19 DEF WorkerCrash, Idle, Stop
  <1>20. ASSUME NEW s \in Sources, WriterDeclines(s) PROVE OutcomeKept
    BY <1>20 DEF WriterDeclines, WriterTx, QueueUnchanged
  <1>21. ASSUME NEW s \in Sources, WriterApplies(s) PROVE OutcomeKept
    BY <1>21 DEF WriterApplies, WriterTx, QueueUnchanged
  <1>22. ASSUME NEW s \in Sources, WriterEnds(s) PROVE OutcomeKept
    BY <1>22 DEF WriterEnds, WriterTx, QueueUnchanged
  <1>24. ASSUME NEW s \in Sources, GateEnds(s) PROVE OutcomeKept
    BY <1>24 DEF GateEnds, QueueUnchanged
  <1>23. CASE UNCHANGED vars
    BY <1>23 DEF vars
  <1> HIDE DEF IInv, TypeOK, WorkerRecord, WorkerPcs, Family, JobKinds, InHand, OneHolder,
     RowIsJob, SettledIsDone, Untouched, Once, Sources, OutcomeKept
  <1> QED
    BY <1>1, <1>2, <1>3, <1>4, <1>5, <1>6, <1>7, <1>8, <1>9, <1>10, <1>11, <1>12, <1>13,
       <1>14, <1>15, <1>16, <1>17, <1>18, <1>19, <1>20, <1>21, <1>22, <1>23, <1>24 DEF Next,
       ContractNext, SignalNext, RepairNext, QueueNext

-----------------------------------------------------------------------------

\* What a worker holds, has handed on and is about to record agrees with the
\* rows, in every state of every instance.
THEOREM RepairInvariant == Spec => []IInv
  <1>1. Init => IInv
    BY InitEstablishes
  <1>2. IInv /\ [Next]_vars => IInv'
    <2> SUFFICES ASSUME IInv, [Next]_vars PROVE IInv'
      OBVIOUS
    <2> QED
      BY TypeStep, InHandStep, FreshStep, HolderStep, RowStep, EnqueuedStep, SettledStep,
         OnceStep DEF IInv
  <1> QED
    BY <1>1, <1>2, PTL DEF Spec

\* Sources, contract, jobs and counters keep their declared shapes.
THEOREM RepairTypeCorrect == Spec => []TypeOK
  <1>1. IInv => TypeOK
    BY DEF IInv
  <1> QED
    BY <1>1, RepairInvariant, PTL

\* No source is handed on twice, by however many workers it is claimed.
THEOREM SourcesRepairedOnce == Spec => []RepairedOnce
  <1>1. IInv => RepairedOnce
    BY DEF IInv
  <1> QED
    BY <1>1, RepairInvariant, PTL

\* An action or a drift event is recorded as queued after a job was made for it
\* by the execution that records it (worker.py, _execute_repair_source).
THEOREM QueuedSourcesAreHandedOn == Spec => QueuedIsHandedOn
  <1>1. IInv /\ [Next]_vars => [HandedOn]_vars
    BY QueuedStep
  <1>2. [HandedOn]_vars => [\A s \in Actions \cup Events :
          status'[s] \in {"queued", "repair_queued"} /\ status'[s] # status[s] =>
            \E w \in Workers :
              workers[w].source = s /\ workers[w].outcome = "queued" /\ workers[w].created]_vars
    BY DEF HandedOn
  <1> QED
    BY <1>1, <1>2, RepairInvariant, PTL DEF Spec, QueuedIsHandedOn

\* Without a failure or a death, what is claimed is in somebody's hands.
THEOREM NobodyStrands == Spec => []NothingStranded
  <1>1. Init => NothingStranded
    BY InitEstablishes
  <1>2. IInv /\ NothingStranded /\ [Next]_vars => NothingStranded'
    BY StrandedStep
  <1> QED
    BY <1>1, <1>2, RepairInvariant, PTL DEF Spec

\* A contract called a false positive has no event that can be claimed.
THEOREM FalsePositivesStayClosed == Spec => []FalsePositiveNeverOpens
  <1>1. Init => FalsePositiveNeverOpens
    BY InitEstablishes
  <1>2. IInv /\ FalsePositiveNeverOpens /\ [Next]_vars => FalsePositiveNeverOpens'
    BY FalsePositiveStep
  <1> QED
    BY <1>1, <1>2, RepairInvariant, PTL DEF Spec

\* Only the worker that queued a repair can overwrite what the writer made of it.
THEOREM OutcomesLostByQueuersOnly == Spec => OutcomeLostByQueuer
  <1>1. IInv /\ [Next]_vars => [OutcomeKept]_vars
    BY LostStep
  <1>2. IInv /\ [OutcomeKept]_vars => [\A s \in Sources :
          tx[s] = "settled" /\ tx'[s] # "settled" =>
            \E w \in Workers : workers[w].pc = "enqueued" /\ workers[w].source = s]_vars
    BY DEF OutcomeKept
  <1> QED
    BY <1>1, <1>2, RepairInvariant, PTL DEF Spec, OutcomeLostByQueuer
=============================================================================
