--------------------------- MODULE RepairExecution ---------------------------
(***************************************************************************)
(* Repairs: what the drift checks, the diagnostic signals and the curation *)
(* leave to be repaired, and the repair.execute jobs that claim it and     *)
(* hand each source on to the writer or to a gate job (services/worker.py, *)
(* db/contracts.py, db/diagnostics.py, db/utility.py).                     *)
(*                                                                         *)
(* A source is claimed in one transaction and completed in another; what   *)
(* lies between is a series of calls that commit one by one.  Nobody looks *)
(* after a source whose worker does not come back.                         *)
(***************************************************************************)
EXTENDS Integers, FiniteSets

CONSTANTS
  Actions,    \* planned curation actions with a repair proposal
  Events,     \* drift events of one environment contract, present or to come
  Momenta,    \* diagnostic momentum records
  Influenced, \* the sources whose proposal names a memory
  Elsewhere,  \* the sources whose proposal names another evolution transaction
  Workers,    \* slots that run repair.execute jobs
  Signals,    \* bound: the signals that are posted, a delta of the score and whether risky
  MaxRuns,    \* bound: runs of those jobs, retries included
  MaxScore,   \* bound: momentum_score
  MaxSignals, \* bound: diagnostic signals
  MaxMishaps  \* bound: workers that die and calls that fail

Sources == Actions \cup Events \cup Momenta

ASSUME SourceAssumption ==
  /\ "none" \notin Sources
  /\ Actions \cap Events = {} /\ Actions \cap Momenta = {} /\ Events \cap Momenta = {}
  /\ Influenced \cup Elsewhere \subseteq Sources /\ Signals \subseteq Int \X BOOLEAN
ASSUME BoundAssumption ==
  MaxRuns \in Nat /\ MaxScore \in Nat /\ MaxSignals \in Nat /\ MaxMishaps \in Nat

VARIABLES
  status,   \* the status of each source, "absent" before its row exists
  momentum, \* momentum_score of each record, and whether its risk_score is 0.8 or more
  contract, \* the contract: its status, "checked" unless it is false_positive, and the
            \* mark in its metadata
  checker,  \* the drift.check job
  workers,  \* the repair.execute jobs
  tx,       \* status of the evolution transaction of each source; "settled" stands
            \* for the writer's verdicts: staged, applied and failed
  queue,    \* the job that each source was handed on to
  rows,     \* how many rows of the job table are for the source
  runs, signals, stops, faults

vars == <<status, momentum, contract, checker, workers, tx, queue, rows,
          runs, signals, stops, faults>>

\* created: whether the source's job was made, or its key found taken
Idle == [pc |-> "idle", todo |-> {}, source |-> "none", outcome |-> "none", created |-> FALSE]

Claimed == {"executing", "repairing"}
JobKinds == {"writer.apply", "gate"}

Init ==
  /\ status = [s \in Sources |-> IF s \in Actions THEN "planned" ELSE "absent"]
  /\ momentum = [m \in Momenta |-> [score |-> 0, risky |-> FALSE]]
  /\ contract = [status |-> "checked", marked |-> FALSE]
  /\ checker = "idle"
  /\ workers = [w \in Workers |-> Idle]
  /\ tx = [s \in Sources |-> "none"]
  /\ queue = [s \in Sources |-> [k \in JobKinds |-> "none"]]
  /\ rows = [s \in Sources |-> 0]
  /\ runs = 0 /\ signals = 0 /\ stops = 0 /\ faults = 0

Fault == stops + faults < MaxMishaps /\ faults' = faults + 1
Stop == stops + faults < MaxMishaps /\ stops' = stops + 1

-----------------------------------------------------------------------------
(* Environment contracts and drift checks *)

ContractUnchanged ==
  UNCHANGED <<momentum, workers, tx, queue, rows, runs, signals, stops, faults>>

\* Fault: the mark in the metadata alone is asked for.
MarkedOnly(c) == c.marked

\* _is_false_positive_contract
IsFalsePositive(c) == c.marked \/ c.status = "false_positive"

\* _close_false_positive_drift_events
Closed ==
  [s \in Sources |-> IF s \in Events /\ status[s] \in {"open", "repairing", "repair_queued"}
                     THEN "false_positive" ELSE status[s]]

\* mark_drift_false_positive, the operator's call
MarkFalsePositive ==
  /\ ~contract.marked
  /\ contract' = [status |-> "false_positive", marked |-> TRUE]
  /\ status' = Closed
  /\ ContractUnchanged
  /\ UNCHANGED checker

\* extract_from_skill_versions: the upsert replaces the metadata
ExtractContracts ==
  /\ contract' = [contract EXCEPT !.marked = FALSE]
  /\ ContractUnchanged
  /\ UNCHANGED <<status, checker>>

\* run_drift_checks of a contract that is marked
SkipContract ==
  /\ checker = "idle"
  /\ IsFalsePositive(contract)
  /\ contract' = [contract EXCEPT !.status = "false_positive"]
  /\ status' = Closed
  /\ ContractUnchanged
  /\ UNCHANGED checker

\* A violation opens a new event, whatever is open already; a contract that
\* holds closes none.
ContractViolated(e) ==
  /\ checker = "idle"
  /\ ~IsFalsePositive(contract)
  /\ status[e] = "absent"
  /\ status' = [status EXCEPT ![e] = "open"]
  /\ checker' = "signalling"
  /\ ContractUnchanged
  /\ UNCHANGED contract

-----------------------------------------------------------------------------
(* Diagnostic momentum *)

\* _status_for, the status of a new record
NewStatus(score, risky) ==
  CASE score >= 4 -> "ready_for_patch"
    [] score < 4 /\ (risky \/ score >= 2) -> "ready_for_probe"
    [] OTHER -> "accumulating"

\* The CASE of the upsert, which looks at the risk first, and not at what the
\* status was.
NextStatus(score, risky) == IF risky THEN "ready_for_probe" ELSE NewStatus(score, FALSE)

\* record_signal
Signal(m, delta, risky) ==
  LET score == momentum[m].score + delta
      risk == momentum[m].risky \/ risky IN
  /\ signals < MaxSignals
  /\ score \in 0..MaxScore
  /\ signals' = signals + 1
  /\ momentum' = [momentum EXCEPT ![m] = [score |-> score, risky |-> risk]]
  /\ status' = [status EXCEPT ![m] = IF @ = "absent" THEN NewStatus(score, risk)
                                     ELSE NextStatus(score, risk)]
  /\ UNCHANGED <<contract, workers, tx, queue, rows, runs, stops, faults>>

\* _record_drift_diagnostic_momentum, after the transaction of the check
SignalDrift(m) ==
  /\ checker = "signalling"
  /\ checker' = "idle"
  /\ Signal(m, 1, FALSE)

\* The checker fails or dies in between: the event is there, the signal is not.
SignalLost ==
  /\ checker = "signalling"
  /\ \/ Fault /\ UNCHANGED stops
     \/ Stop /\ UNCHANGED faults
  /\ checker' = "idle"
  /\ UNCHANGED <<status, momentum, contract, workers, tx, queue, rows, runs, signals>>

\* POST /v1/diagnostics/momentum: evidence, contrast or counterevidence
PostSignal(m) ==
  /\ \E signal \in Signals : Signal(m, signal[1], signal[2])
  /\ UNCHANGED checker

-----------------------------------------------------------------------------
(* repair.execute *)

RepairUnchanged == UNCHANGED <<momentum, contract, checker, signals, stops>>

\* Fault: what is being executed is claimed again, to get it unstuck.
ClaimedAgain(s) == status[s] \in {"planned", "open", "ready_for_probe", "executing"}

\* The WHERE of the three claims
Claimable(s) ==
  CASE s \in Actions -> status[s] = "planned"
    [] s \in Events -> status[s] = "open"
    [] s \in Momenta -> /\ status[s] \in {"ready_for_probe", "ready_for_patch"}
                        /\ momentum[s].score >= 2

\* The claims follow each other, each a transaction with its own status.
Family == [idle |-> Actions, events |-> Events, momenta |-> Momenta]
ClaimedStatus == [idle |-> "executing", events |-> "repairing", momenta |-> "repairing"]
NextClaim == [idle |-> "events", events |-> "momenta", momenta |-> "choosing"]

\* claim_planned_repair_actions, with which a run starts,
\* claim_open_drift_repair_events and claim_ready_for_repair; the limits are
\* above what there is to claim.
Claim(w) ==
  LET pc == workers[w].pc
      batch == {s \in Family[pc] : Claimable(s)} IN
  /\ pc \in DOMAIN Family
  /\ IF pc = "idle" THEN runs < MaxRuns /\ runs' = runs + 1 ELSE UNCHANGED runs
  /\ status' = [s \in Sources |-> IF s \in batch THEN ClaimedStatus[pc] ELSE status[s]]
  /\ workers' = [workers EXCEPT ![w] = [workers[w] EXCEPT !.pc = NextClaim[pc],
                                                         !.todo = @ \cup batch]]
  /\ RepairUnchanged
  /\ UNCHANGED <<tx, queue, rows, faults>>

\* The sources in the order of their claims
NextSources(todo) ==
  IF todo \cap Actions # {} THEN todo \cap Actions
  ELSE IF todo \cap Events # {} THEN todo \cap Events
  ELSE todo

Step(w, pc, next) ==
  /\ workers[w].pc = pc
  /\ workers' = [workers EXCEPT ![w].pc = next]
  /\ RepairUnchanged
  /\ UNCHANGED <<runs, faults>>

Outcome(w, outcome) == [workers[w] EXCEPT !.pc = "completing", !.outcome = outcome]

Done(w) ==
  /\ workers[w].pc = "choosing"
  /\ workers[w].todo = {}
  /\ workers' = [workers EXCEPT ![w] = Idle]
  /\ RepairUnchanged
  /\ UNCHANGED <<status, tx, queue, rows, runs, faults>>

\* The worker takes one of its sources in hand.
Take(w, s, next) ==
  /\ workers[w].pc = "choosing"
  /\ s \in NextSources(workers[w].todo)
  /\ workers' = [workers EXCEPT ![w] = [next EXCEPT !.source = s, !.todo = @ \ {s}]]
  /\ RepairUnchanged
  /\ UNCHANGED <<status, queue, rows, runs>>

\* Fault: the memory that is not approved ends the job.
JobEnds(w) == Idle

\* except Exception: the source is blocked, the job goes on.
SourceBlocked(w) == Outcome(w, "blocked")

\* _validate_memory_influence_for_mutation: a memory that is not approved
MemoryRefused(w, s) ==
  /\ s \in Influenced
  /\ Take(w, s, SourceBlocked(w))
  /\ UNCHANGED <<tx, faults>>

\* start_transaction: one for the source, however often it is executed
StartTransaction(w, s) ==
  /\ Take(w, s, [workers[w] EXCEPT !.pc = "started"])
  /\ tx' = [tx EXCEPT ![s] = IF @ = "none" THEN "planned" ELSE @]
  /\ UNCHANGED faults

StartFails(w, s) ==
  /\ Fault
  /\ Take(w, s, SourceBlocked(w))
  /\ UNCHANGED tx

\* update_transaction_status("planning"), the item and its provenance
Plan(w) ==
  /\ Step(w, "started", "planned")
  /\ tx' = [tx EXCEPT ![workers[w].source] = "planning"]
  /\ UNCHANGED <<status, queue, rows>>

\* An approved manifest or materialization goes to the writer; what is not
\* approved, not anchored or not proved goes to a gate.  Diagnostics never have one.
QueuedKinds(s) == IF s \in Momenta THEN {"gate"} ELSE JobKinds

\* Fault: the key names the job that asks.
KeyedByJob(s, k) == TRUE

\* ON CONFLICT of enqueue_job: the key names the source and the kind, and stays
\* taken when the job has ended.
KeyFree(s, k) == queue[s][k] = "none"

\* enqueue_job, max_attempts = 1
EnqueueRepair(w, k) ==
  LET s == workers[w].source IN
  /\ k \in QueuedKinds(s)
  /\ workers[w].pc = "planned"
  /\ workers' = [workers EXCEPT ![w].pc = "enqueued", ![w].created = KeyFree(s, k)]
  /\ queue' = IF KeyFree(s, k) THEN [queue EXCEPT ![s][k] = "queued"] ELSE queue
  /\ rows' = IF KeyFree(s, k) THEN [rows EXCEPT ![s] = @ + 1] ELSE rows
  /\ RepairUnchanged
  /\ UNCHANGED <<status, tx, runs, faults>>

\* update_transaction_status("queued") and the record of the influence
RecordQueued(w) ==
  /\ workers[w].pc = "enqueued"
  /\ tx' = [tx EXCEPT ![workers[w].source] = "queued"]
  /\ workers' = [workers EXCEPT ![w] = Outcome(w, "queued")]
  /\ RepairUnchanged
  /\ UNCHANGED <<status, queue, rows, runs, faults>>

\* An exception in _execute_repair_source, before the job is queued or after.
ExecuteFails(w) ==
  /\ Fault
  /\ workers[w].pc \in {"started", "planned", "enqueued"}
  /\ workers' = [workers EXCEPT ![w] = SourceBlocked(w)]
  /\ RepairUnchanged
  /\ UNCHANGED <<status, tx, queue, rows, runs>>

\* Fault: the queued status is stored whatever came of the execution.
AlwaysQueued(s, outcome) == IF s \in Actions THEN "queued" ELSE "repair_queued"

\* Fault: one status for all stores; the records of diagnostics have no "blocked".
OneStatus(s, outcome) == IF outcome = "queued" THEN "repair_queued" ELSE "blocked"

\* The status that each store's complete sets
CompletedStatus(s, outcome) ==
  IF outcome = "queued" THEN IF s \in Actions THEN "queued" ELSE "repair_queued"
  ELSE IF s \in Momenta THEN "ready_for_probe" ELSE "blocked"

\* _complete_repair_execution_source: whatever the status is by now.  The
\* record of the calibration follows; JobFails is where it raises.
CompleteSource(w) ==
  LET s == workers[w].source IN
  /\ workers[w].pc = "completing"
  /\ status' = [status EXCEPT ![s] = CompletedStatus(s, workers[w].outcome)]
  /\ workers' = [workers EXCEPT ![w] = [Idle EXCEPT !.pc = "choosing", !.todo = workers[w].todo]]
  /\ RepairUnchanged
  /\ UNCHANGED <<tx, queue, rows, runs, faults>>

\* An exception outside the try: the job fails, its other sources stay claimed.
JobFails(w) ==
  /\ Fault
  /\ workers[w].pc \in {"events", "momenta", "completing", "choosing"}
  /\ workers' = [workers EXCEPT ![w] = Idle]
  /\ RepairUnchanged
  /\ UNCHANGED <<status, tx, queue, rows, runs>>

WorkerCrash(w) ==
  /\ Stop
  /\ workers[w].pc # "idle"
  /\ workers' = [workers EXCEPT ![w] = Idle]
  /\ UNCHANGED <<status, momentum, contract, checker, tx, queue, rows, runs, signals, faults>>

-----------------------------------------------------------------------------
(* The jobs that the sources were handed on to *)

QueueUnchanged == UNCHANGED <<status, momentum, contract, checker, workers, rows,
                              runs, signals, stops, faults>>

\* A gate job, which has one attempt, succeeds or fails: evaluations.run touches
\* no source, and what a drift.check finds is ContractViolated.
GateEnds(s) ==
  /\ queue[s]["gate"] = "queued"
  /\ queue' = [queue EXCEPT ![s]["gate"] = "done"]
  /\ QueueUnchanged
  /\ UNCHANGED tx

\* The writer's transaction is the source's unless the proposal names another.
WriterTx(s, verdict) == IF s \in Elsewhere THEN tx ELSE [tx EXCEPT ![s] = verdict]

\* _run_writer_apply that is refused by its gate, or deferred by its window
WriterDeclines(s) ==
  /\ queue[s]["writer.apply"] = "queued"
  /\ queue' = [queue EXCEPT ![s]["writer.apply"] = "done"]
  /\ tx' \in {tx, WriterTx(s, "settled")}
  /\ QueueUnchanged

\* apply_staged_manifest_with_governance
WriterApplies(s) ==
  /\ queue[s]["writer.apply"] = "queued"
  /\ queue' = [queue EXCEPT ![s]["writer.apply"] = "applying"]
  /\ tx' = WriterTx(s, "applying")
  /\ QueueUnchanged

\* Applied, or failed and recovered, or ended by an exception of the swap
WriterEnds(s) ==
  /\ queue[s]["writer.apply"] = "applying"
  /\ queue' = [queue EXCEPT ![s]["writer.apply"] = "done"]
  /\ tx' \in {tx, WriterTx(s, "settled")}
  /\ QueueUnchanged

-----------------------------------------------------------------------------

ContractNext ==
  \/ MarkFalsePositive \/ ExtractContracts \/ SkipContract
  \/ \E e \in Events : ContractViolated(e)

SignalNext ==
  \/ \E m \in Momenta : SignalDrift(m) \/ PostSignal(m)
  \/ SignalLost

RepairNext ==
  \E w \in Workers :
    \/ Claim(w)
    \/ \E s \in Sources : MemoryRefused(w, s) \/ StartTransaction(w, s) \/ StartFails(w, s)
    \/ Plan(w) \/ RecordQueued(w) \/ ExecuteFails(w)
    \/ \E k \in JobKinds : EnqueueRepair(w, k)
    \/ CompleteSource(w) \/ Done(w) \/ JobFails(w) \/ WorkerCrash(w)

QueueNext ==
  \E s \in Sources : WriterDeclines(s) \/ WriterApplies(s) \/ WriterEnds(s) \/ GateEnds(s)

Next == ContractNext \/ SignalNext \/ RepairNext \/ QueueNext

Spec == Init /\ [][Next]_vars

-----------------------------------------------------------------------------
(* Properties *)

StatusesOf(s) ==
  CASE s \in Actions -> {"planned", "executing", "queued", "blocked"}
    [] s \in Events -> {"absent", "open", "repairing", "repair_queued", "blocked",
                        "false_positive"}
    [] s \in Momenta -> {"absent", "accumulating", "ready_for_probe", "ready_for_patch",
                         "repairing", "repair_queued"}

WorkerPcs == {"choosing", "started", "planned", "enqueued", "completing"} \cup DOMAIN Family
WorkerRecord ==
  [pc : WorkerPcs, todo : SUBSET Sources, source : Sources \cup {"none"},
   outcome : {"none", "queued", "blocked"}, created : BOOLEAN]

\* Every row and every job has its declared shape.
TypeOK ==
  /\ status \in [Sources -> UNION {StatusesOf(s) : s \in Sources}]
  /\ \A s \in Sources : status[s] \in StatusesOf(s)
  /\ momentum \in [Momenta -> [score : 0..MaxScore, risky : BOOLEAN]]
  /\ contract \in [status : {"checked", "false_positive"}, marked : BOOLEAN]
  /\ checker \in {"idle", "signalling"}
  /\ workers \in [Workers -> WorkerRecord]
  /\ tx \in [Sources -> {"none", "planned", "planning", "queued", "applying", "settled"}]
  /\ queue \in [Sources -> [JobKinds -> {"none", "queued", "applying", "done"}]]
  /\ rows \in [Sources -> Nat]
  /\ runs \in 0..MaxRuns /\ signals \in 0..MaxSignals
  /\ stops \in 0..MaxMishaps /\ faults \in 0..MaxMishaps

\* However often a source is armed, claimed and executed, and by however many
\* workers at once, one job is made for it.
RepairedOnce ==
  \A s \in Sources : rows[s] <= 1

Holds(w, s) == s \in workers[w].todo \cup {workers[w].source}

\* While nothing failed and nobody died, a claimed source is in the hands of a
\* job that will complete it; afterwards nothing claims it again.
NothingStranded ==
  stops = 0 /\ faults = 0 =>
    \A s \in Sources : status[s] \in Claimed => \E w \in Workers : Holds(w, s)

\* docs/IMPLEMENTATION_PLAN.md:2667 and TASKFLOW.md:3288: a contract that an
\* operator has marked does not reopen "repair churn": none of its events can
\* be claimed any more, whatever a check or an extraction does meanwhile.
FalsePositiveNeverOpens ==
  contract.status = "false_positive" => \A e \in Events : status[e] # "open"

\* A curation action or a drift event that is recorded as queued got a job of
\* its own from the execution that records it: no other claim has taken its key
\* before, for a job that may have ended since.  A diagnostic, which signals arm
\* again after its gate job, is not promised that.
QueuedIsHandedOn ==
  [][\A s \in Actions \cup Events :
       status'[s] \in {"queued", "repair_queued"} /\ status'[s] # status[s] =>
         \E w \in Workers :
           workers[w].source = s /\ workers[w].outcome = "queued" /\ workers[w].created]_vars

\* What the writer made of a repair is lost from the transaction in one way
\* only: the worker that queued it comes late with its own "queued".
OutcomeLostByQueuer ==
  [][\A s \in Sources :
       tx[s] = "settled" /\ tx'[s] # "settled" =>
         \E w \in Workers : workers[w].pc = "enqueued" /\ workers[w].source = s]_vars
=============================================================================
