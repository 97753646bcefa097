----------------------------- MODULE JobLedger -----------------------------
(***************************************************************************)
(* What the job queue promises, without leases, clocks or executions: a    *)
(* job is granted at most MaxAttempts times, to one holder at a time; it   *)
(* succeeds only through its latest grant, whose work really ended well;   *)
(* it fails only when no grant is left; and a settled job is never granted *)
(* again.                                                                  *)
(***************************************************************************)
EXTENDS Integers

CONSTANTS Jobs, Workers, MaxAttempts, None

VARIABLES
  ledger,   \* [Jobs -> [phase, tries, holder]]
  done      \* grants <<job, number>> whose work ended well

lvars == <<ledger, done>>

LInit ==
  /\ ledger = [j \in Jobs |-> [phase |-> "absent", tries |-> 0, holder |-> None]]
  /\ done = {}

Becomes(j, phase, tries, holder) ==
  ledger'[j] = [phase |-> phase, tries |-> tries, holder |-> holder]

Submit(j) == ledger[j].phase = "absent" /\ Becomes(j, "queued", 0, None)

\* A grant goes to a waiting job, or takes over one whose grant lapsed.
Grant(j) ==
  /\ ledger[j].phase \in {"queued", "leased"}
  /\ ledger[j].tries < MaxAttempts
  /\ \E w \in Workers : Becomes(j, "leased", ledger[j].tries + 1, w)

Return(j) ==
  /\ ledger[j].phase = "leased"
  /\ ledger[j].tries < MaxAttempts
  /\ Becomes(j, "queued", ledger[j].tries, None)

GiveUp(j) ==
  /\ ledger[j].phase = "leased"
  /\ ledger[j].tries = MaxAttempts
  /\ Becomes(j, "failed", ledger[j].tries, None)

Succeed(j) ==
  /\ ledger[j].phase = "leased"
  /\ <<j, ledger[j].tries>> \in done
  /\ Becomes(j, "succeeded", ledger[j].tries, None)

\* Only grants already made can have ended well.
WorkEnds ==
  /\ done \subseteq done'
  /\ \A d \in done' \ done : d[1] \in Jobs /\ d[2] \in 1..ledger[d[1]].tries

\* One transaction may settle several lapsed grants.
LNext ==
  /\ DOMAIN ledger' = Jobs
  /\ \A j \in Jobs :
       \/ Submit(j)
       \/ Grant(j)
       \/ Return(j)
       \/ GiveUp(j)
       \/ Succeed(j)
       \/ ledger'[j] = ledger[j]
  /\ WorkEnds

LSpec == LInit /\ [][LNext]_lvars
=============================================================================
