---------------------------- MODULE MCScheduler ----------------------------
(* Instances of Scheduler: a core schedule and a scan schedule of the same  *)
(* job kind, so that ticks of different schedules can disturb each other.   *)
EXTENDS Scheduler

CONSTANTS core, scan, late, kind, t1, t2, p1, p2

MCKindOf == [s \in Schedules |-> kind]
SkipAndCatchUp == [s \in Schedules |-> IF s = core THEN "skip" ELSE "catch_up_limited"]
Coalesce == [s \in Schedules |-> "coalesce"]
UnitInterval == [s \in Schedules |-> 1]

\* A worker starts again beside a scheduler whose schedules are registered.
RegisteredInit ==
  /\ now = 0
  /\ table = [s \in Schedules |-> [present |-> TRUE, enabled |-> TRUE, next |-> 0]]
  /\ jobs = [k \in Keys |-> "absent"]
  /\ manual = [k \in Kinds |-> "absent"]
  /\ lock = None
  /\ ticks = [t \in Tickers |-> IdleTick]
  /\ starts = [p \in Starts |-> NewStart]
  /\ edits = 0
  /\ aborts = 0
RegisteredSpec == RegisteredInit /\ [][Next]_vars
=============================================================================
