------------------------- MODULE MCRepairExecution -------------------------
(* Instance of RepairExecution: one source of each kind; two jobs at once,   *)
(* as when an operator enqueues one beside the schedule's.                   *)
EXTENDS RepairExecution, TLC

CONSTANTS a1, e1, m1, w1, w2

\* Contrast, and a risk
MCSignals == {<<2, FALSE>>, <<1, TRUE>>}

WorkerSymmetry == Permutations(Workers)
=============================================================================
