----------------------------- MODULE MCJobQueue -----------------------------
(* Instances of JobQueue: jobs of one pool, slots with worker ids of their  *)
(* own, a backoff of as many ticks as the attempt's number.                 *)
EXTENDS JobQueue

CONSTANTS j1, j2, e1, e2, w1, w2

MCWorkerOf == [e \in Execs |-> IF e = e1 THEN w1 ELSE w2]
MCEligible == [e \in Execs |-> Jobs]
SamePriority == [j \in Jobs |-> 100]
J2First == [j \in Jobs |-> IF j = j2 THEN 10 ELSE 100]
MCBackoff == [n \in 1..MaxAttempts |-> n]

\* Every lease is renewed in time while its execution lives: the clock waits
\* for the renewal of a handler that is still running under its lease.
PunctualTick ==
  Tick => \A e \in Execs : exec[e].pc # "idle" /\ Held(exec[e].job, WorkerOf[e])
                             => jobs[exec[e].job].lease > 0
PunctualSpec == Init /\ [][Next /\ PunctualTick]_vars
=============================================================================
