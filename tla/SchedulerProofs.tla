--------------------------- MODULE SchedulerProofs ---------------------------
(***************************************************************************)
(* Safety of the scheduler for any schedules, ticks, worker starts and     *)
(* edits, and whatever the bounds: one scheduled job per kind is active, a *)
(* run that is over is not enqueued again, and no write to a schedule is   *)
(* lost to a tick.                                                         *)
(***************************************************************************)
EXTENDS Scheduler, TLAPS

\* The holder of the advisory lock is the one ticker in a transaction.
LockHolder ==
  \A t \in Tickers :
    /\ ticks[t].pc = "working" <=> lock = t
    /\ ticks[t].pc = "idle" => ticks[t] = IdleTick
    /\ ticks[t].pc = "serving" => ticks[t] = ServingTick

\* A run of s after the one the transaction has read, and after its start
\* unless missed runs are caught up with one at a time.
Later(s, tick, slot) ==
  slot > tick.view[s] /\ (Policy[s] # "catch_up_limited" => slot > tick.at)

\* What a tick has read is due and still in the table: the rows it fetched and
\* their workspace stay locked.  What it has worked off has a later run.
ViewCurrent ==
  \A t \in Tickers :
    /\ DOMAIN ticks[t].moved = DOMAIN ticks[t].view
    /\ ticks[t].left \subseteq DOMAIN ticks[t].view
    /\ \A s \in DOMAIN ticks[t].view :
         table[s].next = ticks[t].view[s] /\ ticks[t].view[s] <= ticks[t].at
    /\ \A s \in DOMAIN ticks[t].view \ ticks[t].left : Later(s, ticks[t], ticks[t].moved[s])

\* What a tick adds is new, of one job per kind, and of kinds without an
\* active job, scheduled or not.
AddedIsNew ==
  \A t \in Tickers : \A k \in ticks[t].added :
    /\ jobs[k] = "absent"
    /\ \A l \in ticks[t].added : KindOf[k[1]] = KindOf[l[1]] => k = l
    /\ \A l \in Keys : jobs[l] = "active" => KindOf[l[1]] # KindOf[k[1]]
    /\ manual[KindOf[k[1]]] # "active"
    /\ k[1] \in DOMAIN ticks[t].view

IInv == TypeOK /\ LockHolder /\ ViewCurrent /\ AddedIsNew /\ OneActivePerKind

-----------------------------------------------------------------------------
(* The arithmetic of the next run *)

\* The next run of a due schedule is later than the one it replaces, and at
\* most an interval after the time of the tick.
LEMMA NextRunBounds ==
  ASSUME NEW s \in Schedules, NEW at \in 0..MaxNow, NEW slot \in Slots, slot <= at
  PROVE  /\ NextRunAfter(s, slot, at) \in Slots
         /\ NextRunAfter(s, slot, at) > slot
         /\ Policy[s] # "catch_up_limited" => NextRunAfter(s, slot, at) > at
  <1> DEFINE d == at - slot
  <1> DEFINE i == Interval[s]
  <1> DEFINE q == d \div i
  <1>1. d \in Nat /\ i \in Nat \ {0} /\ MaxNow \in Nat /\ Horizon \in Nat /\ MaxNow + i <= Horizon
    BY ClockAssumption DEF Slots
  <1>2. q \in Nat /\ q * i <= d /\ d < (q + 1) * i /\ (q + 1) * i = q * i + i /\ q * i >= 0
    <2> HIDE DEF d, i
    <2>1. q \in Nat
      BY <1>1
    <2>2. q * i + (d % i) = d /\ d % i \in 0..(i - 1)
      BY <1>1
    <2>3. (q + 1) * i = q * i + i /\ q * i >= 0
      BY <1>1, <2>1
    <2> HIDE DEF q
    <2> QED
      BY <1>1, <2>1, <2>2, <2>3
  <1>3. NextRunAfter(s, slot, at) = slot + (IF Policy[s] = "catch_up_limited" THEN 1 ELSE q + 1) * i
    BY DEF NextRunAfter, MissedRuns
  <1>4. slot \in Int /\ at \in Int /\ slot >= 0 /\ at <= MaxNow /\ d = at - slot
    BY ClockAssumption DEF Slots
  <1> HIDE DEF d, i, q
  <1>5. CASE Policy[s] = "catch_up_limited"
    <2>1. NextRunAfter(s, slot, at) = slot + i
      BY <1>1, <1>3, <1>5
    <2> QED
      BY <1>1, <1>4, <1>5, <2>1 DEF Slots
  <1>6. CASE Policy[s] # "catch_up_limited"
    <2> DEFINE m == (q + 1) * i
    <2>1. NextRunAfter(s, slot, at) = slot + m
      BY <1>3, <1>6
    <2>2. m \in Int /\ m <= d + i /\ m > d /\ m >= i
      BY <1>1, <1>2
    <2> HIDE DEF m
    <2> QED
      BY <1>1, <1>4, <2>1, <2>2 DEF Slots
  <1> QED
    BY <1>5, <1>6

-----------------------------------------------------------------------------
(* The inductive step *)

\* A ticker without a transaction has the declared shape.
LEMMA IdleTyped == IdleTick \in TickRecord /\ ServingTick \in TickRecord
  <1>1. <<>> \in [{} -> Slots]
    OBVIOUS
  <1>2. <<>> \in SlotMaps
    BY <1>1 DEF SlotMaps
  <1> QED
    BY <1>2, ClockAssumption DEF IdleTick, ServingTick, TickRecord

\* No transaction has begun.
LEMMA InitEstablishes == Init => IInv
  <1> SUFFICES ASSUME Init PROVE IInv
    OBVIOUS
  <1> USE DEF Init
  <1>1. TypeOK
    BY ClockAssumption, BoundAssumption, IdleTyped
    DEF TypeOK, NoSchedule, Slots, JobStatus, NewStart
  <1>2. LockHolder /\ ViewCurrent /\ AddedIsNew
    BY NoneAssumption DEF LockHolder, ViewCurrent, AddedIsNew, IdleTick
  <1>3. OneActivePerKind
    BY DEF OneActivePerKind
  <1> QED
    BY <1>1, <1>2, <1>3 DEF IInv

\* One turn of the loop keeps the shape of a transaction.
LEMMA RecordUpdates ==
  ASSUME NEW r \in TickRecord, NEW s \in DOMAIN r.moved, NEW slot \in Slots,
         NEW added \in SUBSET Keys
  PROVE  [r EXCEPT !.left = r.left \ {s}, !.added = added,
                   !.moved = [r.moved EXCEPT ![s] = slot]] \in TickRecord
  <1>1. [r.moved EXCEPT ![s] = slot] \in SlotMaps
    BY DEF TickRecord, SlotMaps
  <1> QED
    BY <1>1 DEF TickRecord

\* What one turn of the loop does: s is passed over, or a job is added that
\* the transaction sees no obstacle to.
Turn(t, s, added, slot) ==
  /\ ticks' = [ticks EXCEPT ![t] = [ticks[t] EXCEPT !.left = ticks[t].left \ {s},
                 !.added = added, !.moved = [ticks[t].moved EXCEPT ![s] = slot]]]
  /\ s \in DOMAIN ticks[t].moved
  /\ Later(s, ticks[t], slot)
  /\ \/ added = ticks[t].added
     \/ /\ added = ticks[t].added \cup {<<s, ticks[t].view[s]>>}
        /\ ~KindActive(t, KindOf[s])
        /\ KeyFree(t, <<s, ticks[t].view[s]>>)

\* Every turn of the loop has that form.
LEMMA TurnEffect ==
  ASSUME IInv, NEW t \in Tickers, NEW s \in Schedules, TickSchedule(t, s)
  PROVE  \E added \in SUBSET Keys, slot \in Slots : Turn(t, s, added, slot)
  <1> DEFINE me == ticks[t]
  <1> DEFINE key == <<s, me.view[s]>>
  <1> DEFINE enqueued == /\ ShouldEnqueueMisfire(s, me.view[s], me.at)
                         /\ ~KindActive(t, KindOf[s])
                         /\ KeyFree(t, key)
  <1> DEFINE slot == NextRunAfter(s, me.view[s], me.at)
  <1> DEFINE added == IF enqueued THEN me.added \cup {key} ELSE me.added
  <1>1. me \in TickRecord /\ s \in DOMAIN me.view /\ DOMAIN me.moved = DOMAIN me.view
    BY DEF IInv, TypeOK, ViewCurrent, TickSchedule
  <1>2. me.view[s] \in Slots /\ me.at \in 0..MaxNow /\ me.view[s] <= me.at
    BY <1>1 DEF IInv, ViewCurrent, TickRecord, SlotMaps
  <1>3. slot \in Slots /\ Later(s, me, slot)
    BY <1>2, NextRunBounds DEF Later
  <1>4. added \in SUBSET Keys
    BY <1>1, <1>2 DEF TickRecord, Keys
  <1>5. ticks' = [ticks EXCEPT ![t] = [ticks[t] EXCEPT !.left = ticks[t].left \ {s},
                     !.added = added, !.moved = [ticks[t].moved EXCEPT ![s] = slot]]]
    BY DEF TickSchedule
  <1>6. Turn(t, s, added, slot)
    BY <1>1, <1>3, <1>5 DEF Turn
  <1> QED
    BY <1>3, <1>4, <1>6

\* Rows, transactions and worker starts keep their shape.
LEMMA TypeStep == IInv /\ [Next]_vars => TypeOK'
  <1> SUFFICES ASSUME IInv, [Next]_vars PROVE TypeOK'
    OBVIOUS
  <1> USE DEF IInv, TypeOK
  <1>1. ASSUME NEW t \in Tickers, BeginTick(t)
        PROVE TypeOK'
    <2>1. PICK rows \in SUBSET Schedules :
             ticks' = [ticks EXCEPT ![t] =
               [pc |-> "working", at |-> now, view |-> [r \in rows |-> table[r].next],
                moved |-> [r \in rows |-> table[r].next], left |-> rows, added |-> {}]]
      BY <1>1 DEF BeginTick
    <2>2. [r \in rows |-> table[r].next] \in [rows -> Slots]
      BY DEF TypeOK
    <2>3. [r \in rows |-> table[r].next] \in SlotMaps
      BY <2>2 DEF SlotMaps
    <2>4. now \in 0..MaxNow /\ rows \subseteq Schedules
      BY DEF TypeOK
    <2>5. ticks' \in [Tickers -> TickRecord]
      BY <2>1, <2>3, <2>4 DEF TickRecord
    <2> QED
      BY <1>1, <2>5 DEF BeginTick
  <1>2. ASSUME NEW t \in Tickers, NEW s \in Schedules, TickSchedule(t, s)
        PROVE TypeOK'
    <2>1. PICK added \in SUBSET Keys, slot \in Slots : Turn(t, s, added, slot)
      BY <1>2, TurnEffect DEF IInv
    <2>2. ticks' \in [Tickers -> TickRecord]
      BY <2>1, RecordUpdates DEF Turn
    <2> QED
      BY <1>2, <2>2 DEF TickSchedule
  <1>3. ASSUME NEW t \in Tickers, CommitTick(t)
        PROVE TypeOK'
    <2>1. table' \in [Schedules -> [present : BOOLEAN, enabled : BOOLEAN, next : Slots]]
      <3>1. \A s \in DOMAIN ticks[t].moved : ticks[t].moved[s] \in Slots
        BY DEF TickRecord, SlotMaps
      <3> QED
        BY <1>3, <3>1 DEF CommitTick
    <2>2. jobs' \in [Keys -> JobStatus]
      BY <1>3 DEF CommitTick, JobStatus
    <2> QED
      BY <1>3, <2>1, <2>2, IdleTyped DEF CommitTick, AfterTick
  <1>4. ASSUME NEW t \in Tickers, AbortTick(t)
        PROVE TypeOK'
    BY <1>4, IdleTyped, BoundAssumption DEF AbortTick
  <1>5. ASSUME NEW p \in Starts, ListSchedules(p)
        PROVE TypeOK'
    <2>1. 0 \in Slots /\ \A s \in Schedules : now \in Slots
      BY ClockAssumption DEF Slots
    <2>2. [s \in Schedules |-> IF s \notin Core THEN 0
             ELSE IF table[s].present THEN table[s].next ELSE now] \in [Schedules -> Slots]
      BY <2>1
    <2> QED
      BY <1>5, <2>2 DEF ListSchedules
  <1>6. ASSUME NEW p \in Starts, NEW s \in Schedules, EnsureCore(p, s)
        PROVE TypeOK'
    <2>1. 0 \in Slots /\ starts[p].seen[s] \in Slots
      BY ClockAssumption DEF Slots
    <2>2. table' \in [Schedules -> [present : BOOLEAN, enabled : BOOLEAN, next : Slots]]
      BY <1>6, <2>1 DEF EnsureCore, UpsertSchedule
    <2> DEFINE Start == [pc : {"fresh", "writing"}, seen : [Schedules -> Slots],
                         left : SUBSET Schedules]
               new == [starts[p] EXCEPT !.left = starts[p].left \ {s},
                                        !.seen = [starts[p].seen EXCEPT ![s] = 0]]
    <2>3. starts' \in [Starts -> Start]
      <3>1. new \in Start
        BY <2>1
      <3>2. starts' = [starts EXCEPT ![p] = new]
        BY <1>6 DEF EnsureCore
      <3> HIDE DEF new
      <3> QED
        BY <3>1, <3>2
    <2> QED
      BY <1>6, <2>2, <2>3 DEF EnsureCore
  <1>7. ASSUME NEW p \in Starts, NEW s \in Schedules, EnsureScan(p, s)
        PROVE TypeOK'
    <2>1. now \in Slots
      BY ClockAssumption DEF Slots
    <2> QED
      BY <1>7, <2>1 DEF EnsureScan, UpsertSchedule
  <1>8. ASSUME NEW s \in Schedules, NEW enabled \in BOOLEAN,
             NEW next \in EditTimes, EditSchedule(s, enabled, next)
        PROVE TypeOK'
    BY <1>8, ClockAssumption, BoundAssumption DEF EditSchedule, UpsertSchedule, Slots
  <1>9. ASSUME NEW kind \in Kinds, EnqueueManual(kind)
        PROVE TypeOK'
    BY <1>9 DEF EnqueueManual, JobStatus
  <1>10. CASE JobSettles
    BY <1>10 DEF JobSettles, JobStatus
  <1>11. CASE Tick
    BY <1>11, ClockAssumption DEF Tick
  <1>12. CASE UNCHANGED vars
    BY <1>12 DEF vars
  <1>13. ASSUME NEW t \in Tickers, TickFindsNothing(t)
        PROVE TypeOK'
    BY <1>13, IdleTyped DEF TickFindsNothing
  <1>14. ASSUME NEW t \in Tickers, SlotsEnd(t)
        PROVE TypeOK'
    BY <1>14, IdleTyped DEF SlotsEnd
  <1> HIDE DEF IInv, TypeOK
  <1> QED
    BY <1>1, <1>2, <1>3, <1>4, <1>5, <1>6, <1>7, <1>8, <1>9, <1>10, <1>11, <1>12, <1>13, <1>14
    DEF Next

\* A transaction begins with the lock free and ends by freeing it.
LEMMA LockStep == IInv /\ [Next]_vars => LockHolder'
  <1> SUFFICES ASSUME IInv, [Next]_vars PROVE LockHolder'
    OBVIOUS
  <1> USE DEF IInv, LockHolder, TypeOK, TickRecord
  <1>1. ASSUME NEW t \in Tickers, BeginTick(t)
        PROVE LockHolder'
    BY <1>1, NoneAssumption DEF BeginTick
  <1>2. ASSUME NEW t \in Tickers, NEW s \in Schedules, TickSchedule(t, s)
        PROVE LockHolder'
    <2>1. PICK added \in SUBSET Keys, slot \in Slots : Turn(t, s, added, slot)
      BY <1>2, TurnEffect DEF IInv
    <2> QED
      BY <1>2, <2>1 DEF Turn, TickSchedule
  <1>3. ASSUME NEW t \in Tickers, CommitTick(t)
        PROVE LockHolder'
    BY <1>3, NoneAssumption DEF CommitTick, AfterTick, ServingTick, IdleTick
  <1>4. ASSUME NEW t \in Tickers, AbortTick(t)
        PROVE LockHolder'
    BY <1>4, NoneAssumption DEF AbortTick, IdleTick
  <1>5. ASSUME NEW p \in Starts, ListSchedules(p)
        PROVE LockHolder'
    BY <1>5 DEF ListSchedules
  <1>6. ASSUME NEW p \in Starts, NEW s \in Schedules, EnsureCore(p, s)
        PROVE LockHolder'
    BY <1>6 DEF EnsureCore, UpsertSchedule
  <1>7. ASSUME NEW p \in Starts, NEW s \in Schedules, EnsureScan(p, s)
        PROVE LockHolder'
    BY <1>7 DEF EnsureScan, UpsertSchedule
  <1>8. ASSUME NEW s \in Schedules, NEW enabled \in BOOLEAN,
             NEW next \in EditTimes, EditSchedule(s, enabled, next)
        PROVE LockHolder'
    BY <1>8 DEF EditSchedule, UpsertSchedule
  <1>9. ASSUME NEW kind \in Kinds, EnqueueManual(kind)
        PROVE LockHolder'
    BY <1>9 DEF EnqueueManual
  <1>10. CASE JobSettles
    BY <1>10 DEF JobSettles
  <1>11. CASE Tick
    BY <1>11 DEF Tick
  <1>12. CASE UNCHANGED vars
    BY <1>12 DEF vars
  <1>13. ASSUME NEW t \in Tickers, TickFindsNothing(t)
        PROVE LockHolder'
    BY <1>13, NoneAssumption DEF TickFindsNothing, ServingTick, IdleTick
  <1>14. ASSUME NEW t \in Tickers, SlotsEnd(t)
        PROVE LockHolder'
    BY <1>14, NoneAssumption DEF SlotsEnd, ServingTick, IdleTick
  <1> HIDE DEF IInv, LockHolder, TypeOK, TickRecord
  <1> QED
    BY <1>1, <1>2, <1>3, <1>4, <1>5, <1>6, <1>7, <1>8, <1>9, <1>10, <1>11, <1>12, <1>13, <1>14
    DEF Next

\* Nobody writes a row that a transaction has read, but that transaction.
LEMMA ViewStep == IInv /\ [Next]_vars => ViewCurrent'
  <1> SUFFICES ASSUME IInv, [Next]_vars PROVE ViewCurrent'
    OBVIOUS
  <1> USE DEF IInv, ViewCurrent, TypeOK
  <1>1. ASSUME NEW t \in Tickers, BeginTick(t)
        PROVE ViewCurrent'
    <2>1. PICK rows \in SUBSET Schedules :
             /\ Fetchable(rows)
             /\ ticks' = [ticks EXCEPT ![t] =
                  [pc |-> "working", at |-> now, view |-> [r \in rows |-> table[r].next],
                   moved |-> [r \in rows |-> table[r].next], left |-> rows, added |-> {}]]
      BY <1>1 DEF BeginTick
    <2>2. \A r \in rows : table[r].next <= now
      BY <2>1 DEF Fetchable, Due
    <2> QED
      BY <1>1, <2>1, <2>2 DEF BeginTick
  <1>2. ASSUME NEW t \in Tickers, NEW s \in Schedules, TickSchedule(t, s)
        PROVE ViewCurrent'
    <2>1. PICK added \in SUBSET Keys, slot \in Slots : Turn(t, s, added, slot)
      BY <1>2, TurnEffect DEF IInv
    <2>2. \A u \in Tickers :
            /\ ticks'[u].view = ticks[u].view /\ ticks'[u].at = ticks[u].at
            /\ DOMAIN ticks'[u].moved = DOMAIN ticks[u].moved
            /\ ticks'[u].left \subseteq ticks[u].left
      BY <2>1 DEF Turn, TypeOK, TickRecord
    <2>3. ASSUME NEW u \in Tickers, NEW r \in DOMAIN ticks'[u].view \ ticks'[u].left
          PROVE  Later(r, ticks'[u], ticks'[u].moved[r])
      <3>1. \/ ticks'[u].moved[r] = ticks[u].moved[r] /\ r \notin ticks[u].left
            \/ Later(r, ticks[u], ticks'[u].moved[r])
        BY <2>1, <2>2 DEF Turn, TypeOK, TickRecord
      <3> QED
        BY <2>2, <3>1 DEF Later
    <2>4. table' = table
      BY <1>2 DEF TickSchedule
    <2> QED
      BY <2>2, <2>3, <2>4
  <1>3. ASSUME NEW t \in Tickers, CommitTick(t)
        PROVE ViewCurrent'
    <2>1. \A u \in Tickers : ticks'[u] = IdleTick \/ ticks'[u] = ServingTick
      BY <1>3, NoneAssumption DEF CommitTick, AfterTick, LockHolder, TypeOK, TickRecord
    <2> QED
      BY <2>1 DEF IdleTick, ServingTick
  <1>4. ASSUME NEW t \in Tickers, AbortTick(t)
        PROVE ViewCurrent'
    <2>1. \A u \in Tickers : ticks'[u] = IdleTick \/ ticks'[u] = ServingTick
      BY <1>4, NoneAssumption DEF AbortTick, LockHolder, TypeOK, TickRecord
    <2> QED
      BY <2>1 DEF IdleTick, ServingTick
  <1>5. ASSUME NEW p \in Starts, ListSchedules(p)
        PROVE ViewCurrent'
    BY <1>5, ClockAssumption DEF ListSchedules
  <1>6. ASSUME NEW p \in Starts, NEW s \in Schedules, EnsureCore(p, s)
        PROVE ViewCurrent'
    BY <1>6 DEF EnsureCore, UpsertSchedule, WorkspaceLocked
  <1>7. ASSUME NEW p \in Starts, NEW s \in Schedules, EnsureScan(p, s)
        PROVE ViewCurrent'
    BY <1>7 DEF EnsureScan, UpsertSchedule, WorkspaceLocked
  <1>8. ASSUME NEW s \in Schedules, NEW enabled \in BOOLEAN,
             NEW next \in EditTimes, EditSchedule(s, enabled, next)
        PROVE ViewCurrent'
    BY <1>8 DEF EditSchedule, UpsertSchedule, WorkspaceLocked
  <1>9. ASSUME NEW kind \in Kinds, EnqueueManual(kind)
        PROVE ViewCurrent'
    BY <1>9, ClockAssumption DEF EnqueueManual
  <1>10. CASE JobSettles
    BY <1>10, ClockAssumption DEF JobSettles
  <1>11. CASE Tick
    BY <1>11, ClockAssumption DEF Tick
  <1>12. CASE UNCHANGED vars
    BY <1>12 DEF vars
  <1>13. ASSUME NEW t \in Tickers, TickFindsNothing(t)
        PROVE ViewCurrent'
    <2>1. \A u \in Tickers : ticks'[u] = ticks[u] \/ ticks'[u] = ServingTick
      BY <1>13 DEF TickFindsNothing
    <2> QED
      BY <1>13, <2>1 DEF TickFindsNothing, ServingTick, IdleTick
  <1>14. ASSUME NEW t \in Tickers, SlotsEnd(t)
        PROVE ViewCurrent'
    <2>1. \A u \in Tickers : ticks'[u] = ticks[u] \/ ticks'[u] = IdleTick
      BY <1>14 DEF SlotsEnd
    <2> QED
      BY <1>14, <2>1 DEF SlotsEnd, IdleTick
  <1> HIDE DEF IInv, ViewCurrent, TypeOK
  <1> QED
    BY <1>1, <1>2, <1>3, <1>4, <1>5, <1>6, <1>7, <1>8, <1>9, <1>10, <1>11, <1>12, <1>13, <1>14
    DEF Next

\* A transaction sees the jobs that it has added itself.
LEMMA AddedStep == IInv /\ [Next]_vars => AddedIsNew'
  <1> SUFFICES ASSUME IInv, [Next]_vars PROVE AddedIsNew'
    OBVIOUS
  <1> USE DEF IInv, AddedIsNew, TypeOK
  <1>1. ASSUME NEW t \in Tickers, BeginTick(t)
        PROVE AddedIsNew'
    BY <1>1 DEF BeginTick, TickRecord
  <1>2. ASSUME NEW t \in Tickers, NEW s \in Schedules, TickSchedule(t, s)
        PROVE AddedIsNew'
    <2>0. jobs' = jobs /\ manual' = manual
      BY <1>2 DEF TickSchedule
    <2>1. PICK added \in SUBSET Keys, slot \in Slots : Turn(t, s, added, slot)
      BY <1>2, TurnEffect DEF IInv
    <2> DEFINE key == <<s, ticks[t].view[s]>>
    <2>2. \A u \in Tickers : /\ ticks'[u].added = IF u = t THEN added ELSE ticks[u].added
                             /\ ticks'[u].view = ticks[u].view
      BY <2>1 DEF Turn, TickRecord
    <2>3. CASE added = ticks[t].added
      <3>1. \A u \in Tickers : ticks'[u].added = ticks[u].added /\ ticks'[u].view = ticks[u].view
        BY <2>2, <2>3
      <3> QED
        BY <2>0, <3>1
    <2>4. CASE /\ added = ticks[t].added \cup {key}
               /\ ~KindActive(t, KindOf[s])
               /\ KeyFree(t, key)
      <3>1. key \in Keys /\ key[1] = s /\ s \in DOMAIN ticks[t].view
        BY <2>1, <2>4 DEF Turn, ViewCurrent
      <3>2. /\ jobs[key] = "absent"
            /\ \A l \in ticks[t].added : KindOf[l[1]] # KindOf[s]
            /\ \A l \in Keys : jobs[l] = "active" => KindOf[l[1]] # KindOf[s]
            /\ manual[KindOf[s]] # "active"
        BY <2>4 DEF KindActive, KeyFree, TickRecord
      <3>3. ASSUME NEW u \in Tickers, NEW k \in ticks'[u].added
            PROVE  /\ jobs[k] = "absent"
                   /\ \A l \in ticks'[u].added : KindOf[k[1]] = KindOf[l[1]] => k = l
                   /\ \A l \in Keys : jobs[l] = "active" => KindOf[l[1]] # KindOf[k[1]]
                   /\ manual[KindOf[k[1]]] # "active"
                   /\ k[1] \in DOMAIN ticks'[u].view
        <4>1. CASE u = t
          <5>1. ticks'[u].added = ticks[t].added \cup {key} /\ ticks'[u].view = ticks[t].view
            BY <2>2, <2>4, <4>1
          <5>2. CASE k = key
            BY <3>1, <3>2, <5>1, <5>2
          <5>3. CASE k # key
            BY <3>1, <3>2, <3>3, <5>1, <5>3
          <5> QED
            BY <5>2, <5>3
        <4>2. CASE u # t
          BY <2>2, <3>3, <4>2
        <4> QED
          BY <4>1, <4>2
      <3> QED
        BY <2>0, <3>3
    <2> QED
      BY <2>1, <2>3, <2>4 DEF Turn
  <1>3. ASSUME NEW t \in Tickers, CommitTick(t)
        PROVE AddedIsNew'
    <2>1. \A u \in Tickers : ticks'[u] = IdleTick \/ ticks'[u] = ServingTick
      BY <1>3, NoneAssumption DEF CommitTick, AfterTick, LockHolder, TypeOK, TickRecord
    <2> QED
      BY <2>1 DEF IdleTick, ServingTick
  <1>4. ASSUME NEW t \in Tickers, AbortTick(t)
        PROVE AddedIsNew'
    <2>1. \A u \in Tickers : ticks'[u] = IdleTick \/ ticks'[u] = ServingTick
      BY <1>4, NoneAssumption DEF AbortTick, LockHolder, TypeOK, TickRecord
    <2> QED
      BY <2>1 DEF IdleTick, ServingTick
  <1>5. ASSUME NEW p \in Starts, ListSchedules(p)
        PROVE AddedIsNew'
    BY <1>5 DEF ListSchedules
  <1>6. ASSUME NEW p \in Starts, NEW s \in Schedules, EnsureCore(p, s)
        PROVE AddedIsNew'
    BY <1>6 DEF EnsureCore, UpsertSchedule
  <1>7. ASSUME NEW p \in Starts, NEW s \in Schedules, EnsureScan(p, s)
        PROVE AddedIsNew'
    BY <1>7 DEF EnsureScan, UpsertSchedule
  <1>8. ASSUME NEW s \in Schedules, NEW enabled \in BOOLEAN,
             NEW next \in EditTimes, EditSchedule(s, enabled, next)
        PROVE AddedIsNew'
    BY <1>8 DEF EditSchedule, UpsertSchedule
  <1>9. ASSUME NEW kind \in Kinds, EnqueueManual(kind)
        PROVE AddedIsNew'
    BY <1>9 DEF EnqueueManual, WorkspaceLocked
  <1>10. CASE JobSettles
    <2>1. \A k \in Keys : jobs'[k] = jobs[k] \/ (jobs[k] = "active" /\ jobs'[k] = "settled")
      BY <1>10 DEF JobSettles
    <2>2. \A kind \in Kinds : manual'[kind] = manual[kind] \/ manual'[kind] = "settled"
      BY <1>10 DEF JobSettles
    <2>3. \A t \in Tickers : \A k \in ticks[t].added : k \in Keys /\ KindOf[k[1]] \in Kinds
      BY KindAssumption DEF TickRecord, Keys
    <2>4. ticks' = ticks
      BY <1>10 DEF JobSettles
    <2> QED
      BY <2>1, <2>2, <2>3, <2>4
  <1>11. CASE Tick
    BY <1>11 DEF Tick
  <1>12. CASE UNCHANGED vars
    BY <1>12 DEF vars
  <1>13. ASSUME NEW t \in Tickers, TickFindsNothing(t)
        PROVE AddedIsNew'
    <2>1. \A u \in Tickers : ticks'[u] = ticks[u] \/ ticks'[u] = ServingTick
      BY <1>13 DEF TickFindsNothing
    <2> QED
      BY <1>13, <2>1 DEF TickFindsNothing, ServingTick, IdleTick
  <1>14. ASSUME NEW t \in Tickers, SlotsEnd(t)
        PROVE AddedIsNew'
    <2>1. \A u \in Tickers : ticks'[u] = ticks[u] \/ ticks'[u] = IdleTick
      BY <1>14 DEF SlotsEnd
    <2> QED
      BY <1>14, <2>1 DEF SlotsEnd, IdleTick
  <1> HIDE DEF IInv, AddedIsNew, TypeOK
  <1> QED
    BY <1>1, <1>2, <1>3, <1>4, <1>5, <1>6, <1>7, <1>8, <1>9, <1>10, <1>11, <1>12, <1>13, <1>14
    DEF Next

\* What a transaction commits is of kinds without an active job.
LEMMA KindStep == IInv /\ [Next]_vars => OneActivePerKind'
  <1> SUFFICES ASSUME IInv, [Next]_vars PROVE OneActivePerKind'
    OBVIOUS
  <1> USE DEF IInv, OneActivePerKind, TypeOK, AddedIsNew
  <1>1. ASSUME NEW t \in Tickers, BeginTick(t)
        PROVE OneActivePerKind'
    BY <1>1 DEF BeginTick
  <1>2. ASSUME NEW t \in Tickers, NEW s \in Schedules, TickSchedule(t, s)
        PROVE OneActivePerKind'
    BY <1>2 DEF TickSchedule
  <1>3. ASSUME NEW t \in Tickers, CommitTick(t)
        PROVE OneActivePerKind'
    BY <1>3 DEF CommitTick
  <1>4. ASSUME NEW t \in Tickers, AbortTick(t)
        PROVE OneActivePerKind'
    BY <1>4 DEF AbortTick
  <1>5. ASSUME NEW p \in Starts, ListSchedules(p)
        PROVE OneActivePerKind'
    BY <1>5 DEF ListSchedules
  <1>6. ASSUME NEW p \in Starts, NEW s \in Schedules, EnsureCore(p, s)
        PROVE OneActivePerKind'
    BY <1>6 DEF EnsureCore, UpsertSchedule
  <1>7. ASSUME NEW p \in Starts, NEW s \in Schedules, EnsureScan(p, s)
        PROVE OneActivePerKind'
    BY <1>7 DEF EnsureScan, UpsertSchedule
  <1>8. ASSUME NEW s \in Schedules, NEW enabled \in BOOLEAN,
             NEW next \in EditTimes, EditSchedule(s, enabled, next)
        PROVE OneActivePerKind'
    BY <1>8 DEF EditSchedule, UpsertSchedule
  <1>9. ASSUME NEW kind \in Kinds, EnqueueManual(kind)
        PROVE OneActivePerKind'
    BY <1>9 DEF EnqueueManual
  <1>10. CASE JobSettles
    BY <1>10 DEF JobSettles
  <1>11. CASE Tick
    BY <1>11 DEF Tick
  <1>12. CASE UNCHANGED vars
    BY <1>12 DEF vars
  <1>13. ASSUME NEW t \in Tickers, TickFindsNothing(t)
        PROVE OneActivePerKind'
    BY <1>13 DEF TickFindsNothing
  <1>14. ASSUME NEW t \in Tickers, SlotsEnd(t)
        PROVE OneActivePerKind'
    BY <1>14 DEF SlotsEnd
  <1> HIDE DEF IInv, OneActivePerKind, TypeOK, AddedIsNew
  <1> QED
    BY <1>1, <1>2, <1>3, <1>4, <1>5, <1>6, <1>7, <1>8, <1>9, <1>10, <1>11, <1>12, <1>13, <1>14
    DEF Next

-----------------------------------------------------------------------------
(* The results *)

\* Every step keeps the inductive invariant.
LEMMA StepKeeps == IInv /\ [Next]_vars => IInv'
  BY TypeStep, LockStep, ViewStep, AddedStep, KindStep DEF IInv

\* The inductive invariant holds in every reachable state.
THEOREM InductiveInvariant == Spec => []IInv
  <1>1. Init => IInv
    BY InitEstablishes
  <1>2. IInv /\ [Next]_vars => IInv'
    BY StepKeeps
  <1> QED
    BY <1>1, <1>2, PTL DEF Spec

\* Every row, transaction and worker start has its declared shape, and no
\* next_run_at leaves the range that the bounds allow (scheduler.py).
THEOREM TypeCorrect == Spec => []TypeOK
  <1>1. IInv => TypeOK
    BY DEF IInv
  <1> QED
    BY <1>1, InductiveInvariant, PTL

\* At most one job enqueued by the scheduler is active per kind.
THEOREM OneActive == Spec => []OneActivePerKind
  <1>1. IInv => OneActivePerKind
    BY DEF IInv
  <1> QED
    BY <1>1, InductiveInvariant, PTL

\* One tick at a time: two transactions never both hold fetched rows.
THEOREM OneTicker ==
  Spec => [](\A t, u \in Tickers : ticks[t].pc = "working" /\ ticks[u].pc = "working" => t = u)
  <1>1. IInv => \A t, u \in Tickers : ticks[t].pc = "working" /\ ticks[u].pc = "working" => t = u
    BY DEF IInv, LockHolder
  <1> QED
    BY <1>1, InductiveInvariant, PTL

\* The scheduler adds no job beside an active one of its kind that somebody
\* else enqueued: nobody can enqueue while the tick has rows of the workspace.
THEOREM OneBesideNone == Spec => NoneBesideManual
  <1> DEFINE Alone == \A k \in Keys :
        jobs[k] = "absent" /\ jobs'[k] = "active" => manual[KindOf[k[1]]] # "active"
  <1>1. IInv /\ [Next]_vars => [Alone]_vars
    <2> SUFFICES ASSUME IInv, Next PROVE Alone
      OBVIOUS
    <2>1. ASSUME NEW t \in Tickers, CommitTick(t) PROVE Alone
      <3>1. \A k \in ticks[t].added : manual[KindOf[k[1]]] # "active"
        BY DEF IInv, AddedIsNew
      <3> QED
        BY <2>1, <3>1 DEF CommitTick
    <2>2. CASE JobSettles
      BY <2>2 DEF JobSettles, IInv, TypeOK
    <2>3. CASE UNCHANGED jobs
      BY <2>3
    <2> HIDE DEF Alone
    <2> QED
      BY <2>1, <2>2, <2>3 DEF Next, BeginTick, TickFindsNothing, SlotsEnd, TickSchedule,
         AbortTick,
         ListSchedules, EnsureCore, EnsureScan, EditSchedule, EnqueueManual, Tick
  <1> QED
    BY <1>1, InductiveInvariant, PTL DEF Spec, NoneBesideManual

\* A run whose job has settled is never enqueued again, whatever moved
\* next_run_at back to it.
THEOREM RunsOnce == Spec => SlotRunsOnce
  <1> DEFINE Once == \A k \in Keys : jobs[k] = "settled" => jobs'[k] = "settled"
  <1>1. IInv /\ [Next]_vars => [Once]_vars
    <2> SUFFICES ASSUME IInv, Next PROVE Once
      OBVIOUS
    <2>1. ASSUME NEW t \in Tickers, CommitTick(t) PROVE Once
      <3>1. \A k \in ticks[t].added : jobs[k] = "absent"
        BY DEF IInv, AddedIsNew
      <3> QED
        BY <2>1, <3>1 DEF CommitTick
    <2>2. CASE JobSettles
      BY <2>2 DEF JobSettles, IInv, TypeOK
    <2>3. CASE UNCHANGED jobs
      BY <2>3
    <2> HIDE DEF Once
    <2> QED
      BY <2>1, <2>2, <2>3 DEF Next, BeginTick, TickFindsNothing, SlotsEnd, TickSchedule,
         AbortTick,
         ListSchedules, EnsureCore, EnsureScan, EditSchedule, EnqueueManual, Tick
  <1> QED
    BY <1>1, InductiveInvariant, PTL DEF Spec, SlotRunsOnce

\* A tick that commits moves every schedule it has fetched past the run it was
\* due for, and past the time of the tick unless it catches up run by run.
THEOREM TickAdvances ==
  Spec => [][\A t \in Tickers : CommitTick(t) =>
               \A s \in DOMAIN ticks[t].view : Later(s, ticks[t], table'[s].next)]_vars
  <1> DEFINE Advances ==
        \A t \in Tickers : CommitTick(t) =>
          \A s \in DOMAIN ticks[t].view : Later(s, ticks[t], table'[s].next)
  <1>1. IInv => Advances
    <2> SUFFICES ASSUME IInv, NEW t \in Tickers, CommitTick(t), NEW s \in DOMAIN ticks[t].view
                 PROVE  Later(s, ticks[t], table'[s].next)
      OBVIOUS
    <2>1. Later(s, ticks[t], ticks[t].moved[s]) /\ s \in DOMAIN ticks[t].moved
      BY DEF IInv, ViewCurrent, CommitTick
    <2>2. s \in Schedules /\ table[s] \in [present : BOOLEAN, enabled : BOOLEAN, next : Slots]
      BY DEF IInv, TypeOK, TickRecord, SlotMaps
    <2>3. table'[s].next = ticks[t].moved[s]
      BY <2>1, <2>2 DEF CommitTick
    <2> QED
      BY <2>1, <2>3
  <1>2. IInv /\ [Next]_vars => [Advances]_vars
    BY <1>1
  <1> QED
    BY <1>2, InductiveInvariant, PTL DEF Spec

\* The next_run_at that a tick writes was computed from the row it overwrites.
THEOREM EditsKept == Spec => CommitKeepsEdits
  <1> DEFINE Kept ==
        \A t \in Tickers :
          ticks[t].pc = "working" /\ ticks'[t].pc # "working" /\ table' # table
            => \A s \in DOMAIN ticks[t].view : table[s].next = ticks[t].view[s]
  <1>1. IInv => Kept
    BY DEF IInv, ViewCurrent
  <1>2. IInv /\ [Next]_vars => [Kept]_vars
    BY <1>1
  <1> QED
    BY <1>2, InductiveInvariant, PTL DEF Spec, CommitKeepsEdits
=============================================================================
