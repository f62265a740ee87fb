----------------------------- MODULE SyncProofs -----------------------------
(***************************************************************************)
(* Proofs about Sync, for any set of threads, priorities and nesting.      *)
(* IInv is inductive; the safety properties follow from it, and so does    *)
(* that the lock implements Mutex.                                         *)
(***************************************************************************)
EXTENDS Sync, SchedProofs

(* The thread that takes a step is a running worker or the idle thread.    *)
LEMMA AtLemma ==
    ASSUME IInv, NEW t \in Threads, NEW at, At(t, at)
    PROVE  /\ sched.cur = t
           /\ pc[t] = at
           /\ sched.panic = FALSE
           /\ sched.status[t] = "RUNNING"
BY Zenon DEF IInv, TypeOK, At, SchedulerConsistent, SchedConsistent, SchedState

(* A step that leaves the scheduler and the semaphore alone, and moves one *)
(* running worker to a location other than "wait", keeps the invariants    *)
(* about them.                                                             *)
LEMMA QuietLemma ==
    ASSUME IInv, NEW t \in Workers, NEW to \in WorkerPc \ {"wait"},
           sched.status[t] = "RUNNING", pc[t] # "wait",
           sched' = sched, sema' = sema, Goto(t, to)
    PROVE  /\ NoPanic'
           /\ SchedulerConsistent'
           /\ OneList'
           /\ NoLostWakeup'
<1>0. t \in Threads /\ t # Idle /\ Idle \in Threads
  BY SchedAssumption, Zenon DEF Workers
<1>1. /\ pc \in [Threads -> WorkerPc \cup IdlePc]
      /\ pc' = [pc EXCEPT ![t] = to]
  BY Zenon DEF IInv, TypeOK, Goto
<1>2. NoPanic'
  BY Zenon DEF IInv, NoPanic
<1>3. SchedulerConsistent'
  BY Zenon DEF IInv, SchedulerConsistent, SchedConsistent
<1>4. OneList'
  BY <1>0, <1>1, Zenon DEF IInv, OneList, Workers
<1>5. NoLostWakeup'
  BY <1>0, <1>1, Zenon DEF IInv, NoLostWakeup, Workers
<1> QED BY <1>2, <1>3, <1>4, <1>5, Zenon

(* The test of lock_acquire keeps the invariant.                           *)
LEMMA AcquireTestStep ==
    ASSUME IInv, NEW t \in Workers, AcquireTest(t)
    PROVE  IInv'
<1> DEFINE to == IF lock.holder # t THEN "down" ELSE "again"
<1>0. t \in Threads /\ t # Idle /\ Idle \in Threads /\ MaxDepth \in Nat
  BY SchedAssumption, SyncAssumption, Zenon DEF Workers
<1>1. sched.status[t] = "RUNNING" /\ pc[t] = "run"
  BY <1>0, AtLemma, Zenon DEF AcquireTest
<1>2. /\ pc \in [Threads -> WorkerPc \cup IdlePc]
      /\ pc' = [pc EXCEPT ![t] = to]
      /\ UNCHANGED <<sched, sema, lock, depth>>
      /\ to \in {"down", "again"}
      /\ depth \in [Threads -> 0..MaxDepth]
      /\ depth[t] < MaxDepth
  BY Zenon DEF IInv, TypeOK, AcquireTest, Goto
<1>3. /\ to = "down" => lock.holder # t
      /\ to = "again" => lock.holder = t
  BY Zenon
<1> HIDE DEF to
<1>4. to = "down" <=> depth[t] = 0
  BY <1>0, <1>1, <1>2, <1>3 DEF IInv, LockConsistent, Owners
<1>5. /\ NoPanic' /\ SchedulerConsistent' /\ OneList' /\ NoLostWakeup'
  BY <1>1, <1>2, QuietLemma, Zenon DEF WorkerPc, Goto
<1>6. TypeOK'
  BY <1>2, Zenon DEF IInv, TypeOK, WorkerPc
<1>7. LockConsistent'
  BY <1>0, <1>1, <1>2, <1>4 DEF IInv, LockConsistent, Owners, Workers
<1>8. Locations'
  BY <1>0, <1>1, <1>2, <1>4 DEF IInv, Locations, Workers, WorkerPc
<1>9. RepeatCounts'
  BY <1>0, <1>1, <1>2, <1>4, Zenon DEF IInv, RepeatCounts, Owners, Workers
<1> QED BY <1>5, <1>6, <1>7, <1>8, <1>9, Zenon DEF IInv
(* plock->holder = running_thread() keeps it.                              *)
LEMMA SetHolderStep ==
    ASSUME IInv, NEW t \in Workers, SetHolder(t)
    PROVE  IInv'
<1>0. t \in Threads /\ t # Idle /\ Idle \in Threads /\ MaxDepth \in Nat \ {0}
  BY SchedAssumption, SyncAssumption, Zenon DEF Workers
<1>1. sched.status[t] = "RUNNING" /\ pc[t] = "own"
  BY <1>0, AtLemma, Zenon DEF SetHolder
<1>2. t \in Owners /\ depth[t] = 1
  BY <1>0, <1>1 DEF IInv, TypeOK, Locations, LockConsistent, RepeatCounts, Owners, Workers
<1>3. /\ sched' = sched
      /\ sema' = sema
      /\ pc' = [pc EXCEPT ![t] = "count"]
      /\ lock' = [lock EXCEPT !.holder = t]
      /\ depth' = depth
  BY <1>1, <1>2, AssertLemma, Zenon DEF SetHolder, Goto, IInv, TypeOK
<1>4. /\ sched \in SchedState
      /\ sema \in [value : 0..1, waiters : Seq(Workers)]
      /\ lock \in [holder : Workers \cup {NoThread}, repeat : 0..MaxDepth]
      /\ pc \in [Threads -> WorkerPc \cup IdlePc]
      /\ depth \in [Threads -> 0..MaxDepth]
  BY Zenon DEF IInv, TypeOK
<1>5. /\ NoPanic' /\ SchedulerConsistent' /\ OneList' /\ NoLostWakeup'
  BY <1>1, <1>3, QuietLemma, Zenon DEF WorkerPc, Goto
<1>6. TypeOK'
  BY <1>0, <1>2, <1>3, <1>4, Zenon DEF TypeOK, WorkerPc
<1>7. LockConsistent'
  BY <1>0, <1>1, <1>2, <1>3, <1>4, SyncAssumption DEF IInv, LockConsistent, Owners, Workers
<1>8. Locations'
  BY <1>0, <1>1, <1>2, <1>3, <1>4 DEF IInv, Locations, Workers, WorkerPc
<1>9. RepeatCounts'
  BY <1>0, <1>1, <1>2, <1>3, <1>4 DEF IInv, LockConsistent, RepeatCounts, Owners, Workers
<1> QED BY <1>5, <1>6, <1>7, <1>8, <1>9 DEF IInv

(* plock->holder_repeat_nr = 1 keeps it, and its ASSERT holds.             *)
LEMMA SetCountStep ==
    ASSUME IInv, NEW t \in Workers, SetCount(t)
    PROVE  IInv'
<1>0. t \in Threads /\ t # Idle /\ Idle \in Threads /\ MaxDepth \in Nat \ {0}
  BY SchedAssumption, SyncAssumption DEF Workers
<1>1. sched.status[t] = "RUNNING" /\ pc[t] = "count"
  BY <1>0, AtLemma, Zenon DEF SetCount
<1>2. t \in Owners /\ depth[t] = 1 /\ lock.repeat = 0
  BY <1>0, <1>1 DEF IInv, TypeOK, Locations, LockConsistent, RepeatCounts, Owners, Workers
<1>3. /\ sched' = sched
      /\ sema' = sema
      /\ pc' = [pc EXCEPT ![t] = "run"]
      /\ lock' = [lock EXCEPT !.repeat = 1]
      /\ depth' = depth
  BY <1>1, <1>2, AssertLemma, Zenon DEF SetCount, Goto, IInv, TypeOK
<1>4. /\ sched \in SchedState
      /\ sema \in [value : 0..1, waiters : Seq(Workers)]
      /\ lock \in [holder : Workers \cup {NoThread}, repeat : 0..MaxDepth]
      /\ pc \in [Threads -> WorkerPc \cup IdlePc]
      /\ depth \in [Threads -> 0..MaxDepth]
  BY DEF IInv, TypeOK
<1>5. /\ NoPanic' /\ SchedulerConsistent' /\ OneList' /\ NoLostWakeup'
  BY <1>1, <1>3, QuietLemma, Zenon DEF WorkerPc, Goto
<1>6. TypeOK'
  BY <1>0, <1>2, <1>3, <1>4, Zenon DEF TypeOK, WorkerPc
<1>7. LockConsistent'
  BY <1>0, <1>1, <1>2, <1>3, <1>4, SyncAssumption DEF IInv, LockConsistent, Owners, Workers
<1>8. Locations'
  BY <1>0, <1>1, <1>2, <1>3, <1>4 DEF IInv, Locations, Workers, WorkerPc
<1>9. RepeatCounts'
  BY <1>0, <1>1, <1>2, <1>3, <1>4 DEF IInv, LockConsistent, RepeatCounts, Owners, Workers
<1> QED BY <1>5, <1>6, <1>7, <1>8, <1>9 DEF IInv

(* A nested lock_acquire keeps it.                                         *)
LEMMA AgainStep ==
    ASSUME IInv, NEW t \in Workers, Again(t)
    PROVE  IInv'
<1>0. t \in Threads /\ t # Idle /\ Idle \in Threads /\ MaxDepth \in Nat \ {0}
  BY SchedAssumption, SyncAssumption DEF Workers
<1>1. sched.status[t] = "RUNNING" /\ pc[t] = "again"
  BY <1>0, AtLemma, Zenon DEF Again
<1>2. /\ t \in Owners
      /\ depth[t] \in 1..MaxDepth-1
      /\ lock.repeat = depth[t]
  BY <1>0, <1>1 DEF IInv, TypeOK, Locations, LockConsistent, RepeatCounts, Owners, Workers
<1>3. /\ sched' = sched
      /\ sema' = sema
      /\ pc' = [pc EXCEPT ![t] = "run"]
      /\ lock' = [lock EXCEPT !.repeat = lock.repeat + 1]
      /\ depth' = [depth EXCEPT ![t] = depth[t] + 1]
  BY <1>1, <1>2, AssertLemma, Zenon DEF Again, Goto, IInv, TypeOK
<1>4. /\ sched \in SchedState
      /\ sema \in [value : 0..1, waiters : Seq(Workers)]
      /\ lock \in [holder : Workers \cup {NoThread}, repeat : 0..MaxDepth]
      /\ pc \in [Threads -> WorkerPc \cup IdlePc]
      /\ depth \in [Threads -> 0..MaxDepth]
  BY DEF IInv, TypeOK
<1>5. /\ NoPanic' /\ SchedulerConsistent' /\ OneList' /\ NoLostWakeup'
  BY <1>1, <1>3, QuietLemma, Zenon DEF WorkerPc, Goto
<1>6. TypeOK'
  <2>1. depth[t] + 1 \in 0..MaxDepth
    BY <1>0, <1>2
  <2>2. lock' \in [holder : Workers \cup {NoThread}, repeat : 0..MaxDepth]
    BY <1>2, <1>3, <1>4, <2>1, Zenon
  <2>3. depth' \in [Threads -> 0..MaxDepth]
    BY <1>3, <1>4, <2>1, Zenon
  <2> QED BY <1>3, <1>4, <2>2, <2>3, Zenon DEF TypeOK, WorkerPc
<1>7. LockConsistent'
  BY <1>0, <1>1, <1>2, <1>3, <1>4, SyncAssumption DEF IInv, LockConsistent, Owners, Workers
<1>8. Locations'
  BY <1>0, <1>1, <1>2, <1>3, <1>4 DEF IInv, Locations, Workers, WorkerPc
<1>9. RepeatCounts'
  BY <1>0, <1>1, <1>2, <1>3, <1>4 DEF IInv, LockConsistent, RepeatCounts, Owners, Workers
<1> QED BY <1>5, <1>6, <1>7, <1>8, <1>9 DEF IInv

(* A nested lock_release keeps it.                                         *)
LEMMA DropStep ==
    ASSUME IInv, NEW t \in Workers, Drop(t)
    PROVE  IInv'
<1>0. t \in Threads /\ t # Idle /\ Idle \in Threads /\ MaxDepth \in Nat \ {0}
  BY SchedAssumption, SyncAssumption DEF Workers
<1>1. sched.status[t] = "RUNNING" /\ pc[t] = "drop"
  BY <1>0, AtLemma, Zenon DEF Drop
<1>2. /\ t \in Owners
      /\ depth[t] \in 2..MaxDepth
      /\ lock.repeat = depth[t]
  BY <1>0, <1>1 DEF IInv, TypeOK, Locations, LockConsistent, RepeatCounts, Owners, Workers
<1>3. /\ sched' = sched
      /\ sema' = sema
      /\ pc' = [pc EXCEPT ![t] = "run"]
      /\ lock' = [lock EXCEPT !.repeat = lock.repeat - 1]
      /\ depth' = [depth EXCEPT ![t] = depth[t] - 1]
  BY <1>1, <1>2, AssertLemma, Zenon DEF Drop, Goto, IInv, TypeOK
<1>4. /\ sched \in SchedState
      /\ sema \in [value : 0..1, waiters : Seq(Workers)]
      /\ lock \in [holder : Workers \cup {NoThread}, repeat : 0..MaxDepth]
      /\ pc \in [Threads -> WorkerPc \cup IdlePc]
      /\ depth \in [Threads -> 0..MaxDepth]
  BY DEF IInv, TypeOK
<1>5. /\ NoPanic' /\ SchedulerConsistent' /\ OneList' /\ NoLostWakeup'
  BY <1>1, <1>3, QuietLemma, Zenon DEF WorkerPc, Goto
<1>6. TypeOK'
  <2>1. depth[t] - 1 \in 0..MaxDepth
    BY <1>0, <1>2
  <2>2. lock' \in [holder : Workers \cup {NoThread}, repeat : 0..MaxDepth]
    BY <1>2, <1>3, <1>4, <2>1, Zenon
  <2>3. depth' \in [Threads -> 0..MaxDepth]
    BY <1>3, <1>4, <2>1, Zenon
  <2> QED BY <1>3, <1>4, <2>2, <2>3, Zenon DEF TypeOK, WorkerPc
<1>7. LockConsistent'
  BY <1>0, <1>1, <1>2, <1>3, <1>4, SyncAssumption DEF IInv, LockConsistent, Owners, Workers
<1>8. Locations'
  BY <1>0, <1>1, <1>2, <1>3, <1>4 DEF IInv, Locations, Workers, WorkerPc
<1>9. RepeatCounts'
  BY <1>0, <1>1, <1>2, <1>3, <1>4 DEF IInv, LockConsistent, RepeatCounts, Owners, Workers
<1> QED BY <1>5, <1>6, <1>7, <1>8, <1>9 DEF IInv

(* plock->holder = NULL keeps it.                                          *)
LEMMA ClearHolderStep ==
    ASSUME IInv, NEW t \in Workers, ClearHolder(t)
    PROVE  IInv'
<1>0. t \in Threads /\ t # Idle /\ Idle \in Threads /\ MaxDepth \in Nat \ {0}
  BY SchedAssumption, SyncAssumption DEF Workers
<1>1. sched.status[t] = "RUNNING" /\ pc[t] = "clear"
  BY <1>0, AtLemma, Zenon DEF ClearHolder
<1>2. t \in Owners /\ depth[t] = 1
  BY <1>0, <1>1 DEF IInv, TypeOK, Locations, LockConsistent, RepeatCounts, Owners, Workers
<1>3. /\ sched' = sched
      /\ sema' = sema
      /\ pc' = [pc EXCEPT ![t] = "zero"]
      /\ lock' = [lock EXCEPT !.holder = NoThread]
      /\ depth' = depth
  BY <1>1, <1>2, AssertLemma, Zenon DEF ClearHolder, Goto, IInv, TypeOK
<1>4. /\ sched \in SchedState
      /\ sema \in [value : 0..1, waiters : Seq(Workers)]
      /\ lock \in [holder : Workers \cup {NoThread}, repeat : 0..MaxDepth]
      /\ pc \in [Threads -> WorkerPc \cup IdlePc]
      /\ depth \in [Threads -> 0..MaxDepth]
  BY DEF IInv, TypeOK
<1>5. /\ NoPanic' /\ SchedulerConsistent' /\ OneList' /\ NoLostWakeup'
  BY <1>1, <1>3, QuietLemma, Zenon DEF WorkerPc, Goto
<1>6. TypeOK'
  BY <1>0, <1>2, <1>3, <1>4, Zenon DEF TypeOK, WorkerPc
<1>7. LockConsistent'
  BY <1>0, <1>1, <1>2, <1>3, <1>4, SyncAssumption DEF IInv, LockConsistent, Owners, Workers
<1>8. Locations'
  BY <1>0, <1>1, <1>2, <1>3, <1>4 DEF IInv, Locations, Workers, WorkerPc
<1>9. RepeatCounts'
  BY <1>0, <1>1, <1>2, <1>3, <1>4 DEF IInv, LockConsistent, RepeatCounts, Owners, Workers
<1> QED BY <1>5, <1>6, <1>7, <1>8, <1>9 DEF IInv

(* plock->holder_repeat_nr = 0 keeps it.                                   *)
LEMMA ClearCountStep ==
    ASSUME IInv, NEW t \in Workers, ClearCount(t)
    PROVE  IInv'
<1>0. t \in Threads /\ t # Idle /\ Idle \in Threads /\ MaxDepth \in Nat \ {0}
  BY SchedAssumption, SyncAssumption DEF Workers
<1>1. sched.status[t] = "RUNNING" /\ pc[t] = "zero"
  BY <1>0, AtLemma, Zenon DEF ClearCount
<1>2. t \in Owners /\ depth[t] = 1
  BY <1>0, <1>1 DEF IInv, TypeOK, Locations, LockConsistent, RepeatCounts, Owners, Workers
<1>3. /\ sched' = sched
      /\ sema' = sema
      /\ pc' = [pc EXCEPT ![t] = "up"]
      /\ lock' = [lock EXCEPT !.repeat = 0]
      /\ depth' = depth
  BY <1>1, <1>2, AssertLemma, Zenon DEF ClearCount, Goto, IInv, TypeOK
<1>4. /\ sched \in SchedState
      /\ sema \in [value : 0..1, waiters : Seq(Workers)]
      /\ lock \in [holder : Workers \cup {NoThread}, repeat : 0..MaxDepth]
      /\ pc \in [Threads -> WorkerPc \cup IdlePc]
      /\ depth \in [Threads -> 0..MaxDepth]
  BY DEF IInv, TypeOK
<1>5. /\ NoPanic' /\ SchedulerConsistent' /\ OneList' /\ NoLostWakeup'
  BY <1>1, <1>3, QuietLemma, Zenon DEF WorkerPc, Goto
<1>6. TypeOK'
  BY <1>0, <1>2, <1>3, <1>4, SMTT(30) DEF TypeOK, WorkerPc
<1>7. LockConsistent'
  BY <1>0, <1>1, <1>2, <1>3, <1>4, SyncAssumption DEF IInv, LockConsistent, Owners, Workers
<1>8. Locations'
  BY <1>0, <1>1, <1>2, <1>3, <1>4, Zenon DEF IInv, Locations, Workers, WorkerPc
<1>9. RepeatCounts'
  BY <1>0, <1>1, <1>2, <1>3, <1>4 DEF IInv, LockConsistent, RepeatCounts, Owners, Workers
<1> QED BY <1>5, <1>6, <1>7, <1>8, <1>9 DEF IInv

(* The ASSERTs and the test of lock_release keep it.                       *)
LEMMA ReleaseTestStep ==
    ASSUME IInv, NEW t \in Workers, ReleaseTest(t)
    PROVE  IInv'
<1> DEFINE to == IF lock.repeat > 1 THEN "drop" ELSE "clear"
<1>0. t \in Threads /\ t # Idle /\ Idle \in Threads /\ MaxDepth \in Nat \ {0}
  BY SchedAssumption, SyncAssumption DEF Workers
<1>1. sched.status[t] = "RUNNING" /\ pc[t] = "run"
  BY <1>0, AtLemma, Zenon DEF ReleaseTest
<1>2. /\ t \in Owners
      /\ lock.holder = t
      /\ lock.repeat = depth[t]
      /\ depth[t] \in 1..MaxDepth
  BY <1>0, <1>1 DEF IInv, TypeOK, ReleaseTest, LockConsistent, RepeatCounts, Owners, Workers
<1>3. /\ sched' = sched
      /\ sema' = sema
      /\ pc' = [pc EXCEPT ![t] = to]
      /\ lock' = lock
      /\ depth' = depth
  <2>1. (/\ lock.holder = t
         /\ lock.repeat > 1 \/ lock.repeat = 1) = TRUE
    BY <1>0, <1>2
  <2>2. sched \in SchedState
    BY Zenon DEF IInv, TypeOK
  <2> QED BY <2>1, <2>2, AssertLemma, Zenon DEF ReleaseTest, Goto
<1>4. /\ to = "drop" => depth[t] > 1
      /\ to = "clear" => depth[t] = 1
      /\ to \in {"drop", "clear"}
  BY <1>0, <1>2
<1> HIDE DEF to
<1>5. /\ sched \in SchedState
      /\ sema \in [value : 0..1, waiters : Seq(Workers)]
      /\ lock \in [holder : Workers \cup {NoThread}, repeat : 0..MaxDepth]
      /\ pc \in [Threads -> WorkerPc \cup IdlePc]
      /\ depth \in [Threads -> 0..MaxDepth]
  BY DEF IInv, TypeOK
<1>6. /\ NoPanic' /\ SchedulerConsistent' /\ OneList' /\ NoLostWakeup'
  BY <1>1, <1>3, <1>4, QuietLemma, Zenon DEF WorkerPc, Goto
<1>7. TypeOK'
  BY <1>3, <1>4, <1>5, Zenon DEF TypeOK, WorkerPc
<1>8. LockConsistent'
  BY <1>0, <1>1, <1>2, <1>3, <1>4, <1>5 DEF IInv, LockConsistent, Owners, Workers
<1>9. Locations'
  BY <1>0, <1>1, <1>2, <1>3, <1>4, <1>5 DEF IInv, Locations, Workers, WorkerPc
<1>10. RepeatCounts'
  BY <1>0, <1>1, <1>2, <1>3, <1>4, <1>5, Zenon DEF IInv, RepeatCounts, Owners, Workers
<1> QED BY <1>6, <1>7, <1>8, <1>9, <1>10 DEF IInv

(* sema_down taking the unit keeps it.                                     *)
LEMMA sema_down_takeStep ==
    ASSUME IInv, NEW t \in Workers, sema_down_take(t)
    PROVE  IInv'
<1>0. t \in Threads /\ t # Idle /\ Idle \in Threads /\ MaxDepth \in Nat \ {0}
  BY SchedAssumption, SyncAssumption DEF Workers
<1>1. sched.status[t] = "RUNNING" /\ pc[t] \in {"down", "wait"} /\ sched.cur = t
  BY <1>0, AtLemma, Zenon DEF sema_down_take
<1>2. /\ sched \in SchedState
      /\ sema \in [value : 0..1, waiters : Seq(Workers)]
      /\ lock \in [holder : Workers \cup {NoThread}, repeat : 0..MaxDepth]
      /\ pc \in [Threads -> WorkerPc \cup IdlePc]
      /\ depth \in [Threads -> 0..MaxDepth]
  BY DEF IInv, TypeOK
<1>3. sema.value = 1 /\ Owners = {} /\ depth[t] = 0 /\ lock.repeat = 0 /\ lock.holder \notin Workers
  BY <1>0, <1>1, <1>2 DEF sema_down_take, IInv, LockConsistent, RepeatCounts, Locations
<1>4. /\ sched' = sched
      /\ sema' = [sema EXCEPT !.value = 0]
      /\ lock' = lock
      /\ pc' = [pc EXCEPT ![t] = "own"]
      /\ depth' = [depth EXCEPT ![t] = 1]
  <2>1. sema.value - 1 = 0
    BY <1>3
  <2>2. ASSERT(sched, sema.value - 1 = 0) = sched
    BY <1>2, <2>1, AssertLemma, Zenon
  <2> QED BY <2>1, <2>2, Zenon DEF sema_down_take, Goto
<1>5. TypeOK'
  BY <1>0, <1>2, <1>4 DEF TypeOK, WorkerPc
<1>6. NoPanic' /\ SchedulerConsistent'
  BY <1>4, Zenon DEF IInv, NoPanic, SchedulerConsistent, SchedConsistent
<1>7. OneList'
  BY <1>0, <1>1, <1>2, <1>4, Zenon DEF IInv, OneList, Workers
<1>8. Owners' = {t}
  BY <1>0, <1>2, <1>3, <1>4 DEF Owners, Workers
<1>9. LockConsistent'
  BY <1>0, <1>2, <1>3, <1>4, <1>8 DEF LockConsistent, Workers
<1>10. NoLostWakeup'
  BY <1>2, <1>4 DEF NoLostWakeup
<1>12. Locations'
  BY <1>0, <1>1, <1>2, <1>4 DEF IInv, Locations, Workers, WorkerPc
<1>13. RepeatCounts'
  BY <1>0, <1>2, <1>3, <1>4, <1>8 DEF RepeatCounts, Workers
<1> QED BY <1>5, <1>6, <1>7, <1>9, <1>10, <1>12, <1>13, Zenon DEF IInv

(* sema_down queueing and blocking keeps it.                               *)
LEMMA sema_down_waitStep ==
    ASSUME IInv, NEW t \in Workers, sema_down_wait(t)
    PROVE  IInv'
<1>0. t \in Threads /\ t # Idle /\ Idle \in Threads /\ MaxDepth \in Nat \ {0}
  BY SchedAssumption, SyncAssumption DEF Workers
<1>1. sched.status[t] = "RUNNING" /\ pc[t] \in {"down", "wait"} /\ sched.cur = t
  BY <1>0, AtLemma, Zenon DEF sema_down_wait
<1>2. /\ sched \in SchedState
      /\ sema \in [value : 0..1, waiters : Seq(Workers)]
      /\ lock \in [holder : Workers \cup {NoThread}, repeat : 0..MaxDepth]
      /\ pc \in [Threads -> WorkerPc \cup IdlePc]
      /\ depth \in [Threads -> 0..MaxDepth]
  BY DEF IInv, TypeOK
<1>3. ~elem_find(sema.waiters, t) /\ NoDuplicates(sema.waiters)
  BY <1>1, Zenon DEF IInv, OneList
<1>4. /\ sched' = thread_block(sched)
      /\ sema' = [sema EXCEPT !.waiters = list_append(sema.waiters, t)]
      /\ lock' = lock
      /\ pc' = [pc EXCEPT ![t] = "wait"]
      /\ depth' = depth
      /\ sema.value = 0
  BY <1>2, <1>3, AssertLemma, Zenon DEF sema_down_wait, Goto
<1>5. /\ Kept(sched, sched', Threads \ {t})
      /\ sched'.status[t] = "BLOCKED"
      /\ sched'.status[Idle] = "READY" => sched.status[Idle] = "READY"
      /\ sched'.cur = Idle /\ sched.status[Idle] # "READY" => sched'.ready = <<>>
  <2>1. SchedConsistent(sched) /\ sched.status[Idle] # "NONE"
    BY Zenon DEF IInv, SchedulerConsistent, Locations
  <2> QED BY <1>0, <1>1, <1>2, <1>4, <2>1, BlockLemma, Zenon
<1>6. /\ list_append(sema.waiters, t) \in Seq(Workers)
      /\ \A x : elem_find(list_append(sema.waiters, t), x)
                  <=> elem_find(sema.waiters, x) \/ x = t
      /\ NoDuplicates(list_append(sema.waiters, t))
  <2>1. sema.waiters \in Seq(Workers)
    BY <1>2, Zenon
  <2> QED BY <1>3, <2>1, AppendLemma
<1>7. /\ sema' \in [value : 0..1, waiters : Seq(Workers)]
      /\ sema'.waiters = list_append(sema.waiters, t)
      /\ sema'.value = 0
  BY <1>2, <1>4, <1>6, Zenon
<1>8. TypeOK'
  BY <1>0, <1>2, <1>4, <1>5, <1>7, Zenon DEF TypeOK, WorkerPc, Kept
<1>9. NoPanic' /\ SchedulerConsistent'
  BY <1>5, Zenon DEF IInv, NoPanic, SchedulerConsistent, Kept
<1>10. OneList'
  BY <1>0, <1>2, <1>4, <1>5, <1>6, <1>7, Zenon DEF IInv, OneList, Workers, Kept
<1>11. Owners' = Owners /\ t \notin Owners
  BY <1>0, <1>1, <1>2, <1>4 DEF IInv, Locations, Owners, Workers
<1>12. LockConsistent'
  BY <1>0, <1>2, <1>4, <1>7, <1>11 DEF IInv, LockConsistent
<1>13. NoLostWakeup'
  BY <1>7 DEF NoLostWakeup
<1>15. Locations'
  BY <1>0, <1>1, <1>2, <1>4, <1>5 DEF IInv, Locations, Workers, WorkerPc, Kept
<1>16. RepeatCounts'
  BY <1>0, <1>2, <1>4, <1>11 DEF IInv, RepeatCounts, Workers
<1> QED BY <1>8, <1>9, <1>10, <1>12, <1>13, <1>15, <1>16 DEF IInv

(* sema_up keeps it, with and without a waiter.                            *)
LEMMA sema_upStep ==
    ASSUME IInv, NEW t \in Workers, sema_up(t)
    PROVE  IInv'
<1>0. t \in Threads /\ t # Idle /\ Idle \in Threads /\ MaxDepth \in Nat \ {0}
  BY SchedAssumption, SyncAssumption DEF Workers
<1>1. sched.status[t] = "RUNNING" /\ pc[t] = "up" /\ sched.cur = t
  BY <1>0, AtLemma, Zenon DEF sema_up
<1>2. /\ sched \in SchedState
      /\ sema \in [value : 0..1, waiters : Seq(Workers)]
      /\ lock \in [holder : Workers \cup {NoThread}, repeat : 0..MaxDepth]
      /\ pc \in [Threads -> WorkerPc \cup IdlePc]
      /\ depth \in [Threads -> 0..MaxDepth]
  BY DEF IInv, TypeOK
<1>3. /\ t \in Owners
      /\ Owners = {t}
      /\ sema.value = 0
      /\ lock.repeat = 0
      /\ depth[t] = 1
      /\ lock.holder \notin Workers
  BY <1>0, <1>1, <1>2 DEF IInv, LockConsistent, RepeatCounts, Locations, Owners
<1>4. /\ lock' = lock
      /\ pc' = [pc EXCEPT ![t] = "run"]
      /\ depth' = [depth EXCEPT ![t] = 0]
      /\ sema'.value = 1
  BY <1>2, <1>3 DEF sema_up, Goto
<1>5. ASSERT(sched, sema.value = 0) = sched
  BY <1>2, <1>3, AssertLemma, Zenon
<1>6. Owners' = {}
  BY <1>0, <1>2, <1>3, <1>4 DEF Owners, Workers
<1>7. LockConsistent'
  BY <1>3, <1>4, <1>6, Zenon DEF LockConsistent
<1>8. RepeatCounts'
  BY <1>3, <1>4, <1>6, Zenon DEF RepeatCounts
<1>9. CASE sema.waiters = <<>>
  <2>1. sched' = sched /\ sema' = [sema EXCEPT !.value = 1]
    BY <1>3, <1>5, <1>9, <1>2 DEF sema_up
  <2>2. TypeOK'
    BY <1>0, <1>2, <1>4, <2>1 DEF TypeOK, WorkerPc
  <2>3. NoPanic' /\ SchedulerConsistent'
    BY <2>1, Zenon DEF IInv, NoPanic, SchedulerConsistent, SchedConsistent
  <2>4. OneList'
    BY <1>0, <1>1, <1>2, <1>4, <2>1, Zenon DEF IInv, OneList, Workers
  <2>5. NoLostWakeup'
    BY <1>2, <1>9, <2>1, Zenon DEF NoLostWakeup
  <2>7. Locations'
    BY <1>0, <1>1, <1>2, <1>4, <2>1 DEF IInv, Locations, Workers, WorkerPc
  <2> QED BY <1>7, <1>8, <2>2, <2>3, <2>4, <2>5, <2>7, Zenon DEF IInv
<1>10. CASE sema.waiters # <<>>
  <2> DEFINE w == Head(sema.waiters)
             rest == Tail(sema.waiters)
  <2>1. /\ sched' = thread_unblock(sched, w)
        /\ sema' = [value |-> 1, waiters |-> rest]
    BY <1>3, <1>5, <1>10 DEF sema_up
  <2>2. /\ w \in Workers
        /\ elem_find(sema.waiters, w)
        /\ rest \in Seq(Workers)
        /\ NoDuplicates(rest)
        /\ \A x : elem_find(rest, x) <=> elem_find(sema.waiters, x) /\ x # w
    <3>1. sema.waiters \in Seq(Workers) /\ NoDuplicates(sema.waiters)
      BY <1>2, Zenon DEF IInv, OneList
    <3> QED BY <1>10, <3>1, PopLemma, Zenon
  <2> HIDE DEF w, rest
  <2>3. w \in Threads /\ w # Idle /\ w # t /\ pc[w] = "wait" /\ sched.status[w] = "BLOCKED"
    BY <1>1, <2>2, Zenon DEF IInv, OneList, Workers
  <2>4. /\ sched' \in SchedState
        /\ sched'.cur = t
        /\ sched'.status = [sched.status EXCEPT ![w] = "READY"]
        /\ sched'.panic = sched.panic
        /\ \A u \in Threads : sched'.status[u] = "READY" <=> elem_find(sched'.ready, u)
        /\ NoDuplicates(sched'.ready)
        /\ sched.status \in [Threads -> Status]
    <3>1. /\ \A u \in Threads : sched.status[u] = "READY" <=> elem_find(sched.ready, u)
          /\ NoDuplicates(sched.ready)
      BY Zenon DEF IInv, SchedulerConsistent, SchedConsistent
    <3>2. sched.status \in [Threads -> Status]
      BY <1>2, Zenon DEF SchedState
    <3> QED BY <1>1, <1>2, <2>1, <2>3, <3>1, <3>2, UnblockLemma
  <2>5. TypeOK'
    BY <1>0, <1>2, <1>4, <2>1, <2>2, <2>4 DEF TypeOK, WorkerPc
  <2>6. NoPanic'
    BY <2>4, Zenon DEF IInv, NoPanic
  <2>7. SchedulerConsistent'
    <3>1. \A u \in Threads : sched'.status[u] = "RUNNING" <=> u = sched'.cur
      BY <1>1, <2>3, <2>4 DEF IInv, SchedulerConsistent, SchedConsistent
    <3> QED BY <2>4, <3>1, Zenon DEF SchedulerConsistent, SchedConsistent
  <2>8. OneList'
    BY <1>0, <1>1, <1>2, <1>4, <2>1, <2>2, <2>3, <2>4 DEF IInv, OneList, Workers
  <2>9. NoLostWakeup'
    <3>1. pc'[w] = "wait" /\ sched'.status[w] # "BLOCKED"
      BY <1>2, <1>4, <2>3, <2>4, Zenon
    <3> QED BY <2>2, <3>1, Zenon DEF NoLostWakeup
  <2>11. Locations'
    BY <1>0, <1>1, <1>2, <1>4, <2>3, <2>4 DEF IInv, Locations, Workers, WorkerPc
  <2> QED BY <1>7, <1>8, <2>5, <2>6, <2>7, <2>8, <2>9, <2>11, Zenon DEF IInv
<1> QED BY <1>9, <1>10, Zenon

(* Making a new thread ready keeps it.                                     *)
LEMMA process_executeStep ==
    ASSUME IInv, NEW t \in Workers, NEW new \in Workers, process_execute(t, new)
    PROVE  IInv'
<1>0. t \in Threads /\ new \in Threads /\ t # Idle /\ new # Idle /\ Idle \in Threads
  BY SchedAssumption, Zenon DEF Workers
<1>1. sched.status[t] = "RUNNING" /\ sched.cur = t
  BY <1>0, AtLemma, Zenon DEF process_execute
<1>2. /\ sched' = make_ready(sched, new)
      /\ sched.status[new] = "NONE"
      /\ UNCHANGED <<sema, lock, pc, depth>>
  BY Zenon DEF process_execute
<1>3. /\ sched \in SchedState
      /\ sema \in [value : 0..1, waiters : Seq(Workers)]
      /\ lock \in [holder : Workers \cup {NoThread}, repeat : 0..MaxDepth]
      /\ pc \in [Threads -> WorkerPc \cup IdlePc]
      /\ depth \in [Threads -> 0..MaxDepth]
  BY Zenon DEF IInv, TypeOK
<1>4. /\ sched' \in SchedState
      /\ SchedConsistent(sched')
      /\ sched'.cur = t
      /\ sched'.status = [sched.status EXCEPT ![new] = "READY"]
      /\ sched'.panic = sched.panic
      /\ sched.status \in [Threads -> Status]
  <2>1. SchedConsistent(sched)
    BY Zenon DEF IInv, SchedulerConsistent
  <2>2. sched.status \in [Threads -> Status]
    BY <1>3, Zenon DEF SchedState
  <2> QED BY <1>0, <1>1, <1>2, <1>3, <2>1, <2>2, MakeReadyLemma, Zenon
<1>5. TypeOK'
  BY <1>2, <1>3, <1>4, Zenon DEF TypeOK
<1>6. NoPanic' /\ SchedulerConsistent'
  BY <1>4, Zenon DEF IInv, NoPanic, SchedulerConsistent
<1>7. OneList'
  BY <1>0, <1>2, <1>4, Zenon DEF IInv, OneList, Workers
<1>8. LockConsistent' /\ RepeatCounts'
  BY <1>2, Zenon DEF IInv, LockConsistent, RepeatCounts, Owners
<1>9. NoLostWakeup'
  BY <1>0, <1>2, <1>4, Zenon DEF IInv, NoLostWakeup, Workers
<1>11. Locations'
  BY <1>0, <1>2, <1>4 DEF IInv, Locations, Workers
<1> QED BY <1>5, <1>6, <1>7, <1>8, <1>9, <1>11, Zenon DEF IInv

(* A step of the scheduler that blocks and unblocks no worker: thread_yield *)
(* or the timer.  Idle may move to "block" only.                           *)
LEMMA KeptLemma ==
    ASSUME IInv,
           Kept(sched, sched', Threads),
           UNCHANGED <<sema, lock, depth>>,
           pc' = pc \/ pc' = [pc EXCEPT ![Idle] = "block"]
    PROVE  IInv'
<1>0. Idle \in Threads
  BY SchedAssumption, Zenon
<1>1. /\ sched \in SchedState
      /\ sema \in [value : 0..1, waiters : Seq(Workers)]
      /\ lock \in [holder : Workers \cup {NoThread}, repeat : 0..MaxDepth]
      /\ pc \in [Threads -> WorkerPc \cup IdlePc]
      /\ depth \in [Threads -> 0..MaxDepth]
  BY Zenon DEF IInv, TypeOK
<1>2. \A t \in Workers : pc'[t] = pc[t] /\ t # Idle /\ t \in Threads
  BY <1>0, <1>1, Zenon DEF Workers
<1>3. \A t \in Workers :
        /\ sched'.status[t] = "BLOCKED" <=> sched.status[t] = "BLOCKED"
        /\ sched'.status[t] = "NONE" <=> sched.status[t] = "NONE"
  BY <1>2, Zenon DEF Kept, Workers
<1>4. pc'[Idle] \in IdlePc
  BY <1>0, <1>1, Zenon DEF IInv, Locations, IdlePc
<1>5. TypeOK'
  BY <1>1, <1>0, Zenon DEF TypeOK, Kept, IdlePc
<1>6. NoPanic' /\ SchedulerConsistent'
  BY Zenon DEF IInv, NoPanic, SchedulerConsistent, Kept
<1>7. OneList'
  BY <1>2, <1>3, Zenon DEF IInv, OneList
<1>8. Owners' = Owners /\ \A t \in Owners : t \in Workers
  BY Zenon DEF Owners
<1>9. LockConsistent'
  BY <1>2, <1>8, Zenon DEF IInv, LockConsistent
<1>10. RepeatCounts'
  BY <1>2, <1>8, Zenon DEF IInv, RepeatCounts
<1>11. NoLostWakeup'
  BY <1>2, <1>3, Zenon DEF IInv, NoLostWakeup
<1>12. Locations'
  BY <1>2, <1>3, <1>4 DEF IInv, Locations, Kept
<1> QED BY <1>5, <1>6, <1>7, <1>9, <1>10, <1>11, <1>12, Zenon DEF IInv

(* thread_yield keeps it.                                                  *)
LEMMA YieldStep ==
    ASSUME IInv, NEW t \in Workers, Yield(t)
    PROVE  IInv'
<1>0. t \in Threads /\ t # Idle
  BY Zenon DEF Workers
<1>1. sched.cur = t
  BY <1>0, AtLemma, Zenon DEF Yield
<1>2. sched' = thread_yield(sched) /\ UNCHANGED <<sema, lock, pc, depth>>
  BY Zenon DEF Yield
<1>3. sched \in SchedState /\ SchedConsistent(sched) /\ sched.status[Idle] # "NONE"
  BY Zenon DEF IInv, TypeOK, SchedulerConsistent, Locations
<1>4. Kept(sched, sched', Threads)
  BY <1>0, <1>1, <1>2, <1>3, YieldLemma, Zenon
<1> QED BY <1>2, <1>4, KeptLemma, Zenon

(* An interrupt moves at most the idle thread, from "hlt" to "block".      *)
LEMMA InterruptLemma ==
    ASSUME IInv, Interrupt
    PROVE  pc' = pc \/ pc' = [pc EXCEPT ![Idle] = "block"]
<1>1. sched.cur # Idle => pc[sched.cur] # "hlt"
  BY Zenon DEF IInv, TypeOK, Locations, Workers, WorkerPc, SchedState
<1> QED BY <1>1, Zenon DEF Interrupt

(* The timer interrupt keeps it.                                           *)
LEMMA TimerStep ==
    ASSUME IInv, Timer
    PROVE  IInv'
<1>1. sched' = intr_timer_handler(sched) /\ UNCHANGED <<sema, lock, depth>>
  BY Zenon DEF Timer
<1>2. sched \in SchedState /\ SchedConsistent(sched) /\ sched.status[Idle] # "NONE"
  BY Zenon DEF IInv, TypeOK, SchedulerConsistent, Locations
<1>3. Kept(sched, sched', Threads)
  BY <1>1, <1>2, TimerLemma, Zenon
<1>4. pc' = pc \/ pc' = [pc EXCEPT ![Idle] = "block"]
  BY InterruptLemma, Zenon DEF Timer
<1> QED BY <1>1, <1>3, <1>4, KeptLemma, Zenon

(* A thread that waits for an interrupt handler keeps it.                  *)
LEMMA SleepStep ==
    ASSUME IInv, NEW t \in Workers, Sleep(t)
    PROVE  IInv'
<1>0. t \in Threads /\ t # Idle /\ Idle \in Threads
  BY SchedAssumption, Zenon DEF Workers
<1>1. sched.status[t] = "RUNNING" /\ pc[t] = "run" /\ sched.cur = t
  BY <1>0, AtLemma, Zenon DEF Sleep
<1>2. /\ sched \in SchedState
      /\ pc \in [Threads -> WorkerPc \cup IdlePc]
      /\ SchedConsistent(sched)
      /\ sched.status[Idle] # "NONE"
  BY Zenon DEF IInv, TypeOK, SchedulerConsistent, Locations
<1>3. /\ sched' = thread_block(sched)
      /\ pc' = [pc EXCEPT ![t] = "sleep"]
      /\ UNCHANGED <<sema, lock, depth>>
  BY Zenon DEF Sleep, Goto
<1>4. Kept(sched, sched', Threads \ {t}) /\ sched'.status[t] = "BLOCKED"
  BY <1>0, <1>1, <1>2, <1>3, BlockLemma, Zenon
<1>5. TypeOK'
  BY <1>0, <1>2, <1>3, <1>4, Zenon DEF IInv, TypeOK, WorkerPc, Kept
<1>6. NoPanic' /\ SchedulerConsistent'
  BY <1>4, Zenon DEF IInv, NoPanic, SchedulerConsistent, Kept
<1>7. OneList'
  BY <1>0, <1>1, <1>2, <1>3, <1>4, Zenon DEF IInv, OneList, Workers, Kept
<1>8. LockConsistent' /\ RepeatCounts'
  <2>1. /\ Owners' = Owners
        /\ lock' = lock /\ depth' = depth /\ sema' = sema
    BY <1>3, Zenon DEF Owners
  <2>2. pc'[t] = "sleep" /\ \A u \in Workers \ {t} : pc'[u] = pc[u]
    BY <1>0, <1>2, <1>3, Zenon DEF Workers
  <2>3. Owners \subseteq Workers
    BY Zenon DEF Owners
  <2>4. LockConsistent'
    BY <1>1, <2>1, <2>2 DEF IInv, LockConsistent
  <2>5. RepeatCounts'
    BY <1>1, <2>1, <2>2, <2>3, Zenon DEF IInv, RepeatCounts
  <2> QED BY <2>4, <2>5, Zenon
<1>9. NoLostWakeup'
  BY <1>0, <1>1, <1>2, <1>3, <1>4, Zenon DEF IInv, NoLostWakeup, Workers, Kept
<1>10. Locations'
  <2>1. pc'[t] = "sleep" /\ \A u \in Threads \ {t} : pc'[u] = pc[u]
    BY <1>0, <1>2, <1>3, Zenon
  <2>2. Locations /\ depth' = depth
    BY <1>3, Zenon DEF IInv
  <2>3. \A u \in Workers \ {t} :
          /\ sched'.status[u] = "BLOCKED" => sched.status[u] = "BLOCKED"
          /\ sched'.status[u] = "NONE" => sched.status[u] = "NONE"
    BY <1>4, Zenon DEF Kept, Workers
  <2>4. sched'.status[t] = "BLOCKED" /\ sched'.status[Idle] # "NONE"
    BY <1>4, Zenon DEF Kept
  <2>5. pc'[Idle] = pc[Idle] /\ \A u \in Workers \ {t} : pc'[u] = pc[u]
    BY <1>0, <2>1, Zenon DEF Workers
  <2>6. pc'[t] \in WorkerPc
    BY <2>1, Zenon DEF WorkerPc
  <2> QED BY <2>1, <2>2, <2>3, <2>4, <2>5, <2>6 DEF Locations
<1> QED BY <1>5, <1>6, <1>7, <1>8, <1>9, <1>10, Zenon DEF IInv

(* Its return from thread_block keeps it.                                  *)
LEMMA AwakeStep ==
    ASSUME IInv, NEW t \in Workers, Awake(t)
    PROVE  IInv'
<1>0. t \in Threads /\ t # Idle /\ Idle \in Threads
  BY SchedAssumption DEF Workers
<1>1. sched.status[t] = "RUNNING" /\ pc[t] = "sleep"
  BY <1>0, AtLemma, Zenon DEF Awake
<1>2. /\ pc \in [Threads -> WorkerPc \cup IdlePc]
      /\ pc' = [pc EXCEPT ![t] = "run"]
      /\ UNCHANGED <<sched, sema, lock, depth>>
  BY Zenon DEF IInv, TypeOK, Awake, Goto
<1>3. /\ NoPanic' /\ SchedulerConsistent' /\ OneList' /\ NoLostWakeup'
  BY <1>1, <1>2, QuietLemma, Zenon DEF WorkerPc, Goto
<1>4. TypeOK'
  BY <1>2, Zenon DEF IInv, TypeOK, WorkerPc
<1>5. LockConsistent' /\ RepeatCounts'
  BY <1>0, <1>1, <1>2 DEF IInv, LockConsistent, RepeatCounts, Owners, Workers
<1>6. Locations'
  BY <1>0, <1>1, <1>2, Zenon DEF IInv, Locations, Workers, WorkerPc
<1> QED BY <1>3, <1>4, <1>5, <1>6, Zenon DEF IInv

(* The wakeup by an interrupt handler keeps it.                            *)
LEMMA WakeupStep ==
    ASSUME IInv, NEW t \in Workers, Wakeup(t)
    PROVE  IInv'
<1>0. t \in Threads /\ t # Idle /\ Idle \in Threads
  BY SchedAssumption DEF Workers
<1>1. pc[t] = "sleep" /\ sched.status[t] = "BLOCKED"
  BY Zenon DEF Wakeup
<1>2. /\ sched \in SchedState
      /\ sched.status \in [Threads -> Status]
      /\ pc \in [Threads -> WorkerPc \cup IdlePc]
  BY Zenon DEF IInv, TypeOK, SchedState
<1>3. sched' = thread_unblock(sched, t) /\ UNCHANGED <<sema, lock, depth>>
  BY Zenon DEF Wakeup
<1>4. /\ sched' \in SchedState
      /\ sched'.cur = sched.cur
      /\ sched'.status = [sched.status EXCEPT ![t] = "READY"]
      /\ sched'.panic = sched.panic
      /\ \A u \in Threads : sched'.status[u] = "READY" <=> elem_find(sched'.ready, u)
      /\ NoDuplicates(sched'.ready)
  <2>1. /\ \A u \in Threads : sched.status[u] = "READY" <=> elem_find(sched.ready, u)
        /\ NoDuplicates(sched.ready)
    BY DEF IInv, SchedulerConsistent, SchedConsistent
  <2>2. LET r == thread_unblock(sched, t) IN
        /\ r \in SchedState
        /\ r.cur = sched.cur
        /\ r.status = [sched.status EXCEPT ![t] = "READY"]
        /\ r.panic = sched.panic
        /\ \A u \in Threads : r.status[u] = "READY" <=> elem_find(r.ready, u)
        /\ NoDuplicates(r.ready)
    BY <1>0, <1>1, <1>2, <2>1, UnblockLemma, Zenon
  <2> QED BY <1>3, <2>2, Zenon
<1>5. pc' = pc \/ pc' = [pc EXCEPT ![Idle] = "block"]
  BY InterruptLemma, Zenon DEF Wakeup
<1>6. /\ \A u \in Workers : pc'[u] = pc[u]
      /\ pc'[Idle] \in IdlePc
      /\ pc' \in [Threads -> WorkerPc \cup IdlePc]
  BY <1>0, <1>2, <1>5, Zenon DEF IInv, Locations, IdlePc, Workers
<1>7. TypeOK' /\ NoPanic'
  BY <1>3, <1>4, <1>6, Zenon DEF IInv, TypeOK, NoPanic
<1>8. SchedulerConsistent'
  <2>1. \A u \in Threads : sched'.status[u] = IF u = t THEN "READY" ELSE sched.status[u]
    BY <1>2, <1>4, Zenon
  <2>2. \A u \in Threads : sched.status[u] = "RUNNING" <=> u = sched.cur
    BY Zenon DEF IInv, SchedulerConsistent, SchedConsistent
  <2>3. \A u \in Threads : sched'.status[u] = "RUNNING" <=> u = sched'.cur
    <3>1. t # sched.cur /\ sched'.cur = sched.cur
      BY <1>0, <1>1, <1>4, <2>2, Zenon
    <3> QED BY <2>1, <2>2, <3>1, Zenon
  <2> QED BY <1>4, <2>3, Zenon DEF SchedulerConsistent, SchedConsistent
<1>9. OneList'
  BY <1>1, <1>2, <1>3, <1>4, <1>6, SMTT(30) DEF IInv, OneList, Workers
<1>10. LockConsistent' /\ RepeatCounts'
  BY <1>3, <1>6, Zenon DEF IInv, LockConsistent, RepeatCounts, Owners
<1>11. NoLostWakeup'
  BY <1>1, <1>2, <1>3, <1>4, <1>6, SMTT(30) DEF IInv, NoLostWakeup, Workers
<1>12. Locations'
  <2>1. sched'.status[t] = "READY"
    BY <1>0, <1>2, <1>4, Zenon
  <2>2. \A u \in Threads \ {t} : sched'.status[u] = sched.status[u]
    BY <1>2, <1>4, Zenon
  <2>3. Workers \subseteq Threads
    BY Zenon DEF Workers
  <2>4. Locations /\ depth' = depth
    BY <1>3, Zenon DEF IInv
  <2>5. \A u \in Workers :
          /\ sched'.status[u] = "BLOCKED" => sched.status[u] = "BLOCKED"
          /\ sched'.status[u] = "NONE" => sched.status[u] = "NONE"
    BY <2>1, <2>2, <2>3, Zenon
  <2>6. sched'.status[Idle] # "NONE"
    BY <1>0, <2>2, <2>4, Zenon DEF Locations
  <2> QED BY <1>6, <2>4, <2>5, <2>6 DEF Locations
<1> QED BY <1>7, <1>8, <1>9, <1>10, <1>11, <1>12, Zenon DEF IInv

(* The sti; hlt of the idle thread keeps it.                               *)
LEMMA IdleHaltStep ==
    ASSUME IInv, IdleHalt
    PROVE  IInv'
<1>0. Idle \in Threads /\ pc \in [Threads -> WorkerPc \cup IdlePc]
  BY SchedAssumption, Zenon DEF IInv, TypeOK
<1>1. pc[Idle] = "sti" /\ sched.cur = Idle /\ sched.status[Idle] = "RUNNING"
  BY <1>0, AtLemma, Zenon DEF IdleHalt
<1>2. pc' = [pc EXCEPT ![Idle] = "hlt"] /\ UNCHANGED <<sched, sema, lock, depth>>
  BY Zenon DEF IdleHalt, Goto
<1>3. /\ \A t \in Workers : pc'[t] = pc[t]
      /\ pc'[Idle] = "hlt"
  BY <1>0, <1>2, Zenon DEF Workers
<1>4. TypeOK'
  BY <1>0, <1>2, Zenon DEF IInv, TypeOK, IdlePc
<1>5. NoPanic' /\ SchedulerConsistent'
  BY <1>2, Zenon DEF IInv, NoPanic, SchedulerConsistent, SchedConsistent
<1>6. OneList' /\ NoLostWakeup'
  BY <1>2, <1>3 DEF IInv, OneList, NoLostWakeup
<1>7. LockConsistent' /\ RepeatCounts'
  BY <1>2, <1>3, Zenon DEF IInv, LockConsistent, RepeatCounts, Owners
<1>9. Locations'
  BY <1>1, <1>2, <1>3 DEF IInv, Locations, IdlePc
<1> QED BY <1>4, <1>5, <1>6, <1>7, <1>9, Zenon DEF IInv

(* The thread_block of the idle thread keeps it.                           *)
LEMMA IdleBlockStep ==
    ASSUME IInv, IdleBlock
    PROVE  IInv'
<1>0. Idle \in Threads
  BY SchedAssumption, Zenon
<1>1. sched.cur = Idle /\ sched.status[Idle] = "RUNNING"
  BY <1>0, AtLemma, Zenon DEF IdleBlock
<1>2. /\ sched' = thread_block(sched)
      /\ pc' = [pc EXCEPT ![Idle] = "sti"]
      /\ UNCHANGED <<sema, lock, depth>>
  BY Zenon DEF IdleBlock, Goto
<1>3. /\ sched \in SchedState
      /\ sema \in [value : 0..1, waiters : Seq(Workers)]
      /\ lock \in [holder : Workers \cup {NoThread}, repeat : 0..MaxDepth]
      /\ pc \in [Threads -> WorkerPc \cup IdlePc]
      /\ depth \in [Threads -> 0..MaxDepth]
  BY Zenon DEF IInv, TypeOK
<1>4. /\ \A t \in Workers : pc'[t] = pc[t]
      /\ pc'[Idle] = "sti"
  BY <1>0, <1>2, <1>3, Zenon DEF Workers
<1>5. /\ Kept(sched, sched', Threads \ {Idle})
      /\ sched'.status[Idle] # "READY"
      /\ sched'.cur = Idle => sched'.ready = <<>>
  <2>1. SchedConsistent(sched)
    BY Zenon DEF IInv, SchedulerConsistent
  <2> QED BY <1>1, <1>2, <1>3, <2>1, BlockLemma, Zenon
<1>6. \A t \in Workers :
        /\ sched'.status[t] = "BLOCKED" <=> sched.status[t] = "BLOCKED"
        /\ sched'.status[t] = "NONE" <=> sched.status[t] = "NONE"
  BY <1>5, Zenon DEF Kept, Workers
<1>7. TypeOK'
  BY <1>0, <1>2, <1>3, <1>5, Zenon DEF TypeOK, Kept, IdlePc
<1>8. NoPanic' /\ SchedulerConsistent'
  BY <1>5, Zenon DEF IInv, NoPanic, SchedulerConsistent, Kept
<1>9. OneList' /\ NoLostWakeup'
  BY <1>2, <1>4, <1>6 DEF IInv, OneList, NoLostWakeup
<1>10. LockConsistent' /\ RepeatCounts'
  BY <1>2, <1>4, Zenon DEF IInv, LockConsistent, RepeatCounts, Owners
<1>12. Locations'
  BY <1>2, <1>4, <1>5, <1>6 DEF IInv, Locations, IdlePc, Kept
<1> QED BY <1>7, <1>8, <1>9, <1>10, <1>12 DEF IInv

-----------------------------------------------------------------------------
(* thread_init and lock_init establish the invariant.                      *)
LEMMA InitLemma == Init => IInv
<1> SUFFICES ASSUME Init PROVE IInv
  BY Zenon
<1>0. /\ Main \in Threads /\ Idle \in Threads /\ Main # Idle
      /\ Priority \in [Threads -> 0..255]
      /\ MaxDepth \in Nat \ {0}
      /\ NoThread \notin Threads
  BY SchedAssumption, SyncAssumption, Zenon
<1>1. /\ sched.cur = Main
      /\ sched.ready = <<Idle>>
      /\ sched.status = [t \in Threads |-> IF t = Main THEN "RUNNING"
                                           ELSE IF t = Idle THEN "READY" ELSE "NONE"]
      /\ sched.panic = FALSE
      /\ sched \in SchedState
  BY <1>0 DEF Init, thread_init, SchedState, Status
<1>2. /\ sema.value = 1
      /\ sema.waiters = <<>>
      /\ lock.holder = NoThread
      /\ lock.repeat = 0
      /\ pc = [t \in Threads |-> IF t = Idle THEN "block" ELSE "run"]
      /\ depth = [t \in Threads |-> 0]
  BY Zenon DEF Init
<1>3. TypeOK
  BY <1>0, <1>1 DEF TypeOK, Init, WorkerPc, IdlePc
<1>4. NoPanic
  BY <1>1, Zenon DEF NoPanic
<1>5. SchedulerConsistent
  <2>1. \A x : elem_find(sched.ready, x) <=> x = Idle
    BY <1>1 DEF elem_find
  <2>2. NoDuplicates(sched.ready)
    BY <1>1 DEF NoDuplicates
  <2> QED BY <1>0, <1>1, <2>1, <2>2, Zenon DEF SchedulerConsistent, SchedConsistent
<1>6. OneList
  <2>1. \A x : ~elem_find(sema.waiters, x)
    BY <1>2 DEF elem_find
  <2>2. NoDuplicates(sema.waiters)
    BY <1>2 DEF NoDuplicates
  <2> QED BY <1>2, <2>1, <2>2, Zenon DEF OneList, Workers
<1>7. Owners = {}
  BY <1>2 DEF Owners, Workers
<1>8. LockConsistent /\ RepeatCounts
  BY <1>0, <1>2, <1>7 DEF LockConsistent, RepeatCounts, Workers
<1>9. NoLostWakeup
  BY <1>0, <1>1, <1>2, Zenon DEF NoLostWakeup
<1>10. Locations
  <2>1. pc[Idle] \in IdlePc /\ depth[Idle] = 0 /\ sched.status[Idle] # "NONE"
    BY <1>0, <1>1, <1>2, Zenon DEF IdlePc
  <2>2. \A t \in Workers :
          /\ pc[t] = "run"
          /\ depth[t] = 0
          /\ sched.status[t] # "BLOCKED"
    BY <1>1, <1>2, Zenon DEF Workers
  <2> QED BY <2>1, <2>2, Zenon DEF Locations, WorkerPc
<1> QED BY <1>3, <1>4, <1>5, <1>6, <1>8, <1>9, <1>10, Zenon DEF IInv

(* Every step keeps the invariant.                                         *)
LEMMA NextLemma == IInv /\ [Next]_vars => IInv'
<1> SUFFICES ASSUME IInv, [Next]_vars PROVE IInv'
  BY Zenon
<1>1. CASE UNCHANGED vars
  <2> USE <1>1 DEF vars, IInv
  <2>1. TypeOK' /\ NoPanic' /\ SchedulerConsistent'
    BY Zenon DEF TypeOK, NoPanic, SchedulerConsistent
  <2>2. OneList' /\ NoLostWakeup' /\ Locations'
    BY Zenon DEF OneList, NoLostWakeup, Locations
  <2>3. LockConsistent' /\ RepeatCounts'
    BY Zenon DEF LockConsistent, RepeatCounts, Owners
  <2> QED BY <2>1, <2>2, <2>3, Zenon
<1>2. ASSUME NEW t \in Workers, Worker(t) PROVE IInv'
  <2>1. ASSUME Continue(t) PROVE IInv'
    BY <2>1, sema_down_waitStep, sema_down_takeStep, SetHolderStep, SetCountStep, AgainStep,
       DropStep, ClearHolderStep, ClearCountStep, sema_upStep, AwakeStep, Zenon DEF Continue
  <2> QED BY <1>2, <2>1, process_executeStep, YieldStep, SleepStep, AcquireTestStep,
             ReleaseTestStep, Zenon
          DEF Worker
<1> QED BY <1>1, <1>2, IdleBlockStep, IdleHaltStep, TimerStep, WakeupStep, Zenon DEF Next

(* The inductive invariant holds in every reachable state of every         *)
(* instance: threads of any number and any priorities, locks nested to any *)
(* depth, and a timer interrupt wherever interrupts are enabled.           *)
THEOREM Invariance == Spec => []IInv
BY InitLemma, NextLemma, PTL DEF Spec

(* The types of the scheduler, semaphore and lock fields are kept; in      *)
(* particular the semaphore's value stays 0 or 1.                          *)
THEOREM TypeCorrect == Spec => []TypeOK
<1>1. IInv => TypeOK
  BY Zenon DEF IInv
<1> QED BY <1>1, Invariance, PTL

(* No ASSERT of thread.c, timer.c or sync.c that the model carries fails.  *)
THEOREM NeverPanics == Spec => []NoPanic
<1>1. IInv => NoPanic
  BY Zenon DEF IInv
<1> QED BY <1>1, Invariance, PTL

(* thread_ready_list and the statuses agree, and a general_tag is never on *)
(* two lists.                                                              *)
THEOREM ListsCorrect == Spec => []ListsConsistent
<1>1. IInv => ListsConsistent
  BY Zenon DEF IInv, ListsConsistent
<1> QED BY <1>1, Invariance, PTL

(* Mutual exclusion, and plock->holder names the owner.                    *)
THEOREM LockCorrect == Spec => []LockConsistent
<1>1. IInv => LockConsistent
  BY Zenon DEF IInv
<1> QED BY <1>1, Invariance, PTL

(* A free semaphore with queued threads always has a woken thread on its   *)
(* way: sema_up never leaves all of them asleep.                           *)
THEOREM WakeupsNotLost == Spec => []NoLostWakeup
<1>1. IInv => NoLostWakeup
  BY Zenon DEF IInv
<1> QED BY <1>1, Invariance, PTL

-----------------------------------------------------------------------------
(* Every step that changes depth is a step of the abstract mutex.  Only    *)
(* sema_down_take, Again, Drop and sema_up change it.                      *)
LEMMA RefinementStep == IInv /\ [Next]_vars => [Abstract!Next]_depth
<1> SUFFICES ASSUME IInv, [Next]_vars, depth' # depth PROVE Abstract!Next
  BY Zenon
<1>0. /\ \A t \in Workers : t \in Threads
      /\ depth \in [Threads -> 0..MaxDepth]
      /\ MaxDepth \in Nat
      /\ Idle \in Threads
      /\ \A t \in Threads : t \in Workers \/ t = Idle
  BY SchedAssumption, SyncAssumption, Zenon DEF Workers, IInv, TypeOK
<1>1. PICK t \in Workers : sema_down_take(t) \/ Again(t) \/ Drop(t) \/ sema_up(t)
  BY Zenon DEF vars, Next, Worker, Continue, process_execute, Yield, AcquireTest, ReleaseTest,
         sema_down_wait, SetHolder, SetCount, ClearHolder, ClearCount, IdleBlock, IdleHalt,
         Timer, Sleep, Awake, Wakeup
<1>2. CASE sema_down_take(t)
  <2>1. sema.value = 1
    BY <1>2 DEF IInv, TypeOK, sema_down_take
  <2>2. \A u \in Threads : depth[u] = 0
    BY <1>0, <2>1 DEF IInv, LockConsistent, Owners, Locations
  <2>3. Abstract!Acquire(t)
    BY <1>2, <2>2, Zenon DEF sema_down_take, Abstract!Acquire, Abstract!Free
  <2> QED BY <1>0, <2>3, Zenon DEF Abstract!Next
<1>3. CASE Again(t)
  <2>1. depth[t] > 0
    BY <1>0, <1>3 DEF IInv, Locations, Again, At
  <2>2. Abstract!Reacquire(t)
    BY <1>3, <2>1, Zenon DEF Again, Abstract!Reacquire
  <2> QED BY <1>0, <2>2, Zenon DEF Abstract!Next
<1>4. CASE Drop(t)
  <2>1. depth[t] > 0
    BY <1>0, <1>4 DEF IInv, Locations, Drop, At
  <2>2. Abstract!Release(t)
    BY <1>4, <2>1, Zenon DEF Drop, Abstract!Release
  <2> QED BY <1>0, <2>2, Zenon DEF Abstract!Next
<1>5. CASE sema_up(t)
  <2>1. depth[t] = 1
    BY <1>0, <1>5, Zenon DEF IInv, Locations, sema_up, At
  <2>2. depth' = [depth EXCEPT ![t] = depth[t] - 1]
    BY <1>5, <2>1 DEF sema_up
  <2>3. Abstract!Release(t)
    BY <2>1, <2>2 DEF Abstract!Release
  <2> QED BY <1>0, <2>3 DEF Abstract!Next
<1> QED BY <1>1, <1>2, <1>3, <1>4, <1>5, Zenon

(* lock_acquire and lock_release implement a recursive mutex, for any      *)
(* number of threads and with preemption between their steps: a thread is  *)
(* granted the lock only when no thread holds it.                          *)
THEOREM Refinement == Spec => LockIsMutex
<1>1. Init => Abstract!Init
  BY Zenon DEF Init, Abstract!Init
<1> QED BY <1>1, RefinementStep, Invariance, PTL DEF Spec, LockIsMutex, Abstract!Spec
=============================================================================
