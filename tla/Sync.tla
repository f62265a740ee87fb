-------------------------------- MODULE Sync --------------------------------
(***************************************************************************)
(* thread/sync.c: the binary semaphore and the recursive lock built on it, *)
(* used by the threads of Sched and preempted by the timer.                *)
(*                                                                         *)
(* sema_down and sema_up run with interrupts disabled and are atomic up to *)
(* a switch of thread.  The bodies of lock_acquire and lock_release around *)
(* them run with interrupts enabled: each access to the lock is a step of  *)
(* its own, and the timer may interrupt between any two.                   *)
(*                                                                         *)
(* pc[t] is where thread t stands:                                         *)
(*   "run"    outside sync.c                                               *)
(*   "down"   lock_acquire saw another holder, sema_down is next           *)
(*   "wait"   in the loop of sema_down, after thread_block (IF = 0)        *)
(*   "own"    sema_down returned, holder = self is next                    *)
(*   "count"  holder_repeat_nr = 1 is next                                 *)
(*   "again"  lock_acquire saw itself as holder, holder_repeat_nr++ is next*)
(*   "drop"   holder_repeat_nr-- is next                                   *)
(*   "clear"  holder = NULL is next                                        *)
(*   "zero"   holder_repeat_nr = 0 is next                                 *)
(*   "up"     sema_up is next                                              *)
(*   "sleep"  waiting for an interrupt handler, after thread_block (IF = 0)*)
(* and for the idle thread                                                 *)
(*   "block"  thread_block is next                                         *)
(*   "sti"    thread_block returned, "sti; hlt" is next                    *)
(*   "hlt"    halted until an interrupt                                    *)
(***************************************************************************)
EXTENDS Sched

CONSTANTS
    MaxDepth,   \* bound on recursive acquisition by one thread
    NoThread    \* the NULL of plock->holder

ASSUME SyncAssumption == /\ MaxDepth \in Nat \ {0}
                         /\ NoThread \notin Threads

VARIABLES
    sched,      \* the scheduler state
    sema,       \* plock->semaphore: [value, waiters]
    lock,       \* plock: [holder, repeat], repeat for holder_repeat_nr
    pc,
    depth       \* history: acquisitions of t granted and not yet given back

vars == <<sched, sema, lock, pc, depth>>

Workers == Threads \ {Idle}

WorkerPc == {"run", "down", "wait", "own", "count", "again",
             "drop", "clear", "zero", "up", "sleep"}

IdlePc == {"block", "sti", "hlt"}

TypeOK ==
    /\ sched \in SchedState
    /\ sema \in [value : 0..1, waiters : Seq(Workers)]
    /\ lock \in [holder : Workers \cup {NoThread}, repeat : 0..MaxDepth]
    /\ pc \in [Threads -> WorkerPc \cup IdlePc]
    /\ depth \in [Threads -> 0..MaxDepth]

Init ==
    /\ sched = thread_init
    /\ sema = [value |-> 1, waiters |-> <<>>]
    /\ lock = [holder |-> NoThread, repeat |-> 0]
    /\ pc = [t \in Threads |-> IF t = Idle THEN "block" ELSE "run"]
    /\ depth = [t \in Threads |-> 0]

(* Thread t is on the CPU at the location at.                              *)
At(t, at) == /\ ~sched.panic
             /\ sched.cur = t
             /\ pc[t] = at

Goto(t, to) == pc' = [pc EXCEPT ![t] = to]

-----------------------------------------------------------------------------
(* The running thread makes a new thread ready, interrupts disabled.       *)
process_execute(t, new) ==
    /\ At(t, "run")
    /\ sched.status[new] = "NONE"
    /\ sched' = make_ready(sched, new)
    /\ UNCHANGED <<sema, lock, pc, depth>>

Yield(t) ==
    /\ At(t, "run")
    /\ sched' = thread_yield(sched)
    /\ UNCHANGED <<sema, lock, pc, depth>>

(* A thread waits for an interrupt, as ioq_wait does: with interrupts      *)
(* disabled, and possibly holding the lock.                                *)
Sleep(t) ==
    /\ At(t, "run")
    /\ sched' = thread_block(sched)
    /\ Goto(t, "sleep")
    /\ UNCHANGED <<sema, lock, depth>>

Awake(t) ==
    /\ At(t, "sleep")
    /\ Goto(t, "run")
    /\ UNCHANGED <<sched, sema, lock, depth>>

-----------------------------------------------------------------------------
(* lock_acquire.  The nesting of calls is bounded by MaxDepth.             *)
AcquireTest(t) ==
    /\ At(t, "run")
    /\ depth[t] < MaxDepth
    /\ Goto(t, IF lock.holder # t THEN "down" ELSE "again")
    /\ UNCHANGED <<sched, sema, lock, depth>>

(* sema_down, value = 0: queue behind the other waiters and block.  A      *)
(* woken thread comes back to this test with interrupts still disabled.    *)
sema_down_wait(t) ==
    /\ At(t, "down") \/ At(t, "wait")
    /\ sema.value = 0
    /\ sema' = [sema EXCEPT !.waiters = list_append(@, t)]
    /\ sched' = thread_block(ASSERT(sched, ~elem_find(sema.waiters, t)))
    /\ Goto(t, "wait")
    /\ UNCHANGED <<lock, depth>>

(* sema_down, value > 0: take it.                                          *)
sema_down_take(t) ==
    /\ At(t, "down") \/ At(t, "wait")
    /\ sema.value > 0
    /\ sema' = [sema EXCEPT !.value = @ - 1]
    /\ sched' = ASSERT(sched, sema.value - 1 = 0)
    /\ depth' = [depth EXCEPT ![t] = 1]
    /\ Goto(t, "own")
    /\ UNCHANGED lock

SetHolder(t) ==
    /\ At(t, "own")
    /\ lock' = [lock EXCEPT !.holder = t]
    /\ Goto(t, "count")
    /\ UNCHANGED <<sched, sema, depth>>

SetCount(t) ==
    /\ At(t, "count")
    /\ sched' = ASSERT(sched, lock.repeat = 0)
    /\ lock' = [lock EXCEPT !.repeat = 1]
    /\ Goto(t, "run")
    /\ UNCHANGED <<sema, depth>>

Again(t) ==
    /\ At(t, "again")
    /\ lock' = [lock EXCEPT !.repeat = @ + 1]
    /\ depth' = [depth EXCEPT ![t] = @ + 1]
    /\ Goto(t, "run")
    /\ UNCHANGED <<sched, sema>>

-----------------------------------------------------------------------------
(* Mutant: every release is treated as the outermost one.                  *)
ReleaseTest_outermost(t) ==
    /\ At(t, "run")
    /\ depth[t] > 0
    /\ sched' = ASSERT(sched, lock.holder = t /\ lock.repeat > 0)
    /\ Goto(t, "clear")
    /\ UNCHANGED <<sema, lock, depth>>

(* lock_release.  A thread only releases a lock it acquired.               *)
ReleaseTest(t) ==
    /\ At(t, "run")
    /\ depth[t] > 0
    /\ sched' = ASSERT(sched, /\ lock.holder = t
                              /\ lock.repeat > 1 \/ lock.repeat = 1)
    /\ Goto(t, IF lock.repeat > 1 THEN "drop" ELSE "clear")
    /\ UNCHANGED <<sema, lock, depth>>

Drop(t) ==
    /\ At(t, "drop")
    /\ lock' = [lock EXCEPT !.repeat = @ - 1]
    /\ depth' = [depth EXCEPT ![t] = @ - 1]
    /\ Goto(t, "run")
    /\ UNCHANGED <<sched, sema>>

(* Mutant: plock->holder is not reset.                                     *)
ClearHolder_missing(t) ==
    /\ At(t, "clear")
    /\ Goto(t, "zero")
    /\ UNCHANGED <<sched, sema, lock, depth>>

ClearHolder(t) ==
    /\ At(t, "clear")
    /\ lock' = [lock EXCEPT !.holder = NoThread]
    /\ Goto(t, "zero")
    /\ UNCHANGED <<sched, sema, depth>>

(* Mutant: plock->holder_repeat_nr is not reset.                           *)
ClearCount_missing(t) ==
    /\ At(t, "zero")
    /\ Goto(t, "up")
    /\ UNCHANGED <<sched, sema, lock, depth>>

ClearCount(t) ==
    /\ At(t, "zero")
    /\ lock' = [lock EXCEPT !.repeat = 0]
    /\ Goto(t, "up")
    /\ UNCHANGED <<sched, sema, depth>>

(* Mutant: no waiter is woken.                                             *)
sema_up_silent(t) ==
    /\ At(t, "up")
    /\ sched' = ASSERT(sched, sema.value = 0)
    /\ sema' = [sema EXCEPT !.value = @ + 1]
    /\ depth' = [depth EXCEPT ![t] = 0]
    /\ Goto(t, "run")
    /\ UNCHANGED lock

(* sema_up: wake the first waiter, if any, and give the unit back.         *)
sema_up(t) ==
    /\ At(t, "up")
    /\ LET s == ASSERT(sched, sema.value = 0) IN
       IF sema.waiters # <<>>
       THEN /\ sched' = thread_unblock(s, Head(sema.waiters))
            /\ sema' = [value |-> sema.value + 1, waiters |-> Tail(sema.waiters)]
       ELSE /\ sched' = s
            /\ sema' = [sema EXCEPT !.value = @ + 1]
    /\ depth' = [depth EXCEPT ![t] = 0]
    /\ Goto(t, "run")
    /\ UNCHANGED lock

-----------------------------------------------------------------------------
(* idle: block, and when scheduled again enable interrupts and halt.       *)
IdleBlock ==
    /\ At(Idle, "block")
    /\ sched' = thread_block(sched)
    /\ Goto(Idle, "sti")
    /\ UNCHANGED <<sema, lock, depth>>

IdleHalt ==
    /\ At(Idle, "sti")
    /\ Goto(Idle, "hlt")
    /\ UNCHANGED <<sched, sema, lock, depth>>

(* An interrupt is taken when the running thread has interrupts enabled,   *)
(* and ends the idle thread's hlt.                                         *)
Interrupt ==
    /\ ~sched.panic
    /\ pc[sched.cur] \notin {"wait", "sleep"}
    /\ pc' = IF pc[sched.cur] = "hlt" THEN [pc EXCEPT ![sched.cur] = "block"] ELSE pc

Timer ==
    /\ Interrupt
    /\ sched' = intr_timer_handler(sched)
    /\ UNCHANGED <<sema, lock, depth>>

(* The handler of a device wakes the thread that waits for it, as wakeup   *)
(* does for ioq_wait.                                                      *)
Wakeup(t) ==
    /\ Interrupt
    /\ pc[t] = "sleep"
    /\ sched.status[t] = "BLOCKED"
    /\ sched' = thread_unblock(sched, t)
    /\ UNCHANGED <<sema, lock, depth>>
-----------------------------------------------------------------------------
(* The rest of an operation a thread has begun.                            *)
Continue(t) ==
    \/ sema_down_wait(t) \/ sema_down_take(t) \/ SetHolder(t) \/ SetCount(t)
    \/ Again(t) \/ Drop(t) \/ ClearHolder(t) \/ ClearCount(t) \/ sema_up(t)
    \/ Awake(t)

Worker(t) ==
    \/ \E new \in Workers : process_execute(t, new)
    \/ Yield(t)
    \/ Sleep(t)
    \/ AcquireTest(t)
    \/ ReleaseTest(t)
    \/ Continue(t)

Next == \/ \E t \in Workers : Worker(t) \/ Wakeup(t)
        \/ IdleBlock
        \/ IdleHalt
        \/ Timer

Spec == Init /\ [][Next]_vars

(* Timer interrupts keep arriving, and one that arrives while interrupts   *)
(* are disabled stays pending until they are enabled, hence strong         *)
(* fairness.  A thread that is given the CPU again and again goes on       *)
(* with the call it is in: a time slice is at least the rest of a tick,    *)
(* long against the instructions of a call.                                *)
Fairness ==
    /\ SF_vars(Timer)
    /\ WF_vars(IdleBlock \/ IdleHalt)
    /\ \A t \in Workers : SF_vars(Continue(t))

FairSpec == Spec /\ Fairness

-----------------------------------------------------------------------------
(* No ASSERT of schedule, thread_unblock, thread_yield, sema_down,         *)
(* sema_up, lock_acquire or lock_release ever fails.                       *)
NoPanic == ~sched.panic

(* The scheduler's lists and statuses agree at every interruptible point:  *)
(* schedule, thread_block, thread_unblock and thread_yield together keep   *)
(* one RUNNING thread and exactly the READY ones in thread_ready_list.     *)
SchedulerConsistent == SchedConsistent(sched)

(* A general_tag is on one list at most: the waiters of the semaphore are  *)
(* exactly the workers blocked in sema_down, each queued once, and so none *)
(* of them is in thread_ready_list.                                        *)
OneList ==
    /\ NoDuplicates(sema.waiters)
    /\ \A t \in Workers :
        elem_find(sema.waiters, t) <=> pc[t] = "wait" /\ sched.status[t] = "BLOCKED"

(* Types, lists and statuses agree, whatever blocks, wakes and preempts    *)
(* whom: the two facts above, and the remaining slice stays a byte.        *)
ListsConsistent == TypeOK /\ SchedulerConsistent /\ OneList

(* The threads that passed sema_down and did not reach sema_up.            *)
Owners == {t \in Workers : depth[t] > 0}

(* Mutual exclusion, as the code records it: the semaphore's value says    *)
(* whether there is an owner, there is one at most, and plock->holder      *)
(* names it except in the windows where it is being set or cleared, which  *)
(* other threads may observe through preemption.                           *)
LockConsistent ==
    /\ sema.value = 1 <=> Owners = {}
    /\ \A t, u \in Owners : t = u
    /\ \A t \in Workers :
        lock.holder = t <=> t \in Owners /\ pc[t] \notin {"own", "zero", "up"}

(* sema_up gives the unit back and wakes one waiter, which must still take *)
(* it and may find it gone.  The others stay queued, and none of them is   *)
(* forgotten: while the unit is free and threads are queued, a woken       *)
(* thread is on its way to the test in sema_down.                          *)
NoLostWakeup ==
    sema.value = 1 /\ sema.waiters # <<>> =>
        \E t \in Workers : pc[t] = "wait" /\ sched.status[t] # "BLOCKED"

(* Where a thread stands in sync.c, how often it holds the lock, and its   *)
(* scheduling status go together.                                          *)
Locations ==
    /\ pc[Idle] \in IdlePc
    /\ depth[Idle] = 0
    /\ sched.status[Idle] # "NONE"
    /\ \A t \in Workers :
        /\ pc[t] \in WorkerPc
        /\ pc[t] \in {"down", "wait"} => depth[t] = 0
        /\ pc[t] \in {"own", "count", "clear", "zero", "up"} => depth[t] = 1
        /\ pc[t] = "again" => depth[t] \in 1..MaxDepth-1
        /\ pc[t] = "drop" => depth[t] > 1
        /\ sched.status[t] = "BLOCKED" => pc[t] \in {"wait", "sleep"}
        /\ sched.status[t] = "NONE" => pc[t] = "run" /\ depth[t] = 0

(* holder_repeat_nr is the owner's nesting except while it is being set.   *)
RepeatCounts ==
    /\ Owners = {} => lock.repeat = 0
    /\ \A t \in Owners :
        lock.repeat = IF pc[t] \in {"own", "count", "up"} THEN 0 ELSE depth[t]

(* The inductive invariant: the properties above, and the two facts about  *)
(* locations and counts that carry them from one step to the next.         *)
IInv ==
    /\ TypeOK
    /\ NoPanic
    /\ SchedulerConsistent
    /\ OneList
    /\ LockConsistent
    /\ NoLostWakeup
    /\ Locations
    /\ RepeatCounts

(* lock_acquire and lock_release implement a recursive mutex.              *)
Abstract == INSTANCE Mutex WITH held <- depth

LockIsMutex == Abstract!Spec

(* schedule is fair although thread_unblock pushes at the front of the     *)
(* list and thread_yield does not renew the time slice: every ready thread *)
(* gets the CPU.                                                           *)
ReadyRuns ==
    \A t \in Threads : sched.status[t] = "READY" ~> sched.cur = t

(* A free lock that some thread is waiting for in lock_acquire is taken.   *)
LockProgress ==
    (sema.value = 1 /\ \E t \in Workers : pc[t] \in {"down", "wait"})
        ~> sema.value = 0
=============================================================================
