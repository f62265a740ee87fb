---------------------------- MODULE ThreadStart ----------------------------
(***************************************************************************)
(* thread_start of thread/thread.c, called by several threads with         *)
(* interrupts enabled, on top of Sync: the lock of Sync is pid_lock.       *)
(*                                                                         *)
(* stage[t] is where t stands in thread_start:                             *)
(*   "none"    not in it                                                   *)
(*   "pid"     in lock_acquire of allocate_pid, next_pid++ follows         *)
(*   "inc"     in next_pid++, the load done                                *)
(*   "unlock"  in lock_release of allocate_pid, return next_pid follows    *)
(*   "absent", "append", "locate", "all"  before each of the statements    *)
(*             that put the PCB on thread_ready_list and thread_all_list   *)
(***************************************************************************)
EXTENDS Sync, FiniteSets

VARIABLES
    stage,
    new,        \* the PCB t is creating
    next_pid,
    loaded,     \* the value of next_pid that t's next_pid++ has read
    overlap,    \* history: next_pid was incremented while another creator was
                \* between its own increment and its return
    pid,        \* task_struct.pid
    all         \* thread_all_list

startVars == <<stage, new, next_pid, loaded, overlap, pid, all>>

Stages == {"none", "pid", "inc", "unlock", "absent", "append", "locate", "all"}

StartTypeOK ==
    /\ TypeOK
    /\ stage \in [Workers -> Stages]
    /\ new \in [Workers -> Workers \cup {NoThread}]
    /\ next_pid \in Nat
    /\ loaded \in [Workers -> Nat]
    /\ overlap \in BOOLEAN
    /\ pid \in [Threads -> Nat]
    /\ all \in Seq(Threads)

(* thread_init gave main and idle their pids.                              *)
StartInit ==
    /\ Init
    /\ stage = [t \in Workers |-> "none"]
    /\ new = [t \in Workers |-> NoThread]
    /\ next_pid = 2
    /\ loaded = [t \in Workers |-> 0]
    /\ overlap = FALSE
    /\ pid = [t \in Threads |-> IF t = Main THEN 1 ELSE IF t = Idle THEN 2 ELSE 0]
    /\ all = <<Main, Idle>>

AtStage(t, at) == At(t, "run") /\ stage[t] = at

Advance(t, to) == stage' = [stage EXCEPT ![t] = to]

-----------------------------------------------------------------------------
(* get_kernel_pages gives a page that is no other PCB.                     *)
thread_start(t, n) ==
    /\ AtStage(t, "none")
    /\ sched.status[n] = "NONE"
    /\ \A u \in Workers : new[u] # n
    /\ new' = [new EXCEPT ![t] = n]
    /\ Advance(t, "pid")
    /\ UNCHANGED <<vars, next_pid, loaded, overlap, pid, all>>

(* The lock_acquire and lock_release of allocate_pid, as in Sync.          *)
PidLock(t) ==
    /\ \/ stage[t] = "pid" /\ depth[t] = 0 /\ AcquireTest(t)
       \/ stage[t] = "unlock" /\ ReleaseTest(t)
       \/ Continue(t)
    /\ UNCHANGED startVars

(* Mutant: next_pid++ without the lock.                                    *)
LoadPid_unlocked(t) ==
    /\ AtStage(t, "pid")
    /\ depth[t] = 0
    /\ loaded' = [loaded EXCEPT ![t] = next_pid]
    /\ Advance(t, "inc")
    /\ UNCHANGED <<vars, new, next_pid, overlap, pid, all>>

(* next_pid++, the lock held: a load, and a store of the sum.              *)
LoadPid(t) ==
    /\ AtStage(t, "pid")
    /\ depth[t] = 1
    /\ loaded' = [loaded EXCEPT ![t] = next_pid]
    /\ Advance(t, "inc")
    /\ UNCHANGED <<vars, new, next_pid, overlap, pid, all>>

StorePid(t) ==
    /\ AtStage(t, "inc")
    /\ next_pid' = loaded[t] + 1
    /\ loaded' = [loaded EXCEPT ![t] = 0]
    /\ overlap' = (overlap \/ \E u \in Workers : stage[u] = "unlock")
    /\ Advance(t, "unlock")
    /\ UNCHANGED <<vars, new, pid, all>>

(* Mutant: the pid is the value before the increment.                      *)
init_thread_before(t) ==
    /\ AtStage(t, "unlock")
    /\ depth[t] = 0
    /\ pid' = [pid EXCEPT ![new[t]] = next_pid - 1]
    /\ sched' = [sched EXCEPT !.status[new[t]] = "READY",
                              !.ticks[new[t]] = Priority[new[t]]]
    /\ Advance(t, "absent")
    /\ UNCHANGED <<sema, lock, pc, depth, new, next_pid, loaded, overlap, all>>

(* return next_pid, the lock released; init_thread and thread_create fill  *)
(* the PCB, which no other thread sees yet.                                *)
init_thread(t) ==
    /\ AtStage(t, "unlock")
    /\ depth[t] = 0
    /\ pid' = [pid EXCEPT ![new[t]] = next_pid]
    /\ sched' = [sched EXCEPT !.status[new[t]] = "READY",
                              !.ticks[new[t]] = Priority[new[t]]]
    /\ Advance(t, "absent")
    /\ UNCHANGED <<sema, lock, pc, depth, new, next_pid, loaded, overlap, all>>

AssertAbsent(t) ==
    /\ AtStage(t, "absent")
    /\ sched' = ASSERT(sched, ~elem_find(sched.ready, new[t]))
    /\ Advance(t, "append")
    /\ UNCHANGED <<sema, lock, pc, depth, new, next_pid, loaded, overlap, pid, all>>

(* Mutant: the append to thread_ready_list is missing.                     *)
AppendReady_missing(t) ==
    /\ AtStage(t, "append")
    /\ Advance(t, "locate")
    /\ UNCHANGED <<vars, new, next_pid, loaded, overlap, pid, all>>

(* list_append disables interrupts itself.                                 *)
AppendReady(t) ==
    /\ AtStage(t, "append")
    /\ sched' = [sched EXCEPT !.ready = list_append(@, new[t])]
    /\ Advance(t, "locate")
    /\ UNCHANGED <<sema, lock, pc, depth, new, next_pid, loaded, overlap, pid, all>>

AssertPresent(t) ==
    /\ AtStage(t, "locate")
    /\ sched' = ASSERT(sched, elem_find(sched.ready, new[t]))
    /\ Advance(t, "all")
    /\ UNCHANGED <<sema, lock, pc, depth, new, next_pid, loaded, overlap, pid, all>>

AppendAll(t) ==
    /\ AtStage(t, "all")
    /\ sched' = ASSERT(sched, ~elem_find(all, new[t]))
    /\ all' = list_append(all, new[t])
    /\ new' = [new EXCEPT ![t] = NoThread]
    /\ Advance(t, "none")
    /\ UNCHANGED <<sema, lock, pc, depth, next_pid, loaded, overlap, pid>>

-----------------------------------------------------------------------------
StartNext ==
    \/ \E t \in Workers :
        \/ \E n \in Workers : thread_start(t, n)
        \/ PidLock(t) \/ LoadPid(t) \/ StorePid(t) \/ init_thread(t)
        \/ AssertAbsent(t) \/ AppendReady(t) \/ AssertPresent(t) \/ AppendAll(t)
    \/ (IdleBlock \/ IdleHalt \/ Timer) /\ UNCHANGED startVars

StartSpec == StartInit /\ [][StartNext]_<<vars, startVars>>

-----------------------------------------------------------------------------
Creating(stages) == {new[t] : t \in {u \in Workers : stage[u] \in stages}}

(* A thread is in thread_ready_list once and only while READY; the only    *)
(* READY threads outside the list are PCBs that thread_start filled and    *)
(* has not appended yet, whatever preempts whom meanwhile.                 *)
ReadyListed ==
    /\ NoDuplicates(sched.ready)
    /\ \A t \in Threads :
        sched.status[t] = "READY" <=>
            elem_find(sched.ready, t) \/ t \in Creating({"absent", "append"})

(* thread_all_list holds every thread whose creation is complete, once,    *)
(* although its creators append to it in any order.                        *)
AllListed ==
    /\ NoDuplicates(all)
    /\ \A t \in Threads :
        elem_find(all, t) <=>
            sched.status[t] # "NONE" /\ t \notin Creating(Stages \ {"none"})

(* Types, and both lists of thread.c, at every interruptible point.        *)
ListsExact == StartTypeOK /\ ReadyListed /\ AllListed

(* An ASSERT fails in one case only: the one of thread_start that locates  *)
(* the new thread in the ready list, when the new thread has already run,  *)
(* and blocked, before its creator went on.                                *)
PanicOnlyByLocate ==
    sched.panic =>
        LET t == sched.cur IN
        stage[t] = "all" /\ sched.status[new[t]] = "BLOCKED" /\ ~elem_find(sched.ready, new[t])

(* next_pid++ runs under pid_lock in one thread at a time, so no increment *)
(* is lost: next_pid counts the threads that passed it.                    *)
PidsCounted ==
    next_pid = Cardinality({t \in Threads : sched.status[t] # "NONE"}
                               \cup Creating({"unlock"}))

(* allocate_pid returns next_pid after releasing pid_lock.  Two threads    *)
(* have the same pid only if two creators have been between next_pid++ and *)
(* that return at the same time.                                           *)
PidsUnique ==
    ~overlap =>
        \A t, u \in Threads : t # u /\ pid[t] # 0 => pid[t] # pid[u]
=============================================================================
