------------------------------- MODULE Sched -------------------------------
(***************************************************************************)
(* The scheduler of thread/thread.c, as operators on a scheduler state.    *)
(*                                                                         *)
(* A scheduler state is a record                                           *)
(*   cur     the thread whose PCB running_thread() returns                 *)
(*   ready   thread_ready_list, head first                                 *)
(*   status  task_struct.status; "NONE" is a PCB not created yet           *)
(*   ticks   task_struct.ticks, the rest of the time slice                 *)
(*   panic   TRUE once an ASSERT or PANIC fired (panic_spin never returns) *)
(*                                                                         *)
(* The CPU is single and these functions run with interrupts disabled, so  *)
(* each of them is one atomic change of the state; a module that uses them *)
(* composes several in one action when the code calls them in one section  *)
(* with interrupts disabled.                                               *)
(***************************************************************************)
EXTENDS Naturals, Sequences

CONSTANTS
    Threads,    \* every PCB the kernel may ever hold
    Main,       \* main_thread, running when thread_init is called
    Idle,       \* idle_thread, created by thread_init
    Priority    \* task_struct.priority (uint8_t): the length of a time slice

ASSUME SchedAssumption ==
    /\ Main \in Threads
    /\ Idle \in Threads \ {Main}
    /\ Priority \in [Threads -> 0..255]

Status == {"NONE", "RUNNING", "READY", "BLOCKED"}

SchedState ==
    [cur : Threads, ready : Seq(Threads), status : [Threads -> Status],
     ticks : [Threads -> 0..255], panic : BOOLEAN]

-----------------------------------------------------------------------------
(* kernel/list.c.  A list is the sequence of its elements.  An element     *)
(* carries its own links, so it can be on one list only: see OneList in    *)
(* the modules that use these operators.                                   *)

elem_find(plist, elem) == \E i \in 1..Len(plist) : plist[i] = elem

list_append(plist, elem) == Append(plist, elem)

list_push(plist, elem) == <<elem>> \o plist

-----------------------------------------------------------------------------
(* An ASSERT of the code: the machine stops when the condition is false.   *)
ASSERT(s, cond) == [s EXCEPT !.panic = @ \/ ~cond]

(* The state thread_init leaves: main runs, idle waits in the ready list.  *)
thread_init ==
    [cur    |-> Main,
     ready  |-> <<Idle>>,
     status |-> [t \in Threads |-> IF t = Main THEN "RUNNING"
                                   ELSE IF t = Idle THEN "READY" ELSE "NONE"],
     ticks  |-> Priority,
     panic  |-> FALSE]

(* A PCB is initialised and made ready, with interrupts disabled.          *)
make_ready(s, t) ==
    [ASSERT(s, ~elem_find(s.ready, t)) EXCEPT
        !.ready     = list_append(@, t),
        !.status[t] = "READY",
        !.ticks[t]  = Priority[t]]

(* Mutant: the woken thread is queued and not marked READY.                *)
thread_unblock_unmarked(s, t) ==
    [ASSERT(s, s.status[t] = "BLOCKED" /\ ~elem_find(s.ready, t)) EXCEPT
        !.ready = list_push(@, t)]

(* thread_unblock puts the thread at the front of the ready list.  The     *)
(* code's test status != TASK_READY is implied by the first ASSERT.        *)
thread_unblock(s, t) ==
    [ASSERT(s, s.status[t] = "BLOCKED" /\ ~elem_find(s.ready, t)) EXCEPT
        !.ready     = list_push(@, t),
        !.status[t] = "READY"]

(* Mutant: a preempted thread goes back to the front of the list.          *)
preempt_front(s) ==
    IF s.status[s.cur] = "RUNNING"
    THEN [ASSERT(s, ~elem_find(s.ready, s.cur)) EXCEPT
            !.ready         = list_push(@, s.cur),
            !.ticks[s.cur]  = Priority[s.cur],
            !.status[s.cur] = "READY"]
    ELSE s

(* The first part of schedule: a thread that is still RUNNING was          *)
(* preempted, and goes to the back of the list with a fresh time slice.    *)
preempt(s) ==
    IF s.status[s.cur] = "RUNNING"
    THEN [ASSERT(s, ~elem_find(s.ready, s.cur)) EXCEPT
            !.ready         = list_append(@, s.cur),
            !.ticks[s.cur]  = Priority[s.cur],
            !.status[s.cur] = "READY"]
    ELSE s

(* The second part: the idle thread is woken when nothing else is ready.   *)
wake_idle(s) == IF s.ready = <<>> THEN thread_unblock(s, Idle) ELSE s

(* The third part: pop the first ready thread and switch to it.            *)
switch_to(s) ==
    [s EXCEPT !.cur                   = Head(s.ready),
              !.ready                 = Tail(@),
              !.status[Head(s.ready)] = "RUNNING"]

schedule(s) == switch_to(wake_idle(preempt(s)))

thread_block(s) == schedule([s EXCEPT !.status[s.cur] = "BLOCKED"])

(* thread_yield keeps what is left of the time slice, unlike preemption.   *)
thread_yield(s) ==
    schedule([ASSERT(s, ~elem_find(s.ready, s.cur)) EXCEPT
                !.ready         = list_append(@, s.cur),
                !.status[s.cur] = "READY"])

(* device/timer.c: the slice is counted down, and at zero the thread is    *)
(* preempted.                                                              *)
intr_timer_handler(s) ==
    IF s.ticks[s.cur] = 0
    THEN schedule(s)
    ELSE [s EXCEPT !.ticks[s.cur] = @ - 1]

-----------------------------------------------------------------------------
NoDuplicates(seq) ==
    \A i, j \in 1..Len(seq) : seq[i] = seq[j] => i = j

(* One thread runs; the ready list holds exactly the READY threads, once.  *)
SchedConsistent(s) ==
    /\ \A t \in Threads : s.status[t] = "RUNNING" <=> t = s.cur
    /\ \A t \in Threads : s.status[t] = "READY" <=> elem_find(s.ready, t)
    /\ NoDuplicates(s.ready)
=============================================================================
