-------------------------------- MODULE Ide ---------------------------------
(***************************************************************************)
(* device/ide.c: one channel, its lock, the semaphore disk_done, the flag  *)
(* expecting_intr, the interrupt handler, and a disk that executes one     *)
(* command at a time and raises its interrupt line when it has finished.   *)
(*                                                                         *)
(* ide_init runs in main before interrupts are enabled, and uses the disk  *)
(* all the same: while main has interrupts disabled, a request stays       *)
(* pending until the idle thread, which enables them, gets the CPU.        *)
(*                                                                         *)
(* pc[t] is where a thread stands:                                         *)
(*   "out"    not using the disk                                           *)
(*   "lockq"  waiting for the channel's lock, after thread_block (IF = 0)  *)
(*   "cmd"    at the head of the while loop, cmd_out is next               *)
(*   "outb"   expecting_intr is set, the command byte is next              *)
(*   "down"   sema_down(disk_done) is next                                 *)
(*   "wait"   in the loop of sema_down, after thread_block (IF = 0)        *)
(*   "poll"   in the loop of busy_wait                                     *)
(*   "sleep"  in ticks_to_sleep                                            *)
(*   "xfer"   busy_wait returned true, the data port is next               *)
(*   "next"   the command is done                                          *)
(* and for the idle thread "block", "sti" and "hlt", as in Sync.           *)
(***************************************************************************)
EXTENDS Sched

CONSTANTS
    TimeLimit,  \* initial time_limit of busy_wait, 30000 in the code
    MaxCmds     \* bound on the commands of one ide_read or ide_write

ASSUME IdeAssumption == TimeLimit \in Nat \ {0} /\ MaxCmds \in Nat \ {0}

VARIABLES
    sched,      \* the scheduler state
    lock,       \* the semaphore of channel->lock: [value, waiters]
    done,       \* channel->disk_done: [value, waiters]
    expecting,  \* channel->expecting_intr
    dev,        \* the selected disk
    intrq,      \* the disk's interrupt request is pending
    stage,      \* how far main is in init_all, see Stages
    op,         \* per thread: what it does with the disk
    left,       \* per thread: commands still to be issued
    limit,      \* per thread: time_limit in busy_wait
    slept,      \* per thread: a tick passed since ticks_to_sleep began
    stop,       \* "failed" after the PANIC of a disk that is not ready,
                \* "overrun" after a command to a busy disk, which has no
                \* defined effect
    pc

drive == <<dev, intrq>>
calls == <<op, left, limit, slept>>
vars == <<sched, lock, done, expecting, drive, stage, calls, stop, pc>>

Users == Threads \ {Idle}

(* 0 and 1: identify_disk of the two disks; 2: partition_scan and          *)
(* filesys_init; 3: interrupts are enabled and main may start threads.     *)
Stages == 0..3

(* BSY is set in the first three states, DRQ in the next two.              *)
Busy == {"reading", "preparing", "writing"}
DevStates == Busy \cup {"read_drq", "write_drq", "free"}

Sema == [value : 0..1, waiters : Seq(Users)]

UserPc == {"out", "lockq", "cmd", "outb", "down", "wait", "poll", "sleep", "xfer", "next"}
IdlePc == {"block", "sti", "hlt"}

TypeOK ==
    /\ sched \in SchedState
    /\ lock \in Sema
    /\ done \in Sema
    /\ expecting \in BOOLEAN
    /\ dev \in DevStates
    /\ intrq \in BOOLEAN
    /\ stage \in Stages
    /\ op \in [Users -> {"none", "identify", "read", "write"}]
    /\ left \in [Users -> 0..MaxCmds]
    /\ limit \in [Users -> 0..TimeLimit]
    /\ slept \in [Users -> BOOLEAN]
    /\ stop \in {"no", "failed", "overrun"}
    /\ pc \in [Threads -> UserPc \cup IdlePc]

(* After ide_init has set up the channel: disk_done starts at 1.           *)
Init ==
    /\ sched = thread_init
    /\ lock = [value |-> 1, waiters |-> <<>>]
    /\ done = [value |-> 1, waiters |-> <<>>]
    /\ expecting = FALSE
    /\ dev = "free"
    /\ intrq = FALSE
    /\ stage = 0
    /\ op = [t \in Users |-> "none"]
    /\ left = [t \in Users |-> 0]
    /\ limit = [t \in Users |-> TimeLimit]
    /\ slept = [t \in Users |-> FALSE]
    /\ stop = "no"
    /\ pc = [t \in Threads |-> IF t = Idle THEN "block" ELSE "out"]

-----------------------------------------------------------------------------
Alive == ~sched.panic /\ stop = "no"

At(t, at) == Alive /\ sched.cur = t /\ pc[t] = at

Goto(t, to) == pc' = [pc EXCEPT ![t] = to]

(* sema_up: what it does to the semaphore and to the scheduler.            *)
Upped(sema) == [value |-> 1, waiters |-> IF sema.waiters = <<>> THEN <<>> ELSE Tail(sema.waiters)]

sema_up(s, sema) ==
    LET r == ASSERT(s, sema.value = 0) IN
    IF sema.waiters = <<>> THEN r ELSE thread_unblock(r, Head(sema.waiters))

(* sema_down on a semaphore that is 0: the thread queues and blocks.       *)
Queued(sema, t) == [sema EXCEPT !.waiters = list_append(@, t)]

Blocked(sema, t) == thread_block(ASSERT(sched, ~elem_find(sema.waiters, t)))

-----------------------------------------------------------------------------
(* identify_disk takes no lock: only main runs it, while booting.          *)
identify_disk(t) ==
    /\ At(t, "out")
    /\ t = Main
    /\ stage \in {0, 1}
    /\ stage' = stage + 1
    /\ op' = [op EXCEPT ![t] = "identify"]
    /\ left' = [left EXCEPT ![t] = 1]
    /\ Goto(t, "cmd")
    /\ UNCHANGED <<sched, lock, done, expecting, drive, limit, slept, stop>>

(* ide_read or ide_write for n commands, up to lock_acquire.               *)
ide_call(t) ==
    /\ At(t, "out")
    /\ stage \in {2, 3}
    /\ \E kind \in {"read", "write"}, n \in 1..MaxCmds :
        /\ op' = [op EXCEPT ![t] = kind]
        /\ left' = [left EXCEPT ![t] = n]
    /\ \/ /\ lock.value = 1
          /\ lock' = [lock EXCEPT !.value = 0]
          /\ Goto(t, "cmd")
          /\ UNCHANGED sched
       \/ /\ lock.value = 0
          /\ lock' = Queued(lock, t)
          /\ sched' = Blocked(lock, t)
          /\ Goto(t, "lockq")
    /\ UNCHANGED <<done, expecting, drive, stage, limit, slept, stop>>

(* Woken in the sema_down of the lock: test its value again.               *)
LockWoken(t) ==
    /\ At(t, "lockq")
    /\ \/ /\ lock.value = 1
          /\ lock' = [lock EXCEPT !.value = 0]
          /\ Goto(t, "cmd")
          /\ UNCHANGED sched
       \/ /\ lock.value = 0
          /\ lock' = Queued(lock, t)
          /\ sched' = Blocked(lock, t)
          /\ UNCHANGED pc
    /\ UNCHANGED <<done, expecting, drive, stage, calls, stop>>

(* Mutant: expecting_intr is not set.                                      *)
cmd_out_unexpected(t) ==
    /\ At(t, "cmd")
    /\ Goto(t, "outb")
    /\ UNCHANGED <<sched, lock, done, expecting, drive, stage, calls, stop>>

(* cmd_out: expecting_intr is set first, after select_disk and             *)
(* select_sector.                                                          *)
cmd_out(t) ==
    /\ At(t, "cmd")
    /\ expecting' = TRUE
    /\ Goto(t, "outb")
    /\ UNCHANGED <<sched, lock, done, drive, stage, calls, stop>>

(* Its second half, the command byte.  A write goes on to busy_wait, the   *)
(* others to sema_down.                                                    *)
CommandByte(t) ==
    /\ At(t, "outb")
    /\ IF dev \in Busy
       THEN stop' = "overrun" /\ UNCHANGED dev
       ELSE /\ dev' = IF op[t] = "write" THEN "preparing" ELSE "reading"
            /\ UNCHANGED stop
    /\ Goto(t, IF op[t] = "write" THEN "poll" ELSE "down")
    /\ limit' = [limit EXCEPT ![t] = TimeLimit]
    /\ UNCHANGED <<sched, lock, done, expecting, intrq, stage, op, left, slept>>

(* sema_down(disk_done), from the call or woken inside it.                 *)
AwaitDisk(t) ==
    /\ At(t, "down") \/ At(t, "wait")
    /\ \/ /\ done.value = 0
          /\ done' = Queued(done, t)
          /\ sched' = Blocked(done, t)
          /\ Goto(t, "wait")
       \/ /\ done.value = 1
          /\ done' = [done EXCEPT !.value = 0]
          /\ Goto(t, IF op[t] = "write" THEN "next" ELSE "poll")
          /\ UNCHANGED sched
    /\ UNCHANGED <<lock, expecting, drive, stage, calls, stop>>

(* Mutant: a disk that stays busy is taken for ready.                      *)
busy_wait_hopeful(t) ==
    /\ At(t, "poll")
    /\ limit' = [limit EXCEPT ![t] = @ - 1]
    /\ Goto(t, IF limit'[t] = 0 \/ dev \notin Busy THEN "xfer" ELSE "sleep")
    /\ slept' = [slept EXCEPT ![t] = FALSE]
    /\ UNCHANGED <<sched, lock, done, expecting, drive, stage, op, left, stop>>

(* One turn of busy_wait.  In "time_limit -= 10 >= 0" the comparison binds *)
(* tighter: the limit goes down by one, and the loop ends at zero.  The    *)
(* callers PANIC then, and when the disk is free without asking for data.  *)
(* Reading the status register withdraws a pending request, unless the     *)
(* interrupt controller has latched it.                                    *)
busy_wait(t) ==
    /\ At(t, "poll")
    /\ limit' = [limit EXCEPT ![t] = @ - 1]
    /\ \/ /\ limit'[t] = 0 \/ dev = "free"
          /\ stop' = "failed"
          /\ UNCHANGED <<intrq, slept, pc>>
       \/ /\ limit'[t] # 0
          /\ dev \in Busy
          /\ intrq' \in {intrq, FALSE}
          /\ slept' = [slept EXCEPT ![t] = FALSE]
          /\ Goto(t, "sleep")
          /\ UNCHANGED stop
       \/ /\ limit'[t] # 0
          /\ dev \in {"read_drq", "write_drq"}
          /\ intrq' \in {intrq, FALSE}
          /\ Goto(t, "xfer")
          /\ UNCHANGED <<slept, stop>>
    /\ UNCHANGED <<sched, lock, done, expecting, dev, stage, op, left>>

(* ticks_to_sleep, called by mtime_sleep(10) for one tick: yield until it  *)
(* has passed.                                                             *)
ticks_to_sleep(t) ==
    /\ At(t, "sleep")
    /\ \/ /\ slept[t]
          /\ Goto(t, "poll")
          /\ UNCHANGED sched
       \/ /\ ~slept[t]
          /\ sched' = thread_yield(sched)
          /\ UNCHANGED pc
    /\ UNCHANGED <<lock, done, expecting, drive, stage, calls, stop>>

(* read_from_sector or write2sector.                                       *)
Transfer(t) ==
    /\ At(t, "xfer")
    /\ IF op[t] = "write"
       THEN dev' = "writing" /\ Goto(t, "down")
       ELSE dev' = "free" /\ Goto(t, "next")
    /\ UNCHANGED <<sched, lock, done, expecting, intrq, stage, calls, stop>>

(* The while loop goes round, or the lock is released.                     *)
NextCommand(t) ==
    /\ At(t, "next")
    /\ left' = [left EXCEPT ![t] = @ - 1]
    /\ \/ /\ left[t] > 1
          /\ Goto(t, "cmd")
          /\ UNCHANGED <<sched, lock, op>>
       \/ /\ left[t] = 1
          /\ Goto(t, "out")
          /\ op' = [op EXCEPT ![t] = "none"]
          /\ IF op[t] = "identify"
             THEN UNCHANGED <<sched, lock>>
             ELSE sched' = sema_up(sched, lock) /\ lock' = Upped(lock)
    /\ UNCHANGED <<done, expecting, drive, stage, limit, slept, stop>>

(* main enables interrupts once init_all has returned.                     *)
intr_enable ==
    /\ At(Main, "out")
    /\ stage = 2
    /\ stage' = 3
    /\ UNCHANGED <<sched, lock, done, expecting, drive, calls, stop, pc>>

(* main starts a thread.  ThreadStart has the steps of thread_start.       *)
thread_start(t) ==
    /\ At(Main, "out")
    /\ stage = 3
    /\ sched.status[t] = "NONE"
    /\ sched' = make_ready(sched, t)
    /\ UNCHANGED <<lock, done, expecting, drive, stage, calls, stop, pc>>

-----------------------------------------------------------------------------
(* Interrupts are enabled in the idle thread, in main after init_all and   *)
(* in every other thread, except just after a switch inside sema_down.     *)
IntrOn ==
    /\ Alive
    /\ sched.cur = Main => stage = 3
    /\ pc[sched.cur] \notin {"lockq", "wait"}

(* An interrupt ends the idle thread's hlt.                                *)
Resume == pc' = IF pc[sched.cur] = "hlt" THEN [pc EXCEPT ![sched.cur] = "block"] ELSE pc

(* Mutant: expecting_intr stays set.                                       *)
intr_hd_handler_expecting ==
    /\ IntrOn
    /\ intrq
    /\ intrq' = FALSE
    /\ IF expecting
       THEN sched' = sema_up(sched, done) /\ done' = Upped(done)
       ELSE UNCHANGED <<sched, done>>
    /\ Resume
    /\ UNCHANGED <<lock, expecting, dev, stage, calls, stop>>

(* The disk's interrupt gives one unit of disk_done for a command that is  *)
(* expected to interrupt, and is ignored otherwise.                        *)
intr_hd_handler ==
    /\ IntrOn
    /\ intrq
    /\ intrq' = FALSE
    /\ IF expecting
       THEN sched' = sema_up(sched, done) /\ done' = Upped(done)
       ELSE UNCHANGED <<sched, done>>
    /\ expecting' = FALSE
    /\ Resume
    /\ UNCHANGED <<lock, dev, stage, calls, stop>>

(* The timer's interrupt; sleeping threads see that ticks has advanced.    *)
Timer ==
    /\ IntrOn
    /\ sched' = intr_timer_handler(sched)
    /\ slept' = [t \in Users |-> slept[t] \/ pc[t] = "sleep"]
    /\ Resume
    /\ UNCHANGED <<lock, done, expecting, drive, stage, op, left, limit, stop>>

(* The disk finishes what it is doing.  It interrupts when it has data to  *)
(* be read and when it has written; before a write it only asks for data.  *)
DiskDone ==
    /\ Alive
    /\ dev \in Busy
    /\ dev' = CASE dev = "reading"   -> "read_drq"
                [] dev = "preparing" -> "write_drq"
                [] dev = "writing"   -> "free"
    /\ intrq' = (intrq \/ dev # "preparing")
    /\ UNCHANGED <<sched, lock, done, expecting, stage, calls, stop, pc>>

IdleBlock ==
    /\ At(Idle, "block")
    /\ sched' = thread_block(sched)
    /\ Goto(Idle, "sti")
    /\ UNCHANGED <<lock, done, expecting, drive, stage, calls, stop>>

IdleHalt ==
    /\ At(Idle, "sti")
    /\ Goto(Idle, "hlt")
    /\ UNCHANGED <<sched, lock, done, expecting, drive, stage, calls, stop>>

(* A thread's next step in a call that is under way.                       *)
Continue(t) ==
    \/ LockWoken(t)
    \/ cmd_out(t)
    \/ CommandByte(t)
    \/ AwaitDisk(t)
    \/ busy_wait(t)
    \/ ticks_to_sleep(t)
    \/ Transfer(t)
    \/ NextCommand(t)

Next ==
    \/ \E t \in Users : identify_disk(t) \/ ide_call(t) \/ Continue(t)
    \/ \E t \in Users \ {Main} : thread_start(t)
    \/ intr_enable
    \/ intr_hd_handler
    \/ Timer
    \/ DiskDone
    \/ IdleBlock
    \/ IdleHalt

Spec == Init /\ [][Next]_vars

(* Interrupts that come while they are disabled stay pending, the disk     *)
(* finishes every command, and threads on the CPU go on.                   *)
Fairness ==
    /\ SF_vars(Timer)
    /\ SF_vars(intr_hd_handler)
    /\ WF_vars(DiskDone)
    /\ WF_vars(IdleBlock \/ IdleHalt)
    /\ \A t \in Users : SF_vars(Continue(t))

FairSpec == Spec /\ Fairness

-----------------------------------------------------------------------------
(* The threads between cmd_out and the end of the command.                 *)
Using == {t \in Users : pc[t] \notin {"out", "lockq"}}

(* The channel's lock, and the order of booting, let one thread at a time  *)
(* use the disk; without a user the lock is free.                          *)
OneUser ==
    /\ \A t, u \in Using : t = u
    /\ lock.value = 1 <=> \A t \in Using : op[t] = "identify"

(* sema_up asserts that disk_done is 0.  The unit of an earlier command,   *)
(* or the initial one, is still there when an interrupt is expected only   *)
(* while a thread is between cmd_out and its sema_down.                    *)
UnitWindow ==
    done.value = 1 /\ expecting =>
        \E t \in Using : \/ pc[t] \in {"outb", "down"}
                         \/ op[t] = "write" /\ pc[t] \in {"poll", "sleep", "xfer"}

(* Data are moved through the port only when the disk asks for them, even  *)
(* for a command whose sema_down took the unit of an earlier one.          *)
TransferReady ==
    \A t \in Using : pc[t] = "xfer" =>
        dev = IF op[t] = "write" THEN "write_drq" ELSE "read_drq"

(* Types, one user of the channel at a time, and data moved only when the  *)
(* disk asks: busy_wait ends at its limit, and no command is mixed with    *)
(* another.                                                                *)
ChannelSound == TypeOK /\ OneUser /\ TransferReady

(* A thread that sleeps on disk_done is not forgotten: an interrupt that   *)
(* will wake it is expected, and is pending or still to be raised.         *)
SleeperExpected ==
    \A t \in Users : elem_find(done.waiters, t) =>
        expecting /\ (intrq \/ dev \in {"reading", "writing"})

(* A call returns, or stops the machine because the disk was not ready     *)
(* within the time limit.                                                  *)
CallReturns ==
    \A t \in Users : pc[t] = "cmd" ~> pc[t] = "out" \/ ~Alive
=============================================================================
