----------------------------- MODULE DiskProofs -----------------------------
(***************************************************************************)
(* Proofs about the disk: its driver, Ide, and the Layout of a partition.  *)
(*                                                                         *)
(* One thread at a time uses the channel and moves data when the disk      *)
(* asks, for any threads, TimeLimit and MaxCmds.  The scheduler matters in *)
(* one respect: until main enables interrupts no thread but main and idle  *)
(* can be on the CPU.  Whether an ASSERT fails on the way does not matter  *)
(* for that.  A thread asleep on disk_done always has an interrupt to wake *)
(* it: there the ASSERTs are what stops a thread that is queued twice.     *)
(*                                                                         *)
(* The layout that partition_format computes, and the sectors it writes,   *)
(* stay in the partition, for every size of a sector, of an inode and of a *)
(* partition.                                                              *)
(***************************************************************************)
EXTENDS Ide, Layout, SchedProofs

(* The threads that may be on the CPU: main and idle while main boots.     *)
Started == IF stage = 3 THEN Threads ELSE {Main, Idle}

(* Only they are queued anywhere, and idle on no semaphore.                *)
Queues ==
    /\ Within(sched, Started)
    /\ lock.waiters \in Seq(Started \ {Idle})
    /\ done.waiters \in Seq(Started \ {Idle})

(* Where the threads stand: a thread has an operation exactly during a     *)
(* call, identify_disk is a part of booting, and so is its freedom from    *)
(* the lock.                                                               *)
Places ==
    /\ pc[Idle] \in IdlePc
    /\ \A t \in Users :
        /\ pc[t] \in UserPc
        /\ t # Main /\ stage # 3 => pc[t] = "out"
        /\ pc[t] = "out" <=> op[t] = "none"
        /\ op[t] = "identify" => stage # 3 /\ pc[t] # "lockq"

(* time_limit is set with the command byte and positive in busy_wait.      *)
Limits ==
    stop = "no" =>
        \A t \in Users : pc[t] \in {"down", "wait", "poll", "sleep", "xfer"} => limit[t] > 0

(* Between its command byte and its transfer a user has the disk executing *)
(* its command, and no other.                                              *)
Commands ==
    stop = "no" => \A t \in Using :
        IF op[t] = "write"
        THEN pc[t] \in {"poll", "sleep", "xfer"} => dev \in {"preparing", "write_drq"}
        ELSE pc[t] \in {"down", "wait", "poll", "sleep", "xfer"} => dev \in {"reading", "read_drq"}

(* The types of the variables that the scheduler does not touch.           *)
CallTypes ==
    /\ expecting \in BOOLEAN
    /\ dev \in DevStates
    /\ intrq \in BOOLEAN
    /\ stage \in Stages
    /\ op \in [Users -> {"none", "identify", "read", "write"}]
    /\ left \in [Users -> 0..MaxCmds]
    /\ limit \in [Users -> 0..TimeLimit]
    /\ slept \in [Users -> BOOLEAN]
    /\ stop \in {"no", "failed", "overrun"}
    /\ pc \in [Threads -> UserPc \cup IdlePc]

Semas == sched \in SchedState /\ lock \in Sema /\ done \in Sema

Control == OneUser /\ UnitWindow /\ TransferReady /\ Places /\ Limits /\ Commands

DInv == Semas /\ Queues /\ CallTypes /\ Control

LEMMA InitLemma == Init => DInv
<1> SUFFICES ASSUME Init PROVE DInv
  BY Zenon
<1>1. Main \in Users /\ Idle \in Threads /\ Idle \notin Users /\ Started = {Main, Idle}
  BY SchedAssumption DEF Init, Users, Started
<1>2. CallTypes
  <2>1. 0 \in 0..MaxCmds /\ TimeLimit \in 0..TimeLimit /\ 0 \in 0..3
    BY IdeAssumption
  <2>2. left \in [Users -> 0..MaxCmds] /\ limit \in [Users -> 0..TimeLimit]
    BY <2>1, Zenon DEF Init
  <2>3. pc \in [Threads -> UserPc \cup IdlePc]
    BY Zenon DEF Init, UserPc, IdlePc
  <2>4. op \in [Users -> {"none", "identify", "read", "write"}] /\ slept \in [Users -> BOOLEAN]
    BY Zenon DEF Init
  <2> QED BY <2>1, <2>2, <2>3, <2>4, Zenon DEF Init, CallTypes, DevStates, Stages
<1>3. Using = {}
  BY Zenon DEF Init, Using, Users
<1>4. Control
  BY <1>1, <1>3, IdeAssumption, Zenon DEF Init, Control, OneUser, UnitWindow, TransferReady, Places, Limits,
     Commands, UserPc, IdlePc, Users
<1>5. <<Idle>> \in Seq({Main, Idle}) /\ <<Idle>> \in Seq(Threads) /\ <<>> \in Seq({Main}) /\ <<>> \in Seq(Users)
  BY <1>1
<1>6. Semas
  BY <1>5, SchedAssumption DEF Init, Semas, Sema, SchedState, thread_init, Status
<1>7. Queues
  BY <1>1, <1>5, <1>6, SchedAssumption DEF Init, Queues, Within, Semas, thread_init
<1> QED BY <1>2, <1>4, <1>6, <1>7, Zenon DEF DInv

-----------------------------------------------------------------------------
(* What the semaphore operations do to the queues.                         *)
LEMMA UpLemma ==
    ASSUME NEW B \in SUBSET Threads, NEW s, Within(s, B),
           NEW sema \in Sema, sema.waiters \in Seq(B \ {Idle})
    PROVE  /\ Within(sema_up(s, sema), B)
           /\ Upped(sema) \in Sema
           /\ Upped(sema).value = 1
           /\ Upped(sema).waiters \in Seq(B \ {Idle})
<1> DEFINE r == ASSERT(s, sema.value = 0)
<1>1. Within(r, B)
  BY AssertWithin, Zenon
<1> HIDE DEF r
<1>2. sema_up(s, sema) = IF sema.waiters = <<>> THEN r ELSE thread_unblock(r, Head(sema.waiters))
  BY Zenon DEF sema_up, r
<1>3. CASE sema.waiters = <<>>
  <2>1. Upped(sema) = [value |-> 1, waiters |-> <<>>]
    BY <1>3, Zenon DEF Upped
  <2> QED BY <1>1, <1>2, <1>3, <2>1 DEF Sema
<1>4. CASE sema.waiters # <<>>
  <2>1. Upped(sema) = [value |-> 1, waiters |-> Tail(sema.waiters)]
    BY <1>4, Zenon DEF Upped
  <2>2. Head(sema.waiters) \in B \ {Idle} /\ Tail(sema.waiters) \in Seq(B \ {Idle})
    BY <1>4, PopLemma, Zenon
  <2>3. Tail(sema.waiters) \in Seq(Users)
    BY <1>4, PopLemma, Zenon DEF Sema
  <2>4. Within(thread_unblock(r, Head(sema.waiters)), B)
    BY <1>1, <2>2, UnblockWithin, Zenon
  <2> QED BY <1>2, <1>4, <2>1, <2>2, <2>3, <2>4 DEF Sema
<1> QED BY <1>3, <1>4, Zenon

LEMMA DownLemma ==
    ASSUME NEW B \in SUBSET Threads, Idle \in B, Within(sched, B), NEW t \in B \ {Idle},
           NEW sema \in Sema, sema.waiters \in Seq(B \ {Idle})
    PROVE  /\ Within(Blocked(sema, t), B)
           /\ Queued(sema, t) \in Sema
           /\ Queued(sema, t).value = sema.value
           /\ Queued(sema, t).waiters \in Seq(B \ {Idle})
<1>1. Within(ASSERT(sched, ~elem_find(sema.waiters, t)), B)
  BY AssertWithin, Zenon
<1>2. Within(Blocked(sema, t), B)
  BY <1>1, BlockWithin, Zenon DEF Blocked
<1> DEFINE l == list_append(sema.waiters, t)
<1>3. l \in Seq(B \ {Idle})
  BY AppendLemma, Zenon
<1>4. l \in Seq(Users)
  <2>1. sema.waiters \in Seq(Users) /\ t \in Users
    BY Zenon DEF Sema, Users
  <2> QED BY <2>1, AppendLemma, Zenon
<1>5. Queued(sema, t) = [sema EXCEPT !.waiters = l]
  BY Zenon DEF Queued
<1> HIDE DEF l
<1> QED BY <1>2, <1>3, <1>4, <1>5, Zenon DEF Sema

(* The thread on the CPU, when it is a user, may queue.                    *)
LEMMA QueuesLemma ==
    ASSUME DInv, [Next]_vars
    PROVE  Semas' /\ Queues'
<1> DEFINE B == Started
<1>1. /\ B \in SUBSET Threads /\ Idle \in B /\ Within(sched, B)
      /\ lock \in Sema /\ done \in Sema
      /\ lock.waiters \in Seq(B \ {Idle}) /\ done.waiters \in Seq(B \ {Idle})
  BY SchedAssumption DEF DInv, Semas, Queues, Started
<1>2. ASSUME stage' = stage, Within(sched', B), lock' \in Sema, done' \in Sema,
             lock'.waiters \in Seq(B \ {Idle}), done'.waiters \in Seq(B \ {Idle})
      PROVE  Semas' /\ Queues'
  BY <1>2, Zenon DEF Semas, Queues, Started, Within
<1>3. ASSUME sched' = sched, lock' = lock, done' = done, stage' = stage
      PROVE  Semas' /\ Queues'
  BY <1>1, <1>2, <1>3, Zenon
<1>4. ASSUME NEW t \in Users, sched.cur = t PROVE t \in B \ {Idle}
  BY <1>1, <1>4, Zenon DEF Within, Users
<1> HIDE DEF B
<1>5. ASSUME NEW sema \in Sema
      PROVE  [sema EXCEPT !.value = 0] \in Sema /\ [sema EXCEPT !.value = 0].waiters = sema.waiters
  BY DEF Sema
<1>6. ASSUME NEW t \in Users, identify_disk(t) PROVE Semas' /\ Queues'
  <2>1. stage # 3 /\ stage' # 3 /\ sched' = sched /\ lock' = lock /\ done' = done
    BY <1>6 DEF identify_disk
  <2>2. Started' = Started
    BY <2>1, Zenon DEF Started
  <2> QED BY <2>1, <2>2, Zenon DEF DInv, Semas, Queues
<1>7. ASSUME NEW t \in Users, ide_call(t) \/ LockWoken(t) PROVE Semas' /\ Queues'
  <2>1. t \in B \ {Idle} /\ stage' = stage /\ done' = done
    BY <1>4, <1>7, Zenon DEF ide_call, LockWoken, At
  <2>2. \/ lock' = [lock EXCEPT !.value = 0] /\ sched' = sched
        \/ lock' = Queued(lock, t) /\ sched' = Blocked(lock, t)
    BY <1>7, Zenon DEF ide_call, LockWoken
  <2>3. CASE lock' = [lock EXCEPT !.value = 0] /\ sched' = sched
    BY <1>1, <1>2, <1>5, <2>1, <2>3, Zenon
  <2>4. CASE lock' = Queued(lock, t) /\ sched' = Blocked(lock, t)
    BY <1>1, <1>2, <2>1, <2>4, DownLemma, Zenon
  <2> QED BY <2>2, <2>3, <2>4, Zenon
<1>8. ASSUME NEW t \in Users, AwaitDisk(t) PROVE Semas' /\ Queues'
  <2>1. t \in B \ {Idle} /\ stage' = stage /\ lock' = lock
    BY <1>4, <1>8, Zenon DEF AwaitDisk, At
  <2>2. \/ done' = [done EXCEPT !.value = 0] /\ sched' = sched
        \/ done' = Queued(done, t) /\ sched' = Blocked(done, t)
    BY <1>8, Zenon DEF AwaitDisk
  <2>3. CASE done' = [done EXCEPT !.value = 0] /\ sched' = sched
    BY <1>1, <1>2, <1>5, <2>1, <2>3, Zenon
  <2>4. CASE done' = Queued(done, t) /\ sched' = Blocked(done, t)
    BY <1>1, <1>2, <2>1, <2>4, DownLemma, Zenon
  <2> QED BY <2>2, <2>3, <2>4
<1>9. ASSUME NEW t \in Users, cmd_out(t) \/ CommandByte(t) \/ busy_wait(t) \/ Transfer(t)
      PROVE  Semas' /\ Queues'
  BY <1>3, <1>9, Zenon DEF cmd_out, CommandByte, busy_wait, Transfer
<1>10. ASSUME NEW t \in Users, ticks_to_sleep(t) PROVE Semas' /\ Queues'
  BY <1>1, <1>2, <1>10, YieldWithin, Zenon DEF ticks_to_sleep
<1>11. ASSUME NEW t \in Users, NextCommand(t) PROVE Semas' /\ Queues'
  <2>1. stage' = stage /\ done' = done
    BY <1>11, Zenon DEF NextCommand
  <2>2. \/ sched' = sched /\ lock' = lock
        \/ sched' = sema_up(sched, lock) /\ lock' = Upped(lock)
    BY <1>11, Zenon DEF NextCommand
  <2> QED BY <1>1, <1>2, <2>1, <2>2, UpLemma, Zenon
<1>12. ASSUME intr_enable PROVE Semas' /\ Queues'
  <2>1. Started' = Threads /\ sched' = sched /\ lock' = lock /\ done' = done
    BY <1>12, Zenon DEF intr_enable, Started
  <2>2. sched.ready \in Seq(Threads) /\ sched.cur \in Threads /\ sched \in SchedState
    BY Zenon DEF DInv, Semas, SchedState
  <2>3. lock.waiters \in Seq(Threads \ {Idle}) /\ done.waiters \in Seq(Threads \ {Idle})
    BY Zenon DEF DInv, Semas, Sema, Users
  <2> QED BY <1>1, <2>1, <2>2, <2>3, Zenon DEF Semas, Queues, Within
<1>13. ASSUME NEW t \in Users \ {Main}, thread_start(t) PROVE Semas' /\ Queues'
  <2>1. t \in B
    BY <1>13, Zenon DEF thread_start, B, Started, Users
  <2> QED BY <1>1, <1>2, <1>13, <2>1, ReadyWithin, Zenon DEF thread_start
<1>14. ASSUME intr_hd_handler PROVE Semas' /\ Queues'
  <2>1. stage' = stage /\ lock' = lock
    BY <1>14, Zenon DEF intr_hd_handler
  <2>2. \/ sched' = sched /\ done' = done
        \/ sched' = sema_up(sched, done) /\ done' = Upped(done)
    BY <1>14, Zenon DEF intr_hd_handler
  <2> QED BY <1>1, <1>2, <2>1, <2>2, UpLemma, Zenon
<1>15. ASSUME Timer PROVE Semas' /\ Queues'
  BY <1>1, <1>2, <1>15, TimerWithin, Zenon DEF Timer
<1>16. ASSUME DiskDone \/ IdleHalt PROVE Semas' /\ Queues'
  BY <1>3, <1>16, Zenon DEF DiskDone, IdleHalt
<1>17. ASSUME IdleBlock PROVE Semas' /\ Queues'
  BY <1>1, <1>2, <1>17, BlockWithin, Zenon DEF IdleBlock
<1>18. ASSUME UNCHANGED vars PROVE Semas' /\ Queues'
  BY <1>3, <1>18, Zenon DEF vars
<1> QED BY <1>6, <1>7, <1>8, <1>9, <1>10, <1>11, <1>12, <1>13, <1>14, <1>15, <1>16, <1>17, <1>18, Zenon DEF Next, Continue

-----------------------------------------------------------------------------
(* What the invariant says of t when no other thread uses the channel.     *)
About(t) ==
    /\ CallTypes
    /\ Places
    /\ \A u \in Users : u # t => pc[u] \in {"out", "lockq"}
    /\ IF pc[t] \in {"out", "lockq"} THEN lock.value = 1 ELSE lock.value = 1 <=> op[t] = "identify"
    /\ done.value = 1 /\ expecting =>
          \/ pc[t] \in {"outb", "down"}
          \/ op[t] = "write" /\ pc[t] \in {"poll", "sleep", "xfer"}
    /\ pc[t] = "xfer" => dev = IF op[t] = "write" THEN "write_drq" ELSE "read_drq"
    /\ stop = "no" /\ pc[t] \in {"down", "wait", "poll", "sleep", "xfer"} =>
          /\ limit[t] > 0
          /\ op[t] # "write" => dev \in {"reading", "read_drq"}
    /\ stop = "no" /\ op[t] = "write" /\ pc[t] \in {"poll", "sleep", "xfer"} =>
          dev \in {"preparing", "write_drq"}

LEMMA AboutControl == \A t \in Users : About(t) => Control
<1> SUFFICES ASSUME NEW t \in Users, About(t) PROVE Control
  BY Zenon
<1>1. OneUser
  BY Zenon DEF About, OneUser, Using
<1>2. UnitWindow
  BY Zenon DEF About, UnitWindow, Using
<1>3. TransferReady
  BY Zenon DEF About, TransferReady, Using
<1>4. Limits
  BY Zenon DEF About, Limits
<1>5. Commands
  BY Zenon DEF About, Commands, Using
<1> QED BY <1>1, <1>2, <1>3, <1>4, <1>5, Zenon DEF About, Control

LEMMA AboutControlNext == \A t \in Users : About(t)' => Control'
<1>1. (\A t \in Users : About(t) => Control)'
  BY AboutControl, PTL
<1> QED BY <1>1, Zenon

LEMMA ControlAbout ==
    ASSUME DInv, NEW t \in Users, pc[t] \notin {"out", "lockq"}
    PROVE  About(t)
BY Zenon DEF DInv, Control, OneUser, UnitWindow, TransferReady, Limits, Commands, Using, About

-----------------------------------------------------------------------------
(* A thread goes on in a call, and the others stay where they are.         *)
LEMMA GotoLemma ==
    ASSUME CallTypes, NEW t \in Users, NEW to \in UserPc, Goto(t, to)
    PROVE  /\ pc' \in [Threads -> UserPc \cup IdlePc]
           /\ pc'[t] = to
           /\ pc'[Idle] = pc[Idle]
           /\ \A u \in Users : u # t => pc'[u] = pc[u]
BY SchedAssumption DEF CallTypes, Goto, Users

Moves(t, to) ==
    /\ pc' \in [Threads -> UserPc \cup IdlePc]
    /\ pc'[t] = to
    /\ pc'[Idle] = pc[Idle]
    /\ \A u \in Users : u # t => pc'[u] = pc[u]

LEMMA PlacesLemma ==
    ASSUME NEW t \in Users, About(t), NEW to \in UserPc \ {"out", "lockq"}, Moves(t, to),
           pc[t] \notin {"out", "lockq"}, op' = op, stage' = stage
    PROVE  Places'
BY DEF About, Places, Moves

(* The steps of the one user.                                              *)
LEMMA CmdOutLemma ==
    ASSUME DInv, NEW t \in Users, cmd_out(t)
    PROVE  CallTypes' /\ Control'
<1>1. About(t) /\ pc[t] = "cmd" /\ t # Idle /\ t \in Threads
  BY ControlAbout, Zenon DEF cmd_out, At, Users
<1>2. CallTypes'
  BY <1>1, Zenon DEF cmd_out, Goto, About, CallTypes, UserPc, calls, drive
<1>3. Places'
  BY <1>1 DEF cmd_out, Goto, About, CallTypes, Places, UserPc, calls, drive
<1>4. About(t)'
  BY <1>1, <1>2, <1>3 DEF cmd_out, Goto, About, CallTypes, calls, drive
<1> QED BY <1>2, <1>4, AboutControlNext, Zenon

LEMMA CommandByteLemma ==
    ASSUME DInv, NEW t \in Users, CommandByte(t)
    PROVE  CallTypes' /\ Control'
<1>1. About(t) /\ pc[t] = "outb" /\ t # Idle /\ t \in Threads /\ stop = "no"
  BY ControlAbout, Zenon DEF CommandByte, At, Alive, Users
<1>2. CallTypes'
  <2>1. TimeLimit \in 0..TimeLimit /\ TimeLimit > 0
    BY IdeAssumption
  <2>2. limit' \in [Users -> 0..TimeLimit]
    BY <1>1, <2>1, Zenon DEF CommandByte, About, CallTypes
  <2>3. pc' \in [Threads -> UserPc \cup IdlePc]
    BY <1>1, Zenon DEF CommandByte, Goto, About, CallTypes, UserPc
  <2>4. dev' \in DevStates /\ stop' \in {"no", "failed", "overrun"}
    BY <1>1, Zenon DEF CommandByte, About, CallTypes, DevStates, Busy
  <2> QED BY <1>1, <2>2, <2>3, <2>4, Zenon DEF CommandByte, About, CallTypes
<1>3. Places'
  BY <1>1 DEF CommandByte, Goto, About, CallTypes, Places, UserPc
<1>4. About(t)'
  <2>1. limit'[t] = TimeLimit /\ TimeLimit > 0
    BY <1>1, IdeAssumption DEF CommandByte, About, CallTypes
  <2>2. pc'[t] = IF op[t] = "write" THEN "poll" ELSE "down"
    BY <1>1, Zenon DEF CommandByte, Goto, About, CallTypes
  <2>3. stop' = "no" => dev' = IF op[t] = "write" THEN "preparing" ELSE "reading"
    BY Zenon DEF CommandByte
  <2>4. \A u \in Users : u # t => pc'[u] = pc[u]
    BY <1>1 DEF CommandByte, Goto, About, CallTypes
  <2> QED BY <1>1, <1>2, <1>3, <2>1, <2>2, <2>3, <2>4, Zenon DEF CommandByte, About
<1> QED BY <1>2, <1>4, AboutControlNext

LEMMA AwaitDiskLemma ==
    ASSUME DInv, NEW t \in Users, AwaitDisk(t)
    PROVE  CallTypes' /\ Control'
<1> DEFINE to == IF done.value = 0 THEN "wait" ELSE IF op[t] = "write" THEN "next" ELSE "poll"
<1>1. About(t) /\ pc[t] \in {"down", "wait"} /\ stop = "no" /\ CallTypes
  BY ControlAbout, Zenon DEF AwaitDisk, At, Alive, About
<1>2. to \in UserPc \ {"out", "lockq"} /\ Goto(t, to)
  BY DEF AwaitDisk, UserPc
<1>3. to \in {"wait", "next", "poll"} /\ (to = "next" <=> done.value # 0 /\ op[t] = "write")
  BY Zenon
<1> HIDE DEF to
<1>4. Moves(t, to)
  BY <1>1, <1>2, GotoLemma, Zenon DEF Moves
<1>5. /\ expecting' = expecting /\ dev' = dev /\ intrq' = intrq /\ stage' = stage /\ op' = op
      /\ left' = left /\ limit' = limit /\ slept' = slept /\ stop' = stop /\ lock' = lock
  BY Zenon DEF AwaitDisk, calls, drive
<1>6. CallTypes'
  BY <1>1, <1>4, <1>5, Zenon DEF CallTypes, Moves
<1>7. Places'
  BY <1>1, <1>2, <1>4, <1>5, PlacesLemma, Zenon
<1>8. done'.value = 0
  BY Zenon DEF AwaitDisk, Queued, DInv, Semas, Sema
<1>9. to = "poll" => op[t] # "write"
  BY Zenon DEF to
<1>10. About(t)'
  BY <1>1, <1>3, <1>4, <1>5, <1>6, <1>7, <1>8, <1>9 DEF About, Moves
<1> QED BY <1>6, <1>10, AboutControlNext

LEMMA BusyWaitLemma ==
    ASSUME DInv, NEW t \in Users, busy_wait(t)
    PROVE  CallTypes' /\ Control'
<1>1. About(t) /\ pc[t] = "poll" /\ stop = "no" /\ CallTypes /\ t \in Threads
  BY ControlAbout, Zenon DEF busy_wait, At, Alive, Users, About
<1>2. limit[t] > 0 /\ limit'[t] = limit[t] - 1 /\ limit' \in [Users -> 0..TimeLimit]
  BY <1>1, IdeAssumption DEF busy_wait, About, CallTypes
<1>3. /\ sched' = sched /\ lock' = lock /\ done' = done /\ expecting' = expecting /\ dev' = dev
      /\ stage' = stage /\ op' = op /\ left' = left
  BY Zenon DEF busy_wait
<1>4. PICK to \in {"poll", "sleep", "xfer"} :
          /\ Moves(t, to)
          /\ to = "poll" => stop' = "failed"
          /\ to # "poll" => stop' = stop /\ limit'[t] # 0
          /\ to = "xfer" => dev \in {"read_drq", "write_drq"}
  <2>1. CASE stop' = "failed" /\ pc' = pc
    BY <1>1, <2>1, Zenon DEF Moves, CallTypes
  <2>2. CASE limit'[t] # 0 /\ Goto(t, "sleep") /\ stop' = stop
    BY <1>1, <2>2, GotoLemma, Zenon DEF Moves, UserPc
  <2>3. CASE limit'[t] # 0 /\ Goto(t, "xfer") /\ stop' = stop /\ dev \in {"read_drq", "write_drq"}
    BY <1>1, <2>3, GotoLemma, Zenon DEF Moves, UserPc
  <2> QED BY <2>1, <2>2, <2>3, Zenon DEF busy_wait
<1>5. to \in UserPc \ {"out", "lockq"}
  BY Zenon DEF UserPc
<1>6. Places'
  BY <1>1, <1>3, <1>4, <1>5, PlacesLemma, Zenon
<1>7. CallTypes'
  <2>1. intrq' \in BOOLEAN
    BY <1>1, Zenon DEF busy_wait, CallTypes
  <2>2. slept' \in [Users -> BOOLEAN] /\ stop' \in {"no", "failed", "overrun"}
    BY <1>1, Zenon DEF busy_wait, CallTypes
  <2> QED BY <1>1, <1>2, <1>3, <1>4, <2>1, <2>2, Zenon DEF CallTypes, Moves
<1>8. stop' = "no" => limit'[t] > 0
  <2>1. limit'[t] \in 0..TimeLimit
    BY <1>2, Zenon
  <2> QED BY <1>1, <1>4, <2>1, IdeAssumption
<1>9. to = "xfer" => dev = IF op[t] = "write" THEN "write_drq" ELSE "read_drq"
  BY <1>1, <1>4, Zenon DEF About
<1>10. pc'[t] = to /\ \A u \in Users : u # t => pc'[u] \in {"out", "lockq"}
  BY <1>1, <1>4, Zenon DEF About, Moves
<1>11. About(t)'
  BY <1>1, <1>3, <1>6, <1>7, <1>8, <1>9, <1>10, Zenon DEF About
<1> QED BY <1>7, <1>11, AboutControlNext, Zenon

LEMMA SleepLemma ==
    ASSUME DInv, NEW t \in Users, ticks_to_sleep(t)
    PROVE  CallTypes' /\ Control'
<1>1. About(t) /\ pc[t] = "sleep" /\ stop = "no" /\ CallTypes /\ t \in Threads
  BY ControlAbout, Zenon DEF ticks_to_sleep, At, Alive, Users, About
<1>2. PICK to \in {"poll", "sleep"} : Moves(t, to)
  <2>1. CASE Goto(t, "poll")
    BY <1>1, <2>1, GotoLemma, Zenon DEF Moves, UserPc
  <2>2. CASE pc' = pc
    BY <1>1, <2>2, Zenon DEF Moves, CallTypes
  <2> QED BY <2>1, <2>2, Zenon DEF ticks_to_sleep
<1>3. /\ expecting' = expecting /\ dev' = dev /\ intrq' = intrq /\ stage' = stage /\ op' = op
      /\ left' = left /\ limit' = limit /\ slept' = slept /\ stop' = stop /\ lock' = lock /\ done' = done
  BY Zenon DEF ticks_to_sleep, calls, drive
<1>4. to \in UserPc \ {"out", "lockq"}
  BY Zenon DEF UserPc
<1>5. CallTypes'
  BY <1>1, <1>2, <1>3, Zenon DEF CallTypes, Moves
<1>6. Places'
  BY <1>1, <1>2, <1>3, <1>4, PlacesLemma, Zenon
<1>7. About(t)'
  BY <1>1, <1>2, <1>3, <1>5, <1>6, Zenon DEF About, Moves
<1> QED BY <1>5, <1>7, AboutControlNext, Zenon

LEMMA TransferLemma ==
    ASSUME DInv, NEW t \in Users, Transfer(t)
    PROVE  CallTypes' /\ Control'
<1> DEFINE to == IF op[t] = "write" THEN "down" ELSE "next"
<1>1. About(t) /\ pc[t] = "xfer" /\ stop = "no" /\ CallTypes
  BY ControlAbout, Zenon DEF Transfer, At, Alive, About
<1>2. to \in UserPc \ {"out", "lockq"} /\ Goto(t, to) /\ dev' \in {"writing", "free"}
  BY Zenon DEF Transfer, UserPc
<1>3. (to = "down" /\ op[t] = "write") \/ (to = "next" /\ op[t] # "write")
  BY Zenon
<1> HIDE DEF to
<1>4. Moves(t, to)
  BY <1>1, <1>2, GotoLemma, Zenon DEF Moves
<1>5. /\ expecting' = expecting /\ intrq' = intrq /\ stage' = stage /\ op' = op /\ done' = done
      /\ left' = left /\ limit' = limit /\ slept' = slept /\ stop' = stop /\ lock' = lock
  BY Zenon DEF Transfer, calls
<1>6. CallTypes'
  BY <1>1, <1>2, <1>4, <1>5, Zenon DEF CallTypes, Moves, DevStates, Busy
<1>7. Places'
  BY <1>1, <1>2, <1>4, <1>5, PlacesLemma, Zenon
<1>8. About(t)'
  BY <1>1, <1>3, <1>4, <1>5, <1>6, <1>7, Zenon DEF About, Moves
<1> QED BY <1>6, <1>8, AboutControlNext

LEMMA NextCommandLemma ==
    ASSUME DInv, NEW t \in Users, NextCommand(t)
    PROVE  CallTypes' /\ Control'
<1>1. About(t) /\ pc[t] = "next" /\ stop = "no" /\ CallTypes
  BY ControlAbout, Zenon DEF NextCommand, At, Alive, About
<1>2. PICK to \in {"out", "cmd"} :
          /\ Moves(t, to)
          /\ to = "cmd" => lock' = lock /\ op' = op
          /\ to = "out" => op' = [op EXCEPT ![t] = "none"] /\ lock'.value = 1
  <2>1. CASE left[t] > 1 /\ Goto(t, "cmd") /\ lock' = lock /\ op' = op
    BY <1>1, <2>1, GotoLemma, Zenon DEF Moves, UserPc
  <2>2. CASE left[t] = 1 /\ Goto(t, "out") /\ op' = [op EXCEPT ![t] = "none"]
    <3>1. lock'.value = 1
      BY <1>1, <2>2 DEF NextCommand, About, Upped
    <3> QED BY <1>1, <2>2, <3>1, GotoLemma, Zenon DEF Moves, UserPc
  <2> QED BY <2>1, <2>2, Zenon DEF NextCommand
<1>3. /\ expecting' = expecting /\ dev' = dev /\ intrq' = intrq /\ stage' = stage /\ done' = done
      /\ limit' = limit /\ slept' = slept /\ stop' = stop
  BY Zenon DEF NextCommand, drive
<1>4. left' \in [Users -> 0..MaxCmds]
  BY <1>1, IdeAssumption DEF NextCommand, CallTypes
<1>5. op' \in [Users -> {"none", "identify", "read", "write"}]
  BY <1>1, <1>2, Zenon DEF CallTypes
<1>6. CallTypes'
  BY <1>1, <1>2, <1>3, <1>4, <1>5, Zenon DEF CallTypes, Moves
<1>7. CASE to = "cmd"
  <2>1. Places'
    BY <1>1, <1>2, <1>3, <1>7, PlacesLemma, Zenon DEF UserPc
  <2>2. About(t)'
    BY <1>1, <1>2, <1>3, <1>6, <1>7, <2>1, Zenon DEF About, Moves
  <2> QED BY <1>6, <2>2, AboutControlNext, Zenon
<1>8. CASE to = "out"
  <2>1. op'[t] = "none" /\ \A u \in Users : u # t => op'[u] = op[u]
    BY <1>1, <1>2, <1>8, Zenon DEF CallTypes
  <2>2. Places'
    BY <1>1, <1>2, <1>3, <1>8, <2>1 DEF About, Places, Moves, UserPc
  <2>3. About(t)'
    BY <1>1, <1>2, <1>3, <1>6, <1>8, <2>2, Zenon DEF About, Moves
  <2> QED BY <1>6, <2>3, AboutControlNext
<1> QED BY <1>2, <1>7, <1>8, Zenon

-----------------------------------------------------------------------------
(* A thread on the CPU while main boots is main.                           *)
LEMMA BootLemma ==
    ASSUME DInv, NEW t \in Users, sched.cur = t, stage # 3
    PROVE  t = Main
BY Zenon DEF DInv, Queues, Within, Started, Users

(* A call that finds the lock free, or needs none, finds no user.          *)
LEMMA NoUser ==
    ASSUME DInv, NEW t \in Users, sched.cur = t, pc[t] \in {"out", "lockq"},
           stage # 3 \/ lock.value = 1
    PROVE  /\ \A u \in Users : pc[u] \in {"out", "lockq"}
           /\ ~(done.value = 1 /\ expecting)
           /\ lock.value = 1
<1>1. \A u \in Users : pc[u] \in {"out", "lockq"}
  <2>1. CASE stage # 3
    BY <2>1, BootLemma, Zenon DEF DInv, Control, Places
  <2>2. CASE stage = 3 /\ lock.value = 1
    BY <2>2, Zenon DEF DInv, Control, OneUser, Places, Using
  <2> QED BY <2>1, <2>2, Zenon
<1>2. Using = {}
  BY <1>1, Zenon DEF Using
<1> QED BY <1>1, <1>2, Zenon DEF DInv, Control, OneUser, UnitWindow

LEMMA IdentifyLemma ==
    ASSUME DInv, NEW t \in Users, identify_disk(t)
    PROVE  CallTypes' /\ Control'
<1>1. /\ sched.cur = t /\ pc[t] = "out" /\ t = Main /\ stage \in {0, 1} /\ CallTypes
      /\ Places
  BY Zenon DEF identify_disk, At, DInv, Control
<1>2. /\ \A u \in Users : pc[u] \in {"out", "lockq"}
      /\ ~(done.value = 1 /\ expecting)
      /\ lock.value = 1
  BY <1>1, NoUser
<1>3. Moves(t, "cmd")
  BY <1>1, GotoLemma, Zenon DEF identify_disk, Moves, UserPc
<1>4. /\ expecting' = expecting /\ dev' = dev /\ intrq' = intrq /\ done' = done
      /\ limit' = limit /\ slept' = slept /\ stop' = stop /\ lock' = lock
  BY Zenon DEF identify_disk, drive
<1>5. stage' \in {1, 2} /\ left' \in [Users -> 0..MaxCmds]
  BY <1>1, IdeAssumption DEF identify_disk, CallTypes
<1>6. /\ op' \in [Users -> {"none", "identify", "read", "write"}]
      /\ op'[t] = "identify" /\ \A u \in Users : u # t => op'[u] = op[u]
  BY <1>1, Zenon DEF identify_disk, CallTypes
<1>7. CallTypes'
  BY <1>1, <1>3, <1>4, <1>5, <1>6 DEF CallTypes, Moves, Stages
<1>8. Places'
  BY <1>1, <1>3, <1>5, <1>6 DEF Places, Moves, UserPc
<1>9. About(t)'
  BY <1>2, <1>3, <1>4, <1>6, <1>7, <1>8, Zenon DEF About, Moves
<1> QED BY <1>7, <1>9, AboutControlNext

(* The lock is taken by a thread that becomes the user.                    *)
LEMMA TakeLemma ==
    ASSUME DInv, NEW t \in Users, sched.cur = t, pc[t] \in {"out", "lockq"}, lock.value = 1,
           CallTypes', Moves(t, "cmd"), op'[t] \in {"read", "write"},
           \A u \in Users : u # t => op'[u] = op[u],
           lock'.value = 0, done' = done, expecting' = expecting, stage' = stage
    PROVE  Control'
<1>1. /\ \A u \in Users : pc[u] \in {"out", "lockq"}
      /\ ~(done.value = 1 /\ expecting)
  BY NoUser, Zenon
<1>2. Places'
  <2>1. stage # 3 => t = Main
    BY BootLemma, Zenon
  <2> QED BY <2>1 DEF DInv, Control, Places, Moves, UserPc
<1>3. About(t)'
  BY <1>1, <1>2 DEF About, Moves
<1> QED BY <1>3, AboutControlNext, Zenon

(* A thread that waits for the lock leaves the user alone.                 *)
LEMMA WaitLemma ==
    ASSUME DInv, NEW t \in Users, sched.cur = t, pc[t] \in {"out", "lockq"},
           Moves(t, "lockq"), op'[t] \in {"read", "write"},
           \A u \in Users : u # t => op'[u] = op[u],
           lock'.value = lock.value, done' = done, expecting' = expecting, stage' = stage,
           dev' = dev, limit' = limit, stop' = stop
    PROVE  Control'
<1>1. Using' = Using /\ t \notin Using
  BY Zenon DEF Using, Moves
<1>2. \A u \in Using : u # t /\ pc'[u] = pc[u] /\ op'[u] = op[u] /\ u \in Users
  BY <1>1, Zenon DEF Using, Moves
<1>3. OneUser'
  BY <1>1, <1>2 DEF DInv, Control, OneUser
<1>4. UnitWindow'
  BY <1>1, <1>2, Zenon DEF DInv, Control, UnitWindow
<1>5. TransferReady'
  BY <1>1, <1>2 DEF DInv, Control, TransferReady
<1>6. Commands'
  BY <1>1, <1>2 DEF DInv, Control, Commands
<1>7. Limits'
  BY Zenon DEF DInv, Control, Limits, Moves
<1>8. Places'
  <2>1. stage # 3 => t = Main
    BY BootLemma, Zenon
  <2> QED BY <2>1 DEF DInv, Control, Places, Moves, UserPc
<1> QED BY <1>3, <1>4, <1>5, <1>6, <1>7, <1>8, Zenon DEF Control

LEMMA CallLemma ==
    ASSUME DInv, NEW t \in Users, ide_call(t)
    PROVE  CallTypes' /\ Control'
<1>1. sched.cur = t /\ pc[t] = "out" /\ CallTypes /\ lock \in Sema
  BY Zenon DEF ide_call, At, DInv, Semas
<1>2. PICK kind \in {"read", "write"}, n \in 1..MaxCmds :
          op' = [op EXCEPT ![t] = kind] /\ left' = [left EXCEPT ![t] = n]
  BY Zenon DEF ide_call
<1>3. /\ op' \in [Users -> {"none", "identify", "read", "write"}] /\ left' \in [Users -> 0..MaxCmds]
      /\ op'[t] \in {"read", "write"} /\ \A u \in Users : u # t => op'[u] = op[u]
  BY <1>1, <1>2, IdeAssumption DEF CallTypes
<1>4. /\ expecting' = expecting /\ dev' = dev /\ intrq' = intrq /\ done' = done /\ stage' = stage
      /\ limit' = limit /\ slept' = slept /\ stop' = stop
  BY Zenon DEF ide_call, drive
<1>5. CASE lock.value = 1 /\ lock' = [lock EXCEPT !.value = 0] /\ Goto(t, "cmd")
  <2>1. Moves(t, "cmd")
    BY <1>1, <1>5, GotoLemma, Zenon DEF Moves, UserPc
  <2>2. CallTypes'
    BY <1>1, <1>3, <1>4, <2>1, Zenon DEF CallTypes, Moves
  <2>3. lock'.value = 0
    BY <1>1, <1>5, Zenon DEF Sema
  <2> QED BY <1>1, <1>3, <1>4, <1>5, <2>1, <2>2, <2>3, TakeLemma, Zenon
<1>6. CASE lock.value = 0 /\ lock' = Queued(lock, t) /\ Goto(t, "lockq")
  <2>1. Moves(t, "lockq")
    BY <1>1, <1>6, GotoLemma, Zenon DEF Moves, UserPc
  <2>2. CallTypes'
    BY <1>1, <1>3, <1>4, <2>1, Zenon DEF CallTypes, Moves
  <2>3. lock'.value = lock.value
    BY <1>1, <1>6, Zenon DEF Sema, Queued
  <2> QED BY <1>1, <1>3, <1>4, <2>1, <2>2, <2>3, WaitLemma, Zenon
<1> QED BY <1>5, <1>6, Zenon DEF ide_call

LEMMA LockWokenLemma ==
    ASSUME DInv, NEW t \in Users, LockWoken(t)
    PROVE  CallTypes' /\ Control'
<1>1. /\ sched.cur = t /\ pc[t] = "lockq" /\ CallTypes /\ lock \in Sema
      /\ op[t] \in {"read", "write"} /\ t \in Threads
  BY Zenon DEF LockWoken, At, DInv, Semas, Control, Places, CallTypes, Users
<1>2. /\ expecting' = expecting /\ dev' = dev /\ intrq' = intrq /\ done' = done /\ stage' = stage
      /\ op' = op /\ left' = left /\ limit' = limit /\ slept' = slept /\ stop' = stop
  BY Zenon DEF LockWoken, drive, calls
<1>3. CASE lock.value = 1 /\ lock' = [lock EXCEPT !.value = 0] /\ Goto(t, "cmd")
  <2>1. Moves(t, "cmd")
    BY <1>1, <1>3, GotoLemma, Zenon DEF Moves, UserPc
  <2>2. CallTypes'
    BY <1>1, <1>2, <2>1, Zenon DEF CallTypes, Moves
  <2>3. lock'.value = 0
    BY <1>1, <1>3, Zenon DEF Sema
  <2> QED BY <1>1, <1>2, <1>3, <2>1, <2>2, <2>3, TakeLemma, Zenon
<1>4. CASE lock.value = 0 /\ lock' = Queued(lock, t) /\ pc' = pc
  <2>1. Moves(t, "lockq")
    BY <1>1, <1>4, Zenon DEF Moves, CallTypes
  <2>2. CallTypes'
    BY <1>1, <1>2, <2>1, Zenon DEF CallTypes, Moves
  <2>3. lock'.value = lock.value
    BY <1>1, <1>4, Zenon DEF Sema, Queued
  <2> QED BY <1>1, <1>2, <2>1, <2>2, <2>3, WaitLemma, Zenon
<1> QED BY <1>3, <1>4, Zenon DEF LockWoken

-----------------------------------------------------------------------------
(* Steps that move no user.                                                *)
LEMMA StillLemma ==
    ASSUME DInv, pc' \in [Threads -> UserPc \cup IdlePc], pc'[Idle] \in IdlePc,
           \A u \in Users : pc'[u] = pc[u],
           lock' = lock, op' = op, left' = left, limit' = limit, stop' = stop, dev' = dev,
           slept' \in [Users -> BOOLEAN], intrq' \in BOOLEAN, expecting' \in BOOLEAN,
           stage' = stage \/ (stage' = 3 /\ pc[Main] = "out"),
           (done' = done /\ expecting' = expecting) \/ ~expecting'
    PROVE  CallTypes' /\ Control'
<1>1. Using' = Using
  BY Zenon DEF Using
<1>2. \A u \in Using : u \in Users
  BY Zenon DEF Using
<1>3. CallTypes'
  BY DEF DInv, CallTypes, Stages
<1>4. OneUser'
  BY <1>1, <1>2, Zenon DEF DInv, Control, OneUser
<1>5. UnitWindow'
  BY <1>1, <1>2, Zenon DEF DInv, Control, UnitWindow
<1>6. TransferReady'
  BY <1>1, <1>2, Zenon DEF DInv, Control, TransferReady
<1>7. Commands'
  BY <1>1, <1>2, Zenon DEF DInv, Control, Commands
<1>8. Limits'
  BY Zenon DEF DInv, Control, Limits
<1>9. Places'
  <2>1. CASE stage' = stage
    BY <2>1, Zenon DEF DInv, Control, Places
  <2>2. CASE stage' = 3 /\ pc[Main] = "out" /\ stage # 3
    <3>1. \A u \in Users : pc[u] = "out" /\ op[u] = "none"
      BY <2>2, Zenon DEF DInv, Control, Places
    <3> QED BY <2>2, <3>1, Zenon DEF DInv, Control, Places
  <2> QED BY <2>1, <2>2, Zenon
<1> QED BY <1>3, <1>4, <1>5, <1>6, <1>7, <1>8, <1>9, Zenon DEF Control

LEMMA ResumeLemma ==
    ASSUME DInv, Resume
    PROVE  /\ pc' \in [Threads -> UserPc \cup IdlePc]
           /\ pc'[Idle] \in IdlePc
           /\ \A u \in Users : pc'[u] = pc[u]
<1>1. /\ pc \in [Threads -> UserPc \cup IdlePc] /\ pc[Idle] \in IdlePc
      /\ \A u \in Users : pc[u] \in UserPc
      /\ sched.cur \in Threads
  BY Zenon DEF DInv, CallTypes, Control, Places, Semas, SchedState
<1>2. CASE pc[sched.cur] = "hlt"
  <2>1. sched.cur = Idle
    BY <1>1, <1>2, Zenon DEF Users, UserPc
  <2>2. pc' = [pc EXCEPT ![Idle] = "block"]
    BY <1>2, <2>1, Zenon DEF Resume
  <2> QED BY <1>1, <2>1, <2>2, Zenon DEF Users, IdlePc
<1>3. CASE pc[sched.cur] # "hlt"
  BY <1>1, <1>3, Zenon DEF Resume
<1> QED BY <1>2, <1>3, Zenon

LEMMA DiskDoneLemma ==
    ASSUME DInv, DiskDone
    PROVE  CallTypes' /\ Control'
<1>1. /\ lock' = lock /\ done' = done /\ expecting' = expecting /\ stage' = stage /\ stop = "no"
      /\ op' = op /\ left' = left /\ limit' = limit /\ slept' = slept /\ stop' = stop /\ pc' = pc
      /\ dev \in Busy
  BY Zenon DEF DiskDone, calls, Alive
<1>2. \/ dev = "reading" /\ dev' = "read_drq"
      \/ dev = "preparing" /\ dev' = "write_drq"
      \/ dev = "writing" /\ dev' = "free"
  BY Zenon DEF DiskDone, Busy
<1>3. intrq' \in BOOLEAN
  BY Zenon DEF DiskDone
<1>4. Using' = Using
  BY <1>1, Zenon DEF Using
<1>5. CallTypes'
  BY <1>1, <1>2, <1>3, Zenon DEF DInv, CallTypes, DevStates, Busy
<1>6. OneUser'
  BY <1>1, <1>4, Zenon DEF DInv, Control, OneUser
<1>7. UnitWindow'
  BY <1>1, <1>4, Zenon DEF DInv, Control, UnitWindow
<1>8. TransferReady'
  BY <1>1, <1>2, <1>4, Zenon DEF DInv, Control, TransferReady
<1>9. Commands'
  BY <1>1, <1>2, <1>4, Zenon DEF DInv, Control, Commands
<1>10. Limits' /\ Places'
  BY <1>1, Zenon DEF DInv, Control, Limits, Places
<1> QED BY <1>5, <1>6, <1>7, <1>8, <1>9, <1>10, Zenon DEF Control

-----------------------------------------------------------------------------
LEMMA StepLemma ==
    ASSUME DInv, [Next]_vars
    PROVE  DInv'
<1>1. Semas' /\ Queues'
  BY QueuesLemma, Zenon
<1>2. /\ pc \in [Threads -> UserPc \cup IdlePc] /\ pc[Idle] \in IdlePc /\ Idle \in Threads
      /\ slept \in [Users -> BOOLEAN] /\ intrq \in BOOLEAN /\ expecting \in BOOLEAN
  BY SchedAssumption DEF DInv, CallTypes, Control, Places
<1>3. ASSUME NEW t \in Users, identify_disk(t) \/ ide_call(t) \/ Continue(t)
      PROVE  CallTypes' /\ Control'
  BY <1>3, IdentifyLemma, CallLemma, LockWokenLemma, CmdOutLemma, CommandByteLemma, AwaitDiskLemma,
     BusyWaitLemma, SleepLemma, TransferLemma, NextCommandLemma, Zenon DEF Continue
<1>4. ASSUME NEW t \in Users \ {Main}, thread_start(t)
      PROVE  CallTypes' /\ Control'
  BY <1>2, <1>4, StillLemma, Zenon DEF thread_start, calls, drive
<1>5. ASSUME intr_enable PROVE CallTypes' /\ Control'
  BY <1>2, <1>5, StillLemma, Zenon DEF intr_enable, At, calls, drive
<1>6. ASSUME intr_hd_handler PROVE CallTypes' /\ Control'
  BY <1>2, <1>6, StillLemma, ResumeLemma, Zenon DEF intr_hd_handler, calls
<1>7. ASSUME Timer PROVE CallTypes' /\ Control'
  <2>1. slept' \in [Users -> BOOLEAN]
    BY <1>2, <1>7, Zenon DEF Timer
  <2> QED BY <1>2, <1>7, <2>1, StillLemma, ResumeLemma, Zenon DEF Timer, drive
<1>8. ASSUME IdleBlock \/ IdleHalt PROVE CallTypes' /\ Control'
  <2>1. PICK to \in IdlePc : pc' = [pc EXCEPT ![Idle] = to]
    BY <1>8, Zenon DEF IdleBlock, IdleHalt, Goto, IdlePc
  <2>2. /\ pc' \in [Threads -> UserPc \cup IdlePc] /\ pc'[Idle] \in IdlePc
        /\ \A u \in Users : pc'[u] = pc[u]
    BY <1>2, <2>1, Zenon DEF Users
  <2> QED BY <1>2, <1>8, <2>2, StillLemma, Zenon DEF IdleBlock, IdleHalt, calls, drive
<1>9. ASSUME UNCHANGED vars PROVE CallTypes' /\ Control'
  BY <1>2, <1>9, StillLemma, Zenon DEF vars, calls, drive
<1>10. CallTypes' /\ Control'
  BY <1>3, <1>4, <1>5, <1>6, <1>7, <1>8, <1>9, DiskDoneLemma DEF Next
<1> QED BY <1>1, <1>10, Zenon DEF DInv

LEMMA ChannelInvariant == Spec => []DInv
BY InitLemma, StepLemma, PTL DEF Spec

(* The channel: whatever the threads, the length of a call and the limit   *)
(* of busy_wait, ide.c lets one thread at a time use the disk, leaves the  *)
(* lock free without a user, and touches the data port only when the disk  *)
(* asks for the data of that command.                                      *)
THEOREM ChannelCorrect == Spec => []ChannelSound
<1>1. DInv => ChannelSound
  BY Zenon DEF DInv, Semas, CallTypes, Control, ChannelSound, TypeOK
<1> QED BY <1>1, ChannelInvariant, PTL

(* The ASSERT of sema_up in intr_hd_handler can meet an old unit of        *)
(* disk_done only while a thread is between cmd_out and its sema_down.     *)
THEOREM OldUnitOnlyInWindow == Spec => []UnitWindow
<1>1. DInv => UnitWindow
  BY Zenon DEF DInv, Control
<1> QED BY <1>1, ChannelInvariant, PTL

-----------------------------------------------------------------------------
(* A sleeper is not forgotten.  A user that is on its way to sema_down has *)
(* the interrupt of its command still to come, or finds a unit already.    *)
(* An ASSERT that fails stops everything, so what a later step needs is    *)
(* said of the states in which the machine goes on.                        *)
Pending == expecting /\ (intrq \/ dev \in {"reading", "writing"})

Announced(t) ==
    /\ pc[t] = "outb" \/ (op[t] = "write" /\ pc[t] \in {"poll", "sleep", "xfer"}) =>
          expecting \/ done.value = 1
    /\ pc[t] = "down" => Pending \/ done.value = 1
    /\ pc[t] = "wait" => elem_find(done.waiters, t) \/ done.value = 1

SleepInv ==
    /\ \A t \in Users : elem_find(done.waiters, t) => pc[t] = "wait" /\ Pending
    /\ Alive => /\ Len(done.waiters) <= 1
                /\ done.waiters # <<>> => done.value = 0
                /\ \A t \in Users : Announced(t)

LEMMA SleepInit == Init => SleepInv
<1> SUFFICES ASSUME Init PROVE SleepInv
  OBVIOUS
<1>1. done.waiters = <<>> /\ \A t \in Users : pc[t] = "out"
  BY Zenon DEF Init, Users
<1>2. \A t : ~elem_find(done.waiters, t)
  BY <1>1 DEF elem_find
<1>3. Len(done.waiters) <= 1
  BY <1>1
<1> QED BY <1>1, <1>2, <1>3, Zenon DEF SleepInv, Announced

(* A failed ASSERT is not forgotten in thread_block.                       *)
LEMMA PanicStays ==
    ASSUME NEW s \in SchedState, s.panic = TRUE
    PROVE  thread_block(s).panic = TRUE
<1> DEFINE b == [s EXCEPT !.status[s.cur] = "BLOCKED"]
<1>1. b \in SchedState /\ b.panic = TRUE
  BY Zenon DEF SchedState, Status
<1>2. b.status[b.cur] # "RUNNING"
  BY DEF SchedState
<1> HIDE DEF b
<1>3. preempt(b) = b
  BY <1>2, Zenon DEF preempt
<1>4. wake_idle(b).panic = TRUE
  BY <1>1 DEF wake_idle, thread_unblock, ASSERT, SchedState
<1> DEFINE w == wake_idle(b)
<1>5. switch_to(w).panic = w.panic
  BY <1>1 DEF switch_to, wake_idle, thread_unblock, ASSERT, SchedState
<1> QED BY <1>3, <1>4, <1>5, Zenon DEF schedule, thread_block, b

(* A step of one user that leaves disk_done alone.  Another thread may be  *)
(* on its way to sema_down only if the step leaves the disk alone too.     *)
LEMMA SleepMove ==
    ASSUME SleepInv, Alive, NEW t \in Users, done' = done,
           expecting => expecting',
           Pending => Pending' \/ \A u \in Users : pc[u] \notin {"down", "wait"} \/ u = t,
           \A u \in Users : u # t => pc'[u] = pc[u] /\ op'[u] = op[u],
           pc[t] # "wait", pc'[t] # "wait",
           Alive' /\ (pc'[t] = "outb" \/ (op'[t] = "write" /\ pc'[t] \in {"poll", "sleep", "xfer"})) =>
              expecting' \/ done.value = 1,
           Alive' /\ pc'[t] = "down" => Pending' \/ done.value = 1
    PROVE  SleepInv'
<1>1. ASSUME NEW u \in Users, elem_find(done.waiters, u) PROVE pc'[u] = "wait" /\ Pending'
  BY <1>1, Zenon DEF SleepInv
<1>2. ASSUME Alive', NEW u \in Users PROVE Announced(u)'
  <2>1. CASE u = t
    BY <1>2, <2>1, Zenon DEF Announced
  <2>2. CASE u # t
    <3>1. Announced(u)
      BY Zenon DEF SleepInv
    <3> QED BY <2>2, <3>1, Zenon DEF Announced
  <2> QED BY <2>1, <2>2, Zenon
<1> QED BY <1>1, <1>2, Zenon DEF SleepInv

(* A step that moves no user and leaves disk_done and the disk alone.      *)
LEMMA SleepStill ==
    ASSUME SleepInv, Alive, done' = done, expecting' = expecting, Pending => Pending', op' = op,
           \A u \in Users : pc'[u] = pc[u]
    PROVE  SleepInv'
BY Zenon DEF SleepInv, Announced

(* A command is announced before it is issued, and its interrupt is still  *)
(* to come when the disk has it.                                           *)
LEMMA SleepCommand ==
    ASSUME DInv, SleepInv, NEW t \in Users, cmd_out(t) \/ CommandByte(t) \/ Transfer(t)
    PROVE  SleepInv'
<1>0. /\ Alive /\ pc[t] \in {"cmd", "outb", "xfer"} /\ done' = done /\ op' = op
      /\ pc \in [Threads -> UserPc \cup IdlePc] /\ op \in [Users -> {"none", "identify", "read", "write"}]
      /\ t \in Threads /\ expecting \in BOOLEAN
  BY Zenon DEF cmd_out, CommandByte, Transfer, At, calls, DInv, CallTypes, Users
<1>1. \A u \in Users : u # t => pc[u] \in {"out", "lockq"}
  BY <1>0, ControlAbout, Zenon DEF About
<1>2. Announced(t)
  BY <1>0, Zenon DEF SleepInv
<1>3. CASE cmd_out(t)
  <2>1. expecting' = TRUE /\ pc' = [pc EXCEPT ![t] = "outb"]
    BY <1>3, Zenon DEF cmd_out, Goto
  <2>2. pc'[t] = "outb" /\ \A u \in Users : u # t => pc'[u] = pc[u]
    BY <1>0, <2>1, Zenon DEF Users
  <2> QED BY <1>0, <1>1, <2>1, <2>2, SleepMove, Zenon
<1>4. CASE CommandByte(t)
  <2>1. /\ pc[t] = "outb" /\ expecting' = expecting /\ intrq' = intrq
        /\ Alive' => dev' = IF op[t] = "write" THEN "preparing" ELSE "reading"
        /\ pc' = [pc EXCEPT ![t] = IF op[t] = "write" THEN "poll" ELSE "down"]
    BY <1>4, Zenon DEF CommandByte, Goto, At, Alive
  <2>2. pc'[t] = (IF op[t] = "write" THEN "poll" ELSE "down") /\ \A u \in Users : u # t => pc'[u] = pc[u]
    BY <1>0, <2>1, Zenon DEF Users
  <2>3. expecting \/ done.value = 1
    BY <1>2, <2>1, Zenon DEF Announced
  <2>4. Alive' /\ op[t] # "write" => Pending' \/ done.value = 1
    BY <2>1, <2>3, Zenon DEF Pending
  <2> QED BY <1>0, <1>1, <2>1, <2>2, <2>3, <2>4, SleepMove, SMTT(30)
<1>5. CASE Transfer(t)
  <2>1. /\ pc[t] = "xfer" /\ expecting' = expecting /\ intrq' = intrq
        /\ op[t] = "write" => dev' = "writing"
        /\ pc' = [pc EXCEPT ![t] = IF op[t] = "write" THEN "down" ELSE "next"]
    BY <1>5, Zenon DEF Transfer, Goto, At
  <2>2. pc'[t] = (IF op[t] = "write" THEN "down" ELSE "next") /\ \A u \in Users : u # t => pc'[u] = pc[u]
    BY <1>0, <2>1, Zenon DEF Users
  <2>3. op[t] = "write" => Pending' \/ done.value = 1
    BY <1>2, <2>1, Zenon DEF Announced, Pending
  <2> QED BY <1>0, <1>1, <2>1, <2>2, <2>3, SleepMove, SMTT(30)
<1> QED BY <1>3, <1>4, <1>5, Zenon

(* The steps between calls and in busy_wait.  In busy_wait the user's own  *)
(* polls may withdraw the request, but then nobody waits for it.           *)
LEMMA SleepCall ==
    ASSUME DInv, SleepInv, NEW t \in Users,
           identify_disk(t) \/ ide_call(t) \/ LockWoken(t) \/ busy_wait(t) \/ ticks_to_sleep(t) \/ NextCommand(t)
    PROVE  SleepInv'
<1>0. /\ Alive /\ pc[t] \in {"out", "lockq", "poll", "sleep", "next"}
      /\ done' = done /\ expecting' = expecting /\ dev' = dev
      /\ pc \in [Threads -> UserPc \cup IdlePc] /\ op \in [Users -> {"none", "identify", "read", "write"}]
      /\ t \in Threads
  BY Zenon DEF identify_disk, ide_call, LockWoken, busy_wait, ticks_to_sleep, NextCommand, At, calls, drive,
     DInv, CallTypes, Users
<1>1. Announced(t)
  BY <1>0, Zenon DEF SleepInv
<1>2. CASE identify_disk(t) \/ ide_call(t) \/ LockWoken(t) \/ NextCommand(t)
  <2>1. \E to \in {"out", "lockq", "cmd"} : pc' = [pc EXCEPT ![t] = to]
    <3>1. pc = [pc EXCEPT ![t] = pc[t]]
      BY <1>0, Zenon
    <3> QED BY <1>2, <3>1, Zenon DEF identify_disk, ide_call, LockWoken, NextCommand, Goto, At
  <2>2. pc'[t] \in {"out", "lockq", "cmd"} /\ \A u \in Users : u # t => pc'[u] = pc[u]
    BY <1>0, <2>1, Zenon DEF Users
  <2>3. intrq' = intrq /\ \A u \in Users : u # t => op'[u] = op[u]
    BY <1>0, <1>2, Zenon DEF identify_disk, ide_call, LockWoken, NextCommand, drive, calls
  <2>4. Pending => Pending'
    BY <1>0, <2>3, Zenon DEF Pending
  <2> QED BY <1>0, <2>2, <2>3, <2>4, SleepMove, Zenon
<1>3. CASE busy_wait(t) \/ ticks_to_sleep(t)
  <2>1. pc[t] \in {"poll", "sleep"} /\ op' = op
    BY <1>3, Zenon DEF busy_wait, ticks_to_sleep, At, calls
  <2>2. \A u \in Users : u # t => pc[u] \in {"out", "lockq"}
    BY <1>0, <2>1, ControlAbout, Zenon DEF About
  <2>3. \E to \in {"poll", "sleep", "xfer"} : pc' = [pc EXCEPT ![t] = to]
    <3>1. pc = [pc EXCEPT ![t] = pc[t]]
      BY <1>0
    <3> QED BY <1>3, <2>1, <3>1, Zenon DEF busy_wait, ticks_to_sleep, Goto, At
  <2>4. pc'[t] \in {"poll", "sleep", "xfer"} /\ \A u \in Users : u # t => pc'[u] = pc[u]
    BY <1>0, <2>3, Zenon DEF Users
  <2>5. op[t] = "write" => expecting \/ done.value = 1
    BY <1>1, <2>1, Zenon DEF Announced
  <2> QED BY <1>0, <2>1, <2>2, <2>4, <2>5, SleepMove
<1> QED BY <1>2, <1>3, Zenon

(* A user sleeps only when its interrupt is to come.  Woken without a unit *)
(* it would still be queued, and the ASSERT of sema_down would stop it.    *)
LEMMA SleepAwait ==
    ASSUME DInv, SleepInv, NEW t \in Users, AwaitDisk(t)
    PROVE  SleepInv'
<1>0. /\ Alive /\ pc[t] \in {"down", "wait"} /\ expecting' = expecting /\ dev' = dev /\ intrq' = intrq
      /\ op' = op /\ stop' = stop /\ t \in Threads
      /\ pc \in [Threads -> UserPc \cup IdlePc] /\ done \in Sema /\ sched \in SchedState
      /\ done.waiters \in Seq(Users)
  BY Zenon DEF AwaitDisk, At, calls, drive, DInv, CallTypes, Semas, Sema, Users
<1>1. \A u \in Users : u # t => pc[u] \in {"out", "lockq"}
  BY <1>0, ControlAbout, Zenon DEF About
<1>2. Announced(t) /\ Len(done.waiters) <= 1 /\ (done.waiters # <<>> => done.value = 0)
  BY <1>0, Zenon DEF SleepInv
<1>3. Pending' <=> Pending
  BY <1>0, Zenon DEF Pending
<1>4. CASE done.value = 0 /\ done' = Queued(done, t) /\ sched' = Blocked(done, t) /\ Goto(t, "wait")
  <2> DEFINE l == list_append(done.waiters, t)
  <2>1. l \in Seq(Users) /\ Len(l) = Len(done.waiters) + 1 /\ \A u : elem_find(l, u) <=> elem_find(done.waiters, u) \/ u = t
    <3>1. l \in Seq(Users) /\ Len(l) = Len(done.waiters) + 1 /\ \A u : elem_find(l, u) <=> u = t \/ elem_find(done.waiters, u)
      BY <1>0 DEF list_append, elem_find
    <3> QED BY <3>1, Zenon
  <2>2. done'.waiters = l /\ done'.value = 0
    BY <1>0, <1>4, Zenon DEF Queued, Sema
  <2> HIDE DEF l
  <2>3. pc'[t] = "wait" /\ \A u \in Users : u # t => pc'[u] = pc[u]
    BY <1>0, <1>4, Zenon DEF Goto, Users
  <2>4. \A u \in Users : elem_find(done.waiters, u) => u = t /\ Pending
    BY <1>1, Zenon DEF SleepInv
  <2>5. Pending
    <3>1. CASE elem_find(done.waiters, t)
      BY <2>4, <3>1, Zenon
    <3>2. CASE ~elem_find(done.waiters, t)
      BY <1>0, <1>2, <1>4, <3>2, SMTT(30) DEF Announced
    <3> QED BY <3>1, <3>2, Zenon
  <2>6. \A u \in Users : elem_find(done'.waiters, u) => pc'[u] = "wait" /\ Pending'
    BY <1>3, <2>1, <2>2, <2>3, <2>4, <2>5, Zenon
  <2>7. ASSUME Alive' PROVE ~elem_find(done.waiters, t)
    <3> SUFFICES ASSUME elem_find(done.waiters, t) PROVE FALSE
      BY Zenon
    <3> DEFINE r == ASSERT(sched, ~elem_find(done.waiters, t))
    <3>1. r \in SchedState /\ r.panic = TRUE
      BY <1>0, Zenon DEF ASSERT, SchedState
    <3>2. sched' = thread_block(r)
      BY <1>4, Zenon DEF Blocked
    <3> HIDE DEF r
    <3> QED BY <2>7, <3>1, <3>2, PanicStays, Zenon DEF Alive
  <2>8. ASSUME ~elem_find(done.waiters, t) PROVE done.waiters = <<>>
    BY <1>0, <2>4, <2>8 DEF elem_find
  <2>9. ASSUME Alive' PROVE Len(done'.waiters) <= 1 /\ \A u \in Users : Announced(u)'
    <3>1. Len(l) = 1
      BY <2>1, <2>7, <2>8, <2>9
    <3>2. elem_find(l, t)
      BY <2>1, Zenon
    <3>3. Announced(t)'
      BY <2>2, <2>3, <3>2, Zenon DEF Announced
    <3>4. ASSUME NEW u \in Users, u # t PROVE Announced(u)'
      BY <1>0, <1>1, <2>3, <3>4, Zenon DEF Announced
    <3> QED BY <2>2, <3>1, <3>3, <3>4
  <2> QED BY <2>2, <2>6, <2>9, Zenon DEF SleepInv
<1>5. CASE done.value = 1 /\ done' = [done EXCEPT !.value = 0] /\ Goto(t, IF op[t] = "write" THEN "next" ELSE "poll")
  <2>1. done.waiters = <<>> /\ done'.waiters = <<>>
    BY <1>0, <1>2, <1>5 DEF Sema
  <2>2. pc'[t] = (IF op[t] = "write" THEN "next" ELSE "poll") /\ \A u \in Users : u # t => pc'[u] = pc[u]
    BY <1>0, <1>5, Zenon DEF Goto, Users
  <2>3. \A u : ~elem_find(done'.waiters, u)
    BY <2>1 DEF elem_find
  <2>4. \A u \in Users : Announced(u)'
    BY <1>0, <1>1, <2>2, Zenon DEF Announced
  <2>5. Len(done'.waiters) <= 1
    BY <2>1
  <2> QED BY <2>1, <2>3, <2>4, <2>5, Zenon DEF SleepInv
<1> QED BY <1>4, <1>5, Zenon DEF AwaitDisk

(* The handler wakes the one sleeper, if it sleeps already, and leaves it  *)
(* a unit.                                                                 *)
LEMMA SleepHandler ==
    ASSUME DInv, SleepInv, intr_hd_handler
    PROVE  SleepInv'
<1>0. /\ Alive /\ op' = op /\ expecting' = FALSE /\ done.waiters \in Seq(Users) /\ expecting \in BOOLEAN
      /\ Len(done.waiters) <= 1
  BY Zenon DEF intr_hd_handler, IntrOn, calls, DInv, Semas, Sema, CallTypes, SleepInv
<1>1. \A u \in Users : pc'[u] = pc[u]
  BY ResumeLemma, Zenon DEF intr_hd_handler
<1>2. CASE expecting
  <2>1. done' = Upped(done)
    BY <1>2, Zenon DEF intr_hd_handler
  <2>2. done'.waiters = <<>> /\ done'.value = 1
    <3>1. CASE done.waiters = <<>>
      BY <2>1, <3>1, Zenon DEF Upped
    <3>2. CASE done.waiters # <<>>
      <4>1. Tail(done.waiters) = <<>>
        BY <1>0, <3>2
      <4> QED BY <2>1, <3>2, <4>1, Zenon DEF Upped
    <3> QED BY <3>1, <3>2, Zenon
  <2>3. \A u : ~elem_find(done'.waiters, u)
    BY <2>2 DEF elem_find
  <2>4. Len(done'.waiters) <= 1
    BY <2>2
  <2> QED BY <2>2, <2>3, <2>4, Zenon DEF SleepInv, Announced
<1>3. CASE ~expecting
  <2>1. done' = done
    BY <1>3, Zenon DEF intr_hd_handler
  <2>2. \A u \in Users : ~elem_find(done.waiters, u)
    BY <1>3, Zenon DEF SleepInv, Pending
  <2>3. \A u \in Users : Announced(u)'
    BY <1>0, <1>1, <1>3, <2>1, <2>2, Zenon DEF SleepInv, Announced, Pending
  <2> QED BY <1>0, <2>1, <2>2, <2>3, Zenon DEF SleepInv
<1> QED BY <1>2, <1>3, Zenon

LEMMA SleepStep ==
    ASSUME DInv, SleepInv, [Next]_vars
    PROVE  SleepInv'
<1>0. pc \in [Threads -> UserPc \cup IdlePc] /\ Idle \in Threads
  BY SchedAssumption, Zenon DEF DInv, CallTypes
<1>1. ASSUME NEW t \in Users, identify_disk(t) \/ ide_call(t) \/ Continue(t) PROVE SleepInv'
  BY <1>1, SleepCommand, SleepCall, SleepAwait, Zenon DEF Continue
<1>2. ASSUME NEW t \in Users \ {Main}, thread_start(t) PROVE SleepInv'
  <2>1. Pending => Pending'
    BY <1>2, Zenon DEF thread_start, drive, Pending
  <2> QED BY <1>2, <2>1, SleepStill, Zenon DEF thread_start, At, calls
<1>3. ASSUME intr_enable PROVE SleepInv'
  <2>1. Pending => Pending'
    BY <1>3, Zenon DEF intr_enable, drive, Pending
  <2> QED BY <1>3, <2>1, SleepStill, Zenon DEF intr_enable, At, calls
<1>4. ASSUME Timer PROVE SleepInv'
  <2>1. Pending => Pending'
    BY <1>4, Zenon DEF Timer, drive, Pending
  <2> QED BY <1>4, <2>1, SleepStill, ResumeLemma, Zenon DEF Timer, IntrOn
<1>5. ASSUME DiskDone PROVE SleepInv'
  <2>1. dev' # "preparing" /\ (dev \in {"reading", "writing"} => intrq') /\ (intrq => intrq')
    BY <1>5, Zenon DEF DiskDone, Busy
  <2>2. Pending => Pending'
    BY <1>5, <2>1, Zenon DEF DiskDone, Pending
  <2> QED BY <1>5, <2>2, SleepStill, Zenon DEF DiskDone, calls
<1>6. ASSUME IdleBlock \/ IdleHalt PROVE SleepInv'
  <2>1. Pending => Pending'
    BY <1>6, Zenon DEF IdleBlock, IdleHalt, drive, Pending
  <2>2. \A u \in Users : pc'[u] = pc[u]
    BY <1>0, <1>6, Zenon DEF IdleBlock, IdleHalt, Goto, Users
  <2> QED BY <1>6, <2>1, <2>2, SleepStill, Zenon DEF IdleBlock, IdleHalt, At, calls
<1>7. ASSUME UNCHANGED vars PROVE SleepInv'
  BY <1>7, Zenon DEF vars, calls, drive, SleepInv, Announced, Pending, Alive
<1> QED BY <1>1, <1>2, <1>3, <1>4, <1>5, <1>6, <1>7, SleepHandler, Zenon DEF Next

(* sema_down(disk_done) in ide.c never sleeps for good: while a thread is  *)
(* queued there, expecting_intr is set, and the interrupt that will wake   *)
(* it is pending or the disk is at the work that ends with it.             *)
THEOREM SleepersExpected == Spec => []SleeperExpected
<1>1. SleepInv => SleeperExpected
  BY Zenon DEF SleepInv, SleeperExpected, Pending
<1> QED BY <1>1, SleepInit, SleepStep, ChannelInvariant, PTL DEF Spec

-----------------------------------------------------------------------------
(* The layout.  First what DIV_ROUND_UP computes.                          *)
LEMMA DivLemma ==
    ASSUME NEW x \in Nat, NEW n \in Nat \ {0}
    PROVE  /\ x \div n \in Nat
           /\ n * (x \div n) <= x
           /\ x < n * (x \div n) + n
OBVIOUS

LEMMA QuotientLemma ==
    ASSUME NEW n \in Nat \ {0}, NEW p \in Nat, NEW q \in Nat, n * p < n * q + n
    PROVE  p <= q
<1>1. n * p < n * (q + 1)
  OBVIOUS
<1> QED BY <1>1

LEMMA RoundLemma ==
    ASSUME NEW x \in Nat, NEW n \in Nat \ {0}
    PROVE  /\ DIV_ROUND_UP(x, n) \in Nat
           /\ x <= n * DIV_ROUND_UP(x, n)
           /\ n * DIV_ROUND_UP(x, n) < x + n
<1>1. x + n - 1 \in Nat
  OBVIOUS
<1>2. /\ (x + n - 1) \div n \in Nat
      /\ n * ((x + n - 1) \div n) <= x + n - 1
      /\ x + n - 1 < n * ((x + n - 1) \div n) + n
  BY <1>1, DivLemma, Zenon
<1>3. n * ((x + n - 1) \div n) \in Nat
  BY <1>2
<1> QED BY <1>2, <1>3 DEF DIV_ROUND_UP

LEMMA RoundMonotone ==
    ASSUME NEW x \in Nat, NEW y \in Nat, NEW n \in Nat \ {0}, x <= y
    PROVE  DIV_ROUND_UP(x, n) <= DIV_ROUND_UP(y, n)
<1>1. /\ DIV_ROUND_UP(x, n) \in Nat /\ n * DIV_ROUND_UP(x, n) < x + n
      /\ DIV_ROUND_UP(y, n) \in Nat /\ y <= n * DIV_ROUND_UP(y, n)
  BY RoundLemma, Zenon
<1>2. n * DIV_ROUND_UP(x, n) \in Nat /\ n * DIV_ROUND_UP(y, n) \in Nat
  BY <1>1
<1>3. n * DIV_ROUND_UP(x, n) < n * DIV_ROUND_UP(y, n) + n
  BY <1>1, <1>2
<1> QED BY <1>1, <1>3, QuotientLemma, Zenon

(* Two sectors or more are not all taken by their bitmap.                  *)
LEMMA RoundSmall ==
    ASSUME NEW x \in Nat, x > 1, NEW n \in Nat \ {0, 1}
    PROVE  DIV_ROUND_UP(x, n) < x
<1>1. DIV_ROUND_UP(x, n) \in Nat /\ n * DIV_ROUND_UP(x, n) < x + n
  BY RoundLemma, Zenon
<1>2. (x - 1) * (n - 1) > 0
  OBVIOUS
<1>3. x + n <= x * n
  BY <1>2
<1>4. n * DIV_ROUND_UP(x, n) < n * (x - 1) + n
  BY <1>1, <1>3
<1> QED BY <1>1, <1>4, QuotientLemma

-----------------------------------------------------------------------------
(* A partition that has at least two sectors beside its boot sector, super *)
(* block, inode bitmap and inode table.                                    *)
LargeEnough(part) ==
    /\ part.start_lba \in Nat /\ part.sec_cnt \in Nat
    /\ part.sec_cnt >= 2 + inode_bitmap_sects + inode_table_sects + 2

LEMMA SizesLemma ==
    /\ BITS_PER_SECTOR \in Nat \ {0, 1}
    /\ inode_bitmap_sects \in Nat /\ inode_table_sects \in Nat
<1>1. SECTOR_SIZE \in Nat \ {0} /\ MAX_FILES_PER_PART \in Nat \ {0} /\ InodeSize \in Nat \ {0}
  BY LayoutAssumption, Zenon
<1>2. BITS_PER_SECTOR \in Nat \ {0, 1}
  BY <1>1 DEF BITS_PER_SECTOR
<1>3. InodeSize * MAX_FILES_PER_PART \in Nat
  BY <1>1
<1> QED BY <1>1, <1>2, <1>3, RoundLemma, Zenon DEF inode_bitmap_sects, inode_table_sects

LEMMA LenLemma ==
    ASSUME NEW part, LargeEnough(part)
    PROVE  /\ free_sects(part) \in Nat /\ free_sects(part) > 1
           /\ block_bitmap_bit_len(part) \in Nat \ {0}
           /\ block_bitmap_bit_len(part) + DIV_ROUND_UP(free_sects(part), BITS_PER_SECTOR)
                = free_sects(part)
           /\ DIV_ROUND_UP(block_bitmap_bit_len(part), BITS_PER_SECTOR)
                <= DIV_ROUND_UP(free_sects(part), BITS_PER_SECTOR)
<1>1. free_sects(part) \in Nat /\ free_sects(part) > 1
  BY SizesLemma DEF LargeEnough, free_sects
<1>2. /\ DIV_ROUND_UP(free_sects(part), BITS_PER_SECTOR) \in Nat
      /\ DIV_ROUND_UP(free_sects(part), BITS_PER_SECTOR) < free_sects(part)
  BY <1>1, SizesLemma, RoundLemma, RoundSmall, Zenon
<1>3. /\ block_bitmap_bit_len(part) \in Nat \ {0}
      /\ block_bitmap_bit_len(part) <= free_sects(part)
      /\ block_bitmap_bit_len(part) + DIV_ROUND_UP(free_sects(part), BITS_PER_SECTOR)
           = free_sects(part)
  BY <1>1, <1>2 DEF block_bitmap_bit_len
<1>4. DIV_ROUND_UP(block_bitmap_bit_len(part), BITS_PER_SECTOR)
        <= DIV_ROUND_UP(free_sects(part), BITS_PER_SECTOR)
  BY <1>1, <1>3, SizesLemma, RoundMonotone, Zenon
<1> QED BY <1>1, <1>3, <1>4, Zenon

(* partition_format computes the size of the block bitmap from itself: it  *)
(* takes the bitmap of all the free sectors off, and makes the bitmap for  *)
(* the rest.  The bitmap has a bit for each of these blocks, and all of    *)
(* them are in the partition, after the inode table.                       *)
THEOREM LayoutFits ==
    ASSUME NEW part, LargeEnough(part)
    PROVE  LET sb == super_block(part) IN
           /\ block_bitmap_bit_len(part) > 0
           /\ block_bitmap_bit_len(part) <= BITS_PER_SECTOR * sb.block_bitmap_sects
           /\ sb.data_start_lba + block_bitmap_bit_len(part) <= part.start_lba + part.sec_cnt
<1> DEFINE sb  == super_block(part)
           len == block_bitmap_bit_len(part)
           bbs == DIV_ROUND_UP(len, BITS_PER_SECTOR)
<1>1. /\ sb.block_bitmap_sects = bbs
      /\ sb.data_start_lba
           = part.start_lba + 2 + bbs + inode_bitmap_sects + inode_table_sects
  BY Zenon DEF super_block
<1>2. len \in Nat \ {0}
  BY LenLemma, Zenon
<1>3. bbs \in Nat /\ len <= BITS_PER_SECTOR * bbs
  BY <1>2, SizesLemma, RoundLemma, Zenon
<1>4. bbs + len <= free_sects(part)
  <2>1. DIV_ROUND_UP(free_sects(part), BITS_PER_SECTOR) \in Nat
    BY LenLemma, SizesLemma, RoundLemma, Zenon
  <2> HIDE DEF len, bbs
  <2>2. bbs <= DIV_ROUND_UP(free_sects(part), BITS_PER_SECTOR)
    BY LenLemma, Zenon DEF bbs, len
  <2>3. len + DIV_ROUND_UP(free_sects(part), BITS_PER_SECTOR) = free_sects(part)
    BY LenLemma, Zenon DEF len
  <2> QED BY <1>2, <1>3, <2>1, <2>2, <2>3
<1>5. sb.data_start_lba + len <= part.start_lba + part.sec_cnt
  <2> HIDE DEF len, bbs, sb
  <2> QED BY <1>1, <1>2, <1>3, <1>4, SizesLemma DEF LargeEnough, free_sects
<1> QED BY <1>1, <1>2, <1>3, <1>5

-----------------------------------------------------------------------------
(* Every sector that partition_format writes is in the partition, and none *)
(* of them is its boot sector: formatting one partition leaves all others  *)
(* and the partition tables alone.                                         *)
THEOREM FormatStaysInside ==
    ASSUME NEW part, LargeEnough(part)
    PROVE  \A i \in 1..Len(partition_format(part)) :
               partition_format(part)[i].lba
                   \in part.start_lba + 1 .. part.start_lba + part.sec_cnt - 1
<1> DEFINE sb      == super_block(part)
           Inside  == part.start_lba + 1 .. part.start_lba + part.sec_cnt - 1
           root(i) == IF i = 1 THEN Inode(2, sb.data_start_lba) ELSE Inode(0, 0)
           super   == <<Write(part.start_lba + 1, [type |-> "super", sb |-> sb])>>
           blocks  == [i \in 1..sb.block_bitmap_sects |->
                         Write(sb.block_bitmap_lba + i - 1, BitSector(BlockBits(part), i - 1))]
           inodes  == [i \in 1..sb.inode_bitmap_sects |->
                         Write(sb.inode_bitmap_lba + i - 1, BitSector({0}, i - 1))]
           entry(i) == Write(sb.inode_table_lba + i - 1, [type |-> "inodes", root |-> root(i)])
           table   == [i \in 1..sb.inode_table_sects |-> entry(i)]
           dir     == <<Write(sb.data_start_lba, [type |-> "dir", entries |-> <<Dot, Dot>>])>>
           Values  == {[type |-> "super", sb |-> sb], [type |-> "dir", entries |-> <<Dot, Dot>>]}
                        \cup {BitSector(BlockBits(part), i - 1) : i \in Nat}
                        \cup {BitSector({0}, i - 1) : i \in Nat}
                        \cup {[type |-> "inodes", root |-> root(i)] : i \in Nat}
           Writes  == [lba : Inside, data : Values]
<1>1. /\ sb.block_bitmap_sects \in Nat
      /\ sb.inode_bitmap_sects \in Nat /\ sb.inode_table_sects \in Nat
      /\ sb.block_bitmap_lba = part.start_lba + 2
      /\ sb.inode_bitmap_lba = sb.block_bitmap_lba + sb.block_bitmap_sects
      /\ sb.inode_table_lba = sb.inode_bitmap_lba + sb.inode_bitmap_sects
      /\ sb.data_start_lba = sb.inode_table_lba + sb.inode_table_sects
  <2>1. DIV_ROUND_UP(block_bitmap_bit_len(part), BITS_PER_SECTOR) \in Nat
    BY LenLemma, SizesLemma, RoundLemma, Zenon
  <2> QED BY <2>1, SizesLemma, Zenon DEF super_block
<1>2. sb.data_start_lba < part.start_lba + part.sec_cnt
  <2>1. /\ block_bitmap_bit_len(part) \in Nat \ {0}
        /\ sb.data_start_lba + block_bitmap_bit_len(part) <= part.start_lba + part.sec_cnt
    BY LenLemma, LayoutFits, Zenon
  <2> HIDE DEF sb
  <2> QED BY <1>1, <2>1 DEF LargeEnough
<1>3. part.start_lba \in Nat /\ part.sec_cnt \in Nat
  BY Zenon DEF LargeEnough
<1> HIDE DEF sb
<1>4. super \in Seq(Writes)
  <2>1. part.start_lba + 1 \in Inside
    BY <1>1, <1>2, <1>3
  <2>2. Write(part.start_lba + 1, [type |-> "super", sb |-> sb]) \in Writes
    BY <2>1, Zenon DEF Write
  <2> HIDE DEF Writes
  <2> QED BY <2>2
<1>5. blocks \in Seq(Writes)
  <2>1. ASSUME NEW i \in 1..sb.block_bitmap_sects
        PROVE  Write(sb.block_bitmap_lba + i - 1, BitSector(BlockBits(part), i - 1)) \in Writes
    <3>1. sb.block_bitmap_lba + i - 1 \in Inside
      BY <1>1, <1>2, <1>3
    <3>2. i \in Nat
      BY <1>1
    <3> QED BY <3>1, <3>2, Zenon DEF Write
  <2> HIDE DEF Writes
  <2> QED BY <1>1, <2>1
<1>6. inodes \in Seq(Writes)
  <2>1. ASSUME NEW i \in 1..sb.inode_bitmap_sects
        PROVE  Write(sb.inode_bitmap_lba + i - 1, BitSector({0}, i - 1)) \in Writes
    <3>1. sb.inode_bitmap_lba + i - 1 \in Inside
      BY <1>1, <1>2, <1>3
    <3>2. i \in Nat
      BY <1>1
    <3> QED BY <3>1, <3>2, Zenon DEF Write
  <2> HIDE DEF Writes
  <2> QED BY <1>1, <2>1
<1>7. table \in Seq(Writes)
  <2>1. ASSUME NEW i \in 1..sb.inode_table_sects
        PROVE  entry(i) \in Writes
    <3>1. sb.inode_table_lba + i - 1 \in Inside
      BY <1>1, <1>2, <1>3
    <3>2. i \in Nat
      BY <1>1
    <3> HIDE DEF root
    <3> QED BY <3>1, <3>2, Zenon DEF Write
  <2> HIDE DEF Writes, entry
  <2> QED BY <1>1, <2>1
<1>8. dir \in Seq(Writes)
  <2>1. sb.data_start_lba \in Inside
    BY <1>1, <1>2, <1>3
  <2>2. Write(sb.data_start_lba, [type |-> "dir", entries |-> <<Dot, Dot>>]) \in Writes
    BY <2>1, Zenon DEF Write
  <2> HIDE DEF Writes
  <2> QED BY <2>2
<1>9. partition_format(part) = super \o blocks \o inodes \o table \o dir
  BY Zenon DEF partition_format, sb
<1>10. partition_format(part) \in Seq(Writes)
  <2> HIDE DEF super, blocks, inodes, table, dir, Writes
  <2>1. super \o blocks \in Seq(Writes)
    BY <1>4, <1>5, ListConcat, Zenon
  <2>2. super \o blocks \o inodes \in Seq(Writes)
    BY <1>6, <2>1, ListConcat, Zenon
  <2>3. super \o blocks \o inodes \o table \in Seq(Writes)
    BY <1>7, <2>2, ListConcat, Zenon
  <2> QED BY <1>8, <1>9, <2>3, ListConcat, Zenon
<1>11. \A w \in Writes : w.lba \in Inside
  BY Zenon
<1> HIDE DEF Writes, Inside
<1>12. \A i \in 1..Len(partition_format(part)) : partition_format(part)[i] \in Writes
  BY <1>10
<1> QED BY <1>11, <1>12, Zenon DEF Inside
=============================================================================
