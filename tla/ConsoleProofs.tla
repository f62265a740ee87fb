--------------------------- MODULE ConsoleProofs ----------------------------
(***************************************************************************)
(* The console's lock keeps the texts of the threads apart, for any number *)
(* of threads, any texts and any screen: Console implements Terminal.      *)
(* The lock is that of Sync, whose inductive invariant is kept by every    *)
(* step of Console.                                                        *)
(***************************************************************************)
EXTENDS Console, SyncProofs

(* The thread that has the lock and has not yet printed all of its text.   *)
Prints(t) == depth[t] = 1 /\ stage[t] # "leave"

PrintTypes ==
    /\ stage \in [Workers -> {"none", "enter", "store", "cursor", "leave"}]
    /\ text \in [Workers -> Seq(Nat)]
    /\ full \in [Workers -> Seq(Nat)]
    /\ out \in Seq(Nat)
    /\ done \in Seq(Nat)

(* Where a thread stands in console.c and in sync.c.                       *)
Placed ==
    \A t \in Workers :
        /\ depth[t] \in {0, 1}
        /\ stage[t] = "none" => pc[t] = "run" /\ depth[t] = 0
        /\ stage[t] = "enter" => pc[t] \in {"run", "down", "wait", "own", "count"}
        /\ stage[t] \in {"store", "cursor"} => pc[t] = "run" /\ depth[t] = 1 /\ text[t] # <<>>
        /\ stage[t] = "leave" => pc[t] \in {"run", "clear", "zero", "up"}

(* What has been printed is what finished calls printed, followed by what  *)
(* the thread that prints has already taken from its text.                 *)
Whole ==
    /\ \A t \in Workers : stage[t] \in {"enter", "store", "cursor"} => full[t] \in Texts
    /\ \A t \in Workers : stage[t] = "enter" /\ depth[t] = 0 => text[t] = full[t]
    /\ \A t \in Workers : Prints(t) => out \o text[t] = done \o full[t]
    /\ (\A t \in Workers : ~Prints(t)) => out = done

CInv == IInv /\ PrintTypes /\ Placed /\ Whole

-----------------------------------------------------------------------------
(* Taking the first element of one sequence to the end of another does not *)
(* change the two together.                                                *)
LEMMA MoveLemma ==
    ASSUME NEW a \in Seq(Nat), NEW b \in Seq(Nat), b # <<>>
    PROVE  /\ Append(a, Head(b)) \in Seq(Nat)
           /\ Tail(b) \in Seq(Nat)
           /\ Append(a, Head(b)) \o Tail(b) = a \o b
<1>1. Append(a, Head(b)) \in Seq(Nat) /\ Tail(b) \in Seq(Nat)
  OBVIOUS
<1> DEFINE x == Append(a, Head(b)) \o Tail(b)
           y == a \o b
<1>2. x \in Seq(Nat) /\ y \in Seq(Nat) /\ Len(x) = Len(y)
  BY <1>1
<1>3. \A i \in 1..Len(x) : x[i] = y[i]
  BY <1>1
<1>4. x = y
  BY <1>2, <1>3, ListEqual, Zenon
<1> QED BY <1>1, <1>4, Zenon

LEMMA EmptyLemma == \A a \in Seq(Nat) : a \o <<>> = a
OBVIOUS

(* There is one owner of the lock at most.                                 *)
LEMMA OwnerLemma ==
    ASSUME IInv, NEW t \in Workers, NEW u \in Workers, depth[t] > 0, depth[u] > 0
    PROVE  t = u
BY Zenon DEF IInv, LockConsistent, Owners

-----------------------------------------------------------------------------
(* A step that moves no worker in the lock and prints nothing.             *)
LEMMA IdleLemma ==
    ASSUME CInv, IInv', \A t \in Workers : pc'[t] = pc[t] /\ depth'[t] = depth[t],
           UNCHANGED <<stage, text, full, out, done>>
    PROVE  CInv'
<1>1. PrintTypes'
  BY Zenon DEF CInv, PrintTypes
<1>2. Placed'
  BY Zenon DEF CInv, Placed
<1>3. Whole'
  BY Zenon DEF CInv, Whole, Prints
<1> QED BY <1>1, <1>2, <1>3, Zenon DEF CInv

(* A step of one thread in the lock, which is where stage says: it takes   *)
(* the unit while nobody prints, or gives it back after its text.          *)
LEMMA LockLemma ==
    ASSUME CInv, IInv', NEW t \in Workers,
           \A u \in Workers \ {t} : pc'[u] = pc[u] /\ depth'[u] = depth[u],
           UNCHANGED <<stage, text, full, out, done>>,
           \/ /\ stage[t] = "enter" /\ pc'[t] \in {"down", "wait", "own", "count", "run"}
              /\ \/ depth'[t] = depth[t]
                 \/ depth'[t] = 1 /\ \A u \in Workers : depth[u] = 0
           \/ /\ stage[t] = "leave" /\ pc'[t] \in {"clear", "zero", "up", "run"}
              /\ depth'[t] = depth[t] \/ depth'[t] = 0
    PROVE  CInv'
<1>1. PrintTypes'
  BY Zenon DEF CInv, PrintTypes
<1>2. Placed'
  BY DEF CInv, Placed
<1>3. Whole'
  <2>1. CASE \A u \in Workers : Prints(u)' <=> Prints(u)
    <3>1. \A u \in Workers : stage[u] = "enter" /\ depth'[u] = 0 => depth[u] = 0
      BY Zenon DEF CInv, Placed
    <3> QED BY <2>1, <3>1, Zenon DEF CInv, Whole
  <2>2. CASE stage[t] = "enter" /\ depth'[t] = 1 /\ \A u \in Workers : depth[u] = 0
    <3>1. \A u \in Workers : ~Prints(u)
      BY <2>2 DEF Prints
    <3>2. out = done /\ text[t] = full[t]
      BY <2>2, <3>1, Zenon DEF CInv, Whole
    <3>3. \A u \in Workers : Prints(u)' <=> u = t
      BY <2>2 DEF Prints
    <3>4. \A u \in Workers : stage[u] = "enter" /\ depth'[u] = 0 => depth[u] = 0
      BY <2>2, Zenon
    <3> QED BY <3>2, <3>3, <3>4, Zenon DEF CInv, Whole
  <2> QED BY <2>1, <2>2, Zenon DEF Prints
<1> QED BY <1>1, <1>2, <1>3, Zenon DEF CInv

(* console_acquire and console_release.                                    *)
LEMMA LockStepLemma ==
    ASSUME CInv, NEW t \in Workers, LockStep(t), IInv'
    PROVE  CInv'
<1>0. t \in Threads /\ UNCHANGED <<stage, text, full, out, done>>
  BY Zenon DEF Workers, LockStep, printVars
<1>1. /\ pc \in [Threads -> WorkerPc \cup IdlePc]
      /\ depth \in [Threads -> 0..MaxDepth]
      /\ \A u \in Workers : u \in Threads /\ u # Idle
  BY Zenon DEF CInv, IInv, TypeOK, Workers
<1>2. /\ stage[t] \in {"none", "enter", "store", "cursor", "leave"}
      /\ stage[t] = "none" => pc[t] = "run" /\ depth[t] = 0
      /\ stage[t] = "enter" => pc[t] \in {"run", "down", "wait", "own", "count"}
      /\ stage[t] \in {"store", "cursor"} => pc[t] = "run"
      /\ stage[t] = "leave" => pc[t] \in {"run", "clear", "zero", "up"}
      /\ depth[t] \in {0, 1}
  BY Zenon DEF CInv, PrintTypes, Placed
<1>3. CASE stage[t] = "enter" /\ depth[t] = 0 /\ AcquireTest(t)
  <2>1. lock.holder # t
    BY <1>3, <1>1 DEF CInv, IInv, LockConsistent, Owners
  <2>2. pc' = [pc EXCEPT ![t] = "down"] /\ depth' = depth
    BY <1>3, <2>1, Zenon DEF AcquireTest, Goto
  <2> QED BY <1>0, <1>1, <1>3, <2>2, LockLemma
<1>4. CASE stage[t] = "leave" /\ ReleaseTest(t)
  <2>1. pc[t] = "run" /\ depth[t] = 1 /\ t \in Owners
    BY <1>2, <1>4 DEF ReleaseTest, At, Owners
  <2>2. lock.repeat = 1
    BY <2>1, Zenon DEF CInv, IInv, RepeatCounts
  <2>3. pc' = [pc EXCEPT ![t] = "clear"] /\ depth' = depth
    BY <1>4, <2>2 DEF ReleaseTest, Goto
  <2> QED BY <1>0, <1>1, <1>4, <2>3, LockLemma, Zenon
<1>5. CASE sema_down_wait(t)
  <2>1. pc' = [pc EXCEPT ![t] = "wait"] /\ depth' = depth /\ stage[t] = "enter"
    BY <1>2, <1>5, Zenon DEF sema_down_wait, At, Goto
  <2> QED BY <1>0, <1>1, <2>1, LockLemma, Zenon
<1>6. CASE sema_down_take(t)
  <2>1. /\ pc' = [pc EXCEPT ![t] = "own"] /\ stage[t] = "enter"
        /\ depth' = [depth EXCEPT ![t] = 1]
    BY <1>2, <1>6, Zenon DEF sema_down_take, At, Goto
  <2>2. Owners = {}
    BY <1>6 DEF CInv, IInv, TypeOK, LockConsistent, sema_down_take
  <2>3. \A u \in Workers : depth[u] = 0
    BY <1>1, <2>2 DEF Owners
  <2> QED BY <1>0, <1>1, <2>1, <2>3, LockLemma, Zenon
<1>7. CASE SetHolder(t) \/ SetCount(t)
  <2>1. /\ pc' = [pc EXCEPT ![t] = "count"] \/ pc' = [pc EXCEPT ![t] = "run"]
        /\ depth' = depth /\ stage[t] = "enter"
    BY <1>2, <1>7, Zenon DEF SetHolder, SetCount, At, Goto
  <2> QED BY <1>0, <1>1, <2>1, LockLemma, Zenon
<1>8. CASE ClearHolder(t) \/ ClearCount(t)
  <2>1. /\ pc' = [pc EXCEPT ![t] = "zero"] \/ pc' = [pc EXCEPT ![t] = "up"]
        /\ depth' = depth /\ stage[t] = "leave"
    BY <1>2, <1>8, Zenon DEF ClearHolder, ClearCount, At, Goto
  <2> QED BY <1>0, <1>1, <2>1, LockLemma, Zenon
<1>9. CASE sema_up(t)
  <2>1. /\ pc' = [pc EXCEPT ![t] = "run"] /\ stage[t] = "leave"
        /\ depth' = [depth EXCEPT ![t] = 0]
    BY <1>2, <1>9, Zenon DEF sema_up, At, Goto
  <2> QED BY <1>0, <1>1, <2>1, LockLemma, Zenon
<1>10. CASE Again(t) \/ Drop(t) \/ Awake(t)
  BY <1>2, <1>10, Zenon DEF Again, Drop, Awake, At
<1> QED BY <1>3, <1>4, <1>5, <1>6, <1>7, <1>8, <1>9, <1>10, Zenon DEF LockStep, Continue

(* A call begins: its text is all there, and nobody's printing changes.    *)
LEMMA CallLemma ==
    ASSUME CInv, NEW t \in Workers, IInv', NEW string \in Texts, NEW meant,
           Call(t, string, meant)
    PROVE  CInv'
<1>1. /\ stage[t] = "none" /\ pc[t] = "run" /\ depth[t] = 0
      /\ stage' = [stage EXCEPT ![t] = "enter"]
      /\ text' = [text EXCEPT ![t] = string]
      /\ full' = [full EXCEPT ![t] = string]
      /\ UNCHANGED <<pc, depth, out, done>>
  BY Zenon DEF Call, CInv, Placed, Advance, vars
<1>2. string \in Seq(Nat)
  BY TextsAssumption, Zenon
<1>3. PrintTypes'
  BY <1>1, <1>2, Zenon DEF CInv, PrintTypes
<1>4. Placed'
  BY <1>1, Zenon DEF CInv, PrintTypes, Placed
<1>5. \A u \in Workers : Prints(u)' <=> Prints(u)
  BY <1>1, Zenon DEF CInv, PrintTypes, Prints
<1>6. \A u \in Workers : Prints(u) => u # t
  BY <1>1 DEF Prints
<1>7. Whole'
  BY <1>1, <1>5, <1>6, Zenon DEF CInv, PrintTypes, Whole
<1> QED BY <1>3, <1>4, <1>7, Zenon DEF CInv

(* put_char: the cursor is read, and the cell written.                     *)
LEMMA CharLemma ==
    ASSUME CInv, NEW t \in Workers, IInv', ReadCursor(t) \/ StoreChar(t)
    PROVE  CInv'
<1>1. /\ stage[t] \in {"enter", "store"} /\ pc[t] = "run" /\ depth[t] = 1 /\ text[t] # <<>>
      /\ \/ stage' = [stage EXCEPT ![t] = "store"]
         \/ stage' = [stage EXCEPT ![t] = "cursor"]
      /\ UNCHANGED <<pc, depth, text, full, out, done>>
  BY Zenon DEF ReadCursor, StoreChar, AtStage, At, CInv, Placed, Advance, vars
<1>2. PrintTypes'
  BY <1>1, Zenon DEF CInv, PrintTypes
<1>3. Placed'
  BY <1>1 DEF CInv, PrintTypes, Placed
<1>4. \A u \in Workers : Prints(u)' <=> Prints(u)
  BY <1>1, Zenon DEF CInv, PrintTypes, Prints
<1>5. Whole'
  BY <1>1, <1>4, Zenon DEF CInv, PrintTypes, Whole
<1> QED BY <1>2, <1>3, <1>5, Zenon DEF CInv

(* The cursor is set: one character has gone from the text to the output.  *)
LEMMA SetCursorLemma ==
    ASSUME CInv, NEW t \in Workers, IInv', SetCursor(t)
    PROVE  CInv'
<1>1. /\ stage[t] = "cursor" /\ pc[t] = "run" /\ depth[t] = 1 /\ text[t] # <<>>
      /\ stage' = [stage EXCEPT ![t] = "enter"]
      /\ text' = [text EXCEPT ![t] = Tail(text[t])]
      /\ out' = Append(out, Head(text[t]))
      /\ UNCHANGED <<pc, depth, full, done>>
  BY Zenon DEF SetCursor, AtStage, At, CInv, Placed, Advance, vars
<1>2. /\ text[t] \in Seq(Nat) /\ out \in Seq(Nat)
      /\ out' \in Seq(Nat) /\ Tail(text[t]) \in Seq(Nat)
      /\ out' \o Tail(text[t]) = out \o text[t]
  BY <1>1, MoveLemma, Zenon DEF CInv, PrintTypes
<1>3. PrintTypes'
  BY <1>1, <1>2, Zenon DEF CInv, PrintTypes
<1>4. Placed'
  BY <1>1, Zenon DEF CInv, PrintTypes, Placed
<1>5. \A u \in Workers : Prints(u) => u = t
  BY <1>1, OwnerLemma DEF Prints, CInv
<1>6. Prints(t) /\ \A u \in Workers : Prints(u)' <=> Prints(u)
  BY <1>1, Zenon DEF CInv, PrintTypes, Prints
<1>7. out' \o text'[t] = done' \o full'[t]
  BY <1>1, <1>2, <1>6, Zenon DEF CInv, PrintTypes, Whole
<1>8. Whole'
  <2>1. \A u \in Workers : stage'[u] \in {"enter", "store", "cursor"} => full'[u] \in Texts
    BY <1>1, Zenon DEF CInv, PrintTypes, Whole
  <2>2. \A u \in Workers : stage'[u] = "enter" /\ depth'[u] = 0 => text'[u] = full'[u]
    BY <1>1 DEF CInv, PrintTypes, Whole
  <2>3. \A u \in Workers : Prints(u)' => out' \o text'[u] = done' \o full'[u]
    BY <1>5, <1>6, <1>7, Zenon
  <2> QED BY <1>6, <2>1, <2>2, <2>3, Zenon DEF Whole
<1> QED BY <1>3, <1>4, <1>8, Zenon DEF CInv

(* The text of the call is complete.                                       *)
LEMMA EndLemma ==
    ASSUME CInv, NEW t \in Workers, IInv', EndOfString(t)
    PROVE  CInv' /\ done' = done \o full[t] /\ full[t] \in Texts
<1>1. /\ stage[t] = "enter" /\ pc[t] = "run" /\ depth[t] = 1 /\ text[t] = <<>>
      /\ stage' = [stage EXCEPT ![t] = "leave"]
      /\ done' = out
      /\ UNCHANGED <<pc, depth, text, full, out>>
  BY Zenon DEF EndOfString, AtStage, At, Advance, vars
<1>2. Prints(t)
  BY <1>1, Zenon DEF Prints
<1>3. out = done \o full[t] /\ full[t] \in Texts
  BY <1>1, <1>2, EmptyLemma, Zenon DEF CInv, PrintTypes, Whole
<1>4. PrintTypes'
  BY <1>1, Zenon DEF CInv, PrintTypes
<1>5. Placed'
  BY <1>1, Zenon DEF CInv, PrintTypes, Placed
<1>6. \A u \in Workers : Prints(u) => u = t
  BY <1>1, OwnerLemma DEF Prints, CInv
<1>7. \A u \in Workers : ~Prints(u)'
  BY <1>1, <1>6, Zenon DEF CInv, PrintTypes, Prints
<1>8. Whole'
  BY <1>1, <1>7, Zenon DEF CInv, PrintTypes, Whole
<1> QED BY <1>1, <1>3, <1>4, <1>5, <1>8, Zenon DEF CInv

LEMMA ReturnLemma ==
    ASSUME CInv, NEW t \in Workers, IInv', Return(t)
    PROVE  CInv'
<1>1. /\ stage[t] = "leave" /\ pc[t] = "run" /\ depth[t] = 0
      /\ stage' = [stage EXCEPT ![t] = "none"]
      /\ full' = [full EXCEPT ![t] = <<>>]
      /\ UNCHANGED <<pc, depth, text, out, done>>
  BY Zenon DEF Return, AtStage, At, Advance, vars
<1>2. PrintTypes'
  BY <1>1 DEF CInv, PrintTypes
<1>3. Placed'
  BY <1>1, Zenon DEF CInv, PrintTypes, Placed
<1>4. \A u \in Workers : (Prints(u)' <=> Prints(u)) /\ (Prints(u) => u # t)
  BY <1>1 DEF CInv, PrintTypes, Prints
<1>5. Whole'
  BY <1>1, <1>4, Zenon DEF CInv, PrintTypes, Whole
<1> QED BY <1>2, <1>3, <1>5 DEF CInv

-----------------------------------------------------------------------------
(* Every step of Console keeps the invariant of the lock.                  *)
LEMMA SyncLemma == CInv /\ ConsoleNext => IInv'
<1> SUFFICES ASSUME CInv, ConsoleNext PROVE IInv'
  BY Zenon
<1>0. IInv /\ SchedConsistent(sched) /\ sched \in SchedState
  BY Zenon DEF CInv, IInv, SchedulerConsistent, TypeOK
<1>1. CASE [Next]_vars
  BY <1>0, <1>1, NextLemma, Zenon
<1>2. ASSUME NEW c \in Echoes, Echo(c) PROVE IInv'
  <2>1. Interrupt /\ UNCHANGED <<sched, sema, lock, depth>>
    BY <1>2, Zenon DEF Echo
  <2>2. pc' = pc \/ pc' = [pc EXCEPT ![Idle] = "block"]
    BY <1>0, <2>1, InterruptLemma, Zenon
  <2>3. Kept(sched, sched', Threads)
    BY <1>0, <2>1 DEF Kept, IInv, Locations
  <2> QED BY <1>0, <2>1, <2>2, <2>3, KeptLemma, Zenon
<1>3. ASSUME NEW t \in Workers, Printing(t) PROVE IInv'
  <2>1. [Next]_vars
    BY <1>3, Zenon DEF Printing, LockStep, ReadCursor, StoreChar, SetCursor, EndOfString, Return,
                AtStage, Next, Worker
  <2> QED BY <2>1, <1>1, Zenon
<1>4. ASSUME NEW t \in Workers,
             console_put_str(t) \/ console_put_int(t) \/ printk(t) \/ sys_write(t) \/ printf(t)
      PROVE  IInv'
  <2>1. UNCHANGED vars
    BY <1>4, Zenon DEF console_put_str, console_put_int, printk, sys_write, printf, CallFormatted, Call
  <2> QED BY <2>1, <1>1, Zenon
<1>5. CASE Preempt \/ Other
  BY <1>1, <1>5, Zenon DEF Preempt, Other, Next, Worker
<1>6. ASSUME NEW page_fault \in BOOLEAN, general_intr_handler(page_fault) PROVE IInv'
  BY <1>1, <1>6, Zenon DEF general_intr_handler
<1> QED BY <1>2, <1>3, <1>4, <1>5, <1>6, Zenon DEF ConsoleNext

(* Workers do not move in the lock when another thread, a handler or the   *)
(* timer takes a step.                                                     *)
LEMMA OutsideLemma ==
    ASSUME CInv, Preempt \/ Other \/ (\E c \in Echoes : Echo(c))
                 \/ (\E page_fault \in BOOLEAN : general_intr_handler(page_fault))
    PROVE  /\ \A t \in Workers : pc'[t] = pc[t] /\ depth'[t] = depth[t]
           /\ UNCHANGED <<stage, text, full, out, done>>
<1>0. IInv /\ Idle \in Threads /\ \A t \in Workers : t # Idle /\ t \in Threads
  BY SchedAssumption, Zenon DEF CInv, Workers
<1>1. pc \in [Threads -> WorkerPc \cup IdlePc]
  BY <1>0, Zenon DEF IInv, TypeOK
<1>2. CASE Preempt
  <2>1. pc' = pc \/ pc' = [pc EXCEPT ![Idle] = "block"]
    BY <1>0, <1>2, InterruptLemma, Zenon DEF Preempt, Timer
  <2> QED BY <1>0, <1>1, <1>2, <2>1, Zenon DEF Preempt, Timer, printVars
<1>3. CASE Other
  BY <1>0, <1>1, <1>3, Zenon DEF Other, printVars, IdleBlock, IdleHalt, process_execute, Goto
<1>4. ASSUME NEW c \in Echoes, Echo(c)
      PROVE  /\ \A t \in Workers : pc'[t] = pc[t] /\ depth'[t] = depth[t]
             /\ UNCHANGED <<stage, text, full, out, done>>
  <2>1. pc' = pc \/ pc' = [pc EXCEPT ![Idle] = "block"]
    BY <1>0, <1>4, InterruptLemma, Zenon DEF Echo
  <2> QED BY <1>0, <1>1, <1>4, <2>1, Zenon DEF Echo
<1>5. CASE \E page_fault \in BOOLEAN : general_intr_handler(page_fault)
  BY <1>5, Zenon DEF general_intr_handler, vars
<1> QED BY <1>2, <1>3, <1>4, <1>5, Zenon

(* The invariant is kept, and the finished calls grow by a whole text.     *)
LEMMA ConsoleStep == CInv /\ [ConsoleNext]_<<vars, printVars>> => CInv' /\ [Output!Show]_done
<1> SUFFICES ASSUME CInv, [ConsoleNext]_<<vars, printVars>> PROVE CInv' /\ [Output!Show]_done
  BY Zenon
<1>1. CASE UNCHANGED <<vars, printVars>>
  <2>1. IInv'
    BY <1>1, NextLemma, Zenon DEF CInv
  <2> QED BY <1>1, <2>1, IdleLemma, Zenon DEF vars, printVars
<1>2. CASE ConsoleNext
  <2>0. IInv'
    BY <1>2, SyncLemma, Zenon
  <2>1. ASSUME NEW t \in Workers,
               console_put_str(t) \/ console_put_int(t) \/ printk(t) \/ sys_write(t) \/ printf(t)
        PROVE  CInv' /\ done' = done
    <3>1. PICK string \in Texts : \E meant : Call(t, string, meant)
      BY <2>1, Zenon DEF console_put_str, console_put_int, printk, sys_write, printf, CallFormatted, Texts
    <3> QED BY <2>0, <3>1, CallLemma, Zenon DEF Call
  <2>2. ASSUME NEW t \in Workers, Printing(t) PROVE CInv' /\ [Output!Show]_done
    <3>1. CASE EndOfString(t)
      BY <2>0, <3>1, EndLemma, Zenon DEF Output!Show
    <3>2. CASE LockStep(t)
      BY <2>0, <3>2, LockStepLemma, Zenon DEF LockStep, printVars
    <3>3. CASE ReadCursor(t) \/ StoreChar(t)
      BY <2>0, <3>3, CharLemma, Zenon DEF ReadCursor, StoreChar
    <3>4. CASE SetCursor(t)
      BY <2>0, <3>4, SetCursorLemma, Zenon DEF SetCursor
    <3>5. CASE Return(t)
      BY <2>0, <3>5, ReturnLemma, Zenon DEF Return
    <3> QED BY <2>2, <3>1, <3>2, <3>3, <3>4, <3>5, Zenon DEF Printing
  <2>3. CASE \/ Preempt \/ Other \/ \E c \in Echoes : Echo(c)
             \/ \E page_fault \in BOOLEAN : general_intr_handler(page_fault)
    BY <2>0, <2>3, OutsideLemma, IdleLemma, Zenon
  <2> QED BY <1>2, <2>1, <2>2, <2>3, Zenon DEF ConsoleNext
<1> QED BY <1>1, <1>2, Zenon

LEMMA ConsoleInitLemma == ConsoleInit => CInv
<1> SUFFICES ASSUME ConsoleInit PROVE CInv
  BY Zenon
<1>1. IInv
  BY InitLemma, Zenon DEF ConsoleInit
<1>2. PrintTypes
  BY TextsAssumption DEF ConsoleInit, PrintTypes
<1>3. /\ \A t \in Workers : stage[t] = "none" /\ t \in Threads /\ t # Idle
      /\ pc = [t \in Threads |-> IF t = Idle THEN "block" ELSE "run"]
      /\ depth = [t \in Threads |-> 0]
      /\ out = done
  BY Zenon DEF ConsoleInit, Init, Workers
<1>4. Placed
  BY <1>3, Zenon DEF Placed
<1>5. Whole
  BY <1>3 DEF Whole, Prints
<1> QED BY <1>1, <1>2, <1>4, <1>5, Zenon DEF CInv

(* The texts printed by threads and processes through console_put_str,     *)
(* console_put_int, printk and write appear one after the other, each      *)
(* whole, whoever is preempted where and whatever keys are typed.          *)
THEOREM TextsAppearWhole == ConsoleSpec => TextsWhole
<1>1. ConsoleInit => done = BootText
  BY Zenon DEF ConsoleInit
<1> QED BY <1>1, ConsoleInitLemma, ConsoleStep, PTL DEF ConsoleSpec, TextsWhole, Output!Spec

(* Printing never makes an ASSERT of the lock or the scheduler fail.       *)
THEOREM ConsoleNeverPanics == ConsoleSpec => []NoPanic
<1>1. CInv => NoPanic
  BY Zenon DEF CInv, IInv
<1> QED BY <1>1, ConsoleInitLemma, ConsoleStep, PTL DEF ConsoleSpec
=============================================================================
