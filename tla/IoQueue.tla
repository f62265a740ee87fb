------------------------------ MODULE IoQueue ------------------------------
(***************************************************************************)
(* device/ioqueue.c: the ring buffer between the keyboard interrupt and    *)
(* the threads that read from it, or between producer and consumer         *)
(* threads, on top of the scheduler of Sched and the handler of Keyboard.  *)
(*                                                                         *)
(* Its functions ASSERT that interrupts are disabled, so a caller runs     *)
(* from one switch of thread to the next without interruption, and the     *)
(* lock of the queue is used whole: holder and holder_repeat_nr are set    *)
(* together with the semaphore.                                            *)
(*                                                                         *)
(* pc[t]: "out"    outside the queue, interrupts enabled                   *)
(*        "loop"   at the while test of ioq_getchar or ioq_putchar         *)
(*        "lockq"  in sema_down of the queue's lock, after thread_block    *)
(*        "asleep" in ioq_wait, after thread_block, holding the lock       *)
(* and for the idle thread "block", "sti" and "hlt" as in Sync.            *)
(***************************************************************************)
EXTENDS Sched, Keyboard, Integers

CONSTANTS
    Uses,       \* the uses that are made of the queue, below
    bufsize,
    Chars,
    NoThread,   \* the NULL of ioq->producer, ioq->consumer and lock.holder
    NoChar

Workers == Threads \ {Idle}

(* In a use, main has created the threads of boot, in that order; threads  *)
(* in consumers call ioq_getchar and threads in producers ioq_putchar,     *)
(* with bytes of chars, or else keys are typed.  In the kernel the         *)
(* keyboard is the only producer; its functions are written for threads    *)
(* that produce as well.                                                   *)
ASSUME IoQueueAssumption ==
    /\ \A u \in Uses :
        /\ u.boot \in Seq(Workers \ {Main}) /\ NoDuplicates(u.boot)
        /\ u.consumers \cup u.producers \subseteq Workers
        /\ u.consumers \cap u.producers = {}
        /\ u.chars \subseteq Chars /\ u.keys \subseteq Keys
        /\ u.keys = {} \/ u.producers = {}
    /\ bufsize \in Nat \ {0, 1}
    /\ NoThread \notin Threads
    /\ NoChar \notin Chars
    /\ \A k \in Keys, shift \in BOOLEAN : keymap(k % 256, shift) \in Chars

VARIABLES
    use,
    sched,
    lock,       \* ioq->lock: [value, waiters, holder]; holder_repeat_nr is
                \* 1 exactly while holder is set
    ioq,        \* [buf, head, tail, producer, consumer]
    pc,
    arg,        \* the byte a producer was called with
    out         \* history: the last character ioq_getchar returned

vars == <<use, sched, lock, ioq, pc, arg, out, keyboardVars>>

TypeOK ==
    /\ KeyboardTypeOK
    /\ sched \in SchedState
    /\ lock \in [value : 0..1, waiters : Seq(Workers), holder : Workers \cup {NoThread}]
    /\ ioq \in [buf : [0..bufsize-1 -> Chars \cup {NoChar}], head : 0..bufsize-1,
                tail : 0..bufsize-1, producer : Workers \cup {NoThread},
                consumer : Workers \cup {NoThread}]
    /\ pc \in [Threads -> {"out", "loop", "lockq", "asleep", "block", "sti", "hlt"}]
    /\ arg \in [Threads -> Chars \cup {NoChar}]
    /\ out \in Chars \cup {NoChar}

(* ioqueue_init, and main has started every thread.                        *)
Init ==
    /\ use \in Uses
    /\ KeyboardInit
    /\ sched = [thread_init EXCEPT
                  !.ready  = @ \o use.boot,
                  !.status = [t \in Threads |->
                                IF elem_find(use.boot, t) THEN "READY" ELSE @[t]]]
    /\ lock = [value |-> 1, waiters |-> <<>>, holder |-> NoThread]
    /\ ioq = [buf |-> [i \in 0..bufsize-1 |-> NoChar], head |-> 0, tail |-> 0,
              producer |-> NoThread, consumer |-> NoThread]
    /\ pc = [t \in Threads |-> IF t = Idle THEN "block" ELSE "out"]
    /\ arg = [t \in Threads |-> NoChar]
    /\ out = NoChar

-----------------------------------------------------------------------------
next_pos(pos) == (pos + 1) % bufsize

ioq_full(q) == next_pos(q.head) = q.tail

ioq_empty(q) == q.head = q.tail

(* The field that names the sleeping thread of t's kind, and the wait test *)
(* of its loop.                                                            *)
Slot(t) == IF t \in use.consumers THEN "consumer" ELSE "producer"

MustWait(t) == IF t \in use.consumers THEN ioq_empty(ioq) ELSE ioq_full(ioq)

(* Mutant: the woken thread is marked READY and not queued.                *)
Woken_unqueued(s, q, slot) ==
    IF q[slot] # NoThread THEN [s EXCEPT !.status[q[slot]] = "READY"] ELSE s

(* wakeup, when the slot is not NULL.                                      *)
Woken(s, q, slot) == IF q[slot] # NoThread THEN thread_unblock(s, q[slot]) ELSE s

(* The end of ioq_putchar: store the byte and wake the consumer.           *)
Stored(q, c) == [q EXCEPT !.buf[q.head] = c, !.head = next_pos(q.head),
                          !.consumer = NoThread]

(* The end of ioq_getchar: advance the tail and wake the producer.         *)
Taken(q) == [q EXCEPT !.tail = next_pos(q.tail), !.producer = NoThread]

At(t, at) == /\ ~sched.panic
             /\ sched.cur = t
             /\ pc[t] = at

Goto(t, to) == pc' = [pc EXCEPT ![t] = to]

-----------------------------------------------------------------------------
(* A thread disables interrupts and calls ioq_getchar or ioq_putchar.      *)
Call(t) ==
    /\ At(t, "out")
    /\ \/ t \in use.consumers /\ UNCHANGED arg
       \/ t \in use.producers /\ \E c \in use.chars : arg' = [arg EXCEPT ![t] = c]
    /\ Goto(t, "loop")
    /\ UNCHANGED <<use, keyboardVars, sched, lock, ioq, out>>

(* In lock_acquire, from the while test or woken in sema_down.             *)
Locking(t) == \/ At(t, "loop") /\ MustWait(t)
              \/ At(t, "lockq")

(* lock_acquire when the semaphore is taken: wait for it.                  *)
LockWait(t) ==
    /\ Locking(t)
    /\ lock.value = 0
    /\ lock' = [lock EXCEPT !.waiters = list_append(@, t)]
    /\ sched' = thread_block(ASSERT(sched, ~elem_find(lock.waiters, t)))
    /\ Goto(t, "lockq")
    /\ UNCHANGED <<use, keyboardVars, ioq, arg, out>>

(* lock_acquire succeeds and ioq_wait follows at once: the state of the    *)
(* queue is not tested again.                                              *)
ioq_wait(t) ==
    /\ Locking(t)
    /\ lock.value = 1
    /\ lock' = [lock EXCEPT !.value = 0, !.holder = t]
    /\ ioq' = [ioq EXCEPT ![Slot(t)] = t]
    /\ sched' = thread_block(ASSERT(sched, ioq[Slot(t)] = NoThread))
    /\ Goto(t, "asleep")
    /\ UNCHANGED <<use, keyboardVars, arg, out>>

(* Mutant: the lock is released without clearing its holder.               *)
LockRelease_held(t) ==
    /\ At(t, "asleep")
    /\ sched' = IF lock.waiters # <<>> THEN thread_unblock(sched, Head(lock.waiters)) ELSE sched
    /\ lock' = [lock EXCEPT !.value = 1,
                            !.waiters = IF @ = <<>> THEN @ ELSE Tail(@)]
    /\ Goto(t, "loop")
    /\ UNCHANGED <<use, keyboardVars, ioq, arg, out>>

(* lock_release after ioq_wait, and back to the while test.                *)
LockRelease(t) ==
    /\ At(t, "asleep")
    /\ LET s == ASSERT(sched, lock.holder = t /\ lock.value = 0) IN
       IF lock.waiters # <<>>
       THEN /\ sched' = thread_unblock(s, Head(lock.waiters))
            /\ lock' = [value |-> 1, waiters |-> Tail(lock.waiters), holder |-> NoThread]
       ELSE /\ sched' = s
            /\ lock' = [lock EXCEPT !.value = 1, !.holder = NoThread]
    /\ Goto(t, "loop")
    /\ UNCHANGED <<use, keyboardVars, ioq, arg, out>>

(* Mutant: the tail is advanced before the byte is read.                   *)
ioq_getchar_late(t) ==
    /\ At(t, "loop")
    /\ t \in use.consumers
    /\ ~ioq_empty(ioq)
    /\ out' = ioq.buf[next_pos(ioq.tail)]
    /\ ioq' = Taken(ioq)
    /\ sched' = Woken(sched, ioq, "producer")
    /\ Goto(t, "out")
    /\ UNCHANGED <<use, keyboardVars, lock, arg>>

ioq_getchar(t) ==
    /\ At(t, "loop")
    /\ t \in use.consumers
    /\ ~ioq_empty(ioq)
    /\ out' = ioq.buf[ioq.tail]
    /\ ioq' = Taken(ioq)
    /\ sched' = Woken(sched, ioq, "producer")
    /\ Goto(t, "out")
    /\ UNCHANGED <<use, keyboardVars, lock, arg>>

ioq_putchar(t) ==
    /\ At(t, "loop")
    /\ t \in use.producers
    /\ ~ioq_full(ioq)
    /\ ioq' = Stored(ioq, arg[t])
    /\ sched' = Woken(sched, ioq, "consumer")
    /\ Goto(t, "out")
    /\ UNCHANGED <<use, keyboardVars, lock, arg, out>>

-----------------------------------------------------------------------------
(* Interrupts are enabled outside the queue.                               *)
IntrOn == ~sched.panic /\ pc[sched.cur] \in {"out", "block", "sti", "hlt"}

(* An interrupt ends the idle thread's hlt.                                *)
Resume == pc' = IF pc[sched.cur] = "hlt" THEN [pc EXCEPT ![sched.cur] = "block"] ELSE pc

(* Mutant: the handler stores the character and wakes no consumer.         *)
PutChar_silent(c) ==
    IF ioq_full(ioq) THEN UNCHANGED <<sched, ioq>>
    ELSE ioq' = [Stored(ioq, c) EXCEPT !.consumer = ioq.consumer] /\ UNCHANGED sched

(* A character is dropped when the queue is full, so the handler never     *)
(* waits.                                                                  *)
PutChar(c) ==
    IF ioq_full(ioq) THEN UNCHANGED <<sched, ioq>>
    ELSE ioq' = Stored(ioq, c) /\ sched' = Woken(sched, ioq, "consumer")

(* A byte from the keyboard interrupts the running thread.                 *)
intr_keyboard_handler ==
    /\ IntrOn
    /\ \/ (Prefix \/ Break \/ Modifier \/ Ignored) /\ UNCHANGED <<sched, ioq>>
       \/ Char /\ PutChar(cur_char)
    /\ Resume
    /\ UNCHANGED <<use, lock, arg, out>>

Type == /\ \E k \in use.keys : Press(k) \/ Release(k)
        /\ UNCHANGED <<use, sched, lock, ioq, pc, arg, out>>

Timer ==
    /\ IntrOn
    /\ sched' = intr_timer_handler(sched)
    /\ Resume
    /\ UNCHANGED <<use, keyboardVars, lock, ioq, arg, out>>

IdleBlock ==
    /\ At(Idle, "block")
    /\ sched' = thread_block(sched)
    /\ Goto(Idle, "sti")
    /\ UNCHANGED <<use, keyboardVars, lock, ioq, arg, out>>

IdleHalt ==
    /\ At(Idle, "sti")
    /\ Goto(Idle, "hlt")
    /\ UNCHANGED <<use, keyboardVars, sched, lock, ioq, arg, out>>
-----------------------------------------------------------------------------
Continue(t) == LockWait(t) \/ ioq_wait(t) \/ LockRelease(t) \/ ioq_getchar(t) \/ ioq_putchar(t)

Next == \/ \E t \in Workers : Call(t) \/ Continue(t)
        \/ IdleBlock
        \/ IdleHalt
        \/ Timer
        \/ intr_keyboard_handler
        \/ Type

Spec == Init /\ [][Next]_vars

(* Timer interrupts keep arriving or stay pending while interrupts are     *)
(* disabled, as in Sync; the running thread goes on with its call, in      *)
(* which nothing interrupts it; producer threads never stop calling        *)
(* ioq_putchar.                                                            *)
FairSpec ==
    /\ Spec
    /\ SF_vars(Timer)
    /\ WF_vars(IdleBlock \/ IdleHalt \/ \E t \in Workers : Continue(t))
    /\ SF_vars(\E t \in use.producers : Call(t))
-----------------------------------------------------------------------------
(* No ASSERT of ioq_wait, wakeup, the lock or the scheduler fails.         *)
NoPanic == ~sched.panic

(* The characters between tail and head, oldest first.                     *)
Queue == [i \in 1..((ioq.head - ioq.tail) % bufsize) |->
            ioq.buf[(ioq.tail + i - 1) % bufsize]]

(* The ring buffer is a FIFO of bufsize - 1 characters: ioq_getchar        *)
(* returns every character ioq_putchar stored, once and in order, whoever  *)
(* slept and was woken in between.                                         *)
Abstract == INSTANCE Fifo WITH queue <- Queue, Capacity <- bufsize - 1

QueueIsFifo == Abstract!Spec

(* The lock is held by the thread that sleeps in ioq_wait, or was woken    *)
(* there, and by no other; a thread is registered as producer or consumer  *)
(* exactly while it sleeps.                                                *)
SleeperHoldsLock ==
    \A t \in Workers :
        /\ lock.holder = t <=> pc[t] = "asleep"
        /\ t \in {ioq.producer, ioq.consumer} <=>
               pc[t] = "asleep" /\ sched.status[t] = "BLOCKED"

(* Types, the ASSERTs of ioqueue.c, its lock, and the flags of the         *)
(* keyboard, in every interleaving of handler and threads.                 *)
QueueSound == TypeOK /\ NoPanic /\ SleeperHoldsLock /\ NoStuckModifier

(* ioqueue.h says of the field consumer that it names a thread sleeping    *)
(* because the buffer is empty: the one reader of the keyboard never       *)
(* sleeps on a character in ioq_getchar.  (A second reader may: it waits   *)
(* for the lock, and does not test the queue again when it has it.)        *)
ConsumerSleepsOnEmpty ==
    \A t \in Workers : use.consumers = {t} /\ use.producers = {} /\ ioq.consumer = t =>
        ioq_empty(ioq)

(* A character that the handler stores is the one that the keys held, and  *)
(* the presses of Caps Lock, ask for, whenever it is that they are read.   *)
(* The handler has one flag for the two Shift keys, which the release of   *)
(* either clears, so this is for the use of one of them.                   *)
TypedAsHeld ==
    [][/\ ioq'.head # ioq.head /\ use.producers = {}
       /\ ~({shift_l_make, shift_r_make} \subseteq use.keys)
       => LET c == ioq'.buf[ioq.head] IN c.shift = ColumnHeld(c.key)]_vars

(* Every thread that uses the queue waits for another: one of them sleeps  *)
(* in ioq_wait, and the others wait for the lock that it holds.            *)
Stuck == /\ use.producers # {} /\ ioq_full(ioq)
         /\ \A t \in use.consumers \cup use.producers :
                pc[t] \in {"lockq", "asleep"} /\ sched.status[t] = "BLOCKED"

(* A thread that is in ioq_getchar while the queue holds a character       *)
(* returns with one if it is the only reader.  With the keyboard that is   *)
(* always so; a producer thread and its reader may end up waiting for each *)
(* other with the queue full, and in no other way.                         *)
CharRead ==
    (~ioq_empty(ioq) /\ \E t \in Workers : use.consumers = {t} /\ pc[t] # "out") ~>
        ((\A t \in use.consumers : pc[t] = "out") \/ Stuck)
=============================================================================
