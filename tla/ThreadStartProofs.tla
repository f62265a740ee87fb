------------------------- MODULE ThreadStartProofs --------------------------
(***************************************************************************)
(* thread_start, for any set of threads.                                   *)
(*                                                                         *)
(* Pids are unique unless two creators overlap.  The argument (PInv) does  *)
(* not need the scheduler: pid_lock lets one creator at a time into        *)
(* next_pid++ whatever the lists hold, so that next_pid grows; and a       *)
(* creator that is alone between next_pid++ and its return returns a       *)
(* number that no PCB has yet.                                             *)
(*                                                                         *)
(* The lists, the ASSERTs and the count need the scheduler (TInv, Counted):*)
(* seen without the PCBs that are still being filled, its lists and        *)
(* statuses agree as they do in Sync.                                      *)
(***************************************************************************)
EXTENDS ThreadStart, SchedProofs

-----------------------------------------------------------------------------
(* The scheduler as the threads of B see it: no other thread exists.       *)
Seen(s, B) ==
    [s EXCEPT !.status = [t \in Threads |-> IF t \in B THEN s.status[t] ELSE "NONE"]]

(* What an operation may do to the statuses when only threads of B run or  *)
(* are queued.                                                             *)
Apart(s, r, B) ==
    \A t \in Threads : /\ t \notin B => r.status[t] = s.status[t]
                       /\ s.status[t] # "NONE" => r.status[t] # "NONE"

LEMMA SeenLemma ==
    ASSUME NEW B \in SUBSET Threads, NEW s \in SchedState
    PROVE  /\ Seen(s, B) \in SchedState
           /\ Seen(s, B).cur = s.cur /\ Seen(s, B).ready = s.ready
           /\ Seen(s, B).ticks = s.ticks /\ Seen(s, B).panic = s.panic
           /\ \A t \in Threads : Seen(s, B).status[t] = IF t \in B THEN s.status[t] ELSE "NONE"
BY Zenon DEF Seen, SchedState, Status

(* Two states are equal when their fields are.                             *)
LEMMA SameState ==
    ASSUME NEW s \in SchedState, NEW r \in SchedState, s.cur = r.cur, s.ready = r.ready,
           s.ticks = r.ticks, s.panic = r.panic, \A t \in Threads : s.status[t] = r.status[t]
    PROVE  s = r
<1>1. s.status = r.status
  BY DEF SchedState
<1>2. /\ s = [cur |-> s.cur, ready |-> s.ready, status |-> s.status, ticks |-> s.ticks, panic |-> s.panic]
      /\ r = [cur |-> r.cur, ready |-> r.ready, status |-> r.status, ticks |-> r.ticks, panic |-> r.panic]
  BY DEF SchedState
<1> QED BY <1>1, <1>2, Zenon

LEMMA SeenAssert ==
    ASSUME NEW B \in SUBSET Threads, NEW s \in SchedState, NEW cond
    PROVE  Seen(ASSERT(s, cond), B) = ASSERT(Seen(s, B), cond) /\ Apart(s, ASSERT(s, cond), B)
BY Zenon DEF Seen, ASSERT, SchedState, Apart

LEMMA SeenUnblock ==
    ASSUME NEW B \in SUBSET Threads, NEW s, Within(s, B), NEW t \in B
    PROVE  /\ Seen(thread_unblock(s, t), B) = thread_unblock(Seen(s, B), t)
           /\ Apart(s, thread_unblock(s, t), B)
<1> DEFINE v == Seen(s, B)
           r == thread_unblock(s, t)
           q == thread_unblock(v, t)
<1>0. s \in SchedState /\ v \in SchedState /\ t \in Threads /\ s.ready \in Seq(B) /\ s.cur \in B
  BY SeenLemma, Zenon DEF Within
<1>1. /\ v.cur = s.cur /\ v.ready = s.ready /\ v.ticks = s.ticks /\ v.panic = s.panic
      /\ \A u \in Threads : v.status[u] = IF u \in B THEN s.status[u] ELSE "NONE"
  BY <1>0, SeenLemma
<1> HIDE DEF v
<1>2. Within(v, B)
  BY <1>0, <1>1, Zenon DEF Within
<1>3. r \in SchedState /\ q \in SchedState
  BY <1>2, UnblockWithin, Zenon DEF Within
<1>4. /\ r.cur = s.cur /\ r.ready = list_push(s.ready, t) /\ r.ticks = s.ticks
      /\ r.panic = (s.panic \/ ~(s.status[t] = "BLOCKED" /\ ~elem_find(s.ready, t)))
      /\ r.status = [s.status EXCEPT ![t] = "READY"]
  BY <1>0 DEF thread_unblock, ASSERT, SchedState
<1>5. /\ q.cur = v.cur /\ q.ready = list_push(v.ready, t) /\ q.ticks = v.ticks
      /\ q.panic = (v.panic \/ ~(v.status[t] = "BLOCKED" /\ ~elem_find(v.ready, t)))
      /\ q.status = [v.status EXCEPT ![t] = "READY"]
  BY <1>0 DEF thread_unblock, ASSERT, SchedState
<1> HIDE DEF r, q
<1> DEFINE z == Seen(r, B)
<1>6. /\ z \in SchedState /\ z.cur = r.cur /\ z.ready = r.ready /\ z.ticks = r.ticks /\ z.panic = r.panic
      /\ \A u \in Threads : z.status[u] = IF u \in B THEN r.status[u] ELSE "NONE"
  BY <1>3, SeenLemma
<1> HIDE DEF z
<1>7. s.status \in [Threads -> Status] /\ v.status \in [Threads -> Status]
  BY <1>0 DEF SchedState
<1>8. ASSUME NEW u \in Threads PROVE z.status[u] = q.status[u]
  <2>1. r.status[u] = IF u = t THEN "READY" ELSE s.status[u]
    BY <1>0, <1>4, <1>7, Zenon
  <2>2. q.status[u] = IF u = t THEN "READY" ELSE v.status[u]
    BY <1>0, <1>5, <1>7, Zenon
  <2> QED BY <1>1, <1>6, <2>1, <2>2, Zenon
<1>9. z.panic = q.panic
  BY <1>0, <1>1, <1>4, <1>5, <1>6
<1>10. z = q
  <2>1. z.cur = q.cur /\ z.ready = q.ready /\ z.ticks = q.ticks
    BY <1>1, <1>4, <1>5, <1>6
  <2> QED BY <1>3, <1>6, <1>8, <1>9, <2>1, SameState, Zenon
<1>11. Apart(s, r, B)
  BY <1>0, <1>4, <1>7, Zenon DEF Apart
<1> QED BY <1>10, <1>11, Zenon DEF z, q, r, v

LEMMA SeenSwitch ==
    ASSUME NEW B \in SUBSET Threads, Idle \in B, NEW s, Within(s, B)
    PROVE  /\ Seen(switch_to(wake_idle(s)), B) = switch_to(wake_idle(Seen(s, B)))
           /\ Apart(s, switch_to(wake_idle(s)), B)
<1> DEFINE w == wake_idle(s)
           v == Seen(w, B)
           h == Head(w.ready)
           r == switch_to(w)
           q == switch_to(v)
           z == Seen(r, B)
<1>0. s \in SchedState /\ Seen(s, B).ready = s.ready
  BY SeenLemma, Zenon DEF Within
<1>1. Within(w, B) /\ w.ready # <<>> /\ Apart(s, w, B) /\ v = wake_idle(Seen(s, B))
  <2>1. CASE s.ready = <<>>
    BY <1>0, <2>1, UnblockWithin, SeenUnblock, Zenon DEF wake_idle
  <2>2. CASE s.ready # <<>>
    BY <1>0, <2>2, Zenon DEF wake_idle, Apart
  <2> QED BY <2>1, <2>2, Zenon
<1> HIDE DEF w
<1>2. h \in B /\ Tail(w.ready) \in Seq(B) /\ w \in SchedState
  BY <1>1, PopLemma, Zenon DEF Within
<1>3. /\ v \in SchedState /\ v.cur = w.cur /\ v.ready = w.ready /\ v.ticks = w.ticks /\ v.panic = w.panic
      /\ \A u \in Threads : v.status[u] = IF u \in B THEN w.status[u] ELSE "NONE"
  BY <1>2, SeenLemma
<1> HIDE DEF v
<1>4. w.status \in [Threads -> Status] /\ v.status \in [Threads -> Status] /\ h \in Threads
  BY <1>2, <1>3 DEF SchedState
<1>5. /\ r = [w EXCEPT !.cur = h, !.ready = Tail(w.ready), !.status[h] = "RUNNING"]
      /\ q = [v EXCEPT !.cur = h, !.ready = Tail(w.ready), !.status[h] = "RUNNING"]
  BY <1>3, Zenon DEF switch_to
<1>6. Tail(w.ready) \in Seq(Threads)
  BY <1>2
<1> DEFINE l == Tail(w.ready)
<1> HIDE DEF r, q, h, l
<1>7. /\ r \in SchedState /\ q \in SchedState
      /\ r.cur = h /\ r.ready = l /\ r.ticks = w.ticks /\ r.panic = w.panic
      /\ q.cur = h /\ q.ready = l /\ q.ticks = w.ticks /\ q.panic = w.panic
      /\ r.status = [w.status EXCEPT ![h] = "RUNNING"] /\ q.status = [v.status EXCEPT ![h] = "RUNNING"]
  <2>1. l \in Seq(Threads)
    BY <1>6, Zenon DEF l
  <2>2. /\ r = [w EXCEPT !.cur = h, !.ready = l, !.status[h] = "RUNNING"]
        /\ q = [v EXCEPT !.cur = h, !.ready = l, !.status[h] = "RUNNING"]
    BY <1>5, Zenon DEF l
  <2> QED BY <1>2, <1>3, <1>4, <2>1, <2>2, Zenon DEF SchedState, Status
<1>8. /\ z \in SchedState /\ z.cur = h /\ z.ready = l /\ z.ticks = w.ticks /\ z.panic = w.panic
      /\ \A u \in Threads : z.status[u] = IF u \in B THEN r.status[u] ELSE "NONE"
  <2>1. r \in SchedState
    BY <1>7, Zenon
  <2>2. /\ z \in SchedState /\ z.cur = r.cur /\ z.ready = r.ready /\ z.ticks = r.ticks /\ z.panic = r.panic
        /\ \A u \in Threads : z.status[u] = IF u \in B THEN r.status[u] ELSE "NONE"
    BY <2>1, SeenLemma
  <2> HIDE DEF z
  <2> QED BY <1>7, <2>2, Zenon
<1> HIDE DEF z
<1>9. ASSUME NEW u \in Threads PROVE z.status[u] = q.status[u]
  <2>1. r.status[u] = IF u = h THEN "RUNNING" ELSE w.status[u]
    BY <1>4, <1>7, Zenon
  <2>2. q.status[u] = IF u = h THEN "RUNNING" ELSE v.status[u]
    BY <1>4, <1>7, Zenon
  <2> QED BY <1>2, <1>3, <1>8, <2>1, <2>2
<1>10. z = q
  <2>1. z.cur = q.cur /\ z.ready = q.ready /\ z.ticks = q.ticks /\ z.panic = q.panic
    BY <1>7, <1>8, Zenon
  <2> QED BY <1>7, <1>8, <1>9, <2>1, SameState, Zenon
<1>11. Apart(s, r, B)
  BY <1>1, <1>2, <1>4, <1>7, Zenon DEF Apart
<1> QED BY <1>1, <1>10, <1>11, Zenon DEF z, q, r, w, v

LEMMA SeenSchedule ==
    ASSUME NEW B \in SUBSET Threads, Idle \in B, NEW s, Within(s, B)
    PROVE  Seen(schedule(s), B) = schedule(Seen(s, B)) /\ Apart(s, schedule(s), B)
<1> DEFINE v == Seen(s, B)
           p == preempt(s)
           q == preempt(v)
           z == Seen(p, B)
<1>0. s \in SchedState /\ s.cur \in B /\ s.cur \in Threads /\ s.ready \in Seq(Threads) /\ s.ready \in Seq(B)
  BY Zenon DEF Within, SchedState
<1>1. /\ v \in SchedState /\ v.cur = s.cur /\ v.ready = s.ready /\ v.ticks = s.ticks /\ v.panic = s.panic
      /\ \A u \in Threads : v.status[u] = IF u \in B THEN s.status[u] ELSE "NONE"
  BY <1>0, SeenLemma
<1> HIDE DEF v
<1>2. Within(p, B) /\ z = q /\ Apart(s, p, B)
  <2>1. CASE s.status[s.cur] = "RUNNING"
    <3> DEFINE l == list_append(s.ready, s.cur)
               k == [s.ticks EXCEPT ![s.cur] = Priority[s.cur]]
               c == s.panic \/ elem_find(s.ready, s.cur)
    <3>1. l \in Seq(B) /\ l \in Seq(Threads)
      BY <1>0, AppendLemma, Zenon
    <3>2. k \in [Threads -> 0..255] /\ c \in BOOLEAN
      <4>1. s.ticks \in [Threads -> 0..255] /\ Priority[s.cur] \in 0..255
        BY <1>0, SchedAssumption, Zenon DEF SchedState
      <4> QED BY <1>0, <4>1 DEF SchedState
    <3>3. /\ p = [cur |-> s.cur, ready |-> l, status |-> [s.status EXCEPT ![s.cur] = "READY"],
                  ticks |-> k, panic |-> c]
          /\ q = [cur |-> s.cur, ready |-> l, status |-> [v.status EXCEPT ![s.cur] = "READY"],
                  ticks |-> k, panic |-> c]
      <4>1. v.status[v.cur] = "RUNNING"
        BY <1>0, <1>1, <2>1, Zenon
      <4> QED BY <1>0, <1>1, <2>1, <4>1, Zenon DEF preempt, ASSERT, SchedState
    <3> HIDE DEF l, k, c, p, q
    <3>4. s.status \in [Threads -> Status] /\ v.status \in [Threads -> Status]
      BY <1>0, <1>1 DEF SchedState
    <3>5. p \in SchedState /\ q \in SchedState
      BY <1>0, <3>1, <3>2, <3>3, <3>4, SMTT(30) DEF SchedState, Status
    <3>6. Within(p, B)
      BY <1>0, <3>1, <3>3, <3>5, Zenon DEF Within
    <3>7. /\ z \in SchedState /\ z.cur = p.cur /\ z.ready = p.ready /\ z.ticks = p.ticks /\ z.panic = p.panic
          /\ \A u \in Threads : z.status[u] = IF u \in B THEN p.status[u] ELSE "NONE"
      BY <3>5, SeenLemma
    <3> HIDE DEF z
    <3>8. ASSUME NEW u \in Threads PROVE z.status[u] = q.status[u]
      <4>1. p.status[u] = IF u = s.cur THEN "READY" ELSE s.status[u]
        BY <1>0, <3>3, <3>4, Zenon
      <4>2. q.status[u] = IF u = s.cur THEN "READY" ELSE v.status[u]
        BY <1>0, <3>3, <3>4, Zenon
      <4> QED BY <1>0, <1>1, <3>7, <4>1, <4>2
    <3>9. z = q
      <4>1. z.cur = q.cur /\ z.ready = q.ready /\ z.ticks = q.ticks /\ z.panic = q.panic
        BY <3>3, <3>7, Zenon
      <4> QED BY <3>5, <3>7, <3>8, <4>1, SameState, Zenon
    <3>10. Apart(s, p, B)
      BY <1>0, <3>3, <3>4, Zenon DEF Apart
    <3> QED BY <3>6, <3>9, <3>10, Zenon
  <2>2. CASE s.status[s.cur] # "RUNNING"
    <3>1. v.status[v.cur] # "RUNNING"
      BY <1>0, <1>1, <2>2, Zenon
    <3>2. p = s /\ q = v
      BY <2>2, <3>1, Zenon DEF preempt
    <3> QED BY <3>2, Zenon DEF Apart, v
  <2> QED BY <2>1, <2>2, Zenon
<1> HIDE DEF p, q
<1>3. /\ Seen(switch_to(wake_idle(p)), B) = switch_to(wake_idle(z))
      /\ Apart(p, switch_to(wake_idle(p)), B)
  BY <1>2, SeenSwitch, Zenon
<1>4. Apart(s, switch_to(wake_idle(p)), B)
  BY <1>2, <1>3, Zenon DEF Apart
<1> QED BY <1>2, <1>3, <1>4, Zenon DEF schedule, p, q, v

(* thread_block and the timer do not tell whether the other threads exist. *)
LEMMA SeenBlock ==
    ASSUME NEW B \in SUBSET Threads, Idle \in B, NEW s, Within(s, B)
    PROVE  Seen(thread_block(s), B) = thread_block(Seen(s, B)) /\ Apart(s, thread_block(s), B)
<1> DEFINE v == Seen(s, B)
           b == [s EXCEPT !.status[s.cur] = "BLOCKED"]
           q == [v EXCEPT !.status[v.cur] = "BLOCKED"]
           z == Seen(b, B)
<1>0. s \in SchedState /\ s.cur \in B /\ s.cur \in Threads
  BY Zenon DEF Within, SchedState
<1>1. /\ v \in SchedState /\ v.cur = s.cur /\ v.ready = s.ready /\ v.ticks = s.ticks /\ v.panic = s.panic
      /\ \A u \in Threads : v.status[u] = IF u \in B THEN s.status[u] ELSE "NONE"
  BY <1>0, SeenLemma
<1> HIDE DEF v
<1>2. s.status \in [Threads -> Status] /\ v.status \in [Threads -> Status]
  BY <1>0, <1>1 DEF SchedState
<1>3. /\ b \in SchedState /\ q \in SchedState
      /\ b.cur = s.cur /\ b.ready = s.ready /\ b.ticks = s.ticks /\ b.panic = s.panic
      /\ q.cur = s.cur /\ q.ready = s.ready /\ q.ticks = s.ticks /\ q.panic = s.panic
      /\ b.status = [s.status EXCEPT ![s.cur] = "BLOCKED"] /\ q.status = [v.status EXCEPT ![s.cur] = "BLOCKED"]
  BY <1>0, <1>1, <1>2, Zenon DEF SchedState, Status
<1> HIDE DEF b, q
<1>4. Within(b, B)
  BY <1>3, Zenon DEF Within
<1>5. /\ z \in SchedState /\ z.cur = b.cur /\ z.ready = b.ready /\ z.ticks = b.ticks /\ z.panic = b.panic
      /\ \A u \in Threads : z.status[u] = IF u \in B THEN b.status[u] ELSE "NONE"
  BY <1>4, SeenLemma DEF Within
<1> HIDE DEF z
<1>6. ASSUME NEW u \in Threads PROVE z.status[u] = q.status[u]
  <2>1. b.status[u] = IF u = s.cur THEN "BLOCKED" ELSE s.status[u]
    BY <1>0, <1>2, <1>3, Zenon
  <2>2. q.status[u] = IF u = s.cur THEN "BLOCKED" ELSE v.status[u]
    BY <1>0, <1>2, <1>3, Zenon
  <2> QED BY <1>0, <1>1, <1>5, <2>1, <2>2
<1>7. z = q
  <2>1. z.cur = q.cur /\ z.ready = q.ready /\ z.ticks = q.ticks /\ z.panic = q.panic
    BY <1>3, <1>5, Zenon
  <2> QED BY <1>3, <1>5, <1>6, <2>1, SameState, Zenon
<1>8. Seen(schedule(b), B) = schedule(z) /\ Apart(b, schedule(b), B)
  BY <1>4, SeenSchedule, Zenon DEF z
<1>9. Apart(s, b, B)
  BY <1>0, <1>2, <1>3, Zenon DEF Apart
<1>10. Apart(s, schedule(b), B)
  BY <1>8, <1>9, Zenon DEF Apart
<1> QED BY <1>7, <1>8, <1>10, Zenon DEF thread_block, b, q, v

LEMMA SeenTimer ==
    ASSUME NEW B \in SUBSET Threads, Idle \in B, NEW s, Within(s, B)
    PROVE  /\ Seen(intr_timer_handler(s), B) = intr_timer_handler(Seen(s, B))
           /\ Apart(s, intr_timer_handler(s), B)
<1>0. s \in SchedState /\ s.cur \in Threads /\ Seen(s, B).cur = s.cur /\ Seen(s, B).ticks = s.ticks
  <2>1. s \in SchedState
    BY Zenon DEF Within
  <2>2. s.cur \in Threads
    BY <2>1, Zenon DEF SchedState
  <2> QED BY <2>1, <2>2, SeenLemma
<1>1. CASE s.ticks[s.cur] = 0
  BY <1>0, <1>1, SeenSchedule, Zenon DEF intr_timer_handler
<1>2. CASE s.ticks[s.cur] # 0
  <2>1. /\ intr_timer_handler(s) = [s EXCEPT !.ticks[s.cur] = @ - 1]
        /\ intr_timer_handler(Seen(s, B)) = [Seen(s, B) EXCEPT !.ticks[s.cur] = @ - 1]
    BY <1>0, <1>2, Zenon DEF intr_timer_handler
  <2>2. Seen([s EXCEPT !.ticks[s.cur] = @ - 1], B) = [Seen(s, B) EXCEPT !.ticks[s.cur] = @ - 1]
    <3> DEFINE k == [s.ticks EXCEPT ![s.cur] = s.ticks[s.cur] - 1]
               f == [t \in Threads |-> IF t \in B THEN s.status[t] ELSE "NONE"]
    <3>1. Seen(s, B) = [cur |-> s.cur, ready |-> s.ready, status |-> f, ticks |-> s.ticks, panic |-> s.panic]
      BY <1>0, SMTT(30) DEF Seen, SchedState
    <3>2. [s EXCEPT !.ticks[s.cur] = @ - 1]
            = [cur |-> s.cur, ready |-> s.ready, status |-> s.status, ticks |-> k, panic |-> s.panic]
      <4>1. [s EXCEPT !.ticks[s.cur] = @ - 1] = [s EXCEPT !.ticks = k]
        BY Zenon
      <4> HIDE DEF k, f
      <4>2. [s EXCEPT !.ticks = k]
              = [cur |-> s.cur, ready |-> s.ready, status |-> s.status, ticks |-> k, panic |-> s.panic]
        <5>1. s = [cur |-> s.cur, ready |-> s.ready, status |-> s.status, ticks |-> s.ticks, panic |-> s.panic]
          BY <1>0, Zenon DEF SchedState
        <5> QED BY <5>1
      <4> QED BY <4>1, <4>2, Zenon
    <3> HIDE DEF k
    <3>3. Seen([cur |-> s.cur, ready |-> s.ready, status |-> s.status, ticks |-> k, panic |-> s.panic], B)
            = [cur |-> s.cur, ready |-> s.ready, status |-> f, ticks |-> k, panic |-> s.panic]
      BY DEF Seen
    <3> HIDE DEF f
    <3>4. [Seen(s, B) EXCEPT !.ticks[s.cur] = @ - 1]
            = [cur |-> s.cur, ready |-> s.ready, status |-> f, ticks |-> k, panic |-> s.panic]
      BY <3>1 DEF k
    <3> QED BY <3>2, <3>3, <3>4, Zenon
  <2>3. Apart(s, [s EXCEPT !.ticks[s.cur] = @ - 1], B)
    BY <1>0, Zenon DEF Apart, SchedState
  <2> QED BY <2>1, <2>2, <2>3, Zenon
<1> QED BY <1>1, <1>2, Zenon

-----------------------------------------------------------------------------
(* The lock is not acquired recursively by allocate_pid.                   *)
LockTypes ==
    /\ sema.value \in 0..1
    /\ sema = [value |-> sema.value, waiters |-> sema.waiters]
    /\ lock \in [holder : Workers \cup {NoThread}, repeat : 0..1]
    /\ pc \in [Threads -> WorkerPc \cup IdlePc]
    /\ depth \in [Threads -> 0..1]
    /\ pc[Idle] \in IdlePc /\ depth[Idle] = 0
    /\ \A t \in Workers :
        /\ pc[t] \in WorkerPc \ {"again", "drop"}
        /\ pc[t] \in {"down", "wait"} => depth[t] = 0
        /\ pc[t] \in {"own", "count", "clear", "zero", "up"} => depth[t] = 1

(* A creator that increments next_pid holds the lock.                      *)
Incrementing ==
    \A t \in Workers : stage[t] = "inc" =>
        pc[t] = "run" /\ depth[t] = 1 /\ loaded[t] = next_pid

PidTypes ==
    /\ stage \in [Workers -> Stages]
    /\ loaded \in [Workers -> Nat]
    /\ new \in [Workers -> Workers \cup {NoThread}]
    /\ next_pid \in Nat
    /\ pid \in [Threads -> Nat]
    /\ overlap \in BOOLEAN
    /\ \A t \in Threads : pid[t] <= next_pid

(* While nobody has overlapped, one creator at most is about to return,    *)
(* and what it will return is new.                                         *)
Fresh ==
    ~overlap =>
        /\ \A t, u \in Workers : stage[t] = "unlock" /\ stage[u] = "unlock" => t = u
        /\ \A t \in Workers : stage[t] = "unlock" =>
               \A u \in Threads : pid[u] # next_pid

PInv == LockTypes /\ LockConsistent /\ PidTypes /\ Incrementing /\ Fresh /\ PidsUnique

-----------------------------------------------------------------------------
(* The steps of lock_acquire and lock_release keep mutual exclusion.       *)
LEMMA PidLockLemma ==
    ASSUME PInv, NEW t \in Workers, PidLock(t)
    PROVE  LockTypes' /\ LockConsistent'
<1> USE SyncAssumption, SchedAssumption
<1>0. LockTypes /\ LockConsistent /\ t \in Threads /\ t # Idle
  BY Zenon DEF PInv, Workers
<1>1. CASE AcquireTest(t) /\ depth[t] = 0
  <2>0. lock.holder # t
    BY <1>0, <1>1 DEF LockConsistent, Owners
  <2>1. pc' = [pc EXCEPT ![t] = "down"] /\ UNCHANGED <<sema, lock, depth>>
    BY <1>1, <2>0, Zenon DEF AcquireTest, Goto
  <2>2. LockTypes'
    BY <1>0, <2>1, <1>1 DEF LockTypes, WorkerPc, Workers
  <2>3. LockConsistent'
    BY <1>0, <2>1, <1>1 DEF LockTypes, LockConsistent, Owners, Workers
  <2> QED BY <2>2, <2>3, Zenon
<1>2. CASE ReleaseTest(t)
  <2>0. ~(lock.repeat > 1)
    BY <1>0 DEF LockTypes
  <2>1. /\ pc' = [pc EXCEPT ![t] = "clear"] /\ UNCHANGED <<sema, lock, depth>>
        /\ pc[t] = "run" /\ depth[t] = 1
    <3>1. depth[t] \in 0..1
      BY <1>0 DEF LockTypes
    <3>2. /\ pc' = [pc EXCEPT ![t] = IF lock.repeat > 1 THEN "drop" ELSE "clear"]
          /\ UNCHANGED <<sema, lock, depth>> /\ pc[t] = "run" /\ depth[t] > 0
      BY <1>2, Zenon DEF ReleaseTest, Goto, At
    <3>3. (IF lock.repeat > 1 THEN "drop" ELSE "clear") = "clear"
      BY <2>0, Zenon
    <3>4. depth[t] = 1
      BY <3>1, <3>2
    <3> QED BY <3>2, <3>3, <3>4, Zenon
  <2>2. LockTypes'
    BY <1>0, <2>1 DEF LockTypes, WorkerPc, Workers
  <2>3. LockConsistent'
    BY <1>0, <2>1 DEF LockTypes, LockConsistent, Owners, Workers
  <2> QED BY <2>2, <2>3
<1>3. CASE sema_down_wait(t)
  <2>1. /\ pc' = [pc EXCEPT ![t] = "wait"] /\ UNCHANGED <<lock, depth>>
        /\ pc[t] \in {"down", "wait"}
        /\ sema'.value = sema.value
        /\ sema' = [value |-> sema'.value, waiters |-> sema'.waiters]
    BY <1>0, <1>3, Zenon DEF sema_down_wait, Goto, At, LockTypes
  <2>2. LockTypes'
    BY <1>0, <2>1 DEF LockTypes, WorkerPc, Workers
  <2>3. LockConsistent'
    BY <1>0, <2>1 DEF LockTypes, LockConsistent, Owners, Workers
  <2> QED BY <2>2, <2>3
<1>4. CASE sema_down_take(t)
  <2>1. /\ pc' = [pc EXCEPT ![t] = "own"] /\ UNCHANGED lock
        /\ depth' = [depth EXCEPT ![t] = 1]
        /\ pc[t] \in {"down", "wait"}
        /\ sema.value = 1 /\ sema'.value = 0
        /\ sema' = [value |-> sema'.value, waiters |-> sema'.waiters]
    BY <1>0, <1>4 DEF sema_down_take, Goto, At, LockTypes
  <2>2. LockTypes'
    BY <1>0, <2>1 DEF LockTypes, WorkerPc, Workers
  <2>3. Owners = {} /\ Owners' = {t}
    BY <1>0, <2>1 DEF LockTypes, LockConsistent, Owners, Workers
  <2>4. LockConsistent'
    BY <1>0, <2>1, <2>3 DEF LockTypes, LockConsistent, Workers
  <2> QED BY <2>2, <2>4
<1>5. CASE SetHolder(t)
  <2>1. /\ pc' = [pc EXCEPT ![t] = "count"] /\ UNCHANGED <<sema, depth>>
        /\ lock' = [lock EXCEPT !.holder = t]
        /\ pc[t] = "own"
    BY <1>5, Zenon DEF SetHolder, Goto, At
  <2>2. LockTypes'
    BY <1>0, <2>1 DEF LockTypes, WorkerPc, Workers
  <2>3. LockConsistent'
    BY <1>0, <2>1 DEF LockTypes, LockConsistent, Owners, Workers
  <2> QED BY <2>2, <2>3
<1>6. CASE SetCount(t)
  <2>1. /\ pc' = [pc EXCEPT ![t] = "run"] /\ UNCHANGED <<sema, depth>>
        /\ lock' = [lock EXCEPT !.repeat = 1]
        /\ pc[t] = "count"
    BY <1>6, Zenon DEF SetCount, Goto, At
  <2>2. LockTypes'
    BY <1>0, <2>1 DEF LockTypes, WorkerPc, Workers
  <2>3. LockConsistent'
    BY <1>0, <2>1 DEF LockTypes, LockConsistent, Owners, Workers
  <2> QED BY <2>2, <2>3
<1>7. CASE ClearHolder(t)
  <2>1. /\ pc' = [pc EXCEPT ![t] = "zero"] /\ UNCHANGED <<sema, depth>>
        /\ lock' = [lock EXCEPT !.holder = NoThread]
        /\ pc[t] = "clear"
    BY <1>7, Zenon DEF ClearHolder, Goto, At
  <2>2. LockTypes'
    BY <1>0, <2>1 DEF LockTypes, WorkerPc, Workers
  <2>3. LockConsistent'
    BY <1>0, <2>1 DEF LockTypes, LockConsistent, Owners, Workers
  <2> QED BY <2>2, <2>3
<1>8. CASE ClearCount(t)
  <2>1. /\ pc' = [pc EXCEPT ![t] = "up"] /\ UNCHANGED <<sema, depth>>
        /\ lock' = [lock EXCEPT !.repeat = 0]
        /\ pc[t] = "zero"
    BY <1>8, Zenon DEF ClearCount, Goto, At
  <2>2. LockTypes'
    BY <1>0, <2>1 DEF LockTypes, WorkerPc, Workers
  <2>3. LockConsistent'
    BY <1>0, <2>1 DEF LockTypes, LockConsistent, Owners, Workers
  <2> QED BY <2>2, <2>3
<1>9. CASE sema_up(t)
  <2>0. /\ pc' = [pc EXCEPT ![t] = "run"] /\ UNCHANGED lock
        /\ depth' = [depth EXCEPT ![t] = 0]
        /\ pc[t] = "up"
    BY <1>9, Zenon DEF sema_up, Goto, At
  <2>1. Owners = {t} /\ sema.value = 0 /\ Owners' = {}
    BY <1>0, <2>0 DEF LockTypes, LockConsistent, Owners, Workers
  <2>2. sema'.value = 1 /\ sema' = [value |-> sema'.value, waiters |-> sema'.waiters]
    BY <1>0, <1>9, <2>1 DEF sema_up, LockTypes
  <2>3. LockTypes'
    BY <1>0, <2>0, <2>2 DEF LockTypes, WorkerPc, Workers
  <2>4. LockConsistent'
    BY <1>0, <2>0, <2>1, <2>2 DEF LockTypes, LockConsistent, Workers
  <2> QED BY <2>3, <2>4
<1>10. CASE Awake(t)
  <2>1. /\ pc' = [pc EXCEPT ![t] = "run"] /\ UNCHANGED <<sema, lock, depth>>
        /\ pc[t] = "sleep"
    BY <1>10, Zenon DEF Awake, Goto, At
  <2>2. LockTypes'
    BY <1>0, <2>1 DEF LockTypes, WorkerPc, Workers
  <2>3. LockConsistent'
    BY <1>0, <2>1 DEF LockTypes, LockConsistent, Owners, Workers
  <2> QED BY <2>2, <2>3
<1>11. ~Again(t) /\ ~Drop(t)
  BY <1>0, Zenon DEF Again, Drop, At, LockTypes
<1> QED
  BY <1>1, <1>2, <1>3, <1>4, <1>5, <1>6, <1>7, <1>8, <1>9, <1>10, <1>11, Zenon DEF PidLock, Continue

(* The steps of thread_start that move no thread in the lock.              *)
LEMMA StillLemma ==
    ASSUME PInv, UNCHANGED <<sema, lock, depth>>,
           pc' = pc \/ pc' = [pc EXCEPT ![Idle] = "block"]
                    \/ pc' = [pc EXCEPT ![Idle] = "sti"]
                    \/ pc' = [pc EXCEPT ![Idle] = "hlt"]
    PROVE  LockTypes' /\ LockConsistent'
BY SchedAssumption DEF PInv, LockTypes, LockConsistent, Owners, Workers, WorkerPc, IdlePc

(* A step that leaves thread_start alone, in the lock or elsewhere.        *)
LEMMA StayLemma ==
    ASSUME PInv, UNCHANGED startVars, LockTypes', LockConsistent',
           \A t \in Workers : stage[t] = "inc" => pc'[t] = pc[t] /\ depth'[t] = depth[t]
    PROVE  PInv'
<1>1. PidTypes' /\ Fresh' /\ PidsUnique'
  BY Zenon DEF PInv, PidTypes, Fresh, PidsUnique, startVars
<1>2. Incrementing'
  BY Zenon DEF PInv, Incrementing, startVars
<1> QED BY <1>1, <1>2, Zenon DEF PInv

(* One lemma for each step of thread_start that changes the pids.          *)
LEMMA LoadLemma ==
    ASSUME PInv, NEW t \in Workers, LoadPid(t)
    PROVE  PInv'
<1>1. LockTypes' /\ LockConsistent'
  BY StillLemma, Zenon DEF LoadPid, vars
<1>2. /\ stage' = [stage EXCEPT ![t] = "inc"] /\ loaded' = [loaded EXCEPT ![t] = next_pid]
      /\ UNCHANGED <<pc, depth, new, next_pid, overlap, pid>>
      /\ pc[t] = "run" /\ depth[t] = 1 /\ stage[t] = "pid"
  BY Zenon DEF LoadPid, AtStage, At, Advance, vars
<1>3. PidTypes'
  BY <1>2, Zenon DEF PInv, PidTypes, Stages
<1>4. Incrementing'
  BY <1>2, Zenon DEF PInv, PidTypes, Incrementing
<1>5. Fresh' /\ PidsUnique'
  BY <1>2, Zenon DEF PInv, PidTypes, Fresh, PidsUnique
<1> QED BY <1>1, <1>3, <1>4, <1>5, Zenon DEF PInv

LEMMA StoreLemma ==
    ASSUME PInv, NEW t \in Workers, StorePid(t)
    PROVE  PInv'
<1>1. LockTypes' /\ LockConsistent'
  BY StillLemma, Zenon DEF StorePid, vars
<1>2. /\ stage' = [stage EXCEPT ![t] = "unlock"] /\ loaded' = [loaded EXCEPT ![t] = 0]
      /\ overlap' = (overlap \/ \E u \in Workers : stage[u] = "unlock")
      /\ UNCHANGED <<pc, depth, new, pid>>
      /\ stage[t] = "inc" /\ next_pid' = loaded[t] + 1
  BY Zenon DEF StorePid, AtStage, Advance, vars
<1>3. next_pid' = next_pid + 1 /\ depth[t] = 1
  BY <1>2, Zenon DEF PInv, Incrementing
<1>4. PidTypes'
  <2>1. overlap' \in BOOLEAN
    BY <1>2, Zenon
  <2>2. \A u \in Threads : pid'[u] <= next_pid'
    BY <1>2, <1>3 DEF PInv, PidTypes
  <2> QED BY <1>2, <1>3, <2>1, <2>2 DEF PInv, PidTypes, Stages
<1>5. Incrementing'
  <2>1. \A u \in Workers : stage[u] = "inc" => u = t
    BY <1>3 DEF PInv, Incrementing, LockConsistent, Owners
  <2>2. \A u \in Workers : stage'[u] # "inc"
    BY <1>2, <2>1, Zenon DEF PInv, PidTypes
  <2> QED BY <2>2, Zenon DEF Incrementing
<1>6. Fresh'
  <2>1. ~overlap' => ~overlap /\ \A u \in Workers : stage[u] # "unlock"
    BY <1>2, Zenon
  <2>2. \A u \in Threads : pid'[u] # next_pid'
    BY <1>2, <1>3 DEF PInv, PidTypes
  <2> QED BY <1>2, <2>1, <2>2, Zenon DEF Fresh, PInv, PidTypes
<1>7. PidsUnique'
  BY <1>2, Zenon DEF PInv, PidsUnique
<1> QED BY <1>1, <1>4, <1>5, <1>6, <1>7, Zenon DEF PInv

LEMMA ReturnPidLemma ==
    ASSUME PInv, NEW t \in Workers, init_thread(t)
    PROVE  PInv'
<1>1. LockTypes' /\ LockConsistent'
  BY StillLemma, Zenon DEF init_thread
<1>2. /\ stage' = [stage EXCEPT ![t] = "absent"] /\ pid' = [pid EXCEPT ![new[t]] = next_pid]
      /\ UNCHANGED <<pc, depth, new, next_pid, loaded, overlap>>
      /\ stage[t] = "unlock"
  BY Zenon DEF init_thread, AtStage, Advance
<1>3. PidTypes'
  <2>1. pid' \in [Threads -> Nat] /\ \A u \in Threads : pid'[u] \in {pid[u], next_pid}
    BY <1>2, Zenon DEF PInv, PidTypes
  <2>2. \A u \in Threads : pid'[u] <= next_pid'
    BY <1>2, <2>1 DEF PInv, PidTypes
  <2> QED BY <1>2, <2>1, <2>2, Zenon DEF PInv, PidTypes, Stages
<1>4. Incrementing'
  BY <1>2, Zenon DEF PInv, PidTypes, Incrementing
<1>5. Fresh'
  BY <1>2, Zenon DEF PInv, PidTypes, Fresh
<1>6. PidsUnique'
  BY <1>2, Zenon DEF PInv, PidTypes, Fresh, PidsUnique
<1> QED BY <1>1, <1>3, <1>4, <1>5, <1>6 DEF PInv

(* The other steps of thread_start change neither pids nor the lock.       *)
LEMMA StageLemma ==
    ASSUME PInv, NEW t \in Workers,
           UNCHANGED <<sema, lock, pc, depth, next_pid, loaded, overlap, pid>>,
           stage[t] \notin {"inc", "unlock"},
           NEW to \in Stages \ {"inc", "unlock"}, Advance(t, to),
           new' \in [Workers -> Workers \cup {NoThread}]
    PROVE  PInv'
<1>1. LockTypes' /\ LockConsistent'
  BY StillLemma, Zenon
<1>2. PidTypes'
  BY Zenon DEF PInv, PidTypes, Advance
<1>3. Incrementing'
  BY Zenon DEF PInv, PidTypes, Incrementing, Advance
<1>4. Fresh' /\ PidsUnique'
  BY Zenon DEF PInv, PidTypes, Fresh, PidsUnique, Advance
<1> QED BY <1>1, <1>2, <1>3, <1>4, Zenon DEF PInv

-----------------------------------------------------------------------------
LEMMA StartStep == PInv /\ [StartNext]_<<vars, startVars>> => PInv'
<1> SUFFICES ASSUME PInv, [StartNext]_<<vars, startVars>> PROVE PInv'
  BY Zenon
<1>1. CASE UNCHANGED <<vars, startVars>>
  BY <1>1, StillLemma, StayLemma, Zenon DEF vars
<1>2. ASSUME NEW t \in Workers, NEW n \in Workers, thread_start(t, n) PROVE PInv'
  <2>1. new' \in [Workers -> Workers \cup {NoThread}]
    BY <1>2, Zenon DEF thread_start, PInv, PidTypes
  <2> QED BY <1>2, <2>1, StageLemma, Zenon DEF thread_start, AtStage, vars, Stages
<1>3. ASSUME NEW t \in Workers, PidLock(t) PROVE PInv'
  <2>1. pc[t] # "run" \/ stage[t] # "inc"
    BY <1>3, Zenon DEF PidLock, Continue, sema_down_wait, sema_down_take, SetHolder, SetCount, Again,
                Drop, ClearHolder, ClearCount, sema_up, Awake, At
  <2>2. stage[t] # "inc"
    BY <2>1, Zenon DEF PInv, Incrementing
  <2>3. \A u \in Workers : u # t => pc'[u] = pc[u] /\ depth'[u] = depth[u]
    BY <1>3, Zenon DEF PidLock, Continue, AcquireTest, ReleaseTest, sema_down_wait, sema_down_take,
                SetHolder, SetCount, Again, Drop, ClearHolder, ClearCount, sema_up, Awake, Goto,
                PInv, LockTypes, Workers
  <2> QED BY <1>3, <2>2, <2>3, PidLockLemma, StayLemma, Zenon DEF PidLock
<1>4. ASSUME NEW t \in Workers,
             AssertAbsent(t) \/ AppendReady(t) \/ AssertPresent(t) \/ AppendAll(t)
      PROVE  PInv'
  <2>1. new' \in [Workers -> Workers \cup {NoThread}]
    BY <1>4, Zenon DEF AssertAbsent, AppendReady, AssertPresent, AppendAll, PInv, PidTypes
  <2>2. CASE AssertAbsent(t)
    BY <2>1, <2>2, StageLemma, Zenon DEF AssertAbsent, AtStage, Stages
  <2>3. CASE AppendReady(t)
    BY <2>1, <2>3, StageLemma, Zenon DEF AppendReady, AtStage, Stages
  <2>4. CASE AssertPresent(t)
    BY <2>1, <2>4, StageLemma, Zenon DEF AssertPresent, AtStage, Stages
  <2>5. CASE AppendAll(t)
    BY <2>1, <2>5, StageLemma, Zenon DEF AppendAll, AtStage, Stages
  <2> QED BY <1>4, <2>2, <2>3, <2>4, <2>5, Zenon
<1>5. ASSUME IdleBlock \/ IdleHalt \/ Timer, UNCHANGED startVars PROVE PInv'
  <2>0. pc \in [Threads -> WorkerPc \cup IdlePc] /\ Idle \in Threads
    BY SchedAssumption, Zenon DEF PInv, LockTypes
  <2>1. sched.cur \in Workers => pc[sched.cur] # "hlt"
    BY Zenon DEF PInv, LockTypes, WorkerPc
  <2>2. sched.cur \notin Threads => [pc EXCEPT ![sched.cur] = "block"] = pc
    BY <2>0, Zenon
  <2>3. /\ UNCHANGED <<sema, lock, depth>>
        /\ pc' = pc \/ pc' = [pc EXCEPT ![Idle] = "block"] \/ pc' = [pc EXCEPT ![Idle] = "sti"]
              \/ pc' = [pc EXCEPT ![Idle] = "hlt"]
    BY <1>5, <2>1, <2>2, Zenon DEF IdleBlock, IdleHalt, Timer, Interrupt, Goto, Workers
  <2>4. \A t \in Workers : pc'[t] = pc[t] /\ depth'[t] = depth[t]
    BY <2>0, <2>3, Zenon DEF Workers
  <2> QED BY <1>5, <2>3, <2>4, StillLemma, StayLemma, Zenon
<1> QED BY <1>1, <1>2, <1>3, <1>4, <1>5, LoadLemma, StoreLemma, ReturnPidLemma, Zenon DEF StartNext

LEMMA StartInitLemma == StartInit => PInv
<1> SUFFICES ASSUME StartInit PROVE PInv
  BY Zenon
<1>1. LockTypes
  BY SchedAssumption, SyncAssumption DEF StartInit, Init, LockTypes, Workers, WorkerPc, IdlePc
<1>2. LockConsistent
  BY SyncAssumption DEF StartInit, Init, LockConsistent, Owners, Workers
<1>3. PidTypes
  <2>1. pid \in [Threads -> Nat] /\ \A t \in Threads : pid[t] <= next_pid
    BY DEF StartInit
  <2> QED BY <2>1, Zenon DEF StartInit, PidTypes, Stages
<1>4. Incrementing /\ Fresh
  BY Zenon DEF StartInit, Incrementing, Fresh
<1>5. PidsUnique
  BY DEF StartInit, PidsUnique
<1> QED BY <1>1, <1>2, <1>3, <1>4, <1>5, Zenon DEF PInv

(* allocate_pid gives no pid twice unless two creators have been between   *)
(* next_pid++ and the return at the same time, for any number of threads   *)
(* and creators and whatever the scheduler does.                           *)
THEOREM PidsAreUnique == StartSpec => []PidsUnique
<1>1. PInv => PidsUnique
  BY Zenon DEF PInv
<1> QED BY <1>1, StartInitLemma, StartStep, PTL DEF StartSpec

-----------------------------------------------------------------------------
(* The lists.  A PCB that thread_start has filled and not appended yet is  *)
(* READY and in no list: SchedConsistent is false of the scheduler, and    *)
(* true of what it shows of the visible threads.  No operation of the      *)
(* scheduler tells the difference (the Seen lemmas above).                 *)
Hidden == Creating({"absent", "append"})
Known == {t \in Threads : sched.status[t] # "NONE"}
Visible == Known \ Hidden
Shown == Seen(sched, Visible)

(* The lists of the scheduler and of the semaphore, of the threads shown.  *)
ViewInv ==
    /\ SchedConsistent(Shown)
    /\ Shown.status[Idle] # "NONE"
    /\ sema.waiters \in Seq(Workers)
    /\ NoDuplicates(sema.waiters)
    /\ \A t \in Workers :
        elem_find(sema.waiters, t) <=> pc[t] = "wait" /\ Shown.status[t] = "BLOCKED"

(* How far a PCB is that a creator is working on.                          *)
Creators ==
    \A t \in Workers :
        /\ stage[t] = "none" <=> new[t] = NoThread
        /\ stage[t] # "none" => t \in Visible /\ new[t] # t
        /\ stage[t] \in {"pid", "inc", "unlock"} => sched.status[new[t]] = "NONE"
        /\ stage[t] \in {"absent", "append"} => sched.status[new[t]] = "READY"
        /\ stage[t] \in {"locate", "all"} => sched.status[new[t]] # "NONE"
        /\ \A u \in Workers : new[t] = new[u] /\ new[t] # NoThread => t = u

Passed == Known \cup Creating({"unlock"})

Counted == IsFiniteSet(Passed) /\ PidsCounted

TInv ==
    /\ PInv /\ sched \in SchedState /\ all \in Seq(Threads)
    /\ ViewInv /\ RepeatCounts
    /\ Creators
    /\ AllListed
    /\ PanicOnlyByLocate

-----------------------------------------------------------------------------
(* Who runs or is queued is visible.                                       *)
LEMMA VisibleLemma ==
    ASSUME sched \in SchedState, ViewInv
    PROVE  /\ Visible \in SUBSET Threads /\ Idle \in Visible
           /\ Within(sched, Visible)
           /\ \A t \in Threads : sched.status[t] = "RUNNING" /\ t \in Visible <=> t = sched.cur
           /\ \A t \in Threads : sched.status[t] = "READY" /\ t \in Visible <=> elem_find(sched.ready, t)
           /\ NoDuplicates(sched.ready)
           /\ \A t \in Workers : elem_find(sema.waiters, t) => t \in Visible
<1> DEFINE v == Shown
<1>1. Visible \in SUBSET Threads /\ Idle \in Threads
  BY SchedAssumption, Zenon DEF Visible, Known
<1>2. /\ v.cur = sched.cur /\ v.ready = sched.ready
      /\ \A t \in Threads : v.status[t] = IF t \in Visible THEN sched.status[t] ELSE "NONE"
  BY <1>1, SeenLemma DEF Shown
<1>3. SchedConsistent(v) /\ v.status[Idle] # "NONE"
  BY Zenon DEF ViewInv
<1>4. \A t \in Workers : elem_find(sema.waiters, t) => v.status[t] = "BLOCKED"
  BY Zenon DEF ViewInv
<1> HIDE DEF v
<1>5. /\ \A t \in Threads : v.status[t] = "RUNNING" <=> t = v.cur
      /\ \A t \in Threads : v.status[t] = "READY" <=> elem_find(v.ready, t)
      /\ NoDuplicates(v.ready)
  BY <1>3, Zenon DEF SchedConsistent
<1>6. Idle \in Visible
  BY <1>1, <1>2, <1>3, Zenon
<1>7. \A t \in Threads : sched.status[t] = "RUNNING" /\ t \in Visible <=> t = sched.cur
  BY <1>2, <1>5, Zenon
<1>8. \A t \in Threads : sched.status[t] = "READY" /\ t \in Visible <=> elem_find(sched.ready, t)
  BY <1>2, <1>5, Zenon
<1>9. Within(sched, Visible)
  <2>1. sched.cur \in Visible /\ sched.ready \in Seq(Threads)
    BY <1>7, Zenon DEF SchedState
  <2>2. \A i \in 1..Len(sched.ready) : sched.ready[i] \in Visible
    BY <1>8, <2>1 DEF elem_find
  <2>3. sched.ready \in Seq(Visible)
    BY <2>1, <2>2
  <2> QED BY <2>1, <2>3, Zenon DEF Within
<1>10. ASSUME NEW t \in Workers, elem_find(sema.waiters, t) PROVE t \in Visible
  <2>1. v.status[t] = "BLOCKED" /\ t \in Threads
    BY <1>4, <1>10, Zenon DEF Workers
  <2> QED BY <1>2, <2>1, Zenon
<1> QED BY <1>1, <1>2, <1>5, <1>6, <1>7, <1>8, <1>9, <1>10, Zenon

(* An operation of the scheduler keeps the hidden threads hidden.          *)
LEMMA ViewMoves ==
    ASSUME sched \in SchedState, sched' \in SchedState, Apart(sched, sched', Visible),
           UNCHANGED <<stage, new>>
    PROVE  Known' = Known /\ Visible' = Visible /\ Shown' = Seen(sched', Visible)
<1>1. Hidden' = Hidden
  BY Zenon DEF Hidden, Creating
<1>2. Known' = Known
  BY Zenon DEF Known, Apart, Visible
<1>3. Visible' = Visible
  BY <1>1, <1>2, Zenon DEF Visible
<1> QED BY <1>2, <1>3, Zenon DEF Shown

(* What the steps of sync.c, of idle and of the timer do to what is shown. *)
Moves == Apart(sched, sched', Visible) /\ sched' \in SchedState

LEMMA QuietShown ==
    ASSUME sched \in SchedState, sched' = sched, UNCHANGED <<stage, new>>
    PROVE  Moves /\ Shown' = Shown
<1>1. Apart(sched, sched', Visible)
  BY Zenon DEF Apart
<1> QED BY <1>1, ViewMoves, Zenon DEF Moves, Shown

LEMMA BlockShown ==
    ASSUME sched \in SchedState, ViewInv, sched' = thread_block(sched), UNCHANGED <<stage, new>>
    PROVE  Moves /\ Shown' = thread_block(Shown)
<1>0. Visible \in SUBSET Threads /\ Idle \in Visible /\ Within(sched, Visible)
  BY VisibleLemma, Zenon
<1>1. /\ Seen(sched', Visible) = thread_block(Shown) /\ Apart(sched, sched', Visible)
      /\ Within(sched', Visible)
  BY <1>0, SeenBlock, BlockWithin, Zenon DEF Shown
<1>2. Moves
  BY <1>1, Zenon DEF Moves, Within
<1> QED BY <1>1, <1>2, ViewMoves, Zenon DEF Moves

LEMMA TimerShown ==
    ASSUME sched \in SchedState, ViewInv, sched' = intr_timer_handler(sched), UNCHANGED <<stage, new>>
    PROVE  Moves /\ Shown' = intr_timer_handler(Shown)
<1>0. Visible \in SUBSET Threads /\ Idle \in Visible /\ Within(sched, Visible)
  BY VisibleLemma
<1>1. /\ Seen(sched', Visible) = intr_timer_handler(Shown) /\ Apart(sched, sched', Visible)
      /\ Within(sched', Visible)
  BY <1>0, SeenTimer, TimerWithin, Zenon DEF Shown
<1>2. Moves
  BY <1>1 DEF Moves, Within
<1> QED BY <1>1, <1>2, ViewMoves DEF Moves

LEMMA WakeShown ==
    ASSUME sched \in SchedState, ViewInv, NEW t \in Visible, sched' = thread_unblock(sched, t),
           UNCHANGED <<stage, new>>
    PROVE  Moves /\ Shown' = thread_unblock(Shown, t)
<1>0. Visible \in SUBSET Threads /\ Within(sched, Visible)
  BY VisibleLemma, Zenon
<1>1. /\ Seen(sched', Visible) = thread_unblock(Shown, t) /\ Apart(sched, sched', Visible)
      /\ Within(sched', Visible)
  BY <1>0, SeenUnblock, UnblockWithin, Zenon DEF Shown
<1>2. Moves
  BY <1>1, Zenon DEF Moves, Within
<1> QED BY <1>1, <1>2, ViewMoves, Zenon DEF Moves

(* When such a step keeps the lists and no ASSERT in it fails, it keeps    *)
(* the rest.                                                               *)
LEMMA SyncKeeps ==
    ASSUME TInv, Moves, UNCHANGED startVars, PInv', ViewInv', RepeatCounts', ~sched'.panic
    PROVE  TInv'
<1>0. sched \in SchedState /\ sched' \in SchedState /\ Visible \in SUBSET Threads
  BY Zenon DEF TInv, Moves, Visible, Known
<1>1. Known' = Known /\ Visible' = Visible /\ UNCHANGED <<stage, new, all>>
  BY <1>0, ViewMoves, Zenon DEF Moves, startVars
<1>5. PanicOnlyByLocate'
  BY Zenon DEF PanicOnlyByLocate
<1>6. AllListed'
  <2>1. Creating(Stages \ {"none"})' = Creating(Stages \ {"none"})
    BY <1>1, Zenon DEF Creating
  <2>2. \A t \in Threads : sched.status[t] # "NONE" <=> sched'.status[t] # "NONE"
    BY <1>1, Zenon DEF Known
  <2> QED BY <1>1, <2>1, <2>2, Zenon DEF TInv, AllListed
<1>7. Creators'
  <2> SUFFICES ASSUME NEW t \in Workers
      PROVE  /\ stage[t] \in {"pid", "inc", "unlock"} => sched'.status[new[t]] = "NONE"
             /\ stage[t] \in {"absent", "append"} => sched'.status[new[t]] = "READY"
             /\ stage[t] \in {"locate", "all"} => sched'.status[new[t]] # "NONE"
    BY <1>1 DEF TInv, Creators
  <2>1. CASE stage[t] \in {"pid", "inc", "unlock", "absent", "append"}
    <3>1. new[t] \in Threads /\ new[t] \notin Visible
      <4>1. new[t] \in Threads
        BY <2>1 DEF TInv, Creators, PInv, PidTypes, Workers
      <4>2. CASE stage[t] \in {"pid", "inc", "unlock"}
        BY <4>1, <4>2, Zenon DEF TInv, Creators, Visible, Known
      <4>3. CASE stage[t] \in {"absent", "append"}
        BY <4>1, <4>3, Zenon DEF Visible, Hidden, Creating
      <4> QED BY <2>1, <4>1, <4>2, <4>3, Zenon
    <3>2. sched'.status[new[t]] = sched.status[new[t]]
      BY <3>1, Zenon DEF Moves, Apart
    <3> QED BY <2>1, <3>2, Zenon DEF TInv, Creators
  <2>2. CASE stage[t] \in {"locate", "all"}
    <3>1. new[t] \in Threads /\ sched.status[new[t]] # "NONE"
      BY <2>2 DEF TInv, Creators, PInv, PidTypes, Workers
    <3> QED BY <2>2, <3>1, Zenon DEF Moves, Apart
  <2> QED BY <2>1, <2>2, Zenon
<1> QED BY <1>0, <1>1, <1>5, <1>6, <1>7, Zenon DEF TInv

(* A step of thread_start that changes nothing of the view but the slices. *)
LEMMA ViewKept ==
    ASSUME ViewInv, UNCHANGED <<sema, pc>>, sched \in SchedState, sched' \in SchedState,
           sched'.cur = sched.cur, sched'.ready = sched.ready, Visible' = Visible,
           \A t \in Visible : sched'.status[t] = sched.status[t]
    PROVE  ViewInv'
<1> DEFINE v == Shown
           w == Seen(sched', Visible)
<1>0. Visible \in SUBSET Threads
  BY Zenon DEF Visible, Known
<1>1. /\ v \in SchedState /\ w \in SchedState /\ w.cur = v.cur /\ w.ready = v.ready
      /\ \A t \in Threads : v.status[t] = IF t \in Visible THEN sched.status[t] ELSE "NONE"
      /\ \A t \in Threads : w.status[t] = IF t \in Visible THEN sched'.status[t] ELSE "NONE"
  BY <1>0, SeenLemma DEF Shown
<1>2. Shown' = w /\ Shown = v
  BY Zenon DEF Shown
<1> HIDE DEF v, w
<1>3. w.status = v.status
  BY <1>1 DEF SchedState
<1> QED BY <1>1, <1>2, <1>3 DEF ViewInv, SchedConsistent

(* The creator is a running thread that is not being created itself.       *)
LEMMA CreatorLemma ==
    ASSUME TInv, NEW t \in Workers, NEW at, AtStage(t, at)
    PROVE  /\ sched.cur = t /\ ~sched.panic /\ stage[t] = at /\ t \in Threads /\ t \in Visible
           /\ sched.status[t] = "RUNNING"
           /\ stage \in [Workers -> Stages] /\ new \in [Workers -> Workers \cup {NoThread}]
           /\ NoThread \notin Threads /\ Visible \in SUBSET Threads
           /\ at # "none" => new[t] \in Workers /\ new[t] \in Threads /\ new[t] # t /\ new[t] # Idle
<1>1. sched.cur = t /\ ~sched.panic /\ stage[t] = at /\ t \in Threads
  BY Zenon DEF AtStage, At, Workers
<1>2. t \in Visible /\ sched.status[t] = "RUNNING" /\ Visible \in SUBSET Threads
  BY <1>1, VisibleLemma, Zenon DEF TInv
<1> QED BY <1>1, <1>2, SyncAssumption DEF TInv, PInv, PidTypes, Creators, Workers

(* A step from one stage to the next that hides or shows nobody.           *)
LEMMA GroupStep ==
    ASSUME TInv, NEW t \in Workers, NEW a, NEW b, AtStage(t, a), Advance(t, b), PInv',
           \/ a \in {"pid", "inc", "unlock"} /\ b \in {"pid", "inc", "unlock"}
           \/ a \in {"absent", "append"} /\ b \in {"absent", "append"}
           \/ a \in {"locate", "all"} /\ b \in {"locate", "all"},
           UNCHANGED <<sema, lock, pc, depth, new, all>>,
           sched' \in SchedState, sched'.cur = sched.cur, sched'.ready = sched.ready,
           sched'.status = sched.status, PanicOnlyByLocate'
    PROVE  TInv'
<1>0. /\ stage[t] = a /\ stage \in [Workers -> Stages] /\ sched \in SchedState /\ ViewInv
  BY CreatorLemma, Zenon DEF TInv
<1>1. /\ stage'[t] = b /\ \A u \in Workers : u # t => stage'[u] = stage[u]
      /\ b \in Stages
  BY <1>0, Zenon DEF Advance, Stages
<1>2. Hidden' = Hidden
  BY <1>0, <1>1, Zenon DEF Hidden, Creating
<1>3. Visible' = Visible
  BY <1>2, Zenon DEF Visible, Known
<1>4. ViewInv'
  BY <1>0, <1>3, ViewKept, Zenon
<1>5. Creators'
  BY <1>0, <1>1, <1>3, SMTT(30) DEF TInv, Creators
<1>6. AllListed'
  <2>1. Creating(Stages \ {"none"})' = Creating(Stages \ {"none"})
    BY <1>0, <1>1 DEF Creating, Stages
  <2> QED BY <2>1, Zenon DEF TInv, AllListed
<1>7. RepeatCounts'
  BY Zenon DEF TInv, RepeatCounts, Owners
<1> QED BY <1>4, <1>5, <1>6, <1>7, Zenon DEF TInv

(* thread_start takes a PCB nobody knows of.                               *)
LEMMA StartPcb ==
    ASSUME TInv, NEW t \in Workers, NEW n \in Workers, thread_start(t, n), PInv'
    PROVE  TInv'
<1>0. /\ stage[t] = "none" /\ sched.status[t] = "RUNNING" /\ t \in Visible /\ ~sched.panic
      /\ stage \in [Workers -> Stages] /\ new \in [Workers -> Workers \cup {NoThread}]
      /\ sched \in SchedState /\ ViewInv /\ n # NoThread
  BY CreatorLemma, SyncAssumption, Zenon DEF thread_start, TInv, Workers
<1>1. /\ sched' = sched /\ UNCHANGED <<sema, lock, pc, depth, all>>
      /\ sched.status[n] = "NONE" /\ \A u \in Workers : new[u] # n
      /\ stage' = [stage EXCEPT ![t] = "pid"] /\ new' = [new EXCEPT ![t] = n]
  BY Zenon DEF thread_start, vars, Advance
<1>2. /\ stage'[t] = "pid" /\ new'[t] = n
      /\ \A u \in Workers : u # t => stage'[u] = stage[u] /\ new'[u] = new[u]
  BY <1>0, <1>1, Zenon
<1>3. Hidden' = Hidden
  BY <1>0, <1>2 DEF Hidden, Creating
<1>4. Visible' = Visible
  BY <1>1, <1>3, Zenon DEF Visible, Known
<1>5. ViewInv'
  BY <1>0, <1>1, <1>4, ViewKept, Zenon
<1>6. Creators'
  <2> SUFFICES ASSUME NEW u \in Workers PROVE
        /\ stage'[u] = "none" <=> new'[u] = NoThread
        /\ stage'[u] # "none" => u \in Visible /\ new'[u] # u
        /\ stage'[u] \in {"pid", "inc", "unlock"} => sched.status[new'[u]] = "NONE"
        /\ stage'[u] \in {"absent", "append"} => sched.status[new'[u]] = "READY"
        /\ stage'[u] \in {"locate", "all"} => sched.status[new'[u]] # "NONE"
        /\ \A x \in Workers : new'[u] = new'[x] /\ new'[u] # NoThread => u = x
    BY <1>1, <1>4, Zenon DEF Creators
  <2>1. CASE u = t
    BY <1>0, <1>1, <1>2, <2>1, Zenon
  <2>2. CASE u # t
    BY <1>0, <1>1, <1>2, <2>2, SMTT(30) DEF TInv, Creators
  <2> QED BY <2>1, <2>2, Zenon
<1>7. AllListed'
  <2>1. ASSUME NEW x PROVE x \in Creating(Stages \ {"none"})' <=> x \in Creating(Stages \ {"none"}) \/ x = n
    BY <1>0, <1>2 DEF Creating, Stages
  <2> QED BY <1>1, <2>1, Zenon DEF TInv, AllListed
<1>8. PanicOnlyByLocate'
  BY <1>0, <1>1, Zenon DEF PanicOnlyByLocate
<1>9. RepeatCounts'
  BY <1>1, Zenon DEF TInv, RepeatCounts, Owners
<1> QED BY <1>0, <1>1, <1>5, <1>6, <1>7, <1>8, <1>9, Zenon DEF TInv

(* init_thread marks the PCB READY, and nobody sees it.                    *)
LEMMA FillPcb ==
    ASSUME TInv, NEW t \in Workers, init_thread(t), PInv'
    PROVE  TInv'
<1> DEFINE n == new[t]
<1>0. /\ stage[t] = "unlock" /\ t \in Visible /\ ~sched.panic /\ n \in Workers /\ n \in Threads
      /\ stage \in [Workers -> Stages] /\ Visible \in SUBSET Threads
      /\ sched \in SchedState /\ ViewInv /\ n # NoThread
  BY CreatorLemma, SyncAssumption, Zenon DEF init_thread, TInv, Workers
<1>1. /\ UNCHANGED <<sema, lock, pc, depth, all, new>>
      /\ stage' = [stage EXCEPT ![t] = "absent"]
      /\ sched' = [sched EXCEPT !.status[n] = "READY", !.ticks[n] = Priority[n]]
  BY Zenon DEF init_thread, Advance
<1>2. sched.status[n] = "NONE" /\ \A u \in Workers : new[u] = n => u = t
  BY <1>0, Zenon DEF TInv, Creators
<1>3. stage'[t] = "absent" /\ \A u \in Workers : u # t => stage'[u] = stage[u]
  BY <1>0, <1>1, Zenon
<1> HIDE DEF n
<1>4. /\ sched' \in SchedState /\ sched'.cur = sched.cur /\ sched'.ready = sched.ready
      /\ sched'.panic = sched.panic /\ sched'.status = [sched.status EXCEPT ![n] = "READY"]
  <2>1. Priority[n] \in 0..255
    BY <1>0, SchedAssumption
  <2> QED BY <1>0, <1>1, <2>1, Zenon DEF SchedState, Status
<1>5. \A x \in Threads : sched'.status[x] = IF x = n THEN "READY" ELSE sched.status[x]
  BY <1>0, <1>4 DEF SchedState
<1>6. Hidden' = Hidden \cup {n}
  BY <1>0, <1>1, <1>3 DEF Hidden, Creating, n
<1>7. Known' = Known \cup {n} /\ n \notin Known
  BY <1>0, <1>2, <1>5, Zenon DEF Known
<1>8. Visible' = Visible /\ n \notin Visible
  BY <1>6, <1>7, Zenon DEF Visible
<1>9. ViewInv'
  BY <1>0, <1>1, <1>4, <1>5, <1>8, ViewKept, Zenon
<1>10. Creators'
  <2> SUFFICES ASSUME NEW u \in Workers PROVE
        /\ stage'[u] = "none" <=> new[u] = NoThread
        /\ stage'[u] # "none" => u \in Visible /\ new[u] # u
        /\ stage'[u] \in {"pid", "inc", "unlock"} => sched'.status[new[u]] = "NONE"
        /\ stage'[u] \in {"absent", "append"} => sched'.status[new[u]] = "READY"
        /\ stage'[u] \in {"locate", "all"} => sched'.status[new[u]] # "NONE"
        /\ \A x \in Workers : new[u] = new[x] /\ new[u] # NoThread => u = x
    BY <1>1, <1>8 DEF Creators
  <2>1. CASE u = t
    BY <1>0, <1>2, <1>3, <1>5, <2>1, Zenon DEF TInv, Creators, n
  <2>2. CASE u # t
    <3>1. new[u] # n /\ (new[u] # NoThread => new[u] \in Threads)
      BY <1>2, <2>2, Zenon DEF TInv, PInv, PidTypes, Workers
    <3>2. new[u] # NoThread => sched'.status[new[u]] = sched.status[new[u]]
      BY <1>5, <3>1, Zenon
    <3> QED BY <1>3, <2>2, <3>2, SMTT(30) DEF TInv, Creators
  <2> QED BY <2>1, <2>2, Zenon
<1>11. AllListed'
  <2>1. Creating(Stages \ {"none"})' = Creating(Stages \ {"none"})
    BY <1>0, <1>1, <1>3 DEF Creating, Stages
  <2>2. n \in Creating(Stages \ {"none"})
    BY <1>0, Zenon DEF Creating, Stages, n
  <2>3. \A x \in Threads : x # n => sched'.status[x] = sched.status[x]
    BY <1>5, Zenon
  <2> QED BY <1>1, <2>1, <2>2, <2>3, Zenon DEF TInv, AllListed
<1>12. PanicOnlyByLocate'
  BY <1>0, <1>4, Zenon DEF PanicOnlyByLocate
<1>13. RepeatCounts'
  BY <1>1, Zenon DEF TInv, RepeatCounts, Owners
<1> QED BY <1>1, <1>4, <1>9, <1>10, <1>11, <1>12, <1>13, Zenon DEF TInv

(* AppendReady shows the PCB to the scheduler.                             *)
LEMMA ShowPcb ==
    ASSUME TInv, NEW t \in Workers, AppendReady(t), PInv'
    PROVE  TInv'
<1> DEFINE n == new[t]
           v == Shown
           w == Seen(sched', Visible \cup {n})
           l == list_append(sched.ready, n)
<1>0. /\ stage[t] = "append" /\ t \in Visible /\ ~sched.panic /\ n \in Workers /\ n \in Threads /\ n # Idle
      /\ stage \in [Workers -> Stages] /\ Visible \in SUBSET Threads
      /\ sched \in SchedState /\ ViewInv /\ n # NoThread
  BY CreatorLemma, SyncAssumption, Zenon DEF AppendReady, TInv, Workers
<1>1. /\ UNCHANGED <<sema, lock, pc, depth, all, new>>
      /\ stage' = [stage EXCEPT ![t] = "locate"]
      /\ sched' = [sched EXCEPT !.ready = l]
  BY Zenon DEF AppendReady, Advance
<1>2. sched.status[n] = "READY" /\ \A u \in Workers : new[u] = n => u = t
  BY <1>0, Zenon DEF TInv, Creators
<1>3. stage'[t] = "locate" /\ \A u \in Workers : u # t => stage'[u] = stage[u]
  BY <1>0, <1>1, Zenon
<1>4. n \in Hidden
  BY <1>0, Zenon DEF Hidden, Creating
<1>5. Hidden' = Hidden \ {n}
  BY <1>0, <1>1, <1>2, <1>3 DEF Hidden, Creating
<1>6. Known' = Known /\ n \in Known
  BY <1>0, <1>1, <1>2, Zenon DEF Known, SchedState
<1>7. Visible' = Visible \cup {n} /\ n \notin Visible
  BY <1>4, <1>5, <1>6, Zenon DEF Visible
<1>8. ~elem_find(sched.ready, n) /\ NoDuplicates(sched.ready) /\ sched.ready \in Seq(Threads)
  BY <1>0, <1>7, VisibleLemma, Zenon DEF SchedState
<1> HIDE DEF n
<1>9. l \in Seq(Threads) /\ NoDuplicates(l) /\ \A x : elem_find(l, x) <=> elem_find(sched.ready, x) \/ x = n
  BY <1>0, <1>8, AppendLemma
<1> HIDE DEF l
<1>10. /\ sched' \in SchedState /\ sched'.cur = sched.cur /\ sched'.ready = l
       /\ sched'.panic = sched.panic /\ sched'.status = sched.status
  BY <1>0, <1>1, <1>9, Zenon DEF SchedState
<1>11. /\ v \in SchedState /\ v.cur = sched.cur /\ v.ready = sched.ready
       /\ \A x \in Threads : v.status[x] = IF x \in Visible THEN sched.status[x] ELSE "NONE"
  BY <1>0, SeenLemma DEF Shown
<1>12. /\ w \in SchedState /\ w.cur = sched'.cur /\ w.ready = sched'.ready
       /\ \A x \in Threads : w.status[x] = IF x \in Visible \cup {n} THEN sched'.status[x] ELSE "NONE"
  <2> DEFINE B == Visible \cup {n}
             r == sched'
  <2>1. B \in SUBSET Threads /\ r \in SchedState
    BY <1>0, <1>10, Zenon
  <2> HIDE DEF B, r
  <2>2. /\ Seen(r, B) \in SchedState /\ Seen(r, B).cur = r.cur /\ Seen(r, B).ready = r.ready
        /\ \A x \in Threads : Seen(r, B).status[x] = IF x \in B THEN r.status[x] ELSE "NONE"
    BY <2>1, SeenLemma
  <2> QED BY <2>2, Zenon DEF B, r
<1>13. Shown' = w /\ Shown = v
  BY <1>7, Zenon DEF Shown
<1> HIDE DEF v, w
<1>14. \A x \in Threads : w.status[x] = IF x = n THEN "READY" ELSE v.status[x]
  BY <1>2, <1>10, <1>11, <1>12
<1>15. v.status[n] = "NONE"
  BY <1>0, <1>7, <1>11, Zenon
<1>16. SchedConsistent(w)
  <2>1. /\ \A x \in Threads : v.status[x] = "RUNNING" <=> x = v.cur
        /\ \A x \in Threads : v.status[x] = "READY" <=> elem_find(v.ready, x)
    BY <1>0, <1>13 DEF ViewInv, SchedConsistent
  <2>2. \A x \in Threads : w.status[x] = "RUNNING" <=> x = w.cur
    BY <1>10, <1>11, <1>12, <1>14, <1>15, <2>1, SMTT(30)
  <2>3. \A x \in Threads : w.status[x] = "READY" <=> elem_find(w.ready, x)
    BY <1>9, <1>10, <1>11, <1>12, <1>14, <2>1, SMTT(30)
  <2> QED BY <1>9, <1>10, <1>12, <2>2, <2>3, Zenon DEF SchedConsistent
<1>17. /\ \A x \in Threads : w.status[x] = "BLOCKED" <=> v.status[x] = "BLOCKED"
       /\ w.status[Idle] # "NONE"
  BY <1>0, <1>13, <1>14, <1>15, SchedAssumption DEF ViewInv
<1>22. ViewInv'
  BY <1>0, <1>1, <1>13, <1>16, <1>17, Zenon DEF ViewInv, Workers
<1>23. Creators'
  BY <1>0, <1>1, <1>2, <1>3, <1>7, <1>10 DEF TInv, Creators, n
<1>24. AllListed'
  <2>1. Creating(Stages \ {"none"})' = Creating(Stages \ {"none"})
    BY <1>0, <1>1, <1>3 DEF Creating, Stages
  <2> QED BY <1>1, <1>10, <2>1, Zenon DEF TInv, AllListed
<1>25. PanicOnlyByLocate'
  BY <1>0, <1>10, Zenon DEF PanicOnlyByLocate
<1>26. RepeatCounts'
  BY <1>1, Zenon DEF TInv, RepeatCounts, Owners
<1> QED BY <1>1, <1>10, <1>22, <1>23, <1>24, <1>25, <1>26, Zenon DEF TInv

(* AppendAll completes the creation: the PCB joins thread_all_list, where  *)
(* it was not.                                                             *)
LEMMA ListPcb ==
    ASSUME TInv, NEW t \in Workers, AppendAll(t), PInv'
    PROVE  TInv'
<1> DEFINE n == new[t]
<1>0. /\ stage[t] = "all" /\ t \in Visible /\ ~sched.panic /\ n \in Workers /\ n \in Threads
      /\ stage \in [Workers -> Stages] /\ new \in [Workers -> Workers \cup {NoThread}]
      /\ sched \in SchedState /\ ViewInv /\ n # NoThread /\ all \in Seq(Threads)
  BY CreatorLemma, SyncAssumption, Zenon DEF AppendAll, TInv, Workers
<1>1. /\ UNCHANGED <<sema, lock, pc, depth>>
      /\ stage' = [stage EXCEPT ![t] = "none"] /\ new' = [new EXCEPT ![t] = NoThread]
      /\ sched' = ASSERT(sched, ~elem_find(all, n)) /\ all' = list_append(all, n)
  BY Zenon DEF AppendAll, Advance
<1>2. n \in Creating(Stages \ {"none"})
  BY <1>0, Zenon DEF Creating, Stages
<1>3. ~elem_find(all, n) /\ NoDuplicates(all)
  BY <1>0, <1>2, Zenon DEF TInv, AllListed
<1>4. sched' = sched
  <2> DEFINE c == ~elem_find(all, n)
  <2>1. sched' = ASSERT(sched, c) /\ c = TRUE
    BY <1>1, <1>3, Zenon
  <2> HIDE DEF c
  <2> QED BY <1>0, <2>1, AssertLemma, Zenon
<1>5. sched.status[n] # "NONE" /\ \A u \in Workers : new[u] = n => u = t
  BY <1>0, Zenon DEF TInv, Creators
<1>6. /\ stage'[t] = "none" /\ new'[t] = NoThread
      /\ \A u \in Workers : u # t => stage'[u] = stage[u] /\ new'[u] = new[u]
  BY <1>0, <1>1, Zenon
<1>7. Hidden' = Hidden
  BY <1>0, <1>6 DEF Hidden, Creating
<1>8. Visible' = Visible
  BY <1>4, <1>7, Zenon DEF Visible, Known
<1>9. ViewInv'
  BY <1>0, <1>1, <1>4, <1>8, ViewKept, Zenon
<1>10. Creators'
  <2> SUFFICES ASSUME NEW u \in Workers PROVE
        /\ stage'[u] = "none" <=> new'[u] = NoThread
        /\ stage'[u] # "none" => u \in Visible /\ new'[u] # u
        /\ stage'[u] \in {"pid", "inc", "unlock"} => sched.status[new'[u]] = "NONE"
        /\ stage'[u] \in {"absent", "append"} => sched.status[new'[u]] = "READY"
        /\ stage'[u] \in {"locate", "all"} => sched.status[new'[u]] # "NONE"
        /\ \A x \in Workers : new'[u] = new'[x] /\ new'[u] # NoThread => u = x
    BY <1>4, <1>8, Zenon DEF Creators
  <2>1. CASE u = t
    BY <1>6, <2>1, Zenon
  <2>2. CASE u # t
    BY <1>6, <2>2 DEF TInv, Creators
  <2> QED BY <2>1, <2>2, Zenon
<1>11. Creating(Stages \ {"none"})' = Creating(Stages \ {"none"}) \ {n}
  BY <1>0, <1>5, <1>6 DEF Creating, Stages
<1> HIDE DEF n
<1>12. all' \in Seq(Threads) /\ NoDuplicates(all') /\ \A x : elem_find(all', x) <=> elem_find(all, x) \/ x = n
  BY <1>0, <1>1, <1>3, AppendLemma, Zenon
<1>13. AllListed'
  BY <1>4, <1>5, <1>11, <1>12, Zenon DEF TInv, AllListed
<1>14. PanicOnlyByLocate'
  BY <1>0, <1>4, Zenon DEF PanicOnlyByLocate
<1>15. RepeatCounts'
  BY <1>1, Zenon DEF TInv, RepeatCounts, Owners
<1> QED BY <1>0, <1>4, <1>9, <1>10, <1>12, <1>13, <1>14, <1>15, Zenon DEF TInv

(* The two ASSERTs on the ready list: the first holds, since the PCB is    *)
(* hidden; the second fails only when the new thread has blocked.          *)
LEMMA CheckReady ==
    ASSUME TInv, NEW t \in Workers, AssertAbsent(t) \/ AssertPresent(t), PInv'
    PROVE  TInv'
<1> DEFINE n == new[t]
<1>0. /\ stage[t] \in {"absent", "locate"} /\ t \in Visible /\ ~sched.panic /\ n \in Workers /\ n \in Threads
      /\ sched.cur = t /\ n # t /\ stage \in [Workers -> Stages]
      /\ sched \in SchedState /\ ViewInv
  BY CreatorLemma, Zenon DEF AssertAbsent, AssertPresent, TInv
<1>1. CASE AssertAbsent(t)
  <2>1. AtStage(t, "absent") /\ Advance(t, "append") /\ UNCHANGED <<sema, lock, pc, depth, new, all>>
    BY <1>1, Zenon DEF AssertAbsent
  <2>2. n \notin Visible
    BY <1>0, <2>1, Zenon DEF AtStage, Hidden, Creating, Visible
  <2>3. ~elem_find(sched.ready, n)
    BY <1>0, <2>2, VisibleLemma, Zenon
  <2>4. sched' = sched
    <3> DEFINE c == ~elem_find(sched.ready, n)
    <3>1. sched' = ASSERT(sched, c) /\ c = TRUE
      BY <1>1, <2>3, Zenon DEF AssertAbsent
    <3> HIDE DEF c
    <3> QED BY <1>0, <3>1, AssertLemma, Zenon
  <2>5. PanicOnlyByLocate'
    BY <1>0, <2>4, Zenon DEF PanicOnlyByLocate
  <2> QED BY <1>0, <2>1, <2>4, <2>5, GroupStep, Zenon
<1>2. CASE AssertPresent(t)
  <2>1. AtStage(t, "locate") /\ Advance(t, "all") /\ UNCHANGED <<sema, lock, pc, depth, new, all>>
    BY <1>2, Zenon DEF AssertPresent
  <2> DEFINE c == elem_find(sched.ready, n)
  <2>2. sched' = ASSERT(sched, c) /\ c \in BOOLEAN
    BY <1>2, Zenon DEF AssertPresent, elem_find
  <2> HIDE DEF c
  <2>3. /\ sched' \in SchedState /\ sched'.cur = sched.cur /\ sched'.ready = sched.ready
        /\ sched'.status = sched.status /\ (c => ~sched'.panic)
    <3>1. sched.panic \in BOOLEAN
      BY <1>0, Zenon DEF SchedState
    <3>2. CASE c
      BY <1>0, <2>2, <3>2, AssertLemma, Zenon
    <3>3. CASE ~c
      <4>1. sched' = [sched EXCEPT !.panic = TRUE]
        BY <2>2, <3>3, Zenon DEF ASSERT
      <4> QED BY <1>0, <3>3, <4>1, Zenon DEF SchedState
    <3> QED BY <3>2, <3>3, Zenon
  <2>4. elem_find(sched.ready, n) => ~sched'.panic
    BY <2>3, Zenon DEF c
  <2>5. sched.status[n] # "NONE"
    BY <1>0, <2>1, Zenon DEF TInv, Creators, AtStage
  <2>6. n \in Visible
    <3>1. n \notin Hidden
      BY <1>0, <2>1, SyncAssumption, Zenon DEF TInv, Creators, AtStage, Hidden, Creating, Workers
    <3> QED BY <1>0, <2>5, <3>1, Zenon DEF Visible, Known
  <2>7. ~elem_find(sched.ready, n) => sched.status[n] = "BLOCKED"
    <3>1. sched.status[n] # "RUNNING"
      BY <1>0, <2>6, VisibleLemma, Zenon
    <3>2. sched.status[n] = "READY" => elem_find(sched.ready, n)
      BY <1>0, <2>6, VisibleLemma, Zenon
    <3>3. sched.status[n] \in Status
      BY <1>0, Zenon DEF SchedState
    <3> QED BY <2>5, <3>1, <3>2, <3>3, Zenon DEF Status
  <2>8. stage'[t] = "all"
    BY <1>0, <2>1, Zenon DEF Advance
  <2>9. PanicOnlyByLocate'
    BY <1>0, <2>1, <2>3, <2>4, <2>7, <2>8, Zenon DEF PanicOnlyByLocate
  <2> QED BY <2>1, <2>3, <2>9, GroupStep, Zenon
<1> QED BY <1>1, <1>2, Zenon

-----------------------------------------------------------------------------
(* The steps of sync.c, of idle and of the timer.                          *)
LEMMA ShownLemma ==
    ASSUME TInv
    PROVE  /\ Shown \in SchedState /\ Shown.cur = sched.cur /\ Shown.panic = sched.panic
           /\ sched.cur \in Threads /\ Shown.status[sched.cur] = "RUNNING"
<1>1. Visible \in SUBSET Threads /\ sched \in SchedState
  BY Zenon DEF TInv, Visible, Known
<1>2. Shown \in SchedState /\ Shown.cur = sched.cur /\ Shown.panic = sched.panic
  BY <1>1, SeenLemma, SMTT(30) DEF Shown
<1>3. sched.cur \in Threads
  BY <1>1, Zenon DEF SchedState
<1> QED BY <1>2, <1>3, Zenon DEF TInv, ViewInv, SchedConsistent

(* A step of the running thread that leaves the lists alone.               *)
LEMMA QuietStep ==
    ASSUME TInv, ~sched.panic, sched' = sched, sema'.waiters = sema.waiters, UNCHANGED <<stage, new>>,
           \A u \in Workers : u # sched.cur => pc'[u] = pc[u]
    PROVE  Moves /\ ViewInv' /\ ~sched'.panic
<1>1. Moves /\ Shown' = Shown
  BY QuietShown, Zenon DEF TInv
<1>2. \A u \in Workers : u = sched.cur => ~elem_find(sema.waiters, u) /\ Shown.status[u] # "BLOCKED"
  BY ShownLemma, Zenon DEF TInv, ViewInv
<1>3. \A u \in Workers : elem_find(sema'.waiters, u) <=> pc'[u] = "wait" /\ Shown'.status[u] = "BLOCKED"
  BY <1>1, <1>2, Zenon DEF TInv, ViewInv
<1> QED BY <1>1, <1>3, Zenon DEF TInv, ViewInv

(* A step of the scheduler that blocks and unblocks no worker.             *)
LEMMA KeptStep ==
    ASSUME TInv, ~sched.panic, Moves, Kept(Shown, Shown', Threads \ {Idle}), UNCHANGED <<sema, stage, new>>,
           \A u \in Workers : pc'[u] = pc[u]
    PROVE  ViewInv' /\ ~sched'.panic
<1>1. SchedConsistent(Shown') /\ Shown'.status[Idle] # "NONE" /\ ~Shown'.panic
  BY ShownLemma, Zenon DEF Kept
<1>2. \A u \in Workers : Shown'.status[u] = "BLOCKED" <=> Shown.status[u] = "BLOCKED"
  BY Zenon DEF Kept, Workers
<1>3. ViewInv'
  BY <1>1, <1>2, Zenon DEF TInv, ViewInv
<1>4. sched'.panic = Shown'.panic
  <2>1. Visible' \in SUBSET Threads /\ sched' \in SchedState
    BY Zenon DEF Moves, Visible, Known
  <2> QED BY <2>1, SeenLemma, ZenonT(30) DEF Shown
<1> QED BY <1>1, <1>3, <1>4, Zenon

LEMMA IdleStep ==
    ASSUME TInv, UNCHANGED <<stage, new>>, IdleBlock \/ IdleHalt \/ Timer
    PROVE  Moves /\ ViewInv' /\ ~sched'.panic
<1>0. /\ sched \in SchedState /\ ViewInv /\ Shown \in SchedState /\ Shown.cur = sched.cur
      /\ SchedConsistent(Shown) /\ Shown.status[Idle] # "NONE"
      /\ pc \in [Threads -> WorkerPc \cup IdlePc] /\ Idle \in Threads
      /\ \A u \in Workers : u \in Threads /\ u # Idle /\ pc[u] \in WorkerPc
  BY ShownLemma, SchedAssumption, Zenon DEF TInv, ViewInv, PInv, LockTypes, Workers
<1>1. CASE IdleBlock
  <2>1. /\ ~sched.panic /\ sched.cur = Idle /\ sched' = thread_block(sched) /\ UNCHANGED sema
        /\ pc' = [pc EXCEPT ![Idle] = "sti"]
    BY <1>1, Zenon DEF IdleBlock, At, Goto
  <2>2. Moves /\ Shown' = thread_block(Shown)
    BY <1>0, <2>1, BlockShown, Zenon
  <2>3. Kept(Shown, Shown', Threads \ {Idle})
    BY <1>0, <2>1, <2>2, BlockLemma, Zenon
  <2>4. \A u \in Workers : pc'[u] = pc[u]
    BY <1>0, <2>1, Zenon
  <2> QED BY <2>1, <2>2, <2>3, <2>4, KeptStep, Zenon
<1>2. CASE IdleHalt
  <2>1. /\ ~sched.panic /\ sched' = sched /\ sema' = sema /\ sched.cur = Idle
        /\ pc' = [pc EXCEPT ![Idle] = "hlt"]
    BY <1>2, Zenon DEF IdleHalt, At, Goto
  <2>2. \A u \in Workers : pc'[u] = pc[u]
    BY <1>0, <2>1, Zenon
  <2> QED BY <2>1, <2>2, QuietStep, Zenon
<1>3. CASE Timer
  <2>1. /\ ~sched.panic /\ sched' = intr_timer_handler(sched) /\ UNCHANGED sema
        /\ pc' = pc \/ (pc[sched.cur] = "hlt" /\ pc' = [pc EXCEPT ![sched.cur] = "block"])
    BY <1>3, Zenon DEF Timer, Interrupt
  <2>2. Moves /\ Shown' = intr_timer_handler(Shown)
    BY <1>0, <2>1, TimerShown, Zenon
  <2>3. Kept(Shown, Shown', Threads)
    BY <1>0, <2>2, TimerLemma, Zenon
  <2>4. Kept(Shown, Shown', Threads \ {Idle})
    BY <2>3, Zenon DEF Kept
  <2>5. \A u \in Workers : pc'[u] = pc[u]
    BY <1>0, <2>1, Zenon DEF WorkerPc
  <2> QED BY <2>1, <2>2, <2>4, <2>5, KeptStep, Zenon
<1> QED BY <1>1, <1>2, <1>3, Zenon

LEMMA WaitStep ==
    ASSUME TInv, NEW t \in Workers, UNCHANGED <<stage, new>>, sema_down_wait(t)
    PROVE  Moves /\ ViewInv' /\ ~sched'.panic
<1>0. /\ sched \in SchedState /\ ViewInv /\ Shown \in SchedState /\ Shown.cur = sched.cur
      /\ Shown.panic = sched.panic /\ SchedConsistent(Shown) /\ Shown.status[Idle] # "NONE"
      /\ pc \in [Threads -> WorkerPc \cup IdlePc]
      /\ \A u \in Workers : u \in Threads /\ u # Idle
  BY ShownLemma, Zenon DEF TInv, ViewInv, PInv, LockTypes, Workers
<1>1. ~sched.panic /\ sched.cur = t /\ pc' = [pc EXCEPT ![t] = "wait"]
  BY Zenon DEF sema_down_wait, At, Goto
<1>2. ~elem_find(sema.waiters, t)
  BY <1>1, ShownLemma, Zenon DEF TInv, ViewInv
<1>3. sched' = thread_block(sched)
  <2> DEFINE c == ~elem_find(sema.waiters, t)
  <2>1. sched' = thread_block(ASSERT(sched, c)) /\ c = TRUE
    BY <1>2, Zenon DEF sema_down_wait
  <2> HIDE DEF c
  <2> QED BY <1>0, <2>1, AssertLemma, Zenon
<1>4. Moves /\ Shown' = thread_block(Shown)
  BY <1>0, <1>3, BlockShown, Zenon
<1>5. Kept(Shown, Shown', Threads \ {t}) /\ Shown'.status[t] = "BLOCKED"
  BY <1>0, <1>1, <1>4, BlockLemma
<1>6. sema'.waiters = list_append(sema.waiters, t)
  BY Zenon DEF sema_down_wait, TInv, PInv, LockTypes
<1>7. /\ sema'.waiters \in Seq(Workers) /\ NoDuplicates(sema'.waiters)
      /\ \A u : elem_find(sema'.waiters, u) <=> elem_find(sema.waiters, u) \/ u = t
  <2>1. sema.waiters \in Seq(Workers) /\ NoDuplicates(sema.waiters)
    BY <1>0, Zenon DEF ViewInv
  <2> DEFINE l == list_append(sema.waiters, t)
  <2>2. /\ l \in Seq(Workers)
        /\ \A u : elem_find(l, u) <=> elem_find(sema.waiters, u) \/ u = t
        /\ NoDuplicates(sema.waiters) /\ ~elem_find(sema.waiters, t) => NoDuplicates(l)
    BY <2>1, AppendLemma, Zenon
  <2>3. sema'.waiters = l
    BY <1>6, Zenon
  <2> HIDE DEF l
  <2> QED BY <1>2, <2>1, <2>2, <2>3, Zenon
<1>8. \A u \in Workers : elem_find(sema'.waiters, u) <=> pc'[u] = "wait" /\ Shown'.status[u] = "BLOCKED"
  <2> SUFFICES ASSUME NEW u \in Workers
      PROVE  elem_find(sema'.waiters, u) <=> pc'[u] = "wait" /\ Shown'.status[u] = "BLOCKED"
    BY Zenon
  <2>1. CASE u = t
    BY <1>0, <1>1, <1>5, <1>7, <2>1, Zenon
  <2>2. CASE u # t
    <3>1. pc'[u] = pc[u] /\ (Shown'.status[u] = "BLOCKED" <=> Shown.status[u] = "BLOCKED")
      BY <1>0, <1>1, <1>5, <2>2, Zenon DEF Kept
    <3> QED BY <1>0, <1>7, <2>2, <3>1, Zenon DEF ViewInv
  <2> QED BY <2>1, <2>2, Zenon
<1>9. ViewInv' /\ ~Shown'.panic
  BY <1>0, <1>1, <1>5, <1>7, <1>8, Zenon DEF ViewInv, Kept
<1>10. sched'.panic = Shown'.panic
  <2>1. Visible' \in SUBSET Threads /\ sched' \in SchedState
    BY <1>4, Zenon DEF Moves, Visible, Known
  <2> QED BY <2>1, SeenLemma DEF Shown
<1> QED BY <1>4, <1>9, <1>10, Zenon

LEMMA UpStep ==
    ASSUME TInv, NEW t \in Workers, UNCHANGED <<stage, new>>, sema_up(t)
    PROVE  Moves /\ ViewInv' /\ ~sched'.panic
<1>0. /\ sched \in SchedState /\ ViewInv /\ Shown \in SchedState /\ Shown.cur = sched.cur
      /\ Shown.panic = sched.panic /\ SchedConsistent(Shown) /\ Shown.status[Idle] # "NONE"
      /\ pc \in [Threads -> WorkerPc \cup IdlePc] /\ Idle \in Threads
      /\ \A u \in Workers : u \in Threads /\ u # Idle
  BY ShownLemma, SchedAssumption, Zenon DEF TInv, ViewInv, PInv, LockTypes, Workers
<1>1. ~sched.panic /\ sched.cur = t /\ pc[t] = "up" /\ pc' = [pc EXCEPT ![t] = "run"]
  BY Zenon DEF sema_up, At, Goto
<1>2. sema.value = 0
  <2>1. LockTypes /\ LockConsistent
    BY Zenon DEF TInv, PInv
  <2>2. t \in Owners
    BY <1>1, <2>1 DEF LockTypes, Owners
  <2> QED BY <2>1, <2>2 DEF LockTypes, LockConsistent
<1>3. ASSERT(sched, sema.value = 0) = sched
  BY <1>0, <1>2, AssertLemma, Zenon
<1>4. CASE sema.waiters = <<>>
  <2>1. sched' = sched /\ sema'.waiters = sema.waiters
    BY <1>3, <1>4, Zenon DEF sema_up, TInv, PInv, LockTypes
  <2>2. \A u \in Workers : u # sched.cur => pc'[u] = pc[u]
    BY <1>0, <1>1, Zenon
  <2> QED BY <1>1, <2>1, <2>2, QuietStep, Zenon
<1>5. CASE sema.waiters # <<>>
  <2> DEFINE h == Head(sema.waiters)
             rest == Tail(sema.waiters)
  <2>1. sched' = thread_unblock(sched, h) /\ sema'.waiters = rest
    BY <1>3, <1>5 DEF sema_up
  <2>2. /\ h \in Workers /\ elem_find(sema.waiters, h) /\ rest \in Seq(Workers) /\ NoDuplicates(rest)
        /\ \A u : elem_find(rest, u) <=> elem_find(sema.waiters, u) /\ u # h
    BY <1>0, <1>5, PopLemma, Zenon DEF ViewInv
  <2> HIDE DEF h, rest
  <2>3. h \in Visible /\ h \in Threads /\ Shown.status[h] = "BLOCKED" /\ h # t
    BY <1>0, <1>1, <2>2, VisibleLemma, ShownLemma, Zenon DEF ViewInv
  <2>4. Moves /\ Shown' = thread_unblock(Shown, h)
    BY <1>0, <2>1, <2>3, WakeShown, Zenon
  <2>5. /\ Shown' \in SchedState /\ Shown'.cur = Shown.cur /\ Shown'.panic = Shown.panic
        /\ Shown'.status = [Shown.status EXCEPT ![h] = "READY"]
        /\ \A u \in Threads : Shown'.status[u] = "READY" <=> elem_find(Shown'.ready, u)
        /\ NoDuplicates(Shown'.ready)
    <3>1. /\ \A u \in Threads : Shown.status[u] = "READY" <=> elem_find(Shown.ready, u)
          /\ NoDuplicates(Shown.ready)
      BY <1>0, Zenon DEF SchedConsistent
    <3> QED BY <1>0, <2>3, <2>4, <3>1, UnblockLemma, SMTT(30)
  <2>6. \A u \in Threads : Shown'.status[u] = IF u = h THEN "READY" ELSE Shown.status[u]
    BY <1>0, <2>3, <2>5, SMTT(30) DEF SchedState
  <2>7. SchedConsistent(Shown') /\ Shown'.status[Idle] # "NONE"
    <3>1. \A u \in Threads : Shown'.status[u] = "RUNNING" <=> u = Shown'.cur
      BY <1>0, <2>3, <2>5, <2>6 DEF SchedConsistent
    <3>2. Shown'.status[Idle] # "NONE"
      BY <1>0, <2>6, Zenon
    <3> QED BY <2>5, <3>1, <3>2, Zenon DEF SchedConsistent
  <2>8. \A u \in Workers : elem_find(rest, u) <=> pc'[u] = "wait" /\ Shown'.status[u] = "BLOCKED"
    <3> SUFFICES ASSUME NEW u \in Workers
        PROVE  elem_find(rest, u) <=> pc'[u] = "wait" /\ Shown'.status[u] = "BLOCKED"
      BY Zenon
    <3>1. elem_find(sema.waiters, u) <=> pc[u] = "wait" /\ Shown.status[u] = "BLOCKED"
      BY <1>0, Zenon DEF ViewInv
    <3>2. pc'[u] = IF u = t THEN "run" ELSE pc[u]
      BY <1>0, <1>1, Zenon
    <3>3. Shown'.status[u] = IF u = h THEN "READY" ELSE Shown.status[u]
      BY <1>0, <2>6, Zenon
    <3> QED BY <1>1, <2>2, <3>1, <3>2, <3>3
  <2>9. ViewInv'
    BY <2>1, <2>2, <2>7, <2>8 DEF ViewInv
  <2>10. sched'.panic = Shown'.panic
    <3>1. Visible' \in SUBSET Threads /\ sched' \in SchedState
      BY <2>4, Zenon DEF Moves, Visible, Known
    <3> QED BY <3>1, SeenLemma DEF Shown
  <2> QED BY <1>0, <1>1, <2>4, <2>5, <2>9, <2>10, Zenon
<1> QED BY <1>4, <1>5, Zenon

(* holder_repeat_nr is 1 where lock_release looks at it, and 0 where       *)
(* lock_acquire does.                                                      *)
LEMMA RepeatStep ==
    ASSUME TInv, NEW t \in Workers, PidLock(t)
    PROVE  RepeatCounts'
<1>0. /\ LockTypes /\ LockConsistent /\ RepeatCounts /\ t \in Threads
      /\ \A u \in Workers : u \in Threads
  BY Zenon DEF TInv, PInv, Workers
<1>1. pc \in [Threads -> WorkerPc \cup IdlePc] /\ depth \in [Threads -> 0..1] /\ ~Again(t) /\ ~Drop(t)
  BY <1>0, Zenon DEF LockTypes, Again, Drop, At
<1>2. CASE sema_down_take(t)
  <2>1. /\ pc' = [pc EXCEPT ![t] = "own"] /\ depth' = [depth EXCEPT ![t] = 1] /\ lock' = lock
        /\ sema.value = 1
    BY <1>0, <1>2 DEF sema_down_take, Goto, LockTypes
  <2>2. Owners = {} /\ Owners' = {t} /\ lock.repeat = 0
    BY <1>0, <1>1, <2>1 DEF LockConsistent, RepeatCounts, Owners
  <2> QED BY <1>0, <1>1, <2>1, <2>2, Zenon DEF RepeatCounts
<1>3. CASE sema_up(t)
  <2>1. pc[t] = "up" /\ pc' = [pc EXCEPT ![t] = "run"] /\ depth' = [depth EXCEPT ![t] = 0] /\ lock' = lock
    BY <1>3, Zenon DEF sema_up, Goto, At
  <2>2. Owners = {t} /\ Owners' = {}
    BY <1>0, <1>1, <2>1 DEF LockTypes, LockConsistent, Owners
  <2> QED BY <1>0, <2>1, <2>2, Zenon DEF RepeatCounts
<1>4. CASE SetCount(t) \/ ClearCount(t)
  <2>1. /\ pc[t] \in {"count", "zero"} /\ depth' = depth
        /\ pc' = [pc EXCEPT ![t] = IF pc[t] = "count" THEN "run" ELSE "up"]
        /\ lock'.repeat = IF pc[t] = "count" THEN 1 ELSE 0
    BY <1>0, <1>4, Zenon DEF SetCount, ClearCount, Goto, At, LockTypes
  <2>2. Owners = {t} /\ Owners' = {t} /\ depth[t] = 1
    BY <1>0, <1>1, <2>1 DEF LockTypes, LockConsistent, Owners
  <2> QED BY <1>0, <1>1, <2>1, <2>2, Zenon DEF RepeatCounts
<1>5. CASE SetHolder(t) \/ ClearHolder(t)
  <2>1. /\ pc[t] \in {"own", "clear"} /\ depth' = depth
        /\ pc' = [pc EXCEPT ![t] = IF pc[t] = "own" THEN "count" ELSE "zero"]
        /\ lock'.repeat = lock.repeat
    BY <1>0, <1>5, Zenon DEF SetHolder, ClearHolder, Goto, At, LockTypes
  <2>2. Owners = {t} /\ Owners' = {t}
    BY <1>0, <1>1, <2>1 DEF LockTypes, LockConsistent, Owners
  <2> QED BY <1>0, <1>1, <2>1, <2>2, Zenon DEF RepeatCounts
<1>6. CASE (AcquireTest(t) /\ depth[t] = 0) \/ ReleaseTest(t) \/ sema_down_wait(t) \/ Awake(t)
  <2>1. /\ depth' = depth /\ lock' = lock /\ pc[t] \notin {"own", "count", "up"}
        /\ \E to \in {"down", "again", "drop", "clear", "wait", "run"} : pc' = [pc EXCEPT ![t] = to]
    BY <1>6, Zenon DEF AcquireTest, ReleaseTest, sema_down_wait, Awake, Goto, At
  <2>2. Owners' = Owners
    BY <2>1, Zenon DEF Owners
  <2> QED BY <1>0, <1>1, <2>1, <2>2, Zenon DEF RepeatCounts, Owners
<1> QED BY <1>1, <1>2, <1>3, <1>4, <1>5, <1>6, Zenon DEF PidLock, Continue

(* The other steps of sync.c: their ASSERTs hold.                          *)
LEMMA LockStep ==
    ASSUME TInv, NEW t \in Workers, UNCHANGED <<stage, new>>,
           \/ AcquireTest(t) \/ SetHolder(t) \/ Again(t) \/ Drop(t) \/ ClearHolder(t) \/ ClearCount(t)
           \/ Awake(t) \/ ReleaseTest(t) \/ sema_down_take(t) \/ SetCount(t)
    PROVE  Moves /\ ViewInv' /\ ~sched'.panic
<1>0. /\ LockTypes /\ LockConsistent /\ RepeatCounts /\ t \in Threads /\ sched \in SchedState
      /\ \A u \in Workers : u \in Threads
  BY Zenon DEF TInv, PInv, Workers
<1>1. /\ ~sched.panic /\ sched.cur = t /\ sema'.waiters = sema.waiters
      /\ \E to : pc' = [pc EXCEPT ![t] = to]
  BY <1>0, Zenon DEF AcquireTest, SetHolder, Again, Drop, ClearHolder, ClearCount, Awake, ReleaseTest,
     sema_down_take, SetCount, At, Goto, LockTypes
<1>2. sched' = sched
  <2>1. CASE ReleaseTest(t)
    <3> DEFINE c == lock.holder = t /\ (lock.repeat > 1 \/ lock.repeat = 1)
    <3>1. pc[t] = "run" /\ depth[t] = 1
      BY <1>0, <2>1 DEF ReleaseTest, At, LockTypes
    <3>2. t \in Owners
      BY <3>1, SMTT(30) DEF Owners
    <3>3. c = TRUE
      BY <1>0, <3>1, <3>2, Zenon DEF LockConsistent, RepeatCounts
    <3>4. sched' = ASSERT(sched, c)
      BY <2>1, Zenon DEF ReleaseTest
    <3> HIDE DEF c
    <3> QED BY <1>0, <3>3, <3>4, AssertLemma, Zenon
  <2>2. CASE sema_down_take(t)
    <3>1. (sema.value - 1 = 0) = TRUE
      BY <1>0, <2>2 DEF sema_down_take, LockTypes
    <3> QED BY <1>0, <2>2, <3>1, AssertLemma, Zenon DEF sema_down_take
  <2>3. CASE SetCount(t)
    <3>1. pc[t] = "count" /\ depth[t] = 1
      BY <1>0, <2>3, Zenon DEF SetCount, At, LockTypes
    <3>2. t \in Owners
      BY <3>1 DEF Owners
    <3>3. (lock.repeat = 0) = TRUE
      BY <1>0, <3>1, <3>2, Zenon DEF RepeatCounts
    <3> QED BY <1>0, <2>3, <3>3, AssertLemma, Zenon DEF SetCount
  <2> QED BY <2>1, <2>2, <2>3, Zenon DEF AcquireTest, SetHolder, Again, Drop, ClearHolder, ClearCount, Awake
<1>3. \A u \in Workers : u # sched.cur => pc'[u] = pc[u]
  BY <1>0, <1>1, Zenon DEF LockTypes
<1> QED BY <1>1, <1>2, <1>3, QuietStep, Zenon

LEMMA SyncStep ==
    ASSUME TInv, PInv',
           \/ \E t \in Workers : PidLock(t)
           \/ (IdleBlock \/ IdleHalt \/ Timer) /\ UNCHANGED startVars
    PROVE  TInv' /\ Known' = Known /\ UNCHANGED <<stage, new, next_pid>>
<1>0. UNCHANGED startVars /\ UNCHANGED <<stage, new, next_pid>>
  BY Zenon DEF PidLock, startVars
<1>1. ASSUME NEW t \in Workers, PidLock(t) PROVE Moves /\ ViewInv' /\ ~sched'.panic /\ RepeatCounts'
  BY <1>0, <1>1, WaitStep, UpStep, LockStep, RepeatStep, Zenon DEF PidLock, Continue
<1>2. ASSUME IdleBlock \/ IdleHalt \/ Timer PROVE Moves /\ ViewInv' /\ ~sched'.panic /\ RepeatCounts'
  <2>1. \A u \in Workers : pc'[u] = pc[u] /\ depth'[u] = depth[u]
    BY <1>2, SchedAssumption DEF IdleBlock, IdleHalt, Timer, Interrupt, Goto, Workers, TInv, PInv, LockTypes,
       WorkerPc, SchedState
  <2>2. lock' = lock
    BY <1>2, Zenon DEF IdleBlock, IdleHalt, Timer
  <2>3. RepeatCounts'
    BY <2>1, <2>2, Zenon DEF TInv, RepeatCounts, Owners
  <2> QED BY <1>0, <1>2, <2>3, IdleStep, Zenon
<1>3. Moves /\ ViewInv' /\ ~sched'.panic /\ RepeatCounts'
  BY <1>1, <1>2, Zenon
<1>4. Known' = Known
  BY <1>0, <1>3, ViewMoves, Zenon DEF Moves, TInv
<1> QED BY <1>0, <1>3, <1>4, SyncKeeps, Zenon

LEMMA TStep == TInv /\ [StartNext]_<<vars, startVars>> => TInv'
<1> SUFFICES ASSUME TInv, [StartNext]_<<vars, startVars>> PROVE TInv'
  OBVIOUS
<1>0. PInv'
  BY StartStep, Zenon DEF TInv
<1>1. CASE UNCHANGED <<vars, startVars>>
  <2>1. UNCHANGED <<sched, sema, lock, pc, depth, stage, new, all>>
    BY <1>1, Zenon DEF vars, startVars
  <2>2. Hidden' = Hidden /\ Visible' = Visible /\ Creating(Stages \ {"none"})' = Creating(Stages \ {"none"})
    BY <2>1, Zenon DEF Hidden, Visible, Known, Creating
  <2>3. ViewInv'
    BY <2>1, <2>2, ViewKept, Zenon DEF TInv
  <2>4. Creators' /\ AllListed' /\ PanicOnlyByLocate' /\ RepeatCounts'
    BY <2>1, <2>2, ZenonT(30) DEF TInv, Creators, AllListed, PanicOnlyByLocate, RepeatCounts, Owners
  <2> QED BY <1>0, <2>1, <2>3, <2>4, Zenon DEF TInv
<1>2. ASSUME NEW t \in Workers, LoadPid(t) \/ StorePid(t) PROVE TInv'
  <2>1. UNCHANGED <<sched, sema, lock, pc, depth, new, all>>
    BY <1>2, Zenon DEF LoadPid, StorePid, vars
  <2>2. \/ AtStage(t, "pid") /\ Advance(t, "inc")
        \/ AtStage(t, "inc") /\ Advance(t, "unlock")
    BY <1>2, Zenon DEF LoadPid, StorePid
  <2>3. PanicOnlyByLocate'
    BY <2>1, <2>2, Zenon DEF AtStage, At, PanicOnlyByLocate
  <2>4. sched' \in SchedState
    BY <2>1, Zenon DEF TInv
  <2> QED BY <1>0, <2>1, <2>2, <2>3, <2>4, GroupStep, Zenon
<1>3. CASE \/ \E t \in Workers : PidLock(t)
           \/ (IdleBlock \/ IdleHalt \/ Timer) /\ UNCHANGED startVars
  BY <1>0, <1>3, SyncStep, Zenon
<1> QED BY <1>0, <1>1, <1>2, <1>3, StartPcb, FillPcb, CheckReady, ShowPcb, ListPcb DEF StartNext

LEMMA TInit == StartInit => TInv
<1> SUFFICES ASSUME StartInit PROVE TInv
  OBVIOUS
<1>0. /\ Main \in Threads /\ Idle \in Threads /\ Main # Idle /\ NoThread \notin Threads
      /\ Priority \in [Threads -> 0..255]
  BY SchedAssumption, SyncAssumption, Zenon
<1>1. /\ sched = thread_init /\ Init /\ all = <<Main, Idle>>
      /\ stage = [t \in Workers |-> "none"] /\ new = [t \in Workers |-> NoThread]
  BY Zenon DEF StartInit, Init
<1>2. /\ sched \in SchedState /\ sched.panic = FALSE /\ sched.ready = <<Idle>>
      /\ \A t \in Threads : sched.status[t] = IF t = Main THEN "RUNNING"
                                   ELSE IF t = Idle THEN "READY" ELSE "NONE"
  BY <1>0, <1>1 DEF thread_init, SchedState, Status
<1>3. Creating({"absent", "append"}) = {} /\ Creating(Stages \ {"none"}) = {}
  BY <1>1, Zenon DEF Creating, Stages
<1>4. Visible = {Main, Idle}
  BY <1>0, <1>2, <1>3 DEF Visible, Known, Hidden
<1>5. Shown = sched
  <2>0. Visible \in SUBSET Threads
    BY <1>0, <1>4
  <2>1. /\ Seen(sched, Visible) \in SchedState
        /\ \A t \in Threads : Seen(sched, Visible).status[t] = IF t \in Visible THEN sched.status[t] ELSE "NONE"
    BY <1>2, <2>0, SeenLemma
  <2>2. \A t \in Threads : Seen(sched, Visible).status[t] = sched.status[t]
    BY <1>2, <1>4, <2>1, Zenon
  <2>3. /\ Seen(sched, Visible).cur = sched.cur /\ Seen(sched, Visible).ready = sched.ready
        /\ Seen(sched, Visible).ticks = sched.ticks /\ Seen(sched, Visible).panic = sched.panic
    BY <1>2, <2>0, SeenLemma
  <2> QED BY <1>2, <2>1, <2>2, <2>3, SameState, Zenon DEF Shown
<1>6. ViewInv /\ RepeatCounts
  <2>1. /\ sema.waiters = <<>> /\ sched.cur = Main /\ lock.repeat = 0 /\ Owners = {}
    BY <1>1, SMTT(30) DEF Init, thread_init, Owners, Workers
  <2>2. SchedConsistent(sched)
    <3>1. \A x : elem_find(sched.ready, x) <=> x = Idle
      BY <1>2 DEF elem_find
    <3>2. NoDuplicates(sched.ready)
      BY <1>2 DEF NoDuplicates
    <3> QED BY <1>0, <1>2, <2>1, <3>1, <3>2 DEF SchedConsistent
  <2>3. sched.status[Idle] # "NONE" /\ \A t \in Workers : sched.status[t] # "BLOCKED"
    BY <1>0, <1>2, Zenon DEF Workers
  <2>4. NoDuplicates(sema.waiters) /\ \A x : ~elem_find(sema.waiters, x)
    BY <2>1 DEF NoDuplicates, elem_find
  <2> QED BY <1>5, <2>1, <2>2, <2>3, <2>4, SMTT(30) DEF ViewInv, RepeatCounts
<1>7. Creators
  BY <1>1, Zenon DEF Creators
<1>8. AllListed /\ all \in Seq(Threads)
  <2>1. all \in Seq(Threads) /\ Len(all) = 2 /\ all[1] = Main /\ all[2] = Idle
    BY <1>0, <1>1
  <2>2. NoDuplicates(all) /\ \A t : elem_find(all, t) <=> t \in {Main, Idle}
    BY <1>0, <2>1 DEF NoDuplicates, elem_find
  <2>3. \A t \in Threads : sched.status[t] # "NONE" <=> t \in {Main, Idle}
    BY <1>2, Zenon
  <2> QED BY <1>3, <2>1, <2>2, <2>3, Zenon DEF AllListed
<1>9. PanicOnlyByLocate
  BY <1>2, Zenon DEF PanicOnlyByLocate
<1> QED BY <1>2, <1>6, <1>7, <1>8, <1>9, StartInitLemma, Zenon DEF TInv

-----------------------------------------------------------------------------
(* The count.  Finite sets are needed from here on only.                   *)
INSTANCE FiniteSetTheorems

(* The threads that passed next_pid++ grow by one in StorePid only.        *)
LEMMA CountStep ==
    TInv /\ Counted /\ [StartNext]_<<vars, startVars>> => Counted'
<1> SUFFICES ASSUME TInv, Counted, [StartNext]_<<vars, startVars>> PROVE Counted'
  BY Zenon
<1>0. /\ PInv' /\ stage \in [Workers -> Stages] /\ new \in [Workers -> Workers \cup {NoThread}]
      /\ Creators /\ Workers \subseteq Threads
  BY StartStep, Zenon DEF TInv, PInv, PidTypes, Workers
<1>1. ASSUME Passed' = Passed, next_pid' = next_pid PROVE Counted'
  BY <1>1, Zenon DEF Counted, PidsCounted, Passed, Known
<1>2. ASSUME Known' = Known, NEW t \in Workers, stage[t] # "unlock", stage'[t] # "unlock",
             \A u \in Workers : u # t => stage'[u] = stage[u] /\ new'[u] = new[u]
      PROVE  Passed' = Passed
  <2>1. Creating({"unlock"})' = Creating({"unlock"})
    BY <1>2, Zenon DEF Creating
  <2> QED BY <1>2, <2>1, Zenon DEF Passed
<1>3. CASE UNCHANGED <<vars, startVars>>
  <2>1. UNCHANGED <<sched, stage, new, next_pid>>
    BY <1>3, Zenon DEF vars, startVars
  <2>2. Passed' = Passed
    BY <2>1, Zenon DEF Passed, Known, Creating
  <2> QED BY <1>1, <2>1, <2>2
<1>4. CASE \/ \E t \in Workers : PidLock(t)
           \/ (IdleBlock \/ IdleHalt \/ Timer) /\ UNCHANGED startVars
  <2>1. Known' = Known /\ UNCHANGED <<stage, new, next_pid>>
    BY <1>0, <1>4, SyncStep, SMTT(30)
  <2>2. Passed' = Passed
    BY <2>1, Zenon DEF Passed, Creating
  <2> QED BY <1>1, <2>1, <2>2
<1>5. ASSUME NEW t \in Workers,
             \/ \E n \in Workers : thread_start(t, n)
             \/ LoadPid(t) \/ AssertAbsent(t) \/ AppendReady(t) \/ AssertPresent(t) \/ AppendAll(t)
      PROVE  Counted'
  <2>1. stage[t] # "unlock" /\ next_pid' = next_pid
    BY <1>5, Zenon DEF thread_start, LoadPid, AssertAbsent, AppendReady, AssertPresent, AppendAll, AtStage
  <2>2. /\ stage'[t] # "unlock"
        /\ \A u \in Workers : u # t => stage'[u] = stage[u] /\ new'[u] = new[u]
    BY <1>0, <1>5, SMTT(30) DEF thread_start, LoadPid, AssertAbsent, AppendReady, AssertPresent, AppendAll, Advance
  <2>3. sched'.status = sched.status
    BY <1>5 DEF thread_start, LoadPid, AssertAbsent, AppendReady, AssertPresent, AppendAll, vars, ASSERT,
                TInv, SchedState
  <2>4. Known' = Known
    BY <2>3, Zenon DEF Known
  <2>5. Passed' = Passed
    BY <1>2, <2>1, <2>2, <2>4, SMTT(30)
  <2> QED BY <1>1, <2>1, <2>5
<1>6. ASSUME NEW t \in Workers, StorePid(t) PROVE Counted'
  <2>1. /\ stage[t] = "inc" /\ sched' = sched /\ new' = new /\ next_pid' = next_pid + 1
        /\ stage' = [stage EXCEPT ![t] = "unlock"]
    BY <1>6, Zenon DEF StorePid, AtStage, Advance, vars, TInv, PInv, Incrementing
  <2>2. stage'[t] = "unlock" /\ \A u \in Workers : u # t => stage'[u] = stage[u]
    BY <1>0, <2>1
  <2>3. Known' = Known /\ Creating({"unlock"})' = Creating({"unlock"}) \cup {new[t]}
    BY <2>1, <2>2, Zenon DEF Known, Creating
  <2>4. new[t] # NoThread /\ sched.status[new[t]] = "NONE"
    BY <1>0, <2>1, SMTT(30) DEF Creators
  <2>5. new[t] \notin Passed
    BY <1>0, <2>1, <2>4 DEF Passed, Known, Creating, Creators
  <2>6. Passed' = Passed \cup {new[t]}
    BY <2>3, Zenon DEF Passed
  <2>7. IsFiniteSet(Passed') /\ Cardinality(Passed') = Cardinality(Passed) + 1
    BY <2>5, <2>6, FS_AddElement, SMTT(30) DEF Counted
  <2> QED BY <2>1, <2>7, SMTT(30) DEF Counted, PidsCounted, Passed, Known
<1>7. ASSUME NEW t \in Workers, init_thread(t) PROVE Counted'
  <2> DEFINE n == new[t]
  <2>1. /\ stage[t] = "unlock" /\ new' = new /\ next_pid' = next_pid
        /\ stage' = [stage EXCEPT ![t] = "absent"]
        /\ sched' = [sched EXCEPT !.status[n] = "READY", !.ticks[n] = Priority[n]]
    BY <1>7, Zenon DEF init_thread, AtStage, Advance
  <2>2. stage'[t] = "absent" /\ \A u \in Workers : u # t => stage'[u] = stage[u]
    BY <1>0, <2>1
  <2>3. n \in Threads
    BY <1>0, <2>1 DEF Creators
  <2>4. \A x \in Threads : sched'.status[x] = IF x = n THEN "READY" ELSE sched.status[x]
    <3> HIDE DEF n
    <3> QED BY <2>1, <2>3 DEF TInv, SchedState
  <2>5. Known' = Known \cup {n}
    BY <2>3, <2>4 DEF Known
  <2>6. Creating({"unlock"}) = Creating({"unlock"})' \cup {n}
    BY <2>1, <2>2 DEF Creating
  <2>7. Passed' = Passed
    BY <2>5, <2>6, SMTT(30) DEF Passed
  <2> QED BY <1>1, <2>1, <2>7
<1> QED BY <1>3, <1>4, <1>5, <1>6, <1>7 DEF StartNext

LEMMA CountInit == StartInit => Counted
<1> SUFFICES ASSUME StartInit PROVE Counted
  OBVIOUS
<1>0. Main \in Threads /\ Idle \in Threads /\ Main # Idle
  BY SchedAssumption, Zenon
<1>1. Passed = {Main} \cup {Idle}
  <2>1. Creating({"unlock"}) = {}
    BY Zenon DEF StartInit, Creating
  <2>2. Known = {Main, Idle}
    BY <1>0, Zenon DEF StartInit, Init, thread_init, Known
  <2> QED BY <2>1, <2>2, Zenon DEF Passed
<1>2. IsFiniteSet({Main}) /\ Cardinality({Main}) = 1
  BY FS_Singleton, Zenon
<1>3. IsFiniteSet(Passed) /\ Cardinality(Passed) = 2
  BY <1>0, <1>1, <1>2, FS_AddElement
<1> QED BY <1>3, Zenon DEF Counted, PidsCounted, StartInit, Passed, Known

-----------------------------------------------------------------------------
LEMMA StartInvariance == StartSpec => [](TInv /\ Counted)
BY TInit, TStep, CountInit, CountStep, PTL DEF StartSpec

(* thread_ready_list holds, once each, the READY threads but those that    *)
(* thread_start has filled and not appended yet, and thread_all_list the   *)
(* threads whose creation is complete, for any number of threads, creators *)
(* and preemptions.                                                        *)
THEOREM ListsAreExact == StartSpec => []ListsExact
<1>1. ASSUME TInv PROVE ListsExact
  <2>0. /\ PInv /\ sched \in SchedState /\ all \in Seq(Threads) /\ ViewInv /\ Creators /\ AllListed
    BY <1>1, Zenon DEF TInv
  <2>1. TypeOK
    <3>1. LockTypes /\ sema.waiters \in Seq(Workers) /\ MaxDepth \in Nat \ {0}
      BY <2>0, SyncAssumption, Zenon DEF PInv, ViewInv
    <3> QED BY <2>0, <3>1 DEF LockTypes, TypeOK
  <2>2. StartTypeOK
    BY <2>0, <2>1, Zenon DEF StartTypeOK, PInv, PidTypes
  <2>3. ReadyListed
    <3>1. NoDuplicates(sched.ready)
      BY <2>0, VisibleLemma, Zenon
    <3>2. ASSUME NEW t \in Threads
          PROVE  sched.status[t] = "READY" <=> elem_find(sched.ready, t) \/ t \in Creating({"absent", "append"})
      <4>1. sched.status[t] = "READY" /\ t \in Visible <=> elem_find(sched.ready, t)
        BY <2>0, VisibleLemma, SMTT(30)
      <4>2. t \in Hidden => sched.status[t] = "READY"
        BY <2>0 DEF Hidden, Creating, Creators
      <4>3. sched.status[t] = "READY" /\ t \notin Hidden => t \in Visible
        BY Zenon DEF Visible, Known
      <4> QED BY <4>1, <4>2, <4>3, SMTT(30) DEF Hidden
    <3> QED BY <3>1, <3>2, Zenon DEF ReadyListed
  <2> QED BY <2>0, <2>2, <2>3 DEF ListsExact
<1>2. TInv => ListsExact
  BY <1>1, Zenon
<1> QED BY <1>2, StartInvariance, PTL

(* Of the ASSERTs of thread.c and sync.c only the one of thread_start that *)
(* looks for the new thread in the ready list can fail, and only because   *)
(* the new thread has run and blocked before its creator went on.          *)
THEOREM OnlyLocatePanics == StartSpec => []PanicOnlyByLocate
<1>1. TInv => PanicOnlyByLocate
  BY Zenon DEF TInv
<1> QED BY <1>1, StartInvariance, PTL

(* pid_lock loses no next_pid++: next_pid is the number of threads that    *)
(* passed it, for any number of creators.                                  *)
THEOREM PidsAreCounted == StartSpec => []PidsCounted
<1>1. Counted => PidsCounted
  BY Zenon DEF Counted
<1> QED BY <1>1, StartInvariance, PTL
=============================================================================
