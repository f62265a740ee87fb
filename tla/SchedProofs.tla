---------------------------- MODULE SchedProofs ----------------------------
(***************************************************************************)
(* What the operators of Sched do to lists and to scheduler states, proved *)
(* for any set of threads.  Two predicates describe a scheduler state:     *)
(* SchedConsistent while a thread runs, and Between while schedule has     *)
(* taken the CPU from one thread and not given it to the next.  Within     *)
(* says which threads an operation may run or queue, and holds of states   *)
(* whose lists are not consistent too.                                     *)
(***************************************************************************)
EXTENDS Sched, Integers, TLAPS

(***************************************************************************)
(* Facts about sequences, the form the lists have here.                    *)
(***************************************************************************)
LEMMA ListEqual ==
    ASSUME NEW S, NEW l \in Seq(S), NEW m \in Seq(S),
           Len(l) = Len(m), \A i \in 1..Len(l) : l[i] = m[i]
    PROVE  l = m
OBVIOUS

LEMMA ListConcat ==
    ASSUME NEW S, NEW l \in Seq(S), NEW m \in Seq(S)
    PROVE  /\ l \o m \in Seq(S) /\ Len(l \o m) = Len(l) + Len(m)
           /\ \A i \in 1..Len(l) + Len(m) :
                (l \o m)[i] = IF i <= Len(l) THEN l[i] ELSE m[i - Len(l)]
OBVIOUS

LEMMA ListTail ==
    ASSUME NEW S, NEW l \in Seq(S), l # << >>
    PROVE  /\ Head(l) \in S /\ Tail(l) \in Seq(S) /\ Len(Tail(l)) = Len(l) - 1
           /\ \A i \in 1..Len(Tail(l)) : Tail(l)[i] = l[i + 1]
OBVIOUS
-----------------------------------------------------------------------------
Between(s) ==
    /\ \A t \in Threads : s.status[t] # "RUNNING"
    /\ \A t \in Threads : s.status[t] = "READY" <=> elem_find(s.ready, t)
    /\ NoDuplicates(s.ready)

-----------------------------------------------------------------------------
(* list_append adds the element and nothing else.                          *)
LEMMA AppendLemma ==
    ASSUME NEW S, NEW l \in Seq(S), NEW e \in S
    PROVE  /\ list_append(l, e) \in Seq(S)
           /\ list_append(l, e) # <<>>
           /\ \A x : elem_find(list_append(l, e), x) <=> elem_find(l, x) \/ x = e
           /\ NoDuplicates(l) /\ ~elem_find(l, e) => NoDuplicates(list_append(l, e))
<1> DEFINE m == Append(l, e)
<1>1. /\ m \in Seq(S)
      /\ m # <<>>
      /\ Len(m) = Len(l) + 1
      /\ \A i \in 1..Len(l) : m[i] = l[i]
      /\ m[Len(l) + 1] = e
  OBVIOUS
<1>2. Len(l) \in Nat
  OBVIOUS
<1>3. \A x : elem_find(m, x) <=> elem_find(l, x) \/ x = e
  <2> HIDE DEF m
  <2> TAKE x
  <2>1. ASSUME elem_find(m, x) PROVE elem_find(l, x) \/ x = e
    <3>1. PICK i \in 1..Len(m) : m[i] = x
      BY <2>1, Zenon DEF elem_find
    <3>2. i \in 1..Len(l) \/ i = Len(l) + 1
      BY <1>1, <1>2, <3>1
    <3> QED BY <1>1, <3>1, <3>2, Zenon DEF elem_find
  <2>2. ASSUME elem_find(l, x) PROVE elem_find(m, x)
    <3>1. PICK i \in 1..Len(l) : l[i] = x
      BY <2>2, Zenon DEF elem_find
    <3>2. i \in 1..Len(m)
      BY <1>1, <1>2
    <3> QED BY <1>1, <3>1, <3>2, Zenon DEF elem_find
  <2>3. elem_find(m, e)
    <3>1. Len(l) + 1 \in 1..Len(m)
      BY <1>1, <1>2
    <3> QED BY <1>1, <3>1, Zenon DEF elem_find
  <2> QED BY <2>1, <2>2, <2>3, Zenon
<1>4. ASSUME NoDuplicates(l), ~elem_find(l, e)
      PROVE  NoDuplicates(m)
  <2> HIDE DEF m
  <2> SUFFICES ASSUME NEW i \in 1..Len(m), NEW j \in 1..Len(m), m[i] = m[j]
               PROVE  i = j
    BY Zenon DEF NoDuplicates
  <2>1. \A n \in 1..Len(m) : n \in 1..Len(l) \/ n = Len(l) + 1
    BY <1>1, <1>2
  <2> QED BY <1>1, <1>4, <2>1, Zenon DEF NoDuplicates, elem_find
<1> QED BY <1>1, <1>3, <1>4, Zenon DEF list_append

(* list_push adds the element at the front and nothing else.               *)
LEMMA PushLemma ==
    ASSUME NEW S, NEW l \in Seq(S), NEW e \in S
    PROVE  /\ list_push(l, e) \in Seq(S)
           /\ list_push(l, e) # <<>>
           /\ Head(list_push(l, e)) = e
           /\ Tail(list_push(l, e)) = l
           /\ \A x : elem_find(list_push(l, e), x) <=> elem_find(l, x) \/ x = e
           /\ NoDuplicates(l) /\ ~elem_find(l, e) => NoDuplicates(list_push(l, e))
<1> DEFINE m == <<e>> \o l
<1>1. /\ m \in Seq(S)
      /\ Len(m) = Len(l) + 1
      /\ m[1] = e
      /\ \A i \in 1..Len(l) : m[i + 1] = l[i]
      /\ Len(l) \in Nat
  <2>1. /\ <<e>> \in Seq(S)
        /\ Len(<<e>>) = 1
        /\ <<e>>[1] = e
    OBVIOUS
  <2>2. /\ m \in Seq(S)
        /\ Len(m) = 1 + Len(l)
        /\ \A i \in 1..1 + Len(l) : m[i] = IF i <= 1 THEN <<e>>[i] ELSE l[i - 1]
    BY <2>1, ListConcat, Zenon
  <2>3. Len(l) \in Nat
    OBVIOUS
  <2> HIDE DEF m
  <2>4. m[1] = e
    BY <2>1, <2>2, <2>3
  <2>5. ASSUME NEW i \in 1..Len(l) PROVE m[i + 1] = l[i]
    <3>1. i + 1 \in 1..1 + Len(l) /\ ~(i + 1 <= 1) /\ (i + 1) - 1 = i
      BY <2>3
    <3> QED BY <2>2, <3>1, Zenon
  <2> QED BY <2>2, <2>3, <2>4, <2>5
<1>2. m # <<>>
  <2> HIDE DEF m
  <2> QED BY <1>1
<1>3. Head(m) = e /\ Tail(m) = l
  <2> HIDE DEF m
  <2>1. Head(m) = e
    BY <1>1, <1>2
  <2>2. /\ Tail(m) \in Seq(S)
        /\ Len(Tail(m)) = Len(l)
        /\ \A i \in 1..Len(Tail(m)) : Tail(m)[i] = m[i + 1]
    BY <1>1, <1>2, ListTail
  <2>3. Tail(m) = l
    BY <1>1, <2>2, ListEqual, Zenon
  <2> QED BY <2>1, <2>3, Zenon
<1>4. \A n \in 1..Len(m) : n = 1 \/ (n - 1 \in 1..Len(l) /\ m[n] = l[n - 1])
  <2> HIDE DEF m
  <2> TAKE n \in 1..Len(m)
  <2>1. n = 1 \/ (n - 1 \in 1..Len(l) /\ (n - 1) + 1 = n)
    BY <1>1
  <2> QED BY <1>1, <2>1, Zenon
<1>5. \A x : elem_find(m, x) <=> elem_find(l, x) \/ x = e
  <2> HIDE DEF m
  <2> TAKE x
  <2>1. ASSUME elem_find(m, x) PROVE elem_find(l, x) \/ x = e
    BY <1>1, <1>4, <2>1 DEF elem_find
  <2>2. ASSUME elem_find(l, x) PROVE elem_find(m, x)
    <3>1. PICK i \in 1..Len(l) : l[i] = x
      BY <2>2 DEF elem_find
    <3>2. i + 1 \in 1..Len(m)
      BY <1>1
    <3> QED BY <1>1, <3>1, <3>2, Zenon DEF elem_find
  <2>3. elem_find(m, e)
    <3>1. 1 \in 1..Len(m)
      BY <1>1
    <3> QED BY <1>1, <3>1, Zenon DEF elem_find
  <2> QED BY <2>1, <2>2, <2>3
<1>6. ASSUME NoDuplicates(l), ~elem_find(l, e)
      PROVE  NoDuplicates(m)
  <2> HIDE DEF m
  <2> SUFFICES ASSUME NEW i \in 1..Len(m), NEW j \in 1..Len(m), m[i] = m[j]
               PROVE  i = j
    BY DEF NoDuplicates
  <2>1. CASE i = 1 \/ j = 1
    BY <1>1, <1>4, <1>6, <2>1, Zenon DEF elem_find
  <2>2. CASE i # 1 /\ j # 1
    <3>1. i - 1 = j - 1
      BY <1>4, <1>6, <2>2, Zenon DEF NoDuplicates
    <3> QED BY <3>1
  <2> QED BY <2>1, <2>2, Zenon
<1> QED BY <1>1, <1>2, <1>3, <1>5, <1>6, Zenon DEF list_push

(* list_pop removes the first element and nothing else.                    *)
LEMMA PopLemma ==
    ASSUME NEW S, NEW l \in Seq(S), l # <<>>
    PROVE  /\ Head(l) \in S
           /\ elem_find(l, Head(l))
           /\ Tail(l) \in Seq(S)
           /\ NoDuplicates(l) =>
                /\ NoDuplicates(Tail(l))
                /\ \A x : elem_find(Tail(l), x) <=> elem_find(l, x) /\ x # Head(l)
<1> DEFINE m == Tail(l)
<1>1. /\ Head(l) \in S
      /\ m \in Seq(S)
      /\ Len(m) = Len(l) - 1
      /\ \A i \in 1..Len(m) : m[i] = l[i + 1]
  BY ListTail, Zenon
<1>2. Len(l) \in Nat \ {0} /\ Head(l) = l[1]
  OBVIOUS
<1> HIDE DEF m
<1>3. elem_find(l, Head(l))
  <2>1. 1 \in 1..Len(l)
    BY <1>2
  <2> QED BY <1>2, <2>1, Zenon DEF elem_find
<1>4. ASSUME NoDuplicates(l)
      PROVE  /\ NoDuplicates(m)
             /\ \A x : elem_find(m, x) <=> elem_find(l, x) /\ x # Head(l)
  <2>1. \A i \in 1..Len(m) : i + 1 \in 1..Len(l) /\ i + 1 # 1 /\ m[i] = l[i + 1]
    BY <1>1, <1>2
  <2>2. NoDuplicates(m)
    <3> SUFFICES ASSUME NEW i \in 1..Len(m), NEW j \in 1..Len(m), m[i] = m[j]
                 PROVE  i = j
      BY Zenon DEF NoDuplicates
    <3>1. i + 1 = j + 1
      BY <1>4, <2>1, Zenon DEF NoDuplicates
    <3> QED BY <3>1
  <2>3. ASSUME NEW x, elem_find(m, x)
        PROVE  elem_find(l, x) /\ x # Head(l)
    <3>1. PICK i \in 1..Len(m) : m[i] = x
      BY <2>3, Zenon DEF elem_find
    <3>2. 1 \in 1..Len(l)
      BY <1>2
    <3> QED BY <1>2, <1>4, <2>1, <3>1, <3>2, Zenon DEF elem_find, NoDuplicates
  <2>4. ASSUME NEW x, elem_find(l, x), x # Head(l)
        PROVE  elem_find(m, x)
    <3>1. PICK i \in 1..Len(l) : l[i] = x
      BY <2>4, Zenon DEF elem_find
    <3>2. i # 1
      BY <1>2, <2>4, <3>1, Zenon
    <3>3. i - 1 \in 1..Len(m) /\ (i - 1) + 1 = i
      BY <1>1, <1>2, <3>2
    <3> QED BY <2>1, <3>1, <3>3, Zenon DEF elem_find
  <2> QED BY <2>2, <2>3, <2>4, Zenon
<1> QED BY <1>1, <1>3, <1>4, Zenon DEF m

-----------------------------------------------------------------------------
(* An ASSERT whose condition holds changes nothing.                        *)
LEMMA AssertLemma ==
    ASSUME NEW s \in SchedState, NEW cond, cond = TRUE
    PROVE  ASSERT(s, cond) = s
BY Zenon DEF ASSERT, SchedState

(* thread_unblock moves a blocked thread to the front of the ready list.   *)
LEMMA UnblockLemma ==
    ASSUME NEW s \in SchedState, NEW t \in Threads,
           s.status[t] = "BLOCKED",
           \A u \in Threads : s.status[u] = "READY" <=> elem_find(s.ready, u),
           NoDuplicates(s.ready)
    PROVE  LET r == thread_unblock(s, t) IN
           /\ r \in SchedState
           /\ r.cur = s.cur
           /\ r.ready = list_push(s.ready, t)
           /\ r.status = [s.status EXCEPT ![t] = "READY"]
           /\ r.ticks = s.ticks
           /\ r.panic = s.panic
           /\ \A u \in Threads : r.status[u] = "READY" <=> elem_find(r.ready, u)
           /\ NoDuplicates(r.ready)
<1>1. ~elem_find(s.ready, t)
  BY Zenon
<1>2. ASSERT(s, s.status[t] = "BLOCKED" /\ ~elem_find(s.ready, t)) = s
  BY <1>1, AssertLemma, Zenon
<1>3. thread_unblock(s, t)
        = [s EXCEPT !.ready = list_push(s.ready, t), !.status[t] = "READY"]
  BY <1>2, Zenon DEF thread_unblock
<1> DEFINE r == [s EXCEPT !.ready = list_push(s.ready, t), !.status[t] = "READY"]
<1>4. s.ready \in Seq(Threads)
  BY Zenon DEF SchedState
<1>5. /\ list_push(s.ready, t) \in Seq(Threads)
      /\ \A x : elem_find(list_push(s.ready, t), x) <=> elem_find(s.ready, x) \/ x = t
      /\ NoDuplicates(list_push(s.ready, t))
  BY <1>1, <1>4, PushLemma
<1>6. /\ r \in SchedState
      /\ r.cur = s.cur
      /\ r.ready = list_push(s.ready, t)
      /\ r.status = [s.status EXCEPT ![t] = "READY"]
      /\ r.ticks = s.ticks
      /\ r.panic = s.panic
  BY <1>5, Zenon DEF SchedState, Status
<1> HIDE DEF r
<1>7. \A u \in Threads : r.status[u] = "READY" <=> elem_find(r.ready, u)
  <2> SUFFICES ASSUME NEW u \in Threads
               PROVE  r.status[u] = "READY" <=> elem_find(list_push(s.ready, t), u)
    BY <1>6, Zenon
  <2>1. s.status \in [Threads -> Status]
    BY Zenon DEF SchedState
  <2>2. r.status[u] = IF u = t THEN "READY" ELSE s.status[u]
    BY <1>6, <2>1, Zenon
  <2> QED BY <1>5, <2>2, Zenon
<1> QED BY <1>3, <1>5, <1>6, <1>7, Zenon DEF r

(* thread_unblock in a consistent scheduler: the thread becomes READY, and  *)
(* nothing else changes its state.                                         *)
LEMMA WakeLemma ==
    ASSUME NEW s \in SchedState, SchedConsistent(s), NEW t \in Threads,
           s.status[t] = "BLOCKED", NEW r, r = thread_unblock(s, t)
    PROVE  /\ r \in SchedState /\ SchedConsistent(r)
           /\ r.cur = s.cur /\ r.panic = s.panic
           /\ r.status[t] = "READY"
           /\ \A u \in Threads : u # t => r.status[u] = s.status[u]
<1>1. /\ \A u \in Threads : s.status[u] = "READY" <=> elem_find(s.ready, u)
      /\ \A u \in Threads : s.status[u] = "RUNNING" <=> u = s.cur
      /\ NoDuplicates(s.ready)
  BY Zenon DEF SchedConsistent
<1>2. /\ r \in SchedState /\ r.cur = s.cur /\ r.panic = s.panic
      /\ r.status = [s.status EXCEPT ![t] = "READY"]
      /\ \A u \in Threads : r.status[u] = "READY" <=> elem_find(r.ready, u)
      /\ NoDuplicates(r.ready)
  BY <1>1, UnblockLemma
<1>3. s.status \in [Threads -> Status]
  BY Zenon DEF SchedState
<1>4. r.status[t] = "READY" /\ \A u \in Threads : u # t => r.status[u] = s.status[u]
  BY <1>2, <1>3, Zenon
<1>5. \A u \in Threads : r.status[u] = "RUNNING" <=> u = r.cur
  <2> SUFFICES ASSUME NEW u \in Threads
               PROVE  r.status[u] = "RUNNING" <=> u = r.cur
    BY Zenon
  <2>1. s.status[u] = "RUNNING" <=> u = s.cur
    BY <1>1, Zenon
  <2>2. r.cur = s.cur
    BY <1>2, Zenon
  <2> QED BY <1>4, <2>1, <2>2, Zenon
<1>6. SchedConsistent(r)
  BY <1>2, <1>5, Zenon DEF SchedConsistent
<1> QED BY <1>2, <1>4, <1>6, Zenon

(* The end of schedule: idle is woken if nothing is ready, and the first   *)
(* ready thread runs.  The status of every other thread stays as it is.    *)
LEMMA SwitchLemma ==
    ASSUME NEW s \in SchedState, Between(s), s.status[Idle] # "NONE"
    PROVE  LET r == switch_to(wake_idle(s)) IN
           /\ r \in SchedState
           /\ SchedConsistent(r)
           /\ r.panic = s.panic
           /\ r.ticks = s.ticks
           /\ r.status[Idle] # "NONE"
           /\ r.status[Idle] = "READY" => s.status[Idle] = "READY"
           /\ r.cur = Idle /\ s.status[Idle] # "READY" => r.ready = <<>>
           /\ \A t \in Threads \ {Idle} :
                /\ r.status[t] = "BLOCKED" <=> s.status[t] = "BLOCKED"
                /\ r.status[t] = "NONE" <=> s.status[t] = "NONE"
           /\ s.ready # <<>> =>
                /\ r.cur = Head(s.ready)
                /\ r.ready = Tail(s.ready)
                /\ \A t \in Threads \ {r.cur} : r.status[t] = s.status[t]
<1> DEFINE w == wake_idle(s)
           r == switch_to(w)
<1>0. Idle \in Threads /\ s.ready \in Seq(Threads)
  BY SchedAssumption, Zenon DEF SchedState
<1>1. /\ w \in SchedState
      /\ Between(w)
      /\ w.ready # <<>>
      /\ w.panic = s.panic
      /\ w.ticks = s.ticks
      /\ \A t \in Threads \ {Idle} : w.status[t] = s.status[t]
      /\ w.status[Idle] = "READY" \/ w.status[Idle] = s.status[Idle]
      /\ s.ready = <<>> => Head(w.ready) = Idle /\ Tail(w.ready) = <<>>
      /\ s.ready # <<>> => w = s
  <2>1. CASE s.ready = <<>>
    <3>1. ~elem_find(s.ready, Idle)
      BY <2>1 DEF elem_find
    <3>2. s.status[Idle] = "BLOCKED"
      BY <1>0, <3>1, Zenon DEF Between, SchedState, Status
    <3>3. w = thread_unblock(s, Idle)
      BY <2>1, Zenon DEF wake_idle
    <3> HIDE DEF w
    <3>4. /\ w \in SchedState
          /\ w.ready = list_push(s.ready, Idle)
          /\ w.status = [s.status EXCEPT ![Idle] = "READY"]
          /\ w.ticks = s.ticks
          /\ w.panic = s.panic
          /\ \A u \in Threads : w.status[u] = "READY" <=> elem_find(w.ready, u)
          /\ NoDuplicates(w.ready)
      BY <1>0, <3>2, <3>3, UnblockLemma, Zenon DEF Between
    <3>5. w.ready # <<>> /\ Head(w.ready) = Idle /\ Tail(w.ready) = <<>>
      <4>1. /\ list_push(s.ready, Idle) # <<>>
            /\ Head(list_push(s.ready, Idle)) = Idle
            /\ Tail(list_push(s.ready, Idle)) = s.ready
        <5> DEFINE l == s.ready
        <5>1. l \in Seq(Threads) /\ Idle \in Threads
          BY <1>0, Zenon
        <5> HIDE DEF l
        <5>2. /\ list_push(l, Idle) # <<>>
              /\ Head(list_push(l, Idle)) = Idle
              /\ Tail(list_push(l, Idle)) = l
          BY ONLY <5>1, PushLemma, Zenon
        <5> QED BY <5>2, Zenon DEF l
      <4> QED BY <2>1, <3>4, <4>1, Zenon
    <3>6. Between(w)
      BY <1>0, <3>4 DEF Between, SchedState
    <3> QED BY <1>0, <2>1, <3>4, <3>5, <3>6, Zenon DEF SchedState
  <2>2. CASE s.ready # <<>>
    <3>1. w = s
      BY <2>2, Zenon DEF wake_idle
    <3> QED BY <2>2, <3>1, Zenon
  <2> QED BY <2>1, <2>2, Zenon
<1> HIDE DEF w
<1>2. /\ Head(w.ready) \in Threads
      /\ elem_find(w.ready, Head(w.ready))
      /\ Tail(w.ready) \in Seq(Threads)
      /\ NoDuplicates(Tail(w.ready))
      /\ \A x : elem_find(Tail(w.ready), x) <=> elem_find(w.ready, x) /\ x # Head(w.ready)
  <2>1. w.ready \in Seq(Threads) /\ NoDuplicates(w.ready)
    BY <1>1, Zenon DEF SchedState, Between
  <2> QED BY <1>1, <2>1, PopLemma, Zenon
<1>3. /\ r \in SchedState
      /\ r.cur = Head(w.ready)
      /\ r.ready = Tail(w.ready)
      /\ r.status = [w.status EXCEPT ![Head(w.ready)] = "RUNNING"]
      /\ r.ticks = w.ticks
      /\ r.panic = w.panic
  <2> DEFINE h == Head(w.ready)
             q == Tail(w.ready)
  <2>1. r = [w EXCEPT !.cur = h, !.ready = q, !.status[h] = "RUNNING"]
    BY Zenon DEF switch_to
  <2>2. h \in Threads /\ q \in Seq(Threads) /\ w \in SchedState
    BY <1>1, <1>2, Zenon
  <2> HIDE DEF h, q, r
  <2>3. /\ r.cur = h
        /\ r.ready = q
        /\ r.status = [w.status EXCEPT ![h] = "RUNNING"]
        /\ r.ticks = w.ticks
        /\ r.panic = w.panic
    BY <2>1, <2>2, Zenon DEF SchedState
  <2>4. [w.status EXCEPT ![h] = "RUNNING"] \in [Threads -> Status]
    BY <2>2, Zenon DEF SchedState, Status
  <2>5. r \in SchedState
    <3>1. r = [cur |-> h, ready |-> q, status |-> [w.status EXCEPT ![h] = "RUNNING"],
               ticks |-> w.ticks, panic |-> w.panic]
      BY <2>1, <2>2, Zenon DEF SchedState
    <3>2. w.ticks \in [Threads -> 0..255] /\ w.panic \in BOOLEAN
      BY <2>2, Zenon DEF SchedState
    <3> QED BY <2>2, <2>4, <3>1, <3>2, Zenon DEF SchedState
  <2> QED BY <2>3, <2>5, Zenon DEF h, q
<1>4. w.status \in [Threads -> Status]
  BY <1>1, Zenon DEF SchedState
<1> HIDE DEF r
<1>5. SchedConsistent(r)
  <2>0. \A t \in Threads : r.status[t] = IF t = r.cur THEN "RUNNING" ELSE w.status[t]
    BY <1>3, <1>4, Zenon
  <2>1. \A t \in Threads : r.status[t] = "RUNNING" <=> t = r.cur
    BY <1>1, <2>0, Zenon DEF Between
  <2>2. \A t \in Threads : r.status[t] = "READY" <=> elem_find(r.ready, t)
    <3> SUFFICES ASSUME NEW t \in Threads
                 PROVE  r.status[t] = "READY" <=> elem_find(r.ready, t)
      BY Zenon
    <3>1. elem_find(r.ready, t) <=> elem_find(w.ready, t) /\ t # r.cur
      BY <1>2, <1>3, Zenon
    <3>2. w.status[t] = "READY" <=> elem_find(w.ready, t)
      BY <1>1, Zenon DEF Between
    <3> QED BY <2>0, <3>1, <3>2, Zenon
  <2> QED BY <1>2, <1>3, <2>1, <2>2, Zenon DEF SchedConsistent
<1>6. w.status[Head(w.ready)] = "READY"
  BY <1>1, <1>2, Zenon DEF Between
<1>7. \A t \in Threads \ {Idle} :
        /\ r.status[t] = "BLOCKED" <=> s.status[t] = "BLOCKED"
        /\ r.status[t] = "NONE" <=> s.status[t] = "NONE"
  BY <1>1, <1>2, <1>3, <1>4, <1>6, Zenon
<1>8. r.status[Idle] # "NONE"
  BY <1>0, <1>1, <1>2, <1>3, <1>4, Zenon
<1>9. r.status[Idle] = "READY" => s.status[Idle] = "READY"
  BY <1>0, <1>1, <1>2, <1>3, <1>4, Zenon
<1>10. r.cur = Idle /\ s.status[Idle] # "READY" => r.ready = <<>>
  BY <1>1, <1>3, <1>6, Zenon
<1>11. s.ready # <<>> =>
        /\ r.cur = Head(s.ready)
        /\ r.ready = Tail(s.ready)
        /\ \A t \in Threads \ {r.cur} : r.status[t] = s.status[t]
  BY <1>1, <1>2, <1>3, <1>4
<1> QED BY <1>1, <1>3, <1>5, <1>7, <1>8, <1>9, <1>10, <1>11, Zenon DEF r, w

(* What schedule, thread_block, thread_yield and the timer have in common: *)
(* the result is consistent, no ASSERT failed, and among the threads other *)
(* than idle nobody else is blocked, unblocked or created.                 *)
Kept(s, r, others) ==
    /\ r \in SchedState
    /\ SchedConsistent(r)
    /\ r.panic = s.panic
    /\ r.status[Idle] # "NONE"
    /\ \A t \in others \ {Idle} :
        /\ r.status[t] = "BLOCKED" <=> s.status[t] = "BLOCKED"
        /\ r.status[t] = "NONE" <=> s.status[t] = "NONE"

(* schedule called by the timer: the running thread is preempted.          *)
LEMMA ScheduleLemma ==
    ASSUME NEW s \in SchedState, SchedConsistent(s), s.status[Idle] # "NONE"
    PROVE  LET r == schedule(s) IN
           /\ Kept(s, r, Threads)
           /\ s.cur = Idle /\ s.ready = <<>> =>
                r.cur = Idle /\ r.ready = <<>> /\ r.status[Idle] = "RUNNING"
           /\ s.cur # Idle =>
                /\ r.status[Idle] = "READY" => s.status[Idle] = "READY"
                /\ r.cur = Idle /\ s.status[Idle] # "READY" => r.ready = <<>>
<1> DEFINE p == preempt(s)
           r == switch_to(wake_idle(p))
<1>0. Idle \in Threads /\ s.cur \in Threads /\ s.ready \in Seq(Threads)
  BY SchedAssumption, Zenon DEF SchedState
<1>1. /\ s.status[s.cur] = "RUNNING"
      /\ ~elem_find(s.ready, s.cur)
      /\ NoDuplicates(s.ready)
  BY <1>0, Zenon DEF SchedConsistent
<1>2. ASSERT(s, ~elem_find(s.ready, s.cur)) = s
  BY <1>1, AssertLemma, Zenon
<1>3. p = [s EXCEPT !.ready         = list_append(s.ready, s.cur),
                    !.ticks[s.cur]  = Priority[s.cur],
                    !.status[s.cur] = "READY"]
  BY <1>1, <1>2, Zenon DEF preempt
<1>4. /\ list_append(s.ready, s.cur) \in Seq(Threads)
      /\ list_append(s.ready, s.cur) # <<>>
      /\ \A x : elem_find(list_append(s.ready, s.cur), x)
                  <=> elem_find(s.ready, x) \/ x = s.cur
      /\ NoDuplicates(list_append(s.ready, s.cur))
  <2> DEFINE l == s.ready
             e == s.cur
  <2>1. l \in Seq(Threads) /\ e \in Threads /\ NoDuplicates(l) /\ ~elem_find(l, e)
    BY <1>0, <1>1, Zenon
  <2> HIDE DEF l, e
  <2>2. /\ list_append(l, e) \in Seq(Threads)
        /\ list_append(l, e) # <<>>
        /\ \A x : elem_find(list_append(l, e), x) <=> elem_find(l, x) \/ x = e
        /\ NoDuplicates(list_append(l, e))
    BY <2>1, AppendLemma, Zenon
  <2> QED BY <2>2, Zenon DEF l, e
<1>5. Priority[s.cur] \in 0..255
  BY <1>0, SchedAssumption, Zenon
<1> HIDE DEF p
<1>6. /\ p \in SchedState
      /\ p.ready = list_append(s.ready, s.cur)
      /\ p.status = [s.status EXCEPT ![s.cur] = "READY"]
      /\ p.panic = s.panic
      /\ s.status \in [Threads -> Status]
  BY <1>0, <1>3, <1>4, <1>5, Zenon DEF SchedState, Status
<1>7. Between(p)
  BY <1>0, <1>4, <1>6 DEF Between, SchedConsistent
<1>8. p.status[Idle] # "NONE"
  BY <1>0, <1>6, Zenon
<1>9. /\ r \in SchedState
      /\ SchedConsistent(r)
      /\ r.panic = p.panic
      /\ r.status[Idle] # "NONE"
      /\ r.status[Idle] = "READY" => p.status[Idle] = "READY"
      /\ r.cur = Idle /\ p.status[Idle] # "READY" => r.ready = <<>>
      /\ \A t \in Threads \ {Idle} :
            /\ r.status[t] = "BLOCKED" <=> p.status[t] = "BLOCKED"
            /\ r.status[t] = "NONE" <=> p.status[t] = "NONE"
      /\ p.ready # <<>> => r.cur = Head(p.ready) /\ r.ready = Tail(p.ready)
  BY <1>6, <1>7, <1>8, SwitchLemma, Zenon
<1> HIDE DEF r
<1>10. Kept(s, r, Threads)
  BY <1>0, <1>1, <1>6, <1>9 DEF Kept
<1>11. ASSUME s.cur = Idle, s.ready = <<>>
       PROVE  r.cur = Idle /\ r.ready = <<>> /\ r.status[Idle] = "RUNNING"
  <2>1. /\ p.ready # <<>>
        /\ Head(p.ready) = Idle
        /\ Tail(p.ready) = <<>>
    BY <1>4, <1>6, <1>11, <1>0 DEF list_append
  <2> QED BY <1>0, <1>9, <2>1, Zenon DEF SchedConsistent
<1>12. ASSUME s.cur # Idle
       PROVE  /\ r.status[Idle] = "READY" => s.status[Idle] = "READY"
              /\ r.cur = Idle /\ s.status[Idle] # "READY" => r.ready = <<>>
  BY <1>0, <1>6, <1>9, <1>12, Zenon
<1>13. schedule(s) = r
  BY Zenon DEF schedule, r, p
<1> QED BY <1>10, <1>11, <1>12, <1>13, Zenon

(* thread_block: the running thread blocks and another one runs.           *)
LEMMA BlockLemma ==
    ASSUME NEW s \in SchedState, SchedConsistent(s), s.status[Idle] # "NONE"
    PROVE  LET r == thread_block(s) IN
           /\ Kept(s, r, Threads \ {s.cur})
           /\ s.cur # Idle => r.status[s.cur] = "BLOCKED"
           /\ s.cur # Idle => (r.status[Idle] = "READY" => s.status[Idle] = "READY")
           /\ s.cur = Idle => r.status[Idle] # "READY"
           /\ r.cur = Idle /\ s.status[Idle] # "READY" => r.ready = <<>>
<1> DEFINE b == [s EXCEPT !.status[s.cur] = "BLOCKED"]
           r == switch_to(wake_idle(b))
<1>0. Idle \in Threads /\ s.cur \in Threads
  BY SchedAssumption, Zenon DEF SchedState
<1>1. /\ b \in SchedState
      /\ b.cur = s.cur
      /\ b.ready = s.ready
      /\ b.status = [s.status EXCEPT ![s.cur] = "BLOCKED"]
      /\ b.panic = s.panic
      /\ s.status \in [Threads -> Status]
  BY <1>0, Zenon DEF SchedState, Status
<1> HIDE DEF b
<1>2. Between(b)
  BY <1>0, <1>1 DEF Between, SchedConsistent
<1>3. b.status[Idle] # "NONE"
  BY <1>0, <1>1, Zenon
<1>4. preempt(b) = b
  BY <1>0, <1>1, Zenon DEF preempt
<1>5. /\ r \in SchedState
      /\ SchedConsistent(r)
      /\ r.panic = b.panic
      /\ r.status[Idle] # "NONE"
      /\ r.status[Idle] = "READY" => b.status[Idle] = "READY"
      /\ r.cur = Idle /\ b.status[Idle] # "READY" => r.ready = <<>>
      /\ \A t \in Threads \ {Idle} :
            /\ r.status[t] = "BLOCKED" <=> b.status[t] = "BLOCKED"
            /\ r.status[t] = "NONE" <=> b.status[t] = "NONE"
  BY <1>1, <1>2, <1>3, SwitchLemma, Zenon
<1> HIDE DEF r
<1>6. Kept(s, r, Threads \ {s.cur})
  BY <1>0, <1>1, <1>5 DEF Kept
<1>7. s.cur # Idle => r.status[s.cur] = "BLOCKED"
  BY <1>0, <1>1, <1>5, Zenon
<1>8. s.cur # Idle => (r.status[Idle] = "READY" => s.status[Idle] = "READY")
  BY <1>0, <1>1, <1>5, Zenon
<1>9. s.cur = Idle => r.status[Idle] # "READY"
  BY <1>0, <1>1, <1>5, Zenon
<1>10. r.cur = Idle /\ s.status[Idle] # "READY" => r.ready = <<>>
  BY <1>0, <1>1, <1>5, Zenon
<1>11. thread_block(s) = r
  BY <1>4, Zenon DEF thread_block, schedule, r, b
<1> QED BY <1>6, <1>7, <1>8, <1>9, <1>10, <1>11, Zenon

(* thread_yield by a thread other than idle.                               *)
LEMMA YieldLemma ==
    ASSUME NEW s \in SchedState, SchedConsistent(s), s.status[Idle] # "NONE",
           s.cur # Idle
    PROVE  LET r == thread_yield(s) IN
           /\ Kept(s, r, Threads)
           /\ r.status[Idle] = "READY" => s.status[Idle] = "READY"
           /\ r.cur = Idle /\ s.status[Idle] # "READY" => r.ready = <<>>
<1> DEFINE y == [s EXCEPT !.ready         = list_append(s.ready, s.cur),
                          !.status[s.cur] = "READY"]
           r == switch_to(wake_idle(y))
<1>0. Idle \in Threads /\ s.cur \in Threads /\ s.ready \in Seq(Threads)
  BY SchedAssumption, Zenon DEF SchedState
<1>1. /\ s.status[s.cur] = "RUNNING"
      /\ ~elem_find(s.ready, s.cur)
      /\ NoDuplicates(s.ready)
  BY <1>0, Zenon DEF SchedConsistent
<1>2. ASSERT(s, ~elem_find(s.ready, s.cur)) = s
  BY <1>1, AssertLemma, Zenon
<1>3. /\ list_append(s.ready, s.cur) \in Seq(Threads)
      /\ \A x : elem_find(list_append(s.ready, s.cur), x)
                  <=> elem_find(s.ready, x) \/ x = s.cur
      /\ NoDuplicates(list_append(s.ready, s.cur))
  <2> DEFINE l == s.ready
             e == s.cur
  <2>1. l \in Seq(Threads) /\ e \in Threads /\ NoDuplicates(l) /\ ~elem_find(l, e)
    BY <1>0, <1>1, Zenon
  <2> HIDE DEF l, e
  <2>2. /\ list_append(l, e) \in Seq(Threads)
        /\ \A x : elem_find(list_append(l, e), x) <=> elem_find(l, x) \/ x = e
        /\ NoDuplicates(list_append(l, e))
    BY <2>1, AppendLemma, Zenon
  <2> QED BY <2>2, Zenon DEF l, e
<1>4. /\ y \in SchedState
      /\ y.cur = s.cur
      /\ y.ready = list_append(s.ready, s.cur)
      /\ y.status = [s.status EXCEPT ![s.cur] = "READY"]
      /\ y.panic = s.panic
      /\ s.status \in [Threads -> Status]
  BY <1>0, <1>3, Zenon DEF SchedState, Status
<1>5. thread_yield(s) = schedule(y)
  BY <1>2, Zenon DEF thread_yield
<1> HIDE DEF y
<1>6. Between(y)
  BY <1>0, <1>3, <1>4 DEF Between, SchedConsistent
<1>7. y.status[Idle] # "NONE" /\ y.status[Idle] = s.status[Idle]
  BY <1>0, <1>4, Zenon
<1>8. preempt(y) = y
  BY <1>0, <1>4, Zenon DEF preempt
<1>9. /\ r \in SchedState
      /\ SchedConsistent(r)
      /\ r.panic = y.panic
      /\ r.status[Idle] # "NONE"
      /\ r.status[Idle] = "READY" => y.status[Idle] = "READY"
      /\ r.cur = Idle /\ y.status[Idle] # "READY" => r.ready = <<>>
      /\ \A t \in Threads \ {Idle} :
            /\ r.status[t] = "BLOCKED" <=> y.status[t] = "BLOCKED"
            /\ r.status[t] = "NONE" <=> y.status[t] = "NONE"
  BY <1>4, <1>6, <1>7, SwitchLemma, Zenon
<1>10. thread_yield(s) = r
  BY <1>5, <1>8, Zenon DEF schedule
<1> HIDE DEF r
<1>11. Kept(s, r, Threads)
  BY <1>0, <1>1, <1>4, <1>9 DEF Kept
<1> QED BY <1>7, <1>9, <1>10, <1>11, Zenon

(* process_execute makes one new thread ready.                             *)
LEMMA MakeReadyLemma ==
    ASSUME NEW s \in SchedState, SchedConsistent(s),
           NEW t \in Threads, s.status[t] = "NONE"
    PROVE  LET r == make_ready(s, t) IN
           /\ r \in SchedState
           /\ SchedConsistent(r)
           /\ r.cur = s.cur
           /\ r.status = [s.status EXCEPT ![t] = "READY"]
           /\ r.panic = s.panic
<1> DEFINE r == [s EXCEPT !.ready     = list_append(s.ready, t),
                          !.status[t] = "READY",
                          !.ticks[t]  = Priority[t]]
<1>0. s.ready \in Seq(Threads) /\ s.cur \in Threads /\ Priority[t] \in 0..255
  BY SchedAssumption DEF SchedState
<1>1. ~elem_find(s.ready, t) /\ NoDuplicates(s.ready)
  BY Zenon DEF SchedConsistent
<1>2. ASSERT(s, ~elem_find(s.ready, t)) = s
  BY <1>1, AssertLemma, Zenon
<1>3. make_ready(s, t) = r
  BY <1>2, Zenon DEF make_ready
<1>4. /\ list_append(s.ready, t) \in Seq(Threads)
      /\ \A x : elem_find(list_append(s.ready, t), x) <=> elem_find(s.ready, x) \/ x = t
      /\ NoDuplicates(list_append(s.ready, t))
  BY <1>0, <1>1, AppendLemma, Zenon
<1>5. /\ r \in SchedState
      /\ r.cur = s.cur
      /\ r.ready = list_append(s.ready, t)
      /\ r.status = [s.status EXCEPT ![t] = "READY"]
      /\ r.panic = s.panic
      /\ s.status \in [Threads -> Status]
  BY <1>0, <1>4, Zenon DEF SchedState, Status
<1> HIDE DEF r
<1>6. SchedConsistent(r)
  <2>1. \A u \in Threads : r.status[u] = "RUNNING" <=> u = r.cur
    BY <1>0, <1>5 DEF SchedConsistent
  <2>2. \A u \in Threads : r.status[u] = "READY" <=> elem_find(r.ready, u)
    BY <1>4, <1>5, Zenon DEF SchedConsistent
  <2> QED BY <1>4, <1>5, <2>1, <2>2, Zenon DEF SchedConsistent
<1> QED BY <1>3, <1>5, <1>6, Zenon

(* The timer handler: one tick less, or preemption.                        *)
LEMMA TimerLemma ==
    ASSUME NEW s \in SchedState, SchedConsistent(s), s.status[Idle] # "NONE"
    PROVE  LET r == intr_timer_handler(s) IN
           /\ Kept(s, r, Threads)
           /\ s.cur = Idle /\ s.ready = <<>> =>
                r.cur = Idle /\ r.ready = <<>> /\ r.status[Idle] = "RUNNING"
           /\ s.cur # Idle =>
                /\ r.status[Idle] = "READY" => s.status[Idle] = "READY"
                /\ r.cur = Idle /\ s.status[Idle] # "READY" => r.ready = <<>>
<1>1. CASE s.ticks[s.cur] = 0
  <2>1. intr_timer_handler(s) = schedule(s)
    BY <1>1, Zenon DEF intr_timer_handler
  <2> QED BY <2>1, ScheduleLemma
<1>2. CASE s.ticks[s.cur] # 0
  <2> DEFINE r == [s EXCEPT !.ticks[s.cur] = s.ticks[s.cur] - 1]
  <2>1. intr_timer_handler(s) = r
    BY <1>2, Zenon DEF intr_timer_handler
  <2>2. s.cur \in Threads /\ Idle \in Threads /\ s.ticks[s.cur] - 1 \in 0..255
    BY <1>2, SchedAssumption DEF SchedState
  <2>3. /\ r \in SchedState
        /\ r.cur = s.cur
        /\ r.ready = s.ready
        /\ r.status = s.status
        /\ r.panic = s.panic
    <3> DEFINE k == [s.ticks EXCEPT ![s.cur] = s.ticks[s.cur] - 1]
    <3>1. k \in [Threads -> 0..255]
      BY <2>2, Zenon DEF SchedState
    <3>2. r = [s EXCEPT !.ticks = k]
      BY Zenon
    <3> HIDE DEF k, r
    <3> QED BY <3>1, <3>2, Zenon DEF SchedState
  <2> HIDE DEF r
  <2>4. Kept(s, r, Threads)
    BY <2>3, Zenon DEF Kept, SchedConsistent
  <2>5. s.cur = Idle => r.status[Idle] = "RUNNING"
    BY <2>2, <2>3, Zenon DEF SchedConsistent
  <2> QED BY <2>1, <2>3, <2>4, <2>5, Zenon
<1> QED BY <1>1, <1>2, Zenon

-----------------------------------------------------------------------------
(* Only threads of B run or are queued.                                    *)
Within(s, B) == s \in SchedState /\ s.cur \in B /\ s.ready \in Seq(B)

LEMMA AssertWithin ==
    ASSUME NEW B, NEW s, Within(s, B), NEW cond
    PROVE  LET r == ASSERT(s, cond) IN
           /\ Within(r, B) /\ r.cur = s.cur /\ r.ready = s.ready
           /\ r.status = s.status /\ r.ticks = s.ticks
BY Zenon DEF Within, ASSERT, SchedState

LEMMA UnblockWithin ==
    ASSUME NEW B \in SUBSET Threads, NEW s, Within(s, B), NEW t \in B
    PROVE  LET r == thread_unblock(s, t) IN Within(r, B) /\ r.ready # <<>>
<1> DEFINE a == ASSERT(s, s.status[t] = "BLOCKED" /\ ~elem_find(s.ready, t))
           l == list_push(a.ready, t)
<1>1. Within(a, B) /\ t \in Threads
  BY AssertWithin, Zenon
<1>2. thread_unblock(s, t) = [a EXCEPT !.ready = l, !.status[t] = "READY"]
  BY Zenon DEF thread_unblock
<1> HIDE DEF a
<1>3. a.ready \in Seq(B)
  BY <1>1, Zenon DEF Within
<1>4. l \in Seq(B) /\ l # <<>>
  BY <1>3, PushLemma, Zenon
<1> HIDE DEF l
<1>5. l \in Seq(Threads)
  BY <1>4
<1>6. [a EXCEPT !.ready = l, !.status[t] = "READY"] \in SchedState
  BY <1>1, <1>5, Zenon DEF Within, SchedState, Status
<1>7. /\ [a EXCEPT !.ready = l, !.status[t] = "READY"].cur = a.cur
      /\ [a EXCEPT !.ready = l, !.status[t] = "READY"].ready = l
  BY <1>1, Zenon DEF Within, SchedState
<1> QED BY <1>1, <1>2, <1>4, <1>6, <1>7, Zenon DEF Within

LEMMA AppendWithin ==
    ASSUME NEW B \in SUBSET Threads, NEW s, Within(s, B), NEW t \in B,
           NEW ticks \in [Threads -> 0..255]
    PROVE  LET r == [s EXCEPT !.ready = list_append(@, t), !.ticks = ticks, !.status[t] = "READY"]
           IN  Within(r, B) /\ r.ready # <<>>
<1>1. s.ready \in Seq(B)
  BY Zenon DEF Within
<1>2. list_append(s.ready, t) \in Seq(B) /\ list_append(s.ready, t) # <<>>
  <2> DEFINE q == s.ready
  <2>1. q \in Seq(B)
    BY <1>1
  <2> HIDE DEF q
  <2>2. list_append(q, t) \in Seq(B) /\ list_append(q, t) # <<>>
    BY <2>1, AppendLemma
  <2> QED BY <2>2 DEF q
<1>3. list_append(s.ready, t) \in Seq(Threads)
  BY <1>2
<1> QED BY <1>2, <1>3, Zenon DEF Within, SchedState, Status

LEMMA SwitchWithin ==
    ASSUME NEW B \in SUBSET Threads, Idle \in B, NEW s, Within(s, B)
    PROVE  Within(switch_to(wake_idle(s)), B)
<1> DEFINE w == wake_idle(s)
<1>1. Within(w, B) /\ w.ready # <<>>
  BY UnblockWithin, Zenon DEF wake_idle
<1>2. Head(w.ready) \in B /\ Tail(w.ready) \in Seq(B)
  BY <1>1, PopLemma, Zenon DEF Within
<1>3. Tail(w.ready) \in Seq(Threads) /\ Head(w.ready) \in Threads
  BY <1>2
<1> HIDE DEF w
<1>4. Within(switch_to(w), B)
  BY <1>1, <1>2, <1>3, Zenon DEF Within, switch_to, SchedState, Status
<1> QED BY <1>4, Zenon DEF w

LEMMA ScheduleWithin ==
    ASSUME NEW B \in SUBSET Threads, Idle \in B, NEW s, Within(s, B)
    PROVE  Within(schedule(s), B)
<1>1. Within(preempt(s), B)
  <2>1. CASE s.status[s.cur] = "RUNNING"
    <3> DEFINE a == ASSERT(s, ~elem_find(s.ready, s.cur))
    <3>1. Within(a, B) /\ s.cur \in B /\ s.cur \in Threads
      BY AssertWithin, Zenon DEF Within
    <3>2. [a.ticks EXCEPT ![s.cur] = Priority[s.cur]] \in [Threads -> 0..255]
      <4>1. a.ticks \in [Threads -> 0..255] /\ Priority[s.cur] \in 0..255
        <5> HIDE DEF a
        <5> QED BY <3>1, SchedAssumption, Zenon DEF Within, SchedState
      <4> HIDE DEF a
      <4> QED BY <3>1, <4>1, Zenon
    <3> DEFINE r == [a EXCEPT !.ready = list_append(@, s.cur),
                              !.ticks = [a.ticks EXCEPT ![s.cur] = Priority[s.cur]],
                              !.status[s.cur] = "READY"]
    <3>3. Within(r, B)
      BY <3>1, <3>2, AppendWithin, Zenon
    <3>4. preempt(s) = r
      BY <2>1, Zenon DEF preempt
    <3> QED BY <3>3, <3>4, Zenon
  <2>2. CASE s.status[s.cur] # "RUNNING"
    BY <2>2, Zenon DEF preempt
  <2> QED BY <2>1, <2>2, Zenon
<1> QED BY <1>1, SwitchWithin, Zenon DEF schedule

LEMMA BlockWithin ==
    ASSUME NEW B \in SUBSET Threads, Idle \in B, NEW s, Within(s, B)
    PROVE  Within(thread_block(s), B)
<1>1. Within([s EXCEPT !.status[s.cur] = "BLOCKED"], B)
  BY Zenon DEF Within, SchedState, Status
<1> QED BY <1>1, ScheduleWithin, Zenon DEF thread_block

LEMMA YieldWithin ==
    ASSUME NEW B \in SUBSET Threads, Idle \in B, NEW s, Within(s, B)
    PROVE  Within(thread_yield(s), B)
<1> DEFINE a == ASSERT(s, ~elem_find(s.ready, s.cur))
           l == list_append(a.ready, s.cur)
           r == [a EXCEPT !.ready = l, !.status[s.cur] = "READY"]
<1>1. Within(a, B) /\ s.cur \in B /\ s.cur \in Threads
  BY AssertWithin DEF Within
<1>2. thread_yield(s) = schedule(r)
  BY Zenon DEF thread_yield
<1> HIDE DEF a
<1>3. a.ready \in Seq(B)
  BY <1>1, Zenon DEF Within
<1>4. l \in Seq(B)
  BY <1>1, <1>3, AppendLemma, Zenon
<1> HIDE DEF l
<1>5. l \in Seq(Threads)
  BY <1>4
<1>6. r \in SchedState
  BY <1>1, <1>5, Zenon DEF Within, SchedState, Status
<1>7. r.cur = a.cur /\ r.ready = l
  BY <1>1, Zenon DEF Within, SchedState
<1> HIDE DEF r
<1>8. Within(r, B)
  BY <1>1, <1>4, <1>6, <1>7, Zenon DEF Within
<1> QED BY <1>2, <1>8, ScheduleWithin, Zenon

LEMMA TimerWithin ==
    ASSUME NEW B \in SUBSET Threads, Idle \in B, NEW s, Within(s, B)
    PROVE  Within(intr_timer_handler(s), B)
<1>1. CASE s.ticks[s.cur] = 0
  BY <1>1, ScheduleWithin, Zenon DEF intr_timer_handler
<1>2. CASE s.ticks[s.cur] # 0
  <2>1. s.cur \in Threads /\ s.ticks[s.cur] - 1 \in 0..255
    BY <1>2 DEF Within, SchedState
  <2> QED BY <1>2, <2>1, Zenon DEF intr_timer_handler, Within, SchedState
<1> QED BY <1>1, <1>2, Zenon

LEMMA ReadyWithin ==
    ASSUME NEW B \in SUBSET Threads, NEW s, Within(s, B), NEW t \in B
    PROVE  Within(make_ready(s, t), B)
<1> DEFINE a == ASSERT(s, ~elem_find(s.ready, t))
           l == list_append(a.ready, t)
           r == [a EXCEPT !.ready = l, !.status[t] = "READY", !.ticks[t] = Priority[t]]
<1>1. Within(a, B) /\ t \in Threads
  BY AssertWithin, Zenon
<1>2. make_ready(s, t) = r
  BY Zenon DEF make_ready
<1> HIDE DEF a
<1>3. a.ready \in Seq(B)
  BY <1>1 DEF Within
<1>4. l \in Seq(B)
  BY <1>3, AppendLemma, Zenon
<1> HIDE DEF l
<1>5. l \in Seq(Threads)
  BY <1>4
<1>6. r \in SchedState
  <2>1. Priority[t] \in 0..255
    BY <1>1, SchedAssumption, Zenon
  <2> QED BY <1>1, <1>5, <2>1, Zenon DEF Within, SchedState, Status
<1>7. r.cur = a.cur /\ r.ready = l
  BY <1>1, Zenon DEF Within, SchedState
<1> HIDE DEF r
<1> QED BY <1>1, <1>2, <1>4, <1>6, <1>7, Zenon DEF Within
=============================================================================
