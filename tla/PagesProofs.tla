---------------------------- MODULE PagesProofs -----------------------------
(***************************************************************************)
(* The locks of the page pools, for any tasks and any memory: a call that  *)
(* takes a lock gives it back, and two processes never use one bitmap at   *)
(* the same time.  What the bitmaps contain plays no part in the argument; *)
(* it is about the accesses that a call has still to make.                 *)
(***************************************************************************)
EXTENDS Pages, SequenceTheorems, TLAPS

LockOps == {"lock", "unlock"}

PageOps == {"scan_v", "set_v", "stack", "scan_p", "set_p", "scan_t", "set_t", "map", "ready",
            "pfree", "unmap", "remove"}

OpType == [op : LockOps \cup PageOps, n : Nat]

(* Accesses that leave the lock alone,                                     *)
Body(ops) ==
    /\ ops \in Seq(OpType)
    /\ \A i \in 1..Len(ops) : ops[i].op \notin LockOps

(* those of a call that holds the lock,                                    *)
Held(ops) == \E body : Body(body) /\ ops = Append(body, Op("unlock", 0))

(* and those of a call that will acquire it.                               *)
Asking(ops) ==
    /\ ops \in Seq(OpType) \ {<<>>}
    /\ Head(ops).op = "lock"
    /\ Held(Tail(ops))

(* The owner of a lock is in a call that releases it.  The others have yet *)
(* to acquire it or do without, as only kernel threads can.                *)
LockInv ==
    /\ plan \in [Tasks -> Seq(OpType)]
    /\ owner \in [{"kernel", "user"} -> Tasks \cup {NoTask}]
    /\ \A pool \in {"kernel", "user"} : owner[pool] # NoTask => Pool(owner[pool]) = pool
    /\ \A t \in Tasks :
        IF owner[Pool(t)] = t THEN Held(plan[t])
        ELSE \/ plan[t] = <<>>
             \/ Asking(plan[t])
             \/ t \in Threads /\ Body(plan[t])
    /\ \A b \in given : b.n \in Nat

-----------------------------------------------------------------------------
LEMMA OpLemma ==
    ASSUME NEW op \in LockOps \cup PageOps, NEW n \in Nat
    PROVE  Op(op, n) \in OpType /\ Op(op, n).op = op /\ Op(op, n).n = n
BY Zenon DEF Op, OpType

LEMMA BodyOne ==
    ASSUME NEW op \in PageOps, NEW n \in Nat
    PROVE  Body(<<Op(op, n)>>)
<1>1. op \in LockOps \cup PageOps /\ op \notin LockOps
  BY Zenon DEF LockOps, PageOps
<1> QED BY <1>1, OpLemma DEF Body

LEMMA BodyConcat ==
    ASSUME NEW a, NEW b, Body(a), Body(b)
    PROVE  Body(a \o b)
<1>1. a \in Seq(OpType) /\ b \in Seq(OpType)
  BY Zenon DEF Body
<1>2. /\ a \o b \in Seq(OpType) /\ Len(a \o b) = Len(a) + Len(b)
      /\ \A i \in 1..Len(a) + Len(b) : (a \o b)[i] = IF i <= Len(a) THEN a[i] ELSE b[i - Len(a)]
  BY <1>1, ConcatProperties, Zenon
<1>3. ASSUME NEW i \in 1..Len(a) + Len(b) PROVE (a \o b)[i].op \notin LockOps
  <2>1. Len(a) \in Nat /\ Len(b) \in Nat
    BY <1>1, LenProperties, Zenon
  <2>2. CASE i <= Len(a)
    BY <1>2, <2>1, <2>2 DEF Body
  <2>3. CASE i > Len(a)
    <3>1. i - Len(a) \in 1..Len(b)
      BY <2>1, <2>3
    <3> QED BY <1>2, <2>1, <2>3, <3>1 DEF Body
  <2> QED BY <2>1, <2>2, <2>3
<1> QED BY <1>2, <1>3, Zenon DEF Body

LEMMA BodyTail ==
    ASSUME NEW a, Body(a), a # <<>>
    PROVE  Body(Tail(a)) /\ Head(a) \in OpType /\ Head(a).op \notin LockOps
<1>1. a \in Seq(OpType) /\ Len(a) \in Nat \ {0}
  BY EmptySeq, Zenon DEF Body
<1>2. /\ Head(a) \in OpType /\ Head(a) = a[1]
      /\ Tail(a) \in Seq(OpType) /\ Len(Tail(a)) = Len(a) - 1
      /\ \A i \in 1..Len(a) - 1 : Tail(a)[i] = a[i + 1]
  BY <1>1, HeadTailProperties
<1>3. Body(Tail(a))
  BY <1>1, <1>2 DEF Body
<1> QED BY <1>1, <1>2, <1>3 DEF Body

LEMMA BodyEach ==
    ASSUME NEW n \in Nat, NEW first \in PageOps, NEW second \in PageOps
    PROVE  Body(Each(n, first, second))
<1> DEFINE e == Each(n, first, second)
<1>1. 2 * n \in Nat
  OBVIOUS
<1>2. \A i \in 1..2 * n : (i - 1) \div 2 \in Nat
  OBVIOUS
<1>3. \A i \in 1..2 * n : e[i] \in OpType /\ e[i].op \notin LockOps
  BY <1>2, OpLemma DEF Each, LockOps, PageOps
<1>4. e = [i \in 1..2 * n |-> e[i]]
  BY Zenon DEF Each
<1> HIDE DEF e
<1>5. e \in Seq(OpType) /\ Len(e) = 2 * n
  BY <1>1, <1>3, <1>4
<1>6. Body(e)
  BY <1>3, <1>5, Zenon DEF Body
<1> QED BY <1>6, Zenon DEF e

LEMMA BodyEmpty == Body(<<>>)
BY DEF Body

LEMMA PairLemma ==
    ASSUME NEW a, NEW b
    PROVE  <<a>> \o <<b>> = <<a, b>>
<1> DEFINE S == {a, b}
           c == <<a>> \o <<b>>
<1>1. <<a>> \in Seq(S) /\ <<b>> \in Seq(S) /\ Len(<<a>>) = 1 /\ Len(<<b>>) = 1
  OBVIOUS
<1>2. /\ c \in Seq(S) /\ Len(c) = 2
      /\ \A i \in 1..2 : c[i] = IF i <= 1 THEN <<a>>[i] ELSE <<b>>[i - 1]
  BY <1>1, ConcatProperties
<1>3. c[1] = a /\ c[2] = b
  BY <1>2
<1>4. <<a, b>> \in Seq(S) /\ Len(<<a, b>>) = 2 /\ <<a, b>>[1] = a /\ <<a, b>>[2] = b
  OBVIOUS
<1>5. \A i \in 1..2 : i = 1 \/ i = 2
  OBVIOUS
<1> HIDE DEF c, S
<1>6. \A i \in 1..2 : c[i] = <<a, b>>[i]
  BY <1>3, <1>4, <1>5, Zenon
<1>7. c = <<a, b>>
  BY <1>2, <1>4, <1>6, SeqEqual, Zenon
<1> QED BY <1>7, Zenon DEF c

LEMMA Bodies ==
    ASSUME NEW n \in Nat
    PROVE  Body(malloc_page(n)) /\ Body(mfree_page(n)) /\ Body(Backed(n))
<1>1. Body(Backed(n)) /\ Body(Each(n, "pfree", "unmap"))
  BY BodyEach, Zenon DEF Backed, PageOps
<1>2. Body(<<Op("scan_v", n)>>) /\ Body(<<Op("set_v", n)>>) /\ Body(<<Op("remove", n)>>)
  BY BodyOne, Zenon DEF PageOps
<1>3. Body(<<Op("scan_v", n)>> \o <<Op("set_v", n)>>)
  BY <1>2, BodyConcat, Zenon
<1>4. <<Op("scan_v", n)>> \o <<Op("set_v", n)>> = <<Op("scan_v", n), Op("set_v", n)>>
  <2> DEFINE a == Op("scan_v", n)
             b == Op("set_v", n)
  <2> HIDE DEF a, b
  <2>1. <<a>> \o <<b>> = <<a, b>>
    BY PairLemma, Zenon
  <2> QED BY <2>1, Zenon DEF a, b
<1> QED BY <1>1, <1>2, <1>3, <1>4, BodyConcat, Zenon DEF malloc_page, mfree_page

-----------------------------------------------------------------------------
(* The next access of a call with the lock.                                *)
LEMMA HeldLemma ==
    ASSUME NEW ops, Held(ops)
    PROVE  /\ ops \in Seq(OpType) /\ ops # <<>>
           /\ Head(ops).op # "lock"
           /\ Head(ops).op # "unlock" => Held(Tail(ops))
           /\ Head(ops).op = "unlock" => Tail(ops) = <<>>
<1>1. PICK body : Body(body) /\ ops = Append(body, Op("unlock", 0))
  BY Zenon DEF Held
<1> DEFINE u == Op("unlock", 0)
<1>2. u \in OpType /\ u.op = "unlock"
  BY OpLemma, Zenon DEF LockOps, u
<1> HIDE DEF u
<1>3. body \in Seq(OpType) /\ ops = Append(body, u)
  BY <1>1, Zenon DEF Body, u
<1>4. /\ ops \in Seq(OpType) /\ ops # <<>>
      /\ Head(ops) = IF body = <<>> THEN u ELSE Head(body)
      /\ Tail(ops) = IF body = <<>> THEN <<>> ELSE Append(Tail(body), u)
  BY <1>2, <1>3, AppendProperties, HeadTailAppend
<1>5. CASE body = <<>>
  BY <1>2, <1>4, <1>5, Zenon
<1>6. CASE body # <<>>
  <2>1. Body(Tail(body)) /\ Head(body).op \notin LockOps
    BY <1>1, <1>6, BodyTail, Zenon
  <2>2. Held(Append(Tail(body), u))
    BY <2>1, Zenon DEF Held, u
  <2> QED BY <1>4, <1>6, <2>1, <2>2, Zenon DEF LockOps
<1> QED BY <1>5, <1>6, Zenon

LEMMA HeldConcat ==
    ASSUME NEW a, NEW ops, Body(a), Held(ops)
    PROVE  Held(a \o ops)
<1>1. PICK body : Body(body) /\ ops = Append(body, Op("unlock", 0))
  BY Zenon DEF Held
<1> DEFINE u == Op("unlock", 0)
<1>2. u \in OpType
  BY OpLemma, Zenon DEF LockOps, u
<1> HIDE DEF u
<1>3. a \in Seq(OpType) /\ body \in Seq(OpType) /\ <<u>> \in Seq(OpType) /\ ops = Append(body, u)
  BY <1>1, <1>2 DEF Body, u
<1>4. Body(a \o body) /\ a \o body \in Seq(OpType)
  BY <1>1, BodyConcat, Zenon DEF Body
<1>5. ops = body \o <<u>> /\ Append(a \o body, u) = (a \o body) \o <<u>>
  BY <1>2, <1>3, <1>4, AppendIsConcat, Zenon
<1>6. a \o ops = Append(a \o body, u)
  BY <1>3, <1>5, ConcatAssociative
<1> QED BY <1>4, <1>6, Zenon DEF Held, u

LEMMA HeldUnlock == Held(<<Op("unlock", 0)>>)
BY BodyEmpty DEF Held

(* A body between lock_acquire and lock_release.                           *)
LEMMA AskingLemma ==
    ASSUME NEW a, Body(a)
    PROVE  Asking((<<Op("lock", 0)>> \o a) \o <<Op("unlock", 0)>>)
<1> DEFINE l == Op("lock", 0)
           u == Op("unlock", 0)
           ops == (<<l>> \o a) \o <<u>>
           rest == a \o <<u>>
<1>1. l \in OpType /\ u \in OpType /\ l.op = "lock" /\ a \in Seq(OpType)
  BY OpLemma, Zenon DEF Body, LockOps, l, u
<1>2. Held(rest)
  BY HeldConcat, HeldUnlock, Zenon
<1> HIDE DEF l, u
<1>3. <<l>> \in Seq(OpType) /\ <<u>> \in Seq(OpType)
  BY <1>1
<1>4. ops = <<l>> \o rest
  BY <1>1, <1>3, ConcatAssociative
<1>5. rest \in Seq(OpType)
  BY <1>2, HeldLemma, Zenon
<1> HIDE DEF rest
<1>6. /\ <<l>> \o rest \in Seq(OpType) /\ <<l>> \o rest # <<>>
      /\ Head(<<l>> \o rest) = l /\ Tail(<<l>> \o rest) = rest
  <2> DEFINE c == <<l>> \o rest
  <2>1. /\ c \in Seq(OpType) /\ Len(c) = 1 + Len(rest)
        /\ \A i \in 1..1 + Len(rest) : c[i] = IF i <= 1 THEN l ELSE rest[i - 1]
    BY <1>3, <1>5, ConcatProperties
  <2>2. Len(rest) \in Nat
    BY <1>5, LenProperties, Zenon
  <2> HIDE DEF c
  <2>3. c # <<>> /\ Head(c) = l
    BY <2>1, <2>2, EmptySeq
  <2>4. /\ Tail(c) \in Seq(OpType) /\ Len(Tail(c)) = Len(rest)
        /\ \A i \in 1..Len(rest) : Tail(c)[i] = rest[i]
    BY <2>1, <2>2, <2>3, HeadTailProperties
  <2>5. Tail(c) = rest
    BY <1>5, <2>4, SeqEqual, Zenon
  <2> QED BY <2>1, <2>3, <2>5, Zenon DEF c
<1> QED BY <1>1, <1>2, <1>4, <1>6, Zenon DEF Asking, l, u

-----------------------------------------------------------------------------
LEMMA InitLemma == Init => LockInv /\ OverlapKernel
<1> SUFFICES ASSUME Init PROVE LockInv /\ OverlapKernel
  BY Zenon
<1>1. plan = [t \in Tasks |-> <<>>] /\ owner = [pool \in {"kernel", "user"} |-> NoTask] /\ overlap = {}
  BY Zenon DEF Init
<1>2. \A b \in given : b.n \in Nat
  BY PagesAssumption DEF Init
<1>3. \A t \in Tasks : Pool(t) \in {"kernel", "user"} /\ t # NoTask
  BY PagesAssumption, Zenon DEF Pool, Tasks
<1>4. plan \in [Tasks -> Seq(OpType)] /\ \A t \in Tasks : plan[t] = <<>>
  BY <1>1
<1> QED BY <1>1, <1>2, <1>3, <1>4, Zenon DEF LockInv, OverlapKernel

(* A task at an access other than lock_acquire: a process has the lock of  *)
(* the user pool.                                                          *)
LEMMA AtLemma ==
    ASSUME LockInv, NEW t \in Tasks, plan[t] # <<>>, Head(plan[t]).op # "lock"
    PROVE  /\ plan[t] \in Seq(OpType) /\ Arg(t) \in Nat
           /\ \/ owner[Pool(t)] = t /\ Held(plan[t])
              \/ owner[Pool(t)] # t /\ t \in Threads /\ t \notin Procs /\ Body(plan[t])
<1>1. plan[t] \in Seq(OpType)
  BY Zenon DEF LockInv
<1>2. Arg(t) \in Nat
  <2>1. Head(plan[t]) \in OpType
    BY <1>1, HeadTailProperties, Zenon
  <2> QED BY <2>1, Zenon DEF Arg, OpType
<1>3. ~Asking(plan[t])
  BY Zenon DEF Asking
<1> QED BY <1>1, <1>2, <1>3, PagesAssumption, Zenon DEF LockInv

LEMMA ProcessLemma ==
    ASSUME LockInv, NEW t \in Procs, plan[t] # <<>>, Head(plan[t]).op # "lock"
    PROVE  owner["user"] = t /\ Held(plan[t])
BY AtLemma, PagesAssumption, Zenon DEF Tasks, Pool

(* A new plan for t, with the locks as they are.                           *)
LEMMA PlanLemma ==
    ASSUME LockInv, NEW t \in Tasks, NEW ops \in Seq(OpType), plan' = [plan EXCEPT ![t] = ops],
           owner' = owner,
           IF owner[Pool(t)] = t THEN Held(ops)
           ELSE ops = <<>> \/ Asking(ops) \/ (t \in Threads /\ Body(ops)),
           \A b \in given' : b.n \in Nat
    PROVE  LockInv'
BY Zenon DEF LockInv

(* The next access is done, and it was not to the lock.                    *)
LEMMA GoesLemma ==
    ASSUME LockInv, NEW t \in Tasks, plan[t] # <<>>, Head(plan[t]).op \notin LockOps, Goes(t),
           owner' = owner, \A b \in given' : b.n \in Nat
    PROVE  LockInv'
<1> DEFINE ops == Tail(plan[t])
<1>1. Head(plan[t]).op # "lock" /\ Head(plan[t]).op # "unlock"
  BY Zenon DEF LockOps
<1>2. CASE owner[Pool(t)] = t
  <2>1. Held(plan[t])
    BY <1>1, <1>2, AtLemma, Zenon
  <2>2. Held(ops)
    BY <1>1, <2>1, HeldLemma, Zenon
  <2>3. ops \in Seq(OpType)
    BY <2>2, HeldLemma, Zenon
  <2> QED BY <1>2, <2>2, <2>3, PlanLemma, Zenon DEF Goes
<1>3. CASE owner[Pool(t)] # t
  <2>1. t \in Threads /\ Body(plan[t])
    BY <1>1, <1>3, AtLemma, Zenon
  <2>2. Body(ops)
    BY <2>1, BodyTail, Zenon
  <2>3. ops \in Seq(OpType)
    BY <2>2, Zenon DEF Body
  <2> QED BY <1>3, <2>1, <2>2, <2>3, PlanLemma, Zenon DEF Goes
<1> QED BY <1>2, <1>3, Zenon

-----------------------------------------------------------------------------
(* The calls.                                                              *)
LEMMA BeginsLemma ==
    ASSUME LockInv, NEW t \in Tasks, NEW ops, Begins(t, ops),
           (t \in Threads /\ Body(ops)) \/ Asking(ops), \A b \in given' : b.n \in Nat
    PROVE  LockInv' /\ overlap' = overlap
<1>1. owner[Pool(t)] # t
  <2>1. plan[t] = <<>>
    BY Zenon DEF Begins
  <2> QED BY <2>1, HeldLemma, Zenon DEF LockInv
<1>2. ops \in Seq(OpType)
  BY Zenon DEF Body, Asking
<1>3. plan' = [plan EXCEPT ![t] = ops] /\ owner' = owner /\ overlap' = overlap
  BY Zenon DEF Begins
<1> QED BY <1>1, <1>2, <1>3, PlanLemma, Zenon

LEMMA CallsLemma ==
    ASSUME LockInv, NEW t \in Tasks,
           \/ thread_start(t)
           \/ \E p \in Procs : process_execute(t, p)
           \/ start_process(t)
           \/ \E n \in 1..MaxPages : sys_malloc(t, n)
           \/ \E b \in given : sys_free(t, b)
    PROVE  LockInv' /\ overlap' = overlap
<1>1. 1 \in Nat /\ BitmapPages \in Nat /\ MaxPages \in Nat /\ \A n \in 1..MaxPages : n \in Nat
  BY PagesAssumption
<1>2. \A b \in given : b.n \in Nat
  BY Zenon DEF LockInv
<1>3. CASE thread_start(t)
  <2>1. t \in Threads /\ given' = given /\ Begins(t, get_kernel_pages(1))
    BY <1>3, Zenon DEF thread_start
  <2>2. Body(get_kernel_pages(1))
    BY Bodies, Zenon DEF get_kernel_pages
  <2> QED BY <1>2, <2>1, <2>2, BeginsLemma, Zenon
<1>4. ASSUME NEW p \in Procs, process_execute(t, p) PROVE LockInv' /\ overlap' = overlap
  <2> DEFINE g == get_kernel_pages(1)
             h == get_kernel_pages(BitmapPages)
             r == <<Op("ready", 0)>>
             ops == ((g \o h) \o g) \o r
  <2>1. t \in Threads /\ given' = given /\ Begins(t, ops)
    BY <1>4, Zenon DEF process_execute
  <2>2. Body(g) /\ Body(h)
    BY <1>1, Bodies, Zenon DEF get_kernel_pages
  <2>3. Body(r)
    BY BodyOne, Zenon DEF PageOps
  <2> HIDE DEF g, h, r
  <2>4. Body(ops)
    <3>1. Body(g \o h)
      BY <2>2, BodyConcat, Zenon
    <3>2. Body((g \o h) \o g)
      BY <2>2, <3>1, BodyConcat, Zenon
    <3> QED BY <2>3, <3>2, BodyConcat, Zenon
  <2> HIDE DEF ops
  <2> QED BY <1>2, <2>1, <2>4, BeginsLemma, Zenon
<1>5. CASE start_process(t)
  <2>1. given' = given /\ Begins(t, get_a_page)
    BY <1>5, Zenon DEF start_process
  <2> DEFINE l == Op("lock", 0)
             s == Op("stack", 1)
             u == Op("unlock", 0)
  <2>2. get_a_page = ((<<l>> \o <<s>>) \o Backed(1)) \o <<u>>
    BY PairLemma, Zenon DEF get_a_page
  <2>3. Body(<<s>>) /\ Body(Backed(1))
    BY BodyOne, Bodies, Zenon DEF PageOps
  <2>4. Body(<<s>> \o Backed(1))
    BY <2>3, BodyConcat, Zenon
  <2>5. <<l>> \in Seq(OpType)
    BY OpLemma DEF LockOps
  <2>6. Asking((<<l>> \o (<<s>> \o Backed(1))) \o <<u>>)
    BY <2>4, AskingLemma, Zenon
  <2> HIDE DEF l, s, u
  <2>7. (<<l>> \o <<s>>) \o Backed(1) = <<l>> \o (<<s>> \o Backed(1))
    BY <2>3, <2>5, ConcatAssociative DEF Body
  <2>8. Asking(get_a_page)
    BY <2>2, <2>6, <2>7, Zenon
  <2> QED BY <1>2, <2>1, <2>8, BeginsLemma, Zenon
<1>6. ASSUME NEW n \in 1..MaxPages, sys_malloc(t, n) PROVE LockInv' /\ overlap' = overlap
  <2> DEFINE ops == (<<Op("lock", 0)>> \o malloc_page(n)) \o <<Op("unlock", 0)>>
  <2>1. given' = given /\ Begins(t, ops)
    BY <1>6, Zenon DEF sys_malloc
  <2>2. Asking(ops)
    BY <1>1, Bodies, AskingLemma, Zenon
  <2> HIDE DEF ops
  <2> QED BY <1>2, <2>1, <2>2, BeginsLemma, Zenon
<1>7. ASSUME NEW b \in given, sys_free(t, b) PROVE LockInv' /\ overlap' = overlap
  <2> DEFINE ops == (<<Op("lock", 0)>> \o mfree_page(b.n)) \o <<Op("unlock", 0)>>
  <2>1. given' \subseteq given /\ Begins(t, ops)
    BY <1>7, Zenon DEF sys_free
  <2>2. Asking(ops)
    BY <1>2, Bodies, AskingLemma, Zenon
  <2> HIDE DEF ops
  <2> QED BY <1>2, <2>1, <2>2, BeginsLemma, Zenon
<1> QED BY <1>3, <1>4, <1>5, <1>6, <1>7, Zenon

-----------------------------------------------------------------------------
(* A task that has scanned a bitmap and not yet changed it.                *)
LEMMA UsingLemma ==
    ASSUME NEW u \in Tasks, Using(u) # NoTask
    PROVE  plan[u] # <<>> /\ Head(plan[u]).op \in {"set_v", "set_p", "unmap", "set_t"}
BY Zenon DEF Using

(* An access to a bitmap by a task meets no process, unless the task is a  *)
(* kernel thread.                                                          *)
LEMMA UsesLemma ==
    ASSUME LockInv, NEW t \in Tasks, plan[t] # <<>>, Head(plan[t]).op # "lock",
           NEW bitmap, bitmap # NoTask, Uses(t, bitmap)
    PROVE  OverlapKernel'
<1> SUFFICES ASSUME NEW u \in Tasks \ {t}, Using(u) = bitmap
             PROVE  {t, u} \cap Threads # {}
  BY Zenon DEF Uses, OverlapKernel
<1>1. plan[u] # <<>> /\ Head(plan[u]).op # "lock"
  BY UsingLemma, Zenon
<1>2. CASE t \in Procs /\ u \in Procs
  BY <1>1, <1>2, ProcessLemma, Zenon
<1> QED BY <1>2, Zenon DEF Tasks

LEMMA SpaceLemma ==
    ASSUME NEW t \in Tasks
    PROVE  Space(t) # NoTask /\ Pool(t) # NoTask /\ "kernel" # NoTask /\ "user" # NoTask
BY PagesAssumption, Zenon DEF Space, Pool, Tasks

(* What every step of a call does: it stops the machine, or goes on.       *)
LEMMA StopLemma ==
    ASSUME LockInv, OverlapKernel, NEW why, Stop(why)
    PROVE  LockInv' /\ OverlapKernel'
BY Zenon DEF Stop, LockInv, OverlapKernel

LEMMA LockLemma ==
    ASSUME LockInv, OverlapKernel, NEW t \in Tasks, Lock(t)
    PROVE  LockInv' /\ OverlapKernel'
<1>1. /\ plan[t] # <<>> /\ Head(plan[t]).op = "lock" /\ owner[Pool(t)] = NoTask
      /\ plan' = [plan EXCEPT ![t] = Tail(plan[t])] /\ owner' = [owner EXCEPT ![Pool(t)] = t]
      /\ overlap' = overlap /\ given' = given
  BY Zenon DEF Lock, At, Goes
<1>2. \A u \in Tasks : u # NoTask /\ Pool(u) \in {"kernel", "user"}
  BY PagesAssumption, Zenon DEF Tasks, Pool
<1>3. ~Body(plan[t])
  BY <1>1, BodyTail, Zenon DEF LockOps
<1>4. Held(Tail(plan[t]))
  BY <1>1, <1>2, <1>3, Zenon DEF LockInv, Asking
<1>5. Tail(plan[t]) \in Seq(OpType)
  BY <1>4, HeldLemma, Zenon
<1>6. owner'[Pool(t)] = t /\ \A pool \in {"kernel", "user"} : pool # Pool(t) => owner'[pool] = owner[pool]
  BY <1>1, <1>2, Zenon DEF LockInv
<1>7. plan'[t] = Tail(plan[t]) /\ \A u \in Tasks : u # t => plan'[u] = plan[u]
  BY <1>1, Zenon DEF LockInv
<1>8. plan' \in [Tasks -> Seq(OpType)] /\ owner' \in [{"kernel", "user"} -> Tasks \cup {NoTask}]
  BY <1>1, <1>2, <1>5, Zenon DEF LockInv
<1>9. ASSUME NEW u \in Tasks
      PROVE  IF owner'[Pool(u)] = u THEN Held(plan'[u])
             ELSE plan'[u] = <<>> \/ Asking(plan'[u]) \/ (u \in Threads /\ Body(plan'[u]))
  <2>1. CASE u = t
    BY <1>4, <1>6, <1>7, <2>1, Zenon
  <2>2. CASE u # t
    <3>1. owner'[Pool(u)] = u <=> owner[Pool(u)] = u
      BY <1>1, <1>2, <1>6, <2>2, Zenon
    <3> QED BY <1>7, <2>2, <3>1, Zenon DEF LockInv
  <2> QED BY <2>1, <2>2, Zenon
<1>10. \A pool \in {"kernel", "user"} : owner'[pool] # NoTask => Pool(owner'[pool]) = pool
  BY <1>2, <1>6, Zenon DEF LockInv
<1>11. LockInv'
  BY <1>1, <1>8, <1>9, <1>10, Zenon DEF LockInv
<1> QED BY <1>1, <1>11, Zenon DEF OverlapKernel

LEMMA UnlockLemma ==
    ASSUME LockInv, OverlapKernel, NEW t \in Tasks, Unlock(t)
    PROVE  LockInv' /\ OverlapKernel'
<1>1. /\ plan[t] # <<>> /\ Head(plan[t]).op = "unlock"
      /\ plan' = [plan EXCEPT ![t] = Tail(plan[t])] /\ owner' = [owner EXCEPT ![Pool(t)] = NoTask]
      /\ overlap' = overlap /\ given' = given
  BY Zenon DEF Unlock, At, Goes
<1>2. \A u \in Tasks : u # NoTask /\ Pool(u) \in {"kernel", "user"}
  BY PagesAssumption DEF Tasks, Pool
<1>3. ~Body(plan[t])
  BY <1>1, BodyTail, Zenon DEF LockOps
<1>4. owner[Pool(t)] = t /\ Held(plan[t])
  BY <1>1, <1>3, AtLemma, Zenon
<1>5. Tail(plan[t]) = <<>>
  BY <1>1, <1>4, HeldLemma, Zenon
<1>6. owner'[Pool(t)] = NoTask /\ \A pool \in {"kernel", "user"} : pool # Pool(t) => owner'[pool] = owner[pool]
  BY <1>1, <1>2, Zenon DEF LockInv
<1>7. plan'[t] = <<>> /\ \A u \in Tasks : u # t => plan'[u] = plan[u]
  BY <1>1, <1>5, Zenon DEF LockInv
<1>8. plan' \in [Tasks -> Seq(OpType)] /\ owner' \in [{"kernel", "user"} -> Tasks \cup {NoTask}]
  BY <1>1, <1>2, <1>5 DEF LockInv
<1>9. ASSUME NEW u \in Tasks
      PROVE  IF owner'[Pool(u)] = u THEN Held(plan'[u])
             ELSE plan'[u] = <<>> \/ Asking(plan'[u]) \/ (u \in Threads /\ Body(plan'[u]))
  <2>1. CASE u = t
    BY <1>2, <1>6, <1>7, <2>1, Zenon
  <2>2. CASE u # t
    <3>1. owner'[Pool(u)] = u <=> owner[Pool(u)] = u
      BY <1>2, <1>4, <1>6, <2>2, Zenon
    <3> QED BY <1>7, <2>2, <3>1, Zenon DEF LockInv
  <2> QED BY <2>1, <2>2
<1>10. \A pool \in {"kernel", "user"} : owner'[pool] # NoTask => Pool(owner'[pool]) = pool
  BY <1>2, <1>6, Zenon DEF LockInv
<1>11. LockInv'
  BY <1>1, <1>8, <1>9, <1>10, Zenon DEF LockInv
<1> QED BY <1>1, <1>11, Zenon DEF OverlapKernel

(* The accesses to the bitmaps and page tables.                            *)
LEMMA ScanVaddrLemma ==
    ASSUME LockInv, OverlapKernel, NEW t \in Tasks, ScanVaddr(t)
    PROVE  LockInv' /\ OverlapKernel'
<1> DEFINE full == Full(vbits[Space(t)], SpaceLen(Space(t)))
<1>1. plan[t] # <<>> /\ Head(plan[t]).op = "scan_v"
  BY Zenon DEF ScanVaddr, At
<1>2. \/ Stop("full")
      \/ /\ ReturnNull(t) \/ (Goes(t) /\ panic' = panic)
         /\ Uses(t, Space(t)) /\ given' = given /\ owner' = owner
  BY Zenon DEF ScanVaddr
<1>3. CASE Stop("full")
  BY <1>3, StopLemma, Zenon
<1>4. ASSUME Uses(t, Space(t)), given' = given, owner' = owner, Goes(t)
      PROVE  LockInv' /\ OverlapKernel'
  <2>1. OverlapKernel'
    BY <1>1, <1>4, UsesLemma, SpaceLemma, Zenon
  <2>2. LockInv'
    BY <1>1, <1>4, GoesLemma, Zenon DEF LockOps, LockInv
  <2> QED BY <2>1, <2>2, Zenon
<1>5. ASSUME Uses(t, Space(t)), given' = given, owner' = owner, ReturnNull(t)
      PROVE  LockInv' /\ OverlapKernel'
  <2>1. OverlapKernel'
    BY <1>1, <1>5, UsesLemma, SpaceLemma, Zenon
  <2>2. CASE owner[Pool(t)] = t
    <3> DEFINE ops == <<Op("unlock", 0)>>
    <3>1. plan' = [plan EXCEPT ![t] = ops]
      BY <1>5, <2>2, Zenon DEF ReturnNull
    <3>2. Held(ops) /\ ops \in Seq(OpType)
      BY HeldUnlock, HeldLemma, Zenon
    <3> HIDE DEF ops
    <3>3. LockInv'
      BY <1>5, <2>2, <3>1, <3>2, PlanLemma, Zenon DEF LockInv
    <3> QED BY <2>1, <3>3
  <2>3. CASE owner[Pool(t)] # t
    <3>1. plan' = plan
      BY <1>5, <2>3, Zenon DEF ReturnNull
    <3> QED BY <1>5, <2>1, <3>1, Zenon DEF LockInv
  <2> QED BY <2>2, <2>3, Zenon
<1> QED BY <1>2, <1>3, <1>4, <1>5, Zenon

LEMMA ScanFrameLemma ==
    ASSUME LockInv, OverlapKernel, NEW t \in Tasks, ScanFrame(t)
    PROVE  LockInv' /\ OverlapKernel'
<1>1. PICK op \in {"scan_p", "scan_t"} :
          LET pool == IF op = "scan_t" THEN "kernel" ELSE Pool(t) IN
          /\ At(t, op)
          /\ \/ Stop("full")
             \/ Goes(t) /\ Uses(t, pool) /\ given' = given /\ owner' = owner
  BY Zenon DEF ScanFrame
<1> DEFINE pool == IF op = "scan_t" THEN "kernel" ELSE Pool(t)
<1>2. plan[t] # <<>> /\ Head(plan[t]).op \in {"scan_p", "scan_t"} /\ pool # NoTask
  BY <1>1, SpaceLemma, Zenon DEF At
<1>3. CASE Stop("full")
  BY <1>3, StopLemma, Zenon
<1>4. CASE Goes(t) /\ Uses(t, pool) /\ given' = given /\ owner' = owner
  <2> HIDE DEF pool
  <2>1. OverlapKernel'
    BY <1>2, <1>4, UsesLemma, Zenon
  <2>2. LockInv'
    BY <1>2, <1>4, GoesLemma, Zenon DEF LockOps, LockInv
  <2> QED BY <2>1, <2>2, Zenon
<1> QED BY <1>1, <1>3, <1>4, Zenon

(* The end of page_table_add.                                              *)
LEMMA MappedLemma ==
    ASSUME LockInv, NEW t \in Tasks, NEW frame, Mapped(t, frame), plan[t] # <<>>,
           Head(plan[t]).op \notin LockOps, owner' = owner
    PROVE  LockInv'
<1>1. \A b \in given : b.n \in Nat
  BY Zenon DEF LockInv
<1>2. \/ plan' = plan /\ given' = given
      \/ Goes(t) /\ given' = given
      \/ /\ Goes(t)
         /\ given' = given \cup {[space |-> Space(t), page |-> reg[t].page, n |-> Arg(t) + 1,
                                  heap |-> owner[Pool(t)] = t /\ Calls(t)]}
  BY Zenon DEF Mapped
<1>3. \A b \in given' : b.n \in Nat
  <2>1. Arg(t) + 1 \in Nat
    <3>1. Arg(t) \in Nat
      BY AtLemma, Zenon DEF LockOps
    <3> QED BY <3>1
  <2> QED BY <1>1, <1>2, <2>1
<1>4. CASE plan' = plan
  BY <1>3, <1>4, Zenon DEF LockInv
<1>5. CASE Goes(t)
  BY <1>3, <1>5, GoesLemma, Zenon
<1> QED BY <1>2, <1>4, <1>5, Zenon

LEMMA SetFrameLemma ==
    ASSUME LockInv, OverlapKernel, NEW t \in Tasks, SetFrame(t)
    PROVE  LockInv' /\ OverlapKernel'
<1> DEFINE frame == Frame(Pool(t), reg[t].bit)
           more == <<Op("scan_t", 0), Op("set_t", Arg(t)), Op("map", Arg(t))>>
<1>1. /\ plan[t] # <<>> /\ Head(plan[t]).op = "set_p" /\ owner' = owner /\ overlap' = overlap
      /\ \/ /\ t \in Procs /\ given' = given
            /\ plan' = [plan EXCEPT ![t] = more \o Tail(plan[t])]
         \/ Mapped(t, frame)
  BY Zenon DEF SetFrame, At
<1>2. OverlapKernel'
  BY <1>1, Zenon DEF OverlapKernel
<1>3. CASE Mapped(t, frame)
  <2> HIDE DEF frame
  <2>1. LockInv'
    BY <1>1, <1>3, MappedLemma, Zenon DEF LockOps
  <2> QED BY <1>2, <2>1
<1>4. CASE t \in Procs /\ given' = given /\ plan' = [plan EXCEPT ![t] = more \o Tail(plan[t])]
  <2>1. owner[Pool(t)] = t /\ Held(plan[t]) /\ Arg(t) \in Nat
    BY <1>1, <1>4, AtLemma, Zenon
  <2>2. Held(Tail(plan[t]))
    BY <1>1, <2>1, HeldLemma, Zenon
  <2>3. Body(more)
    <3> DEFINE a == Op("scan_t", 0)
               b == Op("set_t", Arg(t))
               c == Op("map", Arg(t))
    <3>1. a \in OpType /\ b \in OpType /\ c \in OpType /\ a.op = "scan_t" /\ b.op = "set_t" /\ c.op = "map"
      BY <2>1, OpLemma, Zenon DEF PageOps
    <3> HIDE DEF a, b, c
    <3>2. <<a, b, c>> \in Seq(OpType) /\ Len(<<a, b, c>>) = 3
      BY <3>1
    <3>3. <<a, b, c>>[1] = a /\ <<a, b, c>>[2] = b /\ <<a, b, c>>[3] = c
      BY Zenon
    <3>4. \A i \in 1..3 : i = 1 \/ i = 2 \/ i = 3
      OBVIOUS
    <3>5. \A i \in 1..3 : <<a, b, c>>[i].op \notin LockOps
      BY <3>1, <3>3, <3>4, Zenon DEF LockOps
    <3>6. Body(<<a, b, c>>)
      BY <3>2, <3>5, Zenon DEF Body
    <3> QED BY <3>6, Zenon DEF a, b, c
  <2> HIDE DEF more
  <2>4. Held(more \o Tail(plan[t]))
    BY <2>2, <2>3, HeldConcat, Zenon
  <2>5. more \o Tail(plan[t]) \in Seq(OpType)
    BY <2>4, HeldLemma, Zenon
  <2>6. LockInv'
    BY <1>1, <1>4, <2>1, <2>4, <2>5, PlanLemma, Zenon DEF LockInv
  <2> QED BY <1>2, <2>6
<1> QED BY <1>1, <1>3, <1>4, Zenon

LEMMA FreeLemma ==
    ASSUME LockInv, OverlapKernel, NEW t \in Tasks, pfree(t) \/ vaddr_remove(t)
    PROVE  LockInv' /\ OverlapKernel'
<1>1. /\ plan[t] # <<>> /\ Head(plan[t]).op \in {"pfree", "remove"}
      /\ Goes(t) /\ given' = given /\ owner' = owner
  BY Zenon DEF pfree, vaddr_remove, At
<1>2. Uses(t, "user") \/ Uses(t, "kernel") \/ Uses(t, Space(t))
  BY Zenon DEF pfree, vaddr_remove
<1>3. OverlapKernel'
  BY <1>1, <1>2, UsesLemma, SpaceLemma, Zenon
<1>4. LockInv'
  BY <1>1, GoesLemma, Zenon DEF LockOps, LockInv
<1> QED BY <1>3, <1>4, Zenon

LEMMA PlainLemma ==
    ASSUME LockInv, OverlapKernel, NEW t \in Tasks,
           SetVaddr(t) \/ SetStack(t) \/ SetTable(t) \/ Ready(t) \/ page_table_pte_remove(t)
    PROVE  LockInv' /\ OverlapKernel'
<1>1. CASE Stop("assert")
  BY <1>1, StopLemma, Zenon
<1>2. CASE ~Stop("assert")
  <2>1. /\ plan[t] # <<>> /\ Head(plan[t]).op \in {"set_v", "stack", "set_t", "ready", "unmap"}
        /\ Goes(t) /\ given' = given /\ owner' = owner /\ overlap' = overlap
    BY <1>2, Zenon DEF SetVaddr, SetStack, SetTable, Ready, page_table_pte_remove, At
  <2>2. LockInv'
    BY <2>1, GoesLemma, Zenon DEF LockOps, LockInv
  <2> QED BY <2>1, <2>2, Zenon DEF OverlapKernel
<1> QED BY <1>1, <1>2, Zenon

LEMMA MapPageLemma ==
    ASSUME LockInv, OverlapKernel, NEW t \in Tasks, MapPage(t)
    PROVE  LockInv' /\ OverlapKernel'
<1>1. /\ plan[t] # <<>> /\ Head(plan[t]).op = "map" /\ Mapped(t, reg[t].frame)
      /\ owner' = owner /\ overlap' = overlap
  BY Zenon DEF MapPage, At
<1>2. LockInv'
  BY <1>1, MappedLemma, Zenon DEF LockOps
<1> QED BY <1>1, <1>2, Zenon DEF OverlapKernel

-----------------------------------------------------------------------------
LEMMA StepLemma ==
    ASSUME LockInv, OverlapKernel, [Next]_vars
    PROVE  LockInv' /\ OverlapKernel'
<1>1. ASSUME NEW t \in Tasks, Proceed(t) PROVE LockInv' /\ OverlapKernel'
  BY <1>1, LockLemma, UnlockLemma, ScanVaddrLemma, ScanFrameLemma, SetFrameLemma, MapPageLemma,
     FreeLemma, PlainLemma, Zenon DEF Proceed
<1>2. ASSUME NEW t \in Tasks,
             \/ thread_start(t)
             \/ \E p \in Procs : process_execute(t, p)
             \/ start_process(t)
             \/ \E n \in 1..MaxPages : sys_malloc(t, n)
             \/ \E b \in given : sys_free(t, b)
      PROVE  LockInv' /\ OverlapKernel'
  <2>1. LockInv' /\ overlap' = overlap
    BY <1>2, CallsLemma, Zenon
  <2> QED BY <2>1, Zenon DEF OverlapKernel
<1>3. CASE UNCHANGED vars
  BY <1>3, Zenon DEF vars, LockInv, OverlapKernel
<1> QED BY <1>1, <1>2, <1>3, Zenon DEF Next

LEMMA LocksInvariant == Spec => [](LockInv /\ OverlapKernel)
BY InitLemma, StepLemma, PTL DEF Spec

(* sys_malloc, sys_free and get_a_page give the lock of the pool back on   *)
(* every path that returns, whatever the tasks and the memory.             *)
THEOREM LocksReturned == Spec => []LockInCall
<1>1. LockInv => LockInCall
  <2> SUFFICES ASSUME LockInv, NEW pool \in {"kernel", "user"}, owner[pool] # NoTask
               PROVE  plan[owner[pool]] # <<>>
    BY Zenon DEF LockInCall
  <2>1. owner[pool] \in Tasks /\ Pool(owner[pool]) = pool
    BY Zenon DEF LockInv
  <2>2. Held(plan[owner[pool]])
    BY <2>1, Zenon DEF LockInv
  <2> QED BY <2>2, HeldLemma, Zenon
<1> QED BY <1>1, LocksInvariant, PTL

(* Two processes never use one bitmap at the same time, not even that of   *)
(* the kernel's pool, which they change without its lock: whenever two     *)
(* calls meet, one of them is a kernel thread's.                           *)
THEOREM ProcessesNeverMeet == Spec => []OverlapKernel
BY LocksInvariant, PTL
=============================================================================
