------------------------------- MODULE Pages --------------------------------
(***************************************************************************)
(* The page pools of kernel/memory.c with the tasks that share them:       *)
(* kernel threads that allocate pages and create threads and processes     *)
(* (thread/thread.c, userprog/process.c), and the processes themselves,    *)
(* each with an address space of its own.                                  *)
(*                                                                         *)
(* Pages and frames are numbered from the start of their pools.  A call is *)
(* a sequence of accesses to bitmaps and page tables, and plan[t] has the  *)
(* ones still to do:                                                       *)
(*   "lock", "unlock"   the lock of the task's pool                        *)
(*   "scan_v", "set_v"  vaddr_get: a run of n free pages                   *)
(*   "stack"            get_a_page: the bit of the page of the stack       *)
(*   "scan_p", "set_p"  palloc and page_table_add, the page with offset n  *)
(*   "scan_t", "set_t"  page_table_add when the page table is missing: its *)
(*   "map"              palloc, from the kernel pool, and the rest         *)
(*   "ready"            the end of process_execute                         *)
(*   "pfree", "unmap"   mfree_page, for the page with offset n             *)
(*   "remove"           vaddr_remove                                       *)
(*                                                                         *)
(* get_kernel_pages and the palloc of a page table take no lock, or that   *)
(* of the other pool.  When a task uses a bitmap that another one has      *)
(* scanned and not yet changed, the two may get one page or frame, or lose *)
(* an update; overlap then names them, and the model goes no further.      *)
(***************************************************************************)
EXTENDS Bitmap, Sequences

CONSTANTS
    Kernel,         \* the address space of the kernel
    Threads,        \* kernel threads
    Procs,          \* PCBs of processes
    First,          \* the process that main creates before any other task runs
    NoTask,
    NKernel,        \* frames of kernel_pool, and pages of kernel_vaddr
    NUser,          \* frames of user_pool
    UPages,         \* pages of a process, the last one that of its stack
    TablePages,     \* pages of one page table, 1024 in the code
    BitmapPages,    \* pages of the bitmap of a process, 23 in the code
    MaxPages,       \* bound on the pages of one request
    MaxCalls        \* bound on the number of calls of thread_start and sys_malloc

ASSUME PagesAssumption ==
    /\ {NKernel, NUser, TablePages, BitmapPages, MaxPages} \subseteq Nat \ {0}
    /\ First \in Procs
    /\ UPages \in Nat \ {0, 1} /\ MaxCalls \in Nat
    /\ Procs \cap (Threads \cup {Kernel, NoTask, "kernel", "user"}) = {}
    /\ NoTask \notin Threads \cup {Kernel, "kernel", "user"}

VARIABLES
    plan,       \* see above
    reg,        \* locals of t's call: its first page, bit_idx, its frame, its child
    vbits,      \* the bitmap of virtual pages of each address space
    pbits,      \* pool_bitmap of each pool
    pte,        \* the frame of each page, or NoFrame
    pde,        \* the frame of each page table of a process, or NoFrame
    given,      \* history: the runs of pages in use, [space, page, n]
    state,      \* of a process: "none", "creating", "ready", "starting", "up"
    owner,      \* the holder of the lock of each pool, or NoTask
    off,        \* the task that runs with interrupts disabled, or NoTask
    panic,      \* "no", or why the machine stopped
    overlap,
    calls       \* calls of thread_start and sys_malloc so far

vars == <<plan, reg, vbits, pbits, pte, pde, given, state, owner, off, panic, overlap, calls>>

Tasks == Threads \cup Procs
Spaces == Procs \cup {Kernel}
Space(t) == IF t \in Procs THEN t ELSE Kernel

(* The pool of a task: pf, and the mem_pool that follows from it.          *)
Pool(t) == IF t \in Procs THEN "user" ELSE "kernel"

PoolLen(pool) == IF pool = "user" THEN NUser ELSE NKernel
SpaceLen(s) == IF s = Kernel THEN NKernel ELSE UPages

(* Frames are numbered through: user_pool begins where kernel_pool ends.   *)
Frame(pool, bit) == IF pool = "user" THEN NKernel + bit ELSE bit
Frames == 0..NKernel + NUser - 1
NoFrame == -1

Table(page) == page \div TablePages
Tables == 0..Table(UPages)

NoReg == [page |-> 0, bit |-> 0, frame |-> NoFrame, child |-> NoTask]

(* The bitmaps are clear but for the PCB, the bitmap and the directory of  *)
(* the first process.  The bit after that of the kernel's pages is part of *)
(* other memory; Heap has both its values.                                 *)
Init ==
    LET used  == 0..BitmapPages + 1
        run(page, n) == [space |-> Kernel, page |-> page, n |-> n, heap |-> FALSE]
    IN
    /\ plan = [t \in Tasks |-> <<>>] /\ reg = [t \in Tasks |-> NoReg]
    /\ vbits = [s \in Spaces |-> IF s = Kernel THEN used ELSE {}]
    /\ pbits = [pool \in {"kernel", "user"} |-> IF pool = "kernel" THEN used ELSE {}]
    /\ pte = [s \in Spaces |-> [page \in 0..SpaceLen(s) |->
                 IF s = Kernel /\ page \in used THEN page ELSE NoFrame]]
    /\ pde = [p \in Procs |-> [i \in Tables |-> NoFrame]]
    /\ given = {run(0, 1), run(1, BitmapPages), run(BitmapPages + 1, 1)}
    /\ state = [p \in Procs |-> IF p = First THEN "ready" ELSE "none"]
    /\ owner = [pool \in {"kernel", "user"} |-> NoTask] /\ off = NoTask
    /\ panic = "no" /\ overlap = {} /\ calls = 0

-----------------------------------------------------------------------------
Op(op, n) == [op |-> op, n |-> n]

(* Two accesses for each of n pages in turn.                               *)
Each(n, first, second) ==
    [i \in 1..2 * n |-> Op(IF i % 2 = 1 THEN first ELSE second, (i - 1) \div 2)]

(* malloc_page of n pages, and what is left of it after vaddr_get.         *)
Backed(n) == Each(n, "scan_p", "set_p")

malloc_page(n) == <<Op("scan_v", n), Op("set_v", n)>> \o Backed(n)

get_kernel_pages(n) == malloc_page(n)

get_a_page == <<Op("lock", 0), Op("stack", 1)>> \o Backed(1) \o <<Op("unlock", 0)>>

Running == panic = "no" /\ overlap = {}

Begins(t, ops) ==
    /\ Running /\ off = NoTask /\ plan[t] = <<>>
    /\ plan' = [plan EXCEPT ![t] = ops]
    /\ UNCHANGED <<vbits, pbits, pte, pde, owner, off, panic, overlap>>

Counted == calls < MaxCalls /\ calls' = calls + 1

(* The PCB of a thread.                                                    *)
thread_start(t) ==
    /\ t \in Threads
    /\ Counted
    /\ Begins(t, get_kernel_pages(1))
    /\ UNCHANGED <<reg, given, state>>

(* The PCB of a process, its bitmap, and its page directory.               *)
process_execute(t, p) ==
    /\ t \in Threads /\ state[p] = "none"
    /\ Begins(t, get_kernel_pages(1) \o get_kernel_pages(BitmapPages) \o get_kernel_pages(1)
                   \o <<Op("ready", 0)>>)
    /\ reg' = [reg EXCEPT ![t].child = p]
    /\ state' = [state EXCEPT ![p] = "creating"]
    /\ UNCHANGED <<given, calls>>

(* The first code of a process, in the kernel with interrupts enabled.     *)
start_process(p) ==
    /\ p \in Procs /\ state[p] = "ready"
    /\ Begins(p, get_a_page)
    /\ state' = [state EXCEPT ![p] = "starting"]
    /\ UNCHANGED <<reg, given, calls>>

Calls(t) == t \in Procs => state[t] = "up"

(* Mutant: sys_malloc takes no lock.                                       *)
sys_malloc_unlocked(t, n) ==
    /\ Calls(t) /\ Counted
    /\ Begins(t, malloc_page(n))
    /\ UNCHANGED <<reg, given, state>>

(* sys_malloc that needs n pages, and sys_free of what it gave.            *)
sys_malloc(t, n) ==
    /\ Calls(t) /\ Counted
    /\ Begins(t, <<Op("lock", 0)>> \o malloc_page(n) \o <<Op("unlock", 0)>>)
    /\ UNCHANGED <<reg, given, state>>

(* Mutant: one page too many is freed.                                     *)
mfree_page_more(n) == Each(n + 1, "pfree", "unmap") \o <<Op("remove", n)>>

(* mfree_page, page by page.                                               *)
mfree_page(n) == Each(n, "pfree", "unmap") \o <<Op("remove", n)>>

sys_free(t, b) ==
    /\ Calls(t) /\ b.space = Space(t) /\ b.heap
    /\ Begins(t, <<Op("lock", 0)>> \o mfree_page(b.n) \o <<Op("unlock", 0)>>)
    /\ reg' = [reg EXCEPT ![t].page = b.page]
    /\ given' = given \ {b}
    /\ UNCHANGED <<state, calls>>

-----------------------------------------------------------------------------
At(t, op) ==
    /\ Running /\ off \in {NoTask, t}
    /\ plan[t] # <<>> /\ Head(plan[t]).op = op
    /\ UNCHANGED calls

Arg(t) == Head(plan[t]).n

Goes(t) == plan' = [plan EXCEPT ![t] = Tail(@)]

Stop(why) ==
    /\ panic' = why
    /\ UNCHANGED <<plan, reg, vbits, pbits, pte, pde, given, state, owner, off, overlap>>

(* The bitmap that t has scanned and not yet changed, or freed from and    *)
(* not yet unmapped.                                                       *)
Using(t) ==
    IF plan[t] = <<>> THEN NoTask
    ELSE LET op == Head(plan[t]).op IN
         CASE op = "set_v" -> Space(t)
           [] op \in {"set_p", "unmap"} -> Pool(t)
           [] op = "set_t" -> "kernel"
           [] OTHER -> NoTask

Uses(t, bitmap) == overlap' = {{t, u} : u \in {v \in Tasks \ {t} : Using(v) = bitmap}}

(* lock_acquire of the pool's lock; a system call, once it has the lock,   *)
(* runs to its end with interrupts disabled.                               *)
Lock(t) ==
    /\ At(t, "lock") /\ owner[Pool(t)] = NoTask
    /\ Goes(t)
    /\ owner' = [owner EXCEPT ![Pool(t)] = t]
    /\ off' = IF t \in Procs /\ state[t] = "up" THEN t ELSE NoTask
    /\ UNCHANGED <<reg, vbits, pbits, pte, pde, given, state, panic, overlap>>

Unlock(t) ==
    /\ At(t, "unlock")
    /\ Goes(t)
    /\ owner' = [owner EXCEPT ![Pool(t)] = NoTask]
    /\ off' = NoTask
    /\ reg' = [reg EXCEPT ![t] = NoReg]
    /\ state' = [p \in Procs |-> IF p = t THEN "up" ELSE state[p]]
    /\ UNCHANGED <<vbits, pbits, pte, pde, given, panic, overlap>>

(* A run that is not found: sys_malloc releases the lock and returns NULL. *)
(* get_kernel_pages returns NULL to create_user_vaddr_bitmap, which uses   *)
(* it as an address.                                                       *)
ReturnNull(t) ==
    IF owner[Pool(t)] = t
    THEN plan' = [plan EXCEPT ![t] = <<Op("unlock", 0)>>] /\ UNCHANGED <<reg, panic>>
    ELSE panic' = "null" /\ UNCHANGED <<plan, reg>>

(* Mutant: the run is taken one page further on.                           *)
ScanVaddr_next(t) ==
    /\ At(t, "scan_v")
    /\ LET s     == Space(t)
           start == bitmap_scan(vbits[s], SpaceLen(s), Arg(t))
       IN IF Full(vbits[s], SpaceLen(s)) THEN Stop("full")
          ELSE /\ IF start = -1 THEN ReturnNull(t)
                  ELSE Goes(t) /\ reg' = [reg EXCEPT ![t].page = start + 1] /\ UNCHANGED panic
               /\ Uses(t, s)
               /\ UNCHANGED <<vbits, pbits, pte, pde, given, state, owner, off>>

ScanVaddr(t) ==
    /\ At(t, "scan_v")
    /\ LET s     == Space(t)
           start == bitmap_scan(vbits[s], SpaceLen(s), Arg(t))
       IN IF Full(vbits[s], SpaceLen(s)) THEN Stop("full")
          ELSE /\ IF start = -1 THEN ReturnNull(t)
                  ELSE Goes(t) /\ reg' = [reg EXCEPT ![t].page = start] /\ UNCHANGED panic
               /\ Uses(t, s)
               /\ UNCHANGED <<vbits, pbits, pte, pde, given, state, owner, off>>

(* The ASSERT that the pages are below that of the stack.                  *)
SetVaddr(t) ==
    /\ At(t, "set_v")
    /\ IF t \in Procs /\ reg[t].page >= UPages - 1 THEN Stop("assert")
       ELSE /\ Goes(t)
            /\ vbits' = [vbits EXCEPT ![Space(t)] =
                           bitmap_set(@, reg[t].page..reg[t].page + Arg(t) - 1, 1)]
            /\ UNCHANGED <<reg, pbits, pte, pde, given, state, owner, off, panic, overlap>>

SetStack(t) ==
    /\ At(t, "stack")
    /\ Goes(t)
    /\ vbits' = [vbits EXCEPT ![t] = bitmap_set(@, {UPages - 1}, 1)]
    /\ reg' = [reg EXCEPT ![t].page = UPages - 1]
    /\ UNCHANGED <<pbits, pte, pde, given, state, owner, off, panic, overlap>>

(* Mutant: palloc returns NULL when the pool is full, and so does its      *)
(* caller.                                                                 *)
ScanFrame_null(t) ==
    \E op \in {"scan_p", "scan_t"} :
        LET pool == IF op = "scan_t" THEN "kernel" ELSE Pool(t) IN
        /\ At(t, op)
        /\ IF Full(pbits[pool], PoolLen(pool))
           THEN plan' = [plan EXCEPT ![t] = <<>>] /\ UNCHANGED <<reg, overlap>>
           ELSE /\ Goes(t)
                /\ reg' = [reg EXCEPT ![t].bit = bitmap_scan(pbits[pool], PoolLen(pool), 1)]
                /\ Uses(t, pool)
        /\ UNCHANGED <<vbits, pbits, pte, pde, given, state, owner, off, panic>>

(* palloc, for a page of the task's own pool or for a page table.          *)
ScanFrame(t) ==
    \E op \in {"scan_p", "scan_t"} :
        LET pool == IF op = "scan_t" THEN "kernel" ELSE Pool(t) IN
        /\ At(t, op)
        /\ IF Full(pbits[pool], PoolLen(pool)) THEN Stop("full")
           ELSE /\ Goes(t)
                /\ reg' = [reg EXCEPT ![t].bit = bitmap_scan(pbits[pool], PoolLen(pool), 1)]
                /\ Uses(t, pool)
                /\ UNCHANGED <<vbits, pbits, pte, pde, given, state, owner, off, panic>>

(* The page with offset n of the call is mapped to its frame.  After the   *)
(* last one the pages are the caller's; heap says that sys_free may take   *)
(* them back.                                                              *)
Mapped(t, frame) ==
    LET page == reg[t].page + Arg(t) IN
    IF pte[Space(t)][page] # NoFrame THEN panic' = "repeat" /\ UNCHANGED <<plan, reg, pte, given>>
    ELSE /\ Goes(t)
         /\ pte' = [pte EXCEPT ![Space(t)][page] = frame]
         /\ IF Tail(plan[t]) # <<>> /\ plan[t][2].op = "scan_p"
            THEN reg' = [reg EXCEPT ![t].bit = 0, ![t].frame = NoFrame] /\ UNCHANGED given
            ELSE /\ reg' = [reg EXCEPT ![t] = [NoReg EXCEPT !.child = reg[t].child]]
                 /\ given' = given \cup {[space |-> Space(t), page |-> reg[t].page, n |-> Arg(t) + 1,
                                          heap |-> owner[Pool(t)] = t /\ Calls(t)]}
         /\ UNCHANGED panic

(* The frame is marked, and page_table_add enters it in the page directory *)
(* that is in use.  The page tables of the kernel are there from the start *)
(* and in every page directory; one of a process may be missing.           *)
SetFrame(t) ==
    /\ At(t, "set_p")
    /\ pbits' = [pbits EXCEPT ![Pool(t)] = bitmap_set(@, {reg[t].bit}, 1)]
    /\ LET frame == Frame(Pool(t), reg[t].bit) IN
       IF t \in Procs /\ pde[t][Table(reg[t].page + Arg(t))] = NoFrame
       THEN /\ plan' = [plan EXCEPT ![t] = <<Op("scan_t", 0), Op("set_t", Arg(t)), Op("map", Arg(t))>>
                                               \o Tail(@)]
            /\ reg' = [reg EXCEPT ![t].frame = frame]
            /\ UNCHANGED <<pte, given, panic>>
       ELSE Mapped(t, frame)
    /\ UNCHANGED <<vbits, pde, state, owner, off, overlap>>

(* The page table is marked and put in the page directory.                 *)
SetTable(t) ==
    /\ At(t, "set_t")
    /\ pbits' = [pbits EXCEPT !["kernel"] = bitmap_set(@, {reg[t].bit}, 1)]
    /\ pde' = [pde EXCEPT ![t][Table(reg[t].page + Arg(t))] = Frame("kernel", reg[t].bit)]
    /\ Goes(t)
    /\ UNCHANGED <<reg, vbits, pte, given, state, owner, off, panic, overlap>>

MapPage(t) ==
    /\ At(t, "map")
    /\ Mapped(t, reg[t].frame)
    /\ UNCHANGED <<vbits, pbits, pde, state, owner, off, overlap>>

Ready(t) ==
    /\ At(t, "ready")
    /\ Goes(t)
    /\ state' = [state EXCEPT ![reg[t].child] = "ready"]
    /\ reg' = [reg EXCEPT ![t] = NoReg]
    /\ UNCHANGED <<vbits, pbits, pte, pde, given, owner, off, panic, overlap>>

pfree(t) ==
    /\ At(t, "pfree")
    /\ Goes(t)
    /\ LET frame == pte[Space(t)][reg[t].page + Arg(t)] IN
       IF frame >= NKernel
       THEN pbits' = [pbits EXCEPT !["user"] = bitmap_set(@, {frame - NKernel}, 0)] /\ Uses(t, "user")
       ELSE pbits' = [pbits EXCEPT !["kernel"] = bitmap_set(@, {frame}, 0)] /\ Uses(t, "kernel")
    /\ UNCHANGED <<reg, vbits, pte, pde, given, state, owner, off, panic>>

page_table_pte_remove(t) ==
    /\ At(t, "unmap")
    /\ Goes(t)
    /\ pte' = [pte EXCEPT ![Space(t)][reg[t].page + Arg(t)] = NoFrame]
    /\ UNCHANGED <<reg, vbits, pbits, pde, given, state, owner, off, panic, overlap>>

(* Mutant: the pages of a process are removed from the kernel's bitmap.    *)
vaddr_remove_kernel(t) ==
    /\ At(t, "remove")
    /\ Goes(t)
    /\ vbits' = [vbits EXCEPT ![Kernel] =
                   bitmap_set(@, reg[t].page..reg[t].page + Arg(t) - 1, 0)]
    /\ Uses(t, Kernel)
    /\ UNCHANGED <<reg, pbits, pte, pde, given, state, owner, off, panic>>

vaddr_remove(t) ==
    /\ At(t, "remove")
    /\ Goes(t)
    /\ vbits' = [vbits EXCEPT ![Space(t)] =
                   bitmap_set(@, reg[t].page..reg[t].page + Arg(t) - 1, 0)]
    /\ Uses(t, Space(t))
    /\ UNCHANGED <<reg, pbits, pte, pde, given, state, owner, off, panic>>

-----------------------------------------------------------------------------
Proceed(t) ==
    \/ Lock(t) \/ Unlock(t) \/ ScanVaddr(t) \/ SetVaddr(t) \/ SetStack(t)
    \/ ScanFrame(t) \/ SetFrame(t) \/ SetTable(t) \/ MapPage(t)
    \/ Ready(t) \/ pfree(t) \/ page_table_pte_remove(t) \/ vaddr_remove(t)

Next ==
    \E t \in Tasks :
        \/ thread_start(t)
        \/ \E p \in Procs : process_execute(t, p)
        \/ start_process(t)
        \/ \E n \in 1..MaxPages : sys_malloc(t, n)
        \/ \E b \in given : sys_free(t, b)
        \/ Proceed(t)

Spec == Init /\ [][Next]_vars

-----------------------------------------------------------------------------
TypeOK ==
    /\ vbits[Kernel] \subseteq 0..NKernel
    /\ \A p \in Procs : vbits[p] \subseteq 0..UPages
    /\ pbits["kernel"] \subseteq 0..NKernel - 1 /\ pbits["user"] \subseteq 0..NUser - 1
    /\ \A s \in Spaces : pte[s] \in [0..SpaceLen(s) -> Frames \cup {NoFrame}]
    /\ pde \in [Procs -> [Tables -> Frames \cup {NoFrame}]]
    /\ state \in [Procs -> {"none", "creating", "ready", "starting", "up"}]
    /\ owner \in [{"kernel", "user"} -> Tasks \cup {NoTask}] /\ off \in Procs \cup {NoTask}

(* Until two calls overlap, the machine stops only for want of memory: no  *)
(* page is mapped twice ("pte repeat"), and no page from that of the stack *)
(* on is given out by vaddr_get, whose ASSERT says so.                     *)
StopsOnlyFull == panic \in {"no", "full", "null"}

(* The blocks in use, as sets of frames.                                   *)
FramesOf(b) == {pte[b.space][q] : q \in b.page..b.page + b.n - 1}

PageTables == {x \in Procs \X Tables : pde[x[1]][x[2]] # NoFrame}

Blocks == {FramesOf(b) : b \in given} \cup {{pde[x[1]][x[2]]} : x \in PageTables}

(* get_kernel_pages, get_a_page, sys_malloc and sys_free of all tasks, and *)
(* the page tables, go on like one allocator of frames: no frame gets two  *)
(* uses, in one address space or in two, and none is moved while in use.   *)
Abstract == INSTANCE Allocator WITH Cells <- Frames, blocks <- Blocks

PagesAllocated == [][Abstract!Malloc \/ Abstract!Free]_Blocks

(* The pool bitmaps are exact: a frame is marked if and only if it backs   *)
(* one page or one page table, or is about to; a process maps only frames  *)
(* of user_pool, and the kernel and page tables use only kernel_pool.  An  *)
(* address space no call is working on has exactly its mapped pages        *)
(* marked, but for the bit past the kernel's bitmap.                       *)
PagesAccounted ==
    LET freeing(t) == plan[t] # <<>> /\ Head(plan[t]).op = "unmap"
        freed  == {<<Space(t), reg[t].page + Arg(t)>> : t \in {u \in Tasks : freeing(u)}}
        mapped(s) == {<<s, q>> : q \in {r \in 0..SpaceLen(s) : pte[s][r] # NoFrame}} \ freed
        flying(pool) == {t \in Tasks : Pool(t) = pool /\ reg[t].frame # NoFrame}
        backing(pages) == {pte[x[1]][x[2]] : x \in pages}
        exact(pool, pages, tables) ==
            /\ {Frame(pool, b) : b \in pbits[pool]} =
                 backing(pages) \cup {pde[x[1]][x[2]] : x \in tables}
                                \cup {reg[t].frame : t \in flying(pool)}
            /\ Cardinality(pbits[pool]) =
                 Cardinality(pages) + Cardinality(tables) + Cardinality(flying(pool))
    IN  /\ TypeOK
        /\ exact("kernel", mapped(Kernel), PageTables)
        /\ exact("user", UNION {mapped(p) : p \in Procs}, {})
        /\ \A s \in Spaces :
            (\A t \in Tasks : Space(t) = s => plan[t] = <<>>) =>
                vbits[s] \ {SpaceLen(s)} = {x[2] : x \in mapped(s)} \ {SpaceLen(s)}

(* A pool's lock is held only by a call that is under way: get_a_page has  *)
(* a return that keeps it, which is never taken.                           *)
LockInCall == \A pool \in {"kernel", "user"} : owner[pool] # NoTask => plan[owner[pool]] # <<>>

(* The calls of two processes never overlap, although their page tables    *)
(* come from the kernel's pool: a kernel thread is part of every overlap.  *)
OverlapKernel == \A pair \in overlap : pair \cap Threads # {}
=============================================================================
