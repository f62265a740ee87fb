------------------------------- MODULE Inodes -------------------------------
(***************************************************************************)
(* fs/inode.c: the open inodes of a partition, shared by tasks that run    *)
(* with interrupts enabled and may be preempted anywhere.  open_inodes is  *)
(* a linked list of Lists; a sys_malloc, a sys_free and an ide_read are    *)
(* one step each, at which the task may lose the CPU.                      *)
(*                                                                         *)
(* pc[t]: "out"    not in inode.c                                          *)
(*        "walk"   inode_open, in the search of open_inodes                *)
(*        "inc"    i_open_cnts++, the load done                            *)
(*        "read"   before ide_read, "push" and "link" in list_push,        *)
(*        "count"  before i_open_cnts = 1                                  *)
(*        "free"   inode_close, before sys_free                            *)
(*        "sync"   inode_sync, between ide_read and ide_write              *)
(***************************************************************************)
EXTENDS Lists

CONSTANTS
    Tasks,
    Addrs,          \* where sys_malloc may put an inode
    Inodes,         \* how many inodes the table has room for, 4096
    InodeSize, SECTOR_SIZE,
    ByteRange,      \* the numbers a uint8_t holds, 256
    MaxSize         \* bound on i_size

Numbers == 0..Inodes - 1

ASSUME InodesAssumption ==
    /\ InodeSize \in 1..SECTOR_SIZE
    /\ ByteRange \in Nat \ {0}

VARIABLES
    links,      \* part->open_inodes and the inode_tag of the inodes
    inode,      \* the memory at each address, and whether it is allocated
    table,      \* the bytes of the inode table on disk
    pc,
    no,         \* inode_no of t's call
    elem,       \* elem, and later inode_found
    reg,        \* the register with i_open_cnts, or with head.next
    io_buf,     \* the bytes that inode_sync is going to write
    fd,         \* the inode that t has opened
    synced,     \* history: the i_size last written for each number
    races       \* history: how calls have overlapped, below

vars == <<links, inode, table, pc, no, elem, reg, io_buf, fd, synced, races>>

(* Whole sectors.                                                          *)
TableBytes == 0..((Inodes * InodeSize - 1) \div SECTOR_SIZE + 1) * SECTOR_SIZE - 1

Free == [live |-> FALSE, i_no |-> 0, i_size |-> 0, i_open_cnts |-> 0]

(* A byte of an inode tells the number and the size it has.                *)
Bytes(i_no, i_size) == [i_no |-> i_no, i_size |-> i_size]

NotCreated == MaxSize + 1

(* partition_format wrote inode 0, and zeros elsewhere.                    *)
Init ==
    /\ links = list_init(Addrs)
    /\ inode = [x \in Addrs |-> Free]
    /\ table = [b \in TableBytes |-> Bytes(0, 0)]
    /\ pc = [t \in Tasks |-> "out"]
    /\ no = [t \in Tasks |-> 0]
    /\ elem = [t \in Tasks |-> NULL] /\ reg = elem /\ fd = elem
    /\ io_buf = [t \in Tasks |-> <<>>]
    /\ synced = [n \in Numbers |-> IF n = 0 THEN 0 ELSE NotCreated]
    /\ races = {}

-----------------------------------------------------------------------------
(* inode_locate: where the inode is in the table, and the sectors that are *)
(* read for it, two of them when it crosses a boundary.                    *)
Place(inode_no) == inode_no * InodeSize..(inode_no + 1) * InodeSize - 1

(* Mutant: an inode is always taken to be in one sector.                   *)
inode_locate_one(inode_no) ==
    LET off_sec == (inode_no * InodeSize) \div SECTOR_SIZE
    IN off_sec * SECTOR_SIZE..(off_sec + 1) * SECTOR_SIZE - 1

inode_locate(inode_no) ==
    LET off_size == inode_no * InodeSize
        off_sec  == off_size \div SECTOR_SIZE
        two_sec  == SECTOR_SIZE - (off_size % SECTOR_SIZE) < InodeSize
    IN off_sec * SECTOR_SIZE..(off_sec + IF two_sec THEN 2 ELSE 1) * SECTOR_SIZE - 1

(* t is in inode_open and has not made its inode known to others.          *)
Unlisted(t) == pc[t] \in {"walk", "read", "push", "link"}

(* t is changing i_open_cnts of the inode at x.                            *)
Counting(t, x) == pc[t] \in {"inc", "count"} /\ elem[t] = x

Noted(race, cond) == IF cond THEN races \cup {race} ELSE races

(* After "count" and "close" an inode is freed while it is in use, after   *)
(* "sync" and "wide" one is lost on disk; what happens then is not         *)
(* followed.                                                               *)
Defined == races \subseteq {"open"}

At(t, at) == Defined /\ pc[t] = at

Goto(t, to) == pc' = [pc EXCEPT ![t] = to]

(* The end of a call, after which t has the inode at x open, or NULL.      *)
Return(t, x) ==
    /\ fd' = [fd EXCEPT ![t] = x]
    /\ no' = [no EXCEPT ![t] = 0]
    /\ elem' = [elem EXCEPT ![t] = NULL]
    /\ reg' = [reg EXCEPT ![t] = NULL]
    /\ Goto(t, "out")

-----------------------------------------------------------------------------
(* Noted if another task is opening the same inode.                        *)
inode_open(t, inode_no) ==
    /\ At(t, "out") /\ fd[t] = NULL
    /\ synced[inode_no] # NotCreated
    /\ no' = [no EXCEPT ![t] = inode_no]
    /\ elem' = [elem EXCEPT ![t] = links.next[ListHead]]
    /\ races' = Noted("open", \E u \in Tasks : Unlisted(u) /\ no[u] = inode_no)
    /\ Goto(t, "walk")
    /\ UNCHANGED <<links, inode, table, reg, io_buf, fd, synced>>

(* Mutant: elem = elem->next is forgotten.                                 *)
Walk_stays(t) ==
    /\ At(t, "walk")
    /\ elem[t] \in Addrs /\ inode[elem[t]].i_no # no[t]
    /\ UNCHANGED vars

Walk(t) ==
    /\ At(t, "walk")
    /\ elem[t] \in Addrs /\ inode[elem[t]].i_no # no[t]
    /\ elem' = [elem EXCEPT ![t] = links.next[@]]
    /\ UNCHANGED <<links, inode, table, pc, no, reg, io_buf, fd, synced, races>>

(* i_open_cnts++ of the inode that was found; noted if another task is     *)
(* changing it.                                                            *)
Found(t) ==
    /\ At(t, "walk")
    /\ elem[t] \in Addrs /\ inode[elem[t]].i_no = no[t]
    /\ reg' = [reg EXCEPT ![t] = inode[elem[t]].i_open_cnts]
    /\ races' = Noted("count", \E u \in Tasks : Counting(u, elem[t]))
    /\ Goto(t, "inc")
    /\ UNCHANGED <<links, inode, table, no, elem, io_buf, fd, synced>>

Increment(t) ==
    /\ At(t, "inc")
    /\ inode' = [inode EXCEPT ![elem[t]].i_open_cnts = reg[t] + 1]
    /\ Return(t, elem[t])
    /\ UNCHANGED <<links, table, io_buf, synced, races>>

(* The search failed: sys_malloc of an inode.                              *)
Miss(t) ==
    /\ At(t, "walk")
    /\ elem[t] = ListTail
    /\ \E x \in Addrs :
        /\ ~inode[x].live
        /\ inode' = [inode EXCEPT ![x] = [Free EXCEPT !.live = TRUE]]
        /\ elem' = [elem EXCEPT ![t] = x]
    /\ Goto(t, "read")
    /\ UNCHANGED <<links, table, no, reg, io_buf, fd, synced, races>>

(* ide_read, and the memcpy of all fields.                                 *)
Read(t) ==
    /\ At(t, "read")
    /\ LET byte == table[no[t] * InodeSize] IN
       inode' = [inode EXCEPT ![elem[t]] =
                   [live |-> TRUE, i_no |-> byte.i_no, i_size |-> byte.i_size, i_open_cnts |-> 0]]
    /\ Goto(t, "push")
    /\ UNCHANGED <<links, table, no, elem, reg, io_buf, fd, synced, races>>

(* list_push reads head.next before list_insert_before disables interrupts.*)
PushFirst(t) ==
    /\ At(t, "push")
    /\ reg' = [reg EXCEPT ![t] = links.next[ListHead]]
    /\ Goto(t, "link")
    /\ UNCHANGED <<links, inode, table, no, elem, io_buf, fd, synced, races>>

Link(t) ==
    /\ At(t, "link")
    /\ links' = list_insert_before(links, reg[t], elem[t])
    /\ Goto(t, "count")
    /\ UNCHANGED <<inode, table, no, elem, reg, io_buf, fd, synced, races>>

(* Mutant: the count is left as it was read.                               *)
Count_missing(t) ==
    /\ At(t, "count")
    /\ Return(t, elem[t])
    /\ UNCHANGED <<links, inode, table, io_buf, synced, races>>

(* i_open_cnts = 1, and sys_free of the buffer.                            *)
Count(t) ==
    /\ At(t, "count")
    /\ inode' = [inode EXCEPT ![elem[t]].i_open_cnts = 1]
    /\ Return(t, elem[t])
    /\ UNCHANGED <<links, table, io_buf, synced, races>>

-----------------------------------------------------------------------------
(* inode_close up to sys_free, in which the task may wait for a lock.      *)
(* Noted if another task is changing the count, or if the inode goes while *)
(* another task's walk or list_push is at it.                              *)
inode_close(t) ==
    /\ At(t, "out") /\ fd[t] # NULL
    /\ LET x == fd[t] IN
       /\ inode' = [inode EXCEPT ![x].i_open_cnts = @ - 1]
       /\ IF inode[x].i_open_cnts = 1
          THEN links' = list_remove(links, x) /\ elem' = [elem EXCEPT ![t] = x] /\ Goto(t, "free")
          ELSE UNCHANGED <<links, elem, pc>>
    /\ fd' = [fd EXCEPT ![t] = NULL]
    /\ races' = Noted("close", \E u \in Tasks \ {t} :
                   \/ Counting(u, fd[t])
                   \/ inode[fd[t]].i_open_cnts = 1 /\ fd[t] \in {elem[u], reg[u]})
    /\ UNCHANGED <<table, no, reg, io_buf, synced>>

FreeInode(t) ==
    /\ At(t, "free")
    /\ inode' = [inode EXCEPT ![elem[t]] = Free]
    /\ Return(t, NULL)
    /\ UNCHANGED <<links, table, io_buf, synced, races>>

(* A caller changes the file's size.                                       *)
Grow(t) ==
    /\ At(t, "out") /\ fd[t] # NULL
    /\ inode[fd[t]].i_size < MaxSize
    /\ inode' = [inode EXCEPT ![fd[t]].i_size = @ + 1]
    /\ UNCHANGED <<links, table, pc, no, elem, reg, io_buf, fd, synced, races>>

-----------------------------------------------------------------------------
(* inode_sync up to ide_write: the number is kept in a uint8_t.  Calls for *)
(* one sector that overlap, and numbers that do not fit, are noted.        *)
SyncRead(t, i_no, i_size) ==
    LET inode_no == i_no % ByteRange
        sectors  == inode_locate(inode_no)
    IN /\ io_buf' = [io_buf EXCEPT ![t] = [b \in sectors |->
                         IF b \in Place(inode_no) THEN Bytes(i_no, i_size) ELSE table[b]]]
       /\ no' = [no EXCEPT ![t] = i_no]
       /\ Goto(t, "sync")
       /\ races' = races
            \cup (IF i_no # inode_no THEN {"wide"} ELSE {})
            \cup (IF \E u \in Tasks : pc[u] = "sync" /\ DOMAIN io_buf[u] \cap sectors # {}
                  THEN {"sync"} ELSE {})
       /\ UNCHANGED <<links, inode, table, elem, reg, fd, synced>>

inode_sync(t) ==
    /\ At(t, "out") /\ fd[t] # NULL
    /\ SyncRead(t, inode[fd[t]].i_no, inode[fd[t]].i_size)

(* A caller makes a new inode: inode_init, and inode_sync.                 *)
inode_init(t, inode_no) ==
    /\ At(t, "out") /\ synced[inode_no] = NotCreated
    /\ \A u \in Tasks : pc[u] = "sync" => no[u] # inode_no
    /\ SyncRead(t, inode_no, 0)

SyncWrite(t) ==
    /\ At(t, "sync")
    /\ table' = [b \in TableBytes |->
                    IF b \in DOMAIN io_buf[t] THEN io_buf[t][b] ELSE table[b]]
    /\ synced' = [synced EXCEPT ![no[t]] = io_buf[t][(no[t] % ByteRange) * InodeSize].i_size]
    /\ io_buf' = [io_buf EXCEPT ![t] = <<>>]
    /\ Return(t, fd[t])
    /\ UNCHANGED <<links, inode, races>>

-----------------------------------------------------------------------------
Step(t) == \/ Walk(t) \/ Found(t) \/ Increment(t) \/ Miss(t) \/ Read(t)
           \/ PushFirst(t) \/ Link(t) \/ Count(t) \/ FreeInode(t) \/ SyncWrite(t)

Next == \E t \in Tasks :
            \/ \E n \in Numbers : inode_open(t, n) \/ inode_init(t, n)
            \/ inode_close(t) \/ Grow(t) \/ inode_sync(t) \/ Step(t)

Spec == Init /\ [][Next]_vars

(* The scheduler runs every task, and the disk answers.                    *)
FairSpec == Spec /\ \A t \in Tasks : WF_vars(Step(t))

-----------------------------------------------------------------------------
TypeOK ==
    /\ DOMAIN inode = Addrs
    /\ \A x \in Addrs : inode[x].i_open_cnts \in 0..Cardinality(Tasks)
                        /\ inode[x].i_no \in Numbers /\ inode[x].i_size \in 0..MaxSize
    /\ pc \in [Tasks -> {"out", "walk", "inc", "read", "push", "link", "count", "free", "sync"}]
    /\ no \in [Tasks -> Numbers]
    /\ fd \in [Tasks -> Addrs \cup {NULL}]
    /\ elem \in [Tasks -> Addrs \cup {ListTail, NULL}]
    /\ DOMAIN table = TableBytes

Listed == {x \in Addrs : inode[x].live
                          /\ \A t \in Tasks : elem[t] = x => pc[t] \notin {"read", "push", "link", "free"}}

(* open_inodes is a list of exactly the open inodes, although list_push    *)
(* may use a first link that is no longer the first, and tasks open and    *)
(* close inodes at the same time.                                          *)
ListWhole == TypeOK /\ (Defined => IsList(links, Listed))

(* An inode is in memory twice only after two tasks were opening it at the *)
(* same time.                                                              *)
OneCopy ==
    races = {} =>
        \A x, y \in Listed : inode[x].i_no = inode[y].i_no => x = y

(* i_open_cnts counts the tasks that have the inode open, even one that is *)
(* there twice, so an inode is freed when the last of them closes it.      *)
CountExact ==
    Defined =>
        \A x \in Listed :
            \/ \E t \in Tasks : pc[t] = "count" /\ elem[t] = x
            \/ inode[x].i_open_cnts = Cardinality({t \in Tasks : fd[t] = x}) /\ inode[x].i_open_cnts > 0

(* The inodes in memory are exact, each there once and counted.            *)
OpenExact == OneCopy /\ CountExact

(* The place of an inode on disk has what inode_sync last wrote for it,    *)
(* and not what it wrote for another: inode_locate and the two-sector case *)
(* keep them apart, unless calls in one sector overlap or a number does    *)
(* not fit.                                                                *)
DiskExact ==
    Defined =>
        \A n \in Numbers : synced[n] # NotCreated =>
            \A b \in Place(n) : table[b] = Bytes(n, synced[n])

(* Every call returns: a walk through open_inodes ends although tasks push *)
(* to it and remove from it.                                               *)
CallReturns == \A t \in Tasks : pc[t] # "out" ~> pc[t] = "out" \/ ~Defined
=============================================================================
