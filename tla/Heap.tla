-------------------------------- MODULE Heap --------------------------------
(***************************************************************************)
(* kernel/memory.c and lib/kernel/bitmap.c: sys_malloc and sys_free of     *)
(* kernel threads, on the kernel's page pool.                              *)
(*                                                                         *)
(* Both run under the lock of the pool, which Sync shows to be a mutex, so *)
(* each is one action.  A page has PageUnits units; an arena's header      *)
(* takes the first, and its blocks follow.  Virtual pages and frames are   *)
(* numbered from the start of their pools.  bitmap_scan may test one bit   *)
(* after the last of its bitmap, so the virtual bitmap has a bit NPages,   *)
(* which belongs to other memory and may have any value at first.          *)
(*                                                                         *)
(* invlpg gets the address of a parameter, not of the page that is         *)
(* unmapped, so the TLB keeps the translation of that page until the next  *)
(* switch loads cr3.  The model stops (panic = "stale") when a new page is *)
(* cleared through such a translation to another frame: what the program   *)
(* does from then on depends on what that frame is used for.               *)
(***************************************************************************)
EXTENDS Bitmap, Sequences

CONSTANTS
    NPages,     \* pages of the kernel pool, physical and virtual alike
    PageUnits,  \* PG_SIZE; the header, sizeof(struct arena), is one unit
    Sizes,      \* the block sizes of k_block_descs
    MaxPages    \* bound on the pages of one large request

ASSUME HeapAssumption ==
    /\ NPages \in Nat \ {0}
    /\ PageUnits \in Nat \ {0, 1}
    /\ \A d \in Sizes : d \in 1..PageUnits - 1
    /\ MaxPages \in Nat \ {0}

VARIABLES
    vbits,      \* kernel_vaddr.vaddr_bitmap: the pages whose bit is 1
    pbits,      \* kernel_pool.pool_bitmap: the frames whose bit is 1
    pte,        \* page table: the frame of a page, or NoFrame
    arena,      \* the headers: [size, cnt], size 0 for a large arena
    free_list,  \* per size, the free blocks <<page, idx>>
    tlb,        \* the frame still cached for an unmapped page, or NoFrame
    live,       \* history: the blocks in use, <<page, idx>>
    panic       \* why the model stopped: "full", "assert", "stale", or "no"

vars == <<vbits, pbits, pte, arena, free_list, tlb, live, panic>>

Pages == 0..NPages
Frames == 0..NPages - 1
NoFrame == -1

(* block_desc_init: what fits in a page after the header.                  *)
blocks_per_arena(d) == (PageUnits - 1) \div d

(* Mutant: the index is not scaled by the size of a block.                 *)
arena2block_packed(d, idx) == 1 + idx

(* The unit of the page at which a block begins.                           *)
arena2block(d, idx) == 1 + idx * d

Blocks == Pages \X (0..PageUnits - 1)

TypeOK ==
    /\ vbits \in SUBSET Pages
    /\ pbits \in SUBSET Frames
    /\ pte \in [Pages -> Frames \cup {NoFrame}]
    /\ arena \in [Pages -> [size : Sizes \cup {0}, cnt : 0..PageUnits + MaxPages]]
    /\ free_list \in [Sizes -> Seq(Blocks)]
    /\ tlb \in [Pages -> Frames \cup {NoFrame}]
    /\ live \in SUBSET Blocks
    /\ panic \in {"no", "full", "assert", "stale"}

(* mem_init: both bitmaps are cleared, but not what follows them.          *)
Init ==
    /\ vbits \in SUBSET {NPages}
    /\ pbits = {}
    /\ pte = [p \in Pages |-> NoFrame]
    /\ arena = [p \in Pages |-> [size |-> 0, cnt |-> 0]]
    /\ free_list = [d \in Sizes |-> <<>>]
    /\ tlb = [p \in Pages |-> NoFrame]
    /\ live = {}
    /\ panic = "no"

-----------------------------------------------------------------------------
(* The k-th frame palloc finds, counting from 0: the lowest free ones.     *)
palloc(k) == CHOOSE f \in Frames \ pbits : Cardinality({g \in Frames \ pbits : g < f}) = k

(* malloc_page of n pages from page p on.                                  *)
MappedPages(p, n) == p..p + n - 1

malloc_page(p, n) ==
    /\ vbits' = vbits \cup MappedPages(p, n)
    /\ pbits' = pbits \cup {palloc(k) : k \in 0..n - 1}
    /\ pte' = [q \in Pages |-> IF q \in MappedPages(p, n) THEN palloc(q - p) ELSE pte[q]]
    /\ tlb' = [q \in Pages |-> IF q \in MappedPages(p, n) THEN NoFrame ELSE tlb[q]]

(* It stops the machine when it runs out of pages or frames ...            *)
Fails(n) == IF Full(vbits, NPages) THEN TRUE
            ELSE bitmap_scan(vbits, NPages, n) # -1 /\ Cardinality(Frames \ pbits) < n

(* ... or finds a page mapped already ("pte repeat").                      *)
Repeated(p, n) == \E q \in MappedPages(p, n) : pte[q] # NoFrame

(* The memset after it goes to frames the page table does not name.        *)
Stale(p, n) == \E q \in MappedPages(p, n) : tlb[q] \notin {NoFrame, palloc(q - p)}

Stop(why) ==
    /\ panic' = why
    /\ UNCHANGED <<vbits, pbits, pte, arena, free_list, tlb, live>>

-----------------------------------------------------------------------------
(* sys_malloc of more than 1024 bytes, n pages with the header: an arena   *)
(* of its own.  It returns NULL when no n pages are free in a row.         *)
sys_malloc_large(n) ==
    LET p == bitmap_scan(vbits, NPages, n) IN
    /\ panic = "no"
    /\ \/ Fails(n) /\ Stop("full")
       \/ ~Fails(n) /\ p = -1 /\ UNCHANGED vars
       \/ /\ ~Fails(n)
          /\ p # -1
          /\ IF Repeated(p, n) THEN Stop("assert")
             ELSE IF Stale(p, n) THEN Stop("stale")
             ELSE /\ malloc_page(p, n)
                  /\ arena' = [arena EXCEPT ![p] = [size |-> 0, cnt |-> n]]
                  /\ live' = live \cup {<<p, 0>>}
                  /\ UNCHANGED <<free_list, panic>>

(* The end of sys_malloc: the first block of list l is given out, with the *)
(* headers h.                                                              *)
Give(d, l, h) ==
    /\ free_list' = [free_list EXCEPT ![d] = Tail(l)]
    /\ arena' = [h EXCEPT ![Head(l)[1]].cnt = @ - 1]
    /\ live' = live \cup {Head(l)}
    /\ UNCHANGED panic

(* sys_malloc of a block of size d.  When the free list is empty a new     *)
(* arena is split into blocks first.                                       *)
sys_malloc(d) ==
    LET p == bitmap_scan(vbits, NPages, 1)
        l == [i \in 1..blocks_per_arena(d) |-> <<p, i - 1>>]
        h == [arena EXCEPT ![p] = [size |-> d, cnt |-> blocks_per_arena(d)]]
    IN
    /\ panic = "no"
    /\ \/ /\ free_list[d] # <<>>
          /\ Give(d, free_list[d], arena)
          /\ UNCHANGED <<vbits, pbits, pte, tlb>>
       \/ /\ free_list[d] = <<>>
          /\ IF Fails(1) THEN Stop("full")
             ELSE IF Repeated(p, 1) THEN Stop("assert")
             ELSE IF Stale(p, 1) THEN Stop("stale")
             ELSE malloc_page(p, 1) /\ Give(d, l, h)

(* mfree_page: frames, mappings and virtual pages are given back; the      *)
(* processor still knows the mappings.                                     *)
mfree_page(p, n) ==
    /\ vbits' = vbits \ MappedPages(p, n)
    /\ pbits' = pbits \ {pte[q] : q \in MappedPages(p, n)}
    /\ pte' = [q \in Pages |-> IF q \in MappedPages(p, n) THEN NoFrame ELSE pte[q]]
    /\ tlb' = [q \in Pages |-> IF q \in MappedPages(p, n) THEN pte[q] ELSE tlb[q]]

(* Mutant: the blocks of an arena that is released stay in the free list.  *)
ReleaseArena_listed(p, d, l) ==
    /\ free_list' = [free_list EXCEPT ![d] = l]
    /\ mfree_page(p, 1)
    /\ arena' = [arena EXCEPT ![p] = [size |-> 0, cnt |-> 0]]
    /\ UNCHANGED panic

(* list_remove of every block of an arena, from list l.                    *)
without(l, p) ==
    LET kept[k \in 0..Len(l)] ==
            IF k = 0 THEN <<>>
            ELSE IF l[k][1] = p THEN kept[k - 1] ELSE Append(kept[k - 1], l[k])
    IN  kept[Len(l)]

(* All the blocks of an arena are free, in list l: they leave the list and *)
(* the page is given back.  What its header held is gone.                  *)
ReleaseArena(p, d, l) ==
    IF \E i \in 0..blocks_per_arena(d) - 1 : \A k \in 1..Len(l) : l[k] # <<p, i>>
    THEN /\ panic' = "assert"
         /\ UNCHANGED <<vbits, pbits, pte, arena, free_list, tlb>>
    ELSE /\ free_list' = [free_list EXCEPT ![d] = without(l, p)]
         /\ mfree_page(p, 1)
         /\ arena' = [arena EXCEPT ![p] = [size |-> 0, cnt |-> 0]]
         /\ UNCHANGED panic

(* sys_free of a block in use.                                             *)
sys_free(b) ==
    LET p == b[1]
        d == arena[p].size
        l == Append(free_list[d], b)
    IN
    /\ panic = "no"
    /\ live' = live \ {b}
    /\ \/ /\ d = 0
          /\ mfree_page(p, arena[p].cnt)
          /\ arena' = [arena EXCEPT ![p].cnt = 0]
          /\ UNCHANGED <<free_list, panic>>
       \/ /\ d # 0
          /\ arena[p].cnt + 1 = blocks_per_arena(d)
          /\ ReleaseArena(p, d, l)
       \/ /\ d # 0
          /\ arena[p].cnt + 1 # blocks_per_arena(d)
          /\ free_list' = [free_list EXCEPT ![d] = l]
          /\ arena' = [arena EXCEPT ![p].cnt = @ + 1]
          /\ UNCHANGED <<vbits, pbits, pte, tlb, panic>>

(* A switch: page_dir_activate loads cr3, which empties the TLB.           *)
page_dir_activate ==
    /\ panic = "no"
    /\ tlb' = [p \in Pages |-> NoFrame]
    /\ UNCHANGED <<vbits, pbits, pte, arena, free_list, live, panic>>

Next ==
    \/ \E d \in Sizes : sys_malloc(d)
    \/ \E n \in 1..MaxPages : sys_malloc_large(n)
    \/ \E b \in live : sys_free(b)
    \/ page_dir_activate

Spec == Init /\ [][Next]_vars

-----------------------------------------------------------------------------
Mapped == {p \in Pages : pte[p] # NoFrame}

(* The pages behind a block in use.                                        *)
PagesOf(b) == IF arena[b[1]].size = 0 THEN MappedPages(b[1], arena[b[1]].cnt) ELSE {b[1]}

(* The physical units of a block in use.                                   *)
CellsOf(b) ==
    LET p == b[1]
        d == arena[p].size
    IN  IF d = 0
        THEN {<<pte[q], u>> : q \in PagesOf(b), u \in 0..PageUnits - 1} \ {<<pte[p], 0>>}
        ELSE {<<pte[p], arena2block(d, b[2]) + k>> : k \in 0..d - 1}

(* sys_malloc and sys_free implement an allocator: blocks in use never     *)
(* share a unit of physical memory, and keep theirs until they are freed.  *)
Abstract == INSTANCE Allocator WITH Cells <- Frames \X (0..PageUnits - 1),
                                    blocks <- {CellsOf(b) : b \in live}

HeapIsAllocator == Abstract!Spec

(* The free list of a size holds exactly the blocks not in use of the      *)
(* arenas of that size, once each; the count in a header is the number of  *)
(* its free blocks, and an arena without a block in use is given back.     *)
FreeListExact ==
    \A d \in Sizes :
        LET l == free_list[d]
            arenas == {p \in Mapped : arena[p].size = d}
            unused == (arenas \X (0..blocks_per_arena(d) - 1)) \ live
        IN  /\ {l[k] : k \in 1..Len(l)} = unused
            /\ Len(l) = Cardinality(unused)
            /\ \A p \in arenas :
                /\ arena[p].cnt = Cardinality({b \in unused : b[1] = p})
                /\ arena[p].cnt < blocks_per_arena(d)

(* The bitmaps and the page table agree, no frame is mapped twice, and     *)
(* every mapped page is there for a block in use: no page is ever lost.    *)
PagesExact ==
    /\ Mapped \subseteq vbits
    /\ vbits \ {NPages} \subseteq Mapped
    /\ pbits = {pte[p] : p \in Mapped}
    /\ Cardinality(pbits) = Cardinality(Mapped)
    /\ Mapped = UNION {PagesOf(b) : b \in live}

(* bitmap_scan finds the lowest run of free bits that is long enough, and  *)
(* reports -1 only when there is none.                                     *)
ScanFirstFit ==
    \A n \in 1..MaxPages :
        LET runs == {p \in Frames : MappedPages(p, n) \subseteq Pages \ vbits}
        IN  ~Full(vbits, NPages) =>
                bitmap_scan(vbits, NPages, n) = IF runs = {} THEN -1 ELSE Min(runs)

(* Only running out of memory stops the machine: no page is mapped twice   *)
(* ("pte repeat"), and the blocks of an empty arena are all found in the   *)
(* free list.                                                              *)
NoAssertFails == panic # "assert"

(* Types, and the three facts above about panics, free lists and pages,    *)
(* after any sequence of sys_malloc and sys_free.                          *)
HeapSound == TypeOK /\ NoAssertFails /\ FreeListExact /\ PagesExact

(* A page that has just been mapped is cleared in the frame it was mapped  *)
(* to: page_table_pte_remove is to "update TLB".                           *)
NoStaleMapping == panic # "stale"
=============================================================================
