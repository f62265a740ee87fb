----------------------------- MODULE FileSystem -----------------------------
(***************************************************************************)
(* fs/fs.c on top of Partitions and Layout: filesys_init formats the       *)
(* partitions that have no file system and mounts sdb1.  Directory goes on *)
(* from there.                                                             *)
(*                                                                         *)
(* at: "scan"  in ide_init          "fs"    in the loop of filesys_init    *)
(*     "write" in partition_format                                         *)
(*     "up"    filesys_init returned    "dir"   in a call of Directory     *)
(*     "panic" an ASSERT or PANIC                                          *)
(***************************************************************************)
EXTENDS Partitions, Layout, FiniteSets

VARIABLES
    part_idx,
    plan,       \* the sector writes that the current call has still to do
    cur_part    \* the mounted partition: its slot, super block and block bitmap

NoSuper == [part_lba_base |-> 0, block_bitmap_lba |-> 0, block_bitmap_sects |-> 0,
            inode_bitmap_lba |-> 0, inode_bitmap_sects |-> 0, inode_table_lba |-> 0,
            inode_table_sects |-> 0, data_start_lba |-> 0]

NoSlot == PrimParts + LogicParts

NotMounted == [slot |-> NoSlot, sb |-> NoSuper, block_bitmap |-> {}]

-----------------------------------------------------------------------------
HasFs(part) == disk[part.start_lba + 1].type = "super"

Present == scan.parts[part_idx].sec_cnt # 0

(* An iteration of the loop of filesys_init.                               *)
Search(format, next) ==
    /\ at = "fs"
    /\ part_idx < PrimParts + LogicParts
    /\ part_idx' = next
    /\ IF format THEN at' = "write" /\ plan' = partition_format(scan.parts[part_idx])
       ELSE UNCHANGED <<at, plan>>
    /\ UNCHANGED <<disk, scan, cur_part>>

(* Mutant: every partition is formatted at every boot.                     *)
SearchPart_always == Search(Present, part_idx + 1)

(* Mutant: the index does not move past an empty slot.                     *)
SearchPart_stuck ==
    Search(Present /\ ~HasFs(scan.parts[part_idx]), IF Present THEN part_idx + 1 ELSE part_idx)

(* A partition without the magic number is formatted.                      *)
SearchPart == Search(Present /\ ~HasFs(scan.parts[part_idx]), part_idx + 1)

(* One sector of an ide_write reaches the disk, and after the last one the *)
(* call is over.                                                           *)
WriteSector(after) ==
    /\ disk' = [disk EXCEPT ![Head(plan).lba] = Head(plan).data]
    /\ plan' = Tail(plan)
    /\ at' = IF Tail(plan) = <<>> THEN after ELSE at
    /\ UNCHANGED <<scan, part_idx, cur_part>>

FormatSector == at = "write" /\ WriteSector("fs")

(* list_traversal with mount_partition: the partition named sdb1, if any,  *)
(* and its super block and bitmaps as the disk has them.                   *)
BitsAt(lba, sects) ==
    UNION {{i * BITS_PER_SECTOR + b : b \in disk[lba + i].used} :
             i \in {j \in 0..sects - 1 : disk[lba + j].type = "bits"}}

mount_partition ==
    /\ at = "fs"
    /\ part_idx = PrimParts + LogicParts
    /\ LET found == SelectSeq(scan.partition_list, LAMBDA e : e.number = 1) IN
       cur_part' = IF found = <<>> THEN NotMounted
                   ELSE LET slot == Head(found).slot
                            sb   == disk[scan.parts[slot].start_lba + 1].sb
                        IN [slot |-> slot, sb |-> sb,
                            block_bitmap |-> BitsAt(sb.block_bitmap_lba, sb.block_bitmap_sects)]
    /\ at' = "up"
    /\ UNCHANGED <<disk, scan, part_idx, plan>>

(* The PANICs of filesys_init and mount_partition when sys_malloc fails.   *)
OutOfMemory ==
    /\ at = "fs"
    /\ at' = "panic"
    /\ UNCHANGED <<disk, scan, part_idx, plan, cur_part>>

-----------------------------------------------------------------------------
(* A boot, from ide_init to the end of filesys_init.                       *)
Boot == \/ partition_scan /\ UNCHANGED <<part_idx, plan, cur_part>>
        \/ SearchPart \/ FormatSector \/ mount_partition

(* What the tables of sdb say, read off the disk: the partitions of the    *)
(* first table, and of the tables in the chain of extended partitions, all *)
(* of whose links count from the start of the first.                       *)
Data(lba) == {i \in 1..4 : Entry(lba, i).fs_type \notin {0, 5}}

Links(lba) == {Entry(lba, i).start_lba : i \in {j \in 1..4 : Entry(lba, j).fs_type = 5}}

Chain[k \in 1..LogicParts] ==
    IF k = 1 THEN Links(0)
    ELSE {base + link : base \in Links(0), link \in UNION {Links(lba) : lba \in Chain[k - 1]}}

PartsAt(lba) == {[start_lba |-> lba + Entry(lba, i).start_lba, sec_cnt |-> Entry(lba, i).sec_cnt] :
              i \in Data(lba)}

Logical(k) == UNION {PartsAt(lba) : lba \in Chain[k]}

(* partition_scan finds the partitions that the tables describe, each in   *)
(* its slot and once in partition_list, the logical ones in the order of   *)
(* their chain and no more of them than logic_parts has room for.          *)
ScanExact ==
    at \in {"fs", "write", "up", "dir"} =>
        /\ {scan.parts[i] : i \in 0..PrimParts - 1} \ {NoPartition} = PartsAt(0)
        /\ \A k \in 1..LogicParts : {scan.parts[PrimParts + k - 1]} \ {NoPartition} = Logical(k)
        /\ \A i \in Slots : scan.parts[i] # NoPartition =>
            Cardinality({j \in 1..Len(scan.partition_list) : scan.partition_list[j].slot = i}) = 1

(* A boot that is not cut short again ends with filesys_init done, or with *)
(* a PANIC for lack of memory, or with the ASSERT of partition_scan when   *)
(* the first table has as many primary partitions as prim_parts has slots. *)
BootEnds ==
    at = "scan" ~> \/ at = "up"
                   \/ at = "panic" /\ (scan.stack = <<>> \/ Cardinality(Data(0)) = PrimParts)
=============================================================================
