----------------------------- MODULE Directory ------------------------------
(***************************************************************************)
(* fs/dir.c on the partition that FileSystem mounted: the root directory   *)
(* is opened, entries are written to it and searched, and its inode is     *)
(* synchronised, with the block bitmap of fs/file.c.  The machine may stop *)
(* between any two sector writes and boot again: only disk survives.       *)
(*                                                                         *)
(* A block of a directory has type "dir" and the names in its used slots;  *)
(* the block of indirect pointers has type "lbas".  Any other sector reads *)
(* as zeros where these are expected.                                      *)
(***************************************************************************)
EXTENDS FileSystem

CONSTANTS
    EntriesPerSec,  \* entries in a block, 21 in the code
    NIndirect,      \* pointers in an indirect block, 128 in the code
    InitDisks,      \* what sdb may hold when the kernel first boots
    MaxNames,       \* bound on the number of entries written
    MaxCrashes      \* bound on the number of crashes

ASSUME DirectoryAssumption ==
    /\ EntriesPerSec \in Nat \ {0, 1} /\ NIndirect \in Nat \ {0}
    /\ MaxNames \in Nat /\ MaxCrashes \in Nat

VARIABLES
    root,       \* root_dir.inode
    block_idx,  \* where the call in progress puts its entry
    where,      \* history: for each entry written, the index of its block
    torn,       \* history: the slots that were being formatted at a crash
    crashes

vars == <<disk, at, scan, part_idx, plan, cur_part, root, block_idx, where, torn, crashes>>

NotOpen == Inode(0, 0)

NoEntryDue == NDirect + 1

(* The memory of a kernel that was just loaded.                            *)
Loaded == /\ at = "scan" /\ scan = ScanReset /\ part_idx = 0 /\ plan = <<>>
          /\ cur_part = NotMounted /\ root = NotOpen /\ block_idx = NoEntryDue

Init == disk \in InitDisks /\ Loaded /\ where = <<>> /\ torn = {} /\ crashes = 0

-----------------------------------------------------------------------------
Entries(lba) == IF disk[lba].type = "dir" THEN disk[lba].entries ELSE <<>>

Lbas(lba) == IF disk[lba].type = "lbas" THEN disk[lba].lbas ELSE [i \in 1..NIndirect |-> 0]

Ready == at = "up" /\ cur_part # NotMounted

(* open_root_dir, with inode_open of inode 0, the first of its sector.     *)
open_root_dir ==
    /\ Ready /\ root = NotOpen
    /\ LET sector == disk[cur_part.sb.inode_table_lba] IN
       root' = IF sector.type = "inodes" THEN sector.root ELSE NotOpen
    /\ UNCHANGED <<disk, at, scan, part_idx, plan, cur_part, block_idx, where, torn, crashes>>

(* The blocks search_dir_entry reads: the direct ones, and those of the    *)
(* indirect block when there is one.                                       *)
all_blocks ==
    ({root.i_sectors[i] : i \in 0..NDirect - 1}
        \cup IF root.i_sectors[NDirect] = 0 THEN {}
             ELSE {Lbas(root.i_sectors[NDirect])[i] : i \in 1..NIndirect}) \ {0}

search_dir_entry(name) ==
    \E lba \in all_blocks : \E i \in 1..Len(Entries(lba)) : Entries(lba)[i] = name

-----------------------------------------------------------------------------
(* block_bitmap_alloc: the first free bit, n blocks one after the other.   *)
FreeBlocks == 0..cur_part.sb.block_bitmap_sects * BITS_PER_SECTOR - 1 \ cur_part.block_bitmap

FirstFree(taken) ==
    CHOOSE b \in FreeBlocks \ taken : \A c \in FreeBlocks \ taken : b <= c

(* bitmap_sync: the sector of the bitmap that has the block's bit.         *)
bitmap_sync(bits, bit_idx) ==
    LET off_sec == bit_idx \div BITS_PER_SECTOR IN
    Write(cur_part.sb.block_bitmap_lba + off_sec, BitSector(bits, off_sec))

(* The end of sync_dir_entry: the writes, with the new inode and bitmap.   *)
PutEntry(idx, bits, i_sectors, writes) ==
    /\ plan' = writes
    /\ cur_part' = [cur_part EXCEPT !.block_bitmap = bits]
    /\ root' = [i_size |-> root.i_size + 1, i_sectors |-> i_sectors]
    /\ block_idx' = idx
    /\ at' = "dir"

(* A full bitmap stops the machine in bitmap_scan.                         *)
OutOfBlocks == at' = "panic" /\ UNCHANGED <<plan, cur_part, root, block_idx>>

(* The block that takes the next entry: the first direct one that is       *)
(* missing or has a free slot, or else index NDirect.  The loop starts     *)
(* with the direct pointers only, so that index is always empty to it.     *)
Target ==
    LET open(i) == i = NDirect \/ root.i_sectors[i] = 0
                     \/ Len(Entries(root.i_sectors[i])) < EntriesPerSec
    IN CHOOSE i \in 0..NDirect : open(i) /\ \A j \in 0..i - 1 : ~open(j)

Block(entries) == [type |-> "dir", entries |-> entries]

(* A free slot of a block that is there.                                   *)
FillSlot(name) ==
    LET lba == root.i_sectors[Target] IN
    PutEntry(Target, cur_part.block_bitmap, root.i_sectors,
          <<Write(lba, Block(Append(Entries(lba), name)))>>)

(* Mutant: the new block is not put in the inode.                          *)
NewDirect_forgotten(name) ==
    LET bit == FirstFree({}) IN
    IF FreeBlocks = {} THEN OutOfBlocks
    ELSE PutEntry(Target, cur_part.block_bitmap \cup {bit}, root.i_sectors,
               <<Write(cur_part.sb.data_start_lba + bit, Block(<<name>>))>>)

(* A new direct block; its bit is set in memory and not written to disk.   *)
NewDirect(name) ==
    LET bit == FirstFree({})
        lba == cur_part.sb.data_start_lba + bit
    IN IF FreeBlocks = {} THEN OutOfBlocks
       ELSE PutEntry(Target, cur_part.block_bitmap \cup {bit}, [root.i_sectors EXCEPT ![Target] = lba],
                  <<Write(lba, Block(<<name>>))>>)

(* A new indirect block and its first data block.                          *)
NewIndirect(name) ==
    LET table == FirstFree({})
        bit   == FirstFree({table})
        bits  == cur_part.block_bitmap \cup {table, bit}
        base  == cur_part.sb.data_start_lba
    IN IF Cardinality(FreeBlocks) < 2 THEN OutOfBlocks
       ELSE PutEntry(NDirect, bits, [root.i_sectors EXCEPT ![NDirect] = base + table],
                  <<bitmap_sync(bits, bit),
                    Write(base + table, [type |-> "lbas",
                          lbas |-> [i \in 1..NIndirect |-> IF i = 1 THEN base + bit ELSE 0]]),
                    Write(base + bit, Block(<<name>>))>>)

sync_dir_entry ==
    /\ Ready /\ root # NotOpen /\ Len(where) < MaxNames
    /\ LET name == Len(where) + 1 IN
       IF Target = NDirect THEN NewIndirect(name)
       ELSE IF root.i_sectors[Target] = 0 THEN NewDirect(name) ELSE FillSlot(name)
    /\ UNCHANGED <<disk, scan, part_idx, where, torn, crashes>>

(* inode_sync of the root directory.                                       *)
inode_sync ==
    /\ Ready /\ root # NotOpen
    /\ plan' = <<Write(cur_part.sb.inode_table_lba, [type |-> "inodes", root |-> root])>>
    /\ at' = "dir"
    /\ UNCHANGED <<disk, scan, part_idx, cur_part, root, block_idx, where, torn, crashes>>

DirectorySector ==
    /\ at = "dir"
    /\ WriteSector("up")
    /\ IF at' = "up" /\ block_idx # NoEntryDue
       THEN where' = Append(where, block_idx) /\ block_idx' = NoEntryDue
       ELSE UNCHANGED <<where, block_idx>>
    /\ UNCHANGED <<root, torn, crashes>>

-----------------------------------------------------------------------------
(* The machine stops, and boots again.                                     *)
Crash ==
    /\ crashes < MaxCrashes
    /\ crashes' = crashes + 1
    /\ torn' = IF at = "write" /\ HasFs(scan.parts[part_idx - 1])
               THEN torn \cup {part_idx - 1} ELSE torn
    /\ at' = "scan" /\ scan' = ScanReset /\ part_idx' = 0 /\ plan' = <<>>
    /\ cur_part' = NotMounted /\ root' = NotOpen /\ block_idx' = NoEntryDue
    /\ UNCHANGED <<disk, where>>

Start == Boot /\ UNCHANGED <<root, block_idx, where, torn, crashes>>

Next == \/ Start
        \/ OutOfMemory /\ UNCHANGED <<root, block_idx, where, torn, crashes>>
        \/ open_root_dir \/ sync_dir_entry \/ inode_sync \/ DirectorySector
        \/ Crash

Spec == Init /\ [][Next]_vars

(* Nothing stops a boot but a crash: the disk answers every request.       *)
FairSpec == Spec /\ WF_vars(Start)

-----------------------------------------------------------------------------
TypeOK ==
    /\ at \in {"scan", "fs", "write", "up", "dir", "panic"}
    /\ scan.p_no \in 0..PrimParts /\ scan.l_no \in 0..LogicParts
    /\ part_idx \in 0..NoSlot /\ cur_part.slot \in Slots \cup {NoSlot}
    /\ at \in {"write", "dir"} <=> plan # <<>>
    /\ root.i_sectors \in [0..NDirect -> DOMAIN disk]
    /\ torn \subseteq Slots

(* A mounted partition is sdb1 with the layout it was formatted with, and  *)
(* unless a crash cut its formatting short its root inode leads to the     *)
(* root directory, whose block is marked used.                             *)
MountedSound ==
    /\ TypeOK
    /\ Ready =>
        LET sb == cur_part.sb IN
        /\ sb = super_block(scan.parts[0])
        /\ \/ 0 \in torn
           \/ /\ disk[sb.inode_table_lba].type = "inodes"
              /\ disk[sb.inode_table_lba].root.i_sectors[0] = sb.data_start_lba
              /\ <<Dot, Dot>> = SubSeq(Entries(sb.data_start_lba), 1, 2)
              /\ 0 \in cur_part.block_bitmap

(* Until the machine is restarted, an entry that sync_dir_entry wrote is   *)
(* found again, in any direct block or in the last indirect one.           *)
EntryFound ==
    Ready /\ root # NotOpen /\ crashes = 0 =>
        \A name \in 1..Len(where) :
            where[name] < NDirect \/ name = Len(where) => search_dir_entry(name)

(* An entry in the first block is found after any restart: no boot formats *)
(* a partition that has a file system, no format reaches another one, and  *)
(* no block that sync_dir_entry allocates is that block.                   *)
EntryKept ==
    Ready /\ root # NotOpen /\ 0 \notin torn =>
        \A name \in 1..Len(where) : where[name] = 0 => search_dir_entry(name)

(* fs.c: "We must set the remain bits to 1 in last sector of block_bitmap",*)
(* so that every block block_bitmap_alloc hands out is in the partition.   *)
BlocksInside ==
    Ready /\ root # NotOpen =>
        \A lba \in all_blocks :
            lba < scan.parts[cur_part.slot].start_lba + scan.parts[cur_part.slot].sec_cnt
=============================================================================
