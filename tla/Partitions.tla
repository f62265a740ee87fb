----------------------------- MODULE Partitions -----------------------------
(***************************************************************************)
(* partition_scan of device/ide.c, and the part of ide_init that calls it: *)
(* the search for partitions on the disk sdb when the kernel boots.        *)
(*                                                                         *)
(* A disk is a function from lba to sector.  A sector of type "table" has  *)
(* the partition table of a boot sector; any other has no valid entry.     *)
(***************************************************************************)
EXTENDS Naturals, Sequences

CONSTANTS
    PrimParts,  \* size of disk.prim_parts, 4 in the code
    LogicParts  \* size of disk.logic_parts, 8 in the code

ASSUME PartitionsAssumption == PrimParts \in Nat \ {0} /\ LogicParts \in Nat \ {0}

VARIABLES
    disk,   \* persistent: the sectors of sdb
    at,     \* what the boot is doing
    scan    \* the globals of ide.c, below

NoEntry == [fs_type |-> 0, start_lba |-> 0, sec_cnt |-> 0]

NoPartition == [start_lba |-> 0, sec_cnt |-> 0]

Slots == 0..PrimParts + LogicParts - 1

(* The memory of a kernel that was just loaded, about to scan sdb: stack   *)
(* has the active calls of partition_scan, the innermost first, and parts  *)
(* is hd->prim_parts followed by hd->logic_parts.                          *)
ScanReset ==
    [stack |-> <<[ext_lba |-> 0, part_idx |-> 1]>>, ext_lba_base |-> 0, p_no |-> 0,
     l_no |-> 0, parts |-> [i \in Slots |-> NoPartition], partition_list |-> <<>>]

(* Entry i of the table in the sector at lba.                              *)
Entry(lba, i) ==
    IF disk[lba].type = "table" /\ i <= Len(disk[lba].entries)
    THEN disk[lba].entries[i] ELSE NoEntry

-----------------------------------------------------------------------------
(* The innermost call, its current entry, and the calls after that entry.  *)
Top == Head(scan.stack)

Current == Entry(Top.ext_lba, Top.part_idx)

Advanced == <<[Top EXCEPT !.part_idx = @ + 1]>> \o Tail(scan.stack)

Scanning == at = "scan" /\ Top.part_idx <= 4 /\ UNCHANGED disk

(* partition_scan is called for the table of an extended partition.        *)
Enter(lba) ==
    scan' = [scan EXCEPT !.stack = <<[ext_lba |-> lba, part_idx |-> 1]>> \o Advanced,
                         !.ext_lba_base = IF @ = 0 THEN Current.start_lba ELSE @]

(* Mutant: the start of a nested extended partition is taken as it is.     *)
ScanExtended_absolute ==
    Scanning /\ Current.fs_type = 5 /\ Enter(Current.start_lba) /\ UNCHANGED at

(* An extended partition: its start counts from the first one met.         *)
ScanExtended ==
    /\ Scanning
    /\ Current.fs_type = 5
    /\ Enter(Current.start_lba + scan.ext_lba_base)
    /\ UNCHANGED at

(* The partition of the current entry is put in a slot, and in the list    *)
(* with its number; the calls that go on are calls.                        *)
Record(slot, number, field, calls) ==
    scan' = [scan EXCEPT
        !.parts[slot] = [start_lba |-> Top.ext_lba + Current.start_lba,
                         sec_cnt   |-> Current.sec_cnt],
        !.partition_list = Append(@, [slot |-> slot, number |-> number]),
        ![field] = @ + 1,
        !.stack = calls]

(* A primary partition; the ASSERT comes after p_no++.                     *)
ScanPrimary ==
    /\ Scanning
    /\ Current.fs_type \notin {0, 5} /\ Top.ext_lba = 0
    /\ Record(scan.p_no, scan.p_no + 1, "p_no", Advanced)
    /\ at' = IF scan.p_no + 1 < PrimParts THEN at ELSE "panic"

(* Mutant: the numbers of the logical partitions start at 1 too.           *)
ScanLogical_low ==
    /\ Scanning
    /\ Current.fs_type \notin {0, 5} /\ Top.ext_lba # 0
    /\ Record(PrimParts + scan.l_no, scan.l_no + 1, "l_no",
              IF scan.l_no + 1 >= LogicParts THEN Tail(scan.stack) ELSE Advanced)
    /\ UNCHANGED at

(* A logical partition; the call returns when logic_parts is full.         *)
ScanLogical ==
    /\ Scanning
    /\ Current.fs_type \notin {0, 5} /\ Top.ext_lba # 0
    /\ Record(PrimParts + scan.l_no, scan.l_no + 5, "l_no",
              IF scan.l_no + 1 >= LogicParts THEN Tail(scan.stack) ELSE Advanced)
    /\ UNCHANGED at

ScanUnused ==
    /\ Scanning
    /\ Current.fs_type = 0
    /\ scan' = [scan EXCEPT !.stack = Advanced]
    /\ UNCHANGED at

(* The end of a call; after the outermost one ide_init ends.               *)
ScanReturn ==
    /\ at = "scan"
    /\ Top.part_idx > 4
    /\ scan' = [scan EXCEPT !.stack = Tail(@)]
    /\ at' = IF Tail(scan.stack) = <<>> THEN "fs" ELSE at
    /\ UNCHANGED disk

partition_scan ==
    ScanExtended \/ ScanPrimary \/ ScanLogical \/ ScanUnused \/ ScanReturn
=============================================================================
