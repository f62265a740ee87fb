---------------------------- MODULE MCDirectory -----------------------------
(* Instances of Directory: sectors of one byte, two inodes of one byte,    *)
(* and partitions of 15 or 16 sectors, whose block bitmaps have one and    *)
(* two sectors.                                                            *)
EXTENDS Directory, SequencesExt

SumTo(sizes, k) == FoldSeq(LAMBDA x, acc : x + acc, 0, SubSeq(sizes, 1, k))

Used(start, cnt) == [fs_type |-> 131, start_lba |-> start, sec_cnt |-> cnt]
Extended(start) == [fs_type |-> 5, start_lba |-> start, sec_cnt |-> 0]
Table(entries) == [type |-> "table", entries |-> entries]

(* A disk as fdisk leaves it: the primary partitions, then an extended one *)
(* with a chain of tables, each followed by its logical partition.         *)
MCDisk(prim, logic) ==
    LET base   == 1 + SumTo(prim, Len(prim))
        ebr(k) == SumTo(logic, k - 1) + k - 1
        mbr    == [i \in 1..Len(prim) |-> Used(1 + SumTo(prim, i - 1), prim[i])]
        tables == [lba \in {0} \cup {base + ebr(k) : k \in 1..Len(logic)} |->
                     IF lba = 0
                     THEN Table(mbr \o IF logic = <<>> THEN <<>> ELSE <<Extended(base)>>)
                     ELSE LET k == CHOOSE k \in 1..Len(logic) : lba = base + ebr(k) IN
                          Table(<<Used(1, logic[k])>> \o
                                IF k = Len(logic) THEN <<>> ELSE <<Extended(ebr(k + 1))>>)]
    IN [lba \in 0..base + SumTo(logic, Len(logic)) + Len(logic) |->
          IF lba \in DOMAIN tables THEN tables[lba] ELSE [type |-> "blank"]]

(* No, one or two partitions of each kind, and the cases at the bounds: as *)
(* many primary partitions as there are slots, and a logical one too many. *)
(* sdb1 has 15 sectors: its bitmap has no bit past the end (FullDisk has). *)
MCDisks == {MCDisk(prim, logic) : prim  \in {<<>>, <<15>>, <<15, 16>>},
                                  logic \in {<<>>, <<16>>, <<15, 16>>}}
           \cup {MCDisk(<<15, 15, 16, 15>>, <<>>), MCDisk(<<15>>, <<15, 16, 15>>)}

FullDisk == {MCDisk(<<16>>, <<15>>)}
=============================================================================
