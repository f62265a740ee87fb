------------------------------- MODULE Layout -------------------------------
(***************************************************************************)
(* The layout of a partition of the disk, as partition_format of fs/fs.c   *)
(* computes and writes it.                                                 *)
(***************************************************************************)
EXTENDS Naturals, Sequences

CONSTANTS
    SECTOR_SIZE,
    MAX_FILES_PER_PART,
    InodeSize,      \* sizeof(struct inode)
    NDirect         \* direct pointers of an inode, 12 in the code

BITS_PER_SECTOR == 8 * SECTOR_SIZE

ASSUME LayoutAssumption ==
    {SECTOR_SIZE, MAX_FILES_PER_PART, InodeSize, NDirect} \subseteq Nat \ {0}

-----------------------------------------------------------------------------
DIV_ROUND_UP(x, step) == (x + step - 1) \div step

inode_bitmap_sects == DIV_ROUND_UP(MAX_FILES_PER_PART, BITS_PER_SECTOR)

inode_table_sects == DIV_ROUND_UP(InodeSize * MAX_FILES_PER_PART, SECTOR_SIZE)

free_sects(part) == part.sec_cnt - (2 + inode_bitmap_sects + inode_table_sects)

(* The number of blocks the block bitmap is made for.                      *)
block_bitmap_bit_len(part) ==
    free_sects(part) - DIV_ROUND_UP(free_sects(part), BITS_PER_SECTOR)

(* The layout that partition_format gives a partition: the regions follow  *)
(* the boot sector and the super block, one after the other.               *)
super_block(part) ==
    LET bbs == DIV_ROUND_UP(block_bitmap_bit_len(part), BITS_PER_SECTOR)
        bb  == part.start_lba + 2
        ib  == bb + bbs
        it  == ib + inode_bitmap_sects
    IN [part_lba_base |-> part.start_lba, block_bitmap_lba |-> bb, block_bitmap_sects |-> bbs,
        inode_bitmap_lba |-> ib, inode_bitmap_sects |-> inode_bitmap_sects,
        inode_table_lba |-> it, inode_table_sects |-> inode_table_sects,
        data_start_lba |-> it + inode_table_sects]

(* The bits that are 1 in the buffer of the block bitmap: block 0, then    *)
(* the bytes from the last one to the end of its sector, in which the loop *)
(* clears the bits up to and including last_bit.                           *)
BlockBits(part) ==
    LET len       == block_bitmap_bit_len(part)
        last_byte == len \div 8
        last_size == SECTOR_SIZE - (last_byte % SECTOR_SIZE)
    IN ({0} \cup 8 * last_byte .. 8 * (last_byte + last_size) - 1)
           \ (8 * last_byte .. 8 * last_byte + (len % 8))

(* Sector i of a bitmap.                                                   *)
BitSector(bits, i) ==
    [type |-> "bits",
     used |-> {b \in 0..BITS_PER_SECTOR - 1 : i * BITS_PER_SECTOR + b \in bits}]

Write(lba, data) == [lba |-> lba, data |-> data]

(* A name is a number, and this one stands for "." and "..".               *)
Dot == 0

(* An inode: how many entries the directory has, and its block pointers.   *)
Inode(i_size, first) ==
    [i_size |-> i_size, i_sectors |-> [i \in 0..NDirect |-> IF i = 0 THEN first ELSE 0]]

(* The sector writes of partition_format, in order: super block, block     *)
(* bitmap, inode bitmap, inode table with the root inode, root directory.  *)
partition_format(part) ==
    LET sb == super_block(part) IN
    <<Write(part.start_lba + 1, [type |-> "super", sb |-> sb])>>
    \o [i \in 1..sb.block_bitmap_sects |->
          Write(sb.block_bitmap_lba + i - 1, BitSector(BlockBits(part), i - 1))]
    \o [i \in 1..sb.inode_bitmap_sects |->
          Write(sb.inode_bitmap_lba + i - 1, BitSector({0}, i - 1))]
    \o [i \in 1..sb.inode_table_sects |->
          Write(sb.inode_table_lba + i - 1,
                [type |-> "inodes",
                 root |-> IF i = 1 THEN Inode(2, sb.data_start_lba) ELSE Inode(0, 0)])]
    \o <<Write(sb.data_start_lba, [type |-> "dir", entries |-> <<Dot, Dot>>])>>
=============================================================================
