---------------------------- MODULE JarfsLayout ----------------------------
(***************************************************************************)
(* The layout arithmetic of jarfs_format, filesystem/src/jarfs.c, with the *)
(* constants of the code: where block and inode bitmaps, inode table and   *)
(* data area start on a device of a given size.                            *)
(***************************************************************************)
EXTENDS Integers

BlockSize == 4096                   \* JARFS_BLOCK_SIZE
InodeSize == 84                     \* sizeof(jarfs_inode_t): 21 words
MinSize == 16 * 1024 * 1024         \* smallest size jarfs_format accepts
MinInodes == 1024

\* Mutant of DivRoundUp: the quotient is rounded down.
DivRoundDown(n, d) == n \div d

DivRoundUp(n, d) == (n + d - 1) \div d
BlockCount(size) == size \div BlockSize

InodeCount(size) ==
    IF BlockCount(size) \div 4 < MinInodes THEN MinInodes ELSE BlockCount(size) \div 4

BlockBitmapStart == 2
InodeBitmapStart(size) ==
    BlockBitmapStart + DivRoundUp(BlockCount(size), 8 * BlockSize)
InodeTableStart(size) ==
    InodeBitmapStart(size) + DivRoundUp(InodeCount(size), 8 * BlockSize)
DataStart(size) ==
    InodeTableStart(size) + DivRoundUp(InodeCount(size) * InodeSize, BlockSize)

\* What jarfs_format puts into the superblock (lines 145-157).
Superblock(size) ==
    [block_count |-> BlockCount(size),
     inode_count |-> InodeCount(size),
     free_blocks |-> BlockCount(size) - DataStart(size) - 1,
     free_inodes |-> InodeCount(size) - 10,
     block_bitmap_start |-> BlockBitmapStart,
     inode_bitmap_start |-> InodeBitmapStart(size),
     inode_table_start |-> InodeTableStart(size),
     data_start |-> DataStart(size)]

(***************************************************************************)
(* A superblock describes a usable file system: the areas follow each      *)
(* other without overlap behind the superblock's own blocks, each is large *)
(* enough for what it holds, a data block is left for the root directory   *)
(* inside the device, and the free counts are exactly what remains.        *)
(***************************************************************************)
SoundLayout(sb) ==
    /\ sb.block_bitmap_start >= 1
    /\ (sb.inode_bitmap_start - sb.block_bitmap_start) * BlockSize * 8 >= sb.block_count
    /\ (sb.inode_table_start - sb.inode_bitmap_start) * BlockSize * 8 >= sb.inode_count
    /\ (sb.data_start - sb.inode_table_start) * BlockSize >= sb.inode_count * InodeSize
    /\ sb.data_start < sb.block_count
    /\ sb.free_blocks >= 0
    /\ sb.data_start + 1 + sb.free_blocks = sb.block_count
    /\ sb.free_inodes > 0 /\ sb.free_inodes < sb.inode_count
=============================================================================
