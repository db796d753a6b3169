------------------------------- MODULE JarFS -------------------------------
(***************************************************************************)
(* The file system, filesystem/src/jarfs.c: formatting a block device,     *)
(* mounting it with a cached superblock and an open root, files with a     *)
(* position, and what a loss of power leaves on the device.                *)
(*                                                                         *)
(* Of a device the model keeps what the code writes: the superblock in     *)
(* block 0 and the root inode at the start of an inode table.  Block       *)
(* device and heap are external: a transfer may fail, kmalloc may return   *)
(* NULL or any block that is not in use.                                   *)
(***************************************************************************)
EXTENDS JarfsLayout, FiniteSets

CONSTANTS
    Devices,        \* block devices
    Mounts,         \* heap blocks for jarfs_mount_t
    Files,          \* heap blocks for jarfs_file_t
    Sizes,          \* sizes passed to jarfs_format
    Counts,         \* byte counts passed to jarfs_read
    Leftovers,      \* what a position that is not initialised can hold
    Strays,         \* inodes that no format wrote: old contents, failed reads
    U32, U64,       \* one more than the largest u32 and u64
    MaxMounts,      \* bound: successful mounts between two reboots
    NULL            \* no block

ASSUME JarfsAssumption ==
    /\ Sizes \subseteq Nat /\ \A size \in Sizes : size >= MinSize
    /\ Counts \subseteq Nat /\ Leftovers \subseteq Nat
    /\ U32 \in Nat \ {0} /\ U64 \in Nat /\ U64 > BlockSize
    /\ Strays \subseteq [size : 0..(U64 - 1), block : Nat]
    /\ MaxMounts \in Nat
    /\ NULL \notin Mounts /\ NULL \notin Files

Superblocks == {Superblock(size) : size \in Sizes}
Tables == {InodeTableStart(size) : size \in Sizes}
\* Lines 162-166; block[0] is a u32.
RootInode(sb) == [size |-> BlockSize, block |-> sb.data_start % U32]
Inodes == {RootInode(sb) : sb \in Superblocks} \cup Strays

NoMagic == [block_count |-> 0]      \* a block 0 without JARFS_MAGIC

VARIABLES
    disk_sb,        \* block 0 of each device
    disk_inode,     \* the root inode at each place where a table can start
    mnt,            \* the jarfs_mount_t blocks in use
    file,           \* the jarfs_file_t blocks in use
    mount_list,     \* head of the list of mounts
    mount_count,
    opened,         \* history: the files that callers opened
    torn,           \* history: superblock and root inode are of two formats
    careless,       \* history: callers or the heap broke a rule, see NoFault
    faulted         \* memory outside its bounds was used

vars == <<disk_sb, disk_inode, mnt, file, mount_list, mount_count, opened,
          torn, careless, faulted>>
disk == <<disk_sb, disk_inode>>
list == <<mount_list, mount_count>>

LiveMounts == DOMAIN mnt
LiveFiles == DOMAIN file
Empty == [x \in {} |-> NULL]
With(f, x, v) == [y \in DOMAIN f \cup {x} |-> IF y = x THEN v ELSE f[y]]
Without(f, S) == [y \in DOMAIN f \ S |-> f[y]]

Init ==
    /\ disk_sb = [d \in Devices |-> NoMagic]
    /\ disk_inode \in [Devices -> [Tables -> Strays]]
    /\ mnt = Empty /\ file = Empty
    /\ mount_list = NULL /\ mount_count = 0
    /\ opened = {}
    /\ torn = [d \in Devices |-> FALSE]
    /\ careless = FALSE /\ faulted = FALSE

\* A restart forgets everything but the devices.
Restart ==
    /\ mnt' = Empty /\ file' = Empty
    /\ mount_list' = NULL /\ mount_count' = 0
    /\ opened' = {}
    /\ careless' = FALSE /\ faulted' = FALSE

Reboot == Restart /\ UNCHANGED <<disk, torn>>

-----------------------------------------------------------------------------
\* device->write of a superblock, which succeeds or not.
WriteSb(d, sb, ok) ==
    disk_sb' = IF ok THEN [disk_sb EXCEPT ![d] = sb] ELSE disk_sb

\* Mutant of WriteRoot: block[0] is taken from the start of the table.
WriteRootInTable(d, sb, ok) ==
    disk_inode' = IF ok THEN [disk_inode EXCEPT ![d][sb.inode_table_start] =
                                [size |-> BlockSize, block |-> sb.inode_table_start % U32]]
                        ELSE disk_inode

\* device->write of the root inode (lines 162-168).
WriteRoot(d, sb, ok) ==
    disk_inode' = IF ok THEN [disk_inode EXCEPT ![d][sb.inode_table_start] = RootInode(sb)]
                        ELSE disk_inode

\* jarfs_format; the results of both writes are ignored.
Format(d, size, ok1, ok2) ==
    /\ ~faulted
    /\ WriteSb(d, Superblock(size), ok1)
    /\ WriteRoot(d, Superblock(size), ok2)
    /\ torn' = [torn EXCEPT ![d] = IF ok1 = ok2 THEN @ /\ ~ok1 ELSE TRUE]
    /\ UNCHANGED <<mnt, file, list, opened, careless, faulted>>

\* Power is lost between the two writes.
FormatInterrupted(d, size) ==
    /\ ~faulted
    /\ WriteSb(d, Superblock(size), TRUE)
    /\ torn' = [torn EXCEPT ![d] = TRUE]
    /\ Restart
    /\ UNCHANGED disk_inode

-----------------------------------------------------------------------------
(***************************************************************************)
(* jarfs_open through a mount with superblock sb of device d: the inode is *)
(* read, or whatever the block held stays when the read fails; position is *)
(* never set.  The path is ignored, every file is the root.                *)
(***************************************************************************)
OpenedFiles(m, d, sb) ==
    [mount : {m}, inode : {disk_inode[d][sb.inode_table_start]} \cup Strays,
     position : Leftovers, refcount : {1}]

\* jarfs_mount without a block or a superblock: what was allocated is freed.
MountFails ==
    /\ ~faulted
    /\ UNCHANGED vars

\* Mutant of Mount: the new mount is not linked to the older ones.
MountUnlinked(d, m, f) ==
    /\ ~faulted /\ mount_count < MaxMounts
    /\ m \notin LiveMounts
    /\ disk_sb[d] # NoMagic
    /\ mnt' = With(mnt, m, [device |-> d, superblock |-> disk_sb[d], root |-> f,
                            next |-> NULL])
    /\ IF f = NULL THEN file' = file
       ELSE /\ f \notin LiveFiles
            /\ \E new \in OpenedFiles(m, d, disk_sb[d]) : file' = With(file, f, new)
    /\ mount_list' = m
    /\ mount_count' = mount_count + 1
    /\ UNCHANGED <<disk, opened, torn, careless, faulted>>

\* jarfs_mount; the magic is checked, the checksum is not, and root may be NULL.
Mount(d, m, f) ==
    /\ ~faulted /\ mount_count < MaxMounts
    /\ m \notin LiveMounts
    /\ disk_sb[d] # NoMagic
    /\ mnt' = With(mnt, m, [device |-> d, superblock |-> disk_sb[d], root |-> f,
                            next |-> mount_list])
    /\ IF f = NULL THEN file' = file
       ELSE /\ f \notin LiveFiles
            /\ \E new \in OpenedFiles(m, d, disk_sb[d]) : file' = With(file, f, new)
    /\ mount_list' = m
    /\ mount_count' = mount_count + 1
    /\ UNCHANGED <<disk, opened, torn, careless, faulted>>

\* The write of jarfs_sync: the cached superblock, however old it is.
SyncWrite(m, ok) ==
    LET d == mnt[m].device IN
    /\ WriteSb(d, mnt[m].superblock, ok)
    /\ torn' = [torn EXCEPT ![d] = @ \/ (ok /\ disk_sb[d] # mnt[m].superblock)]
    /\ UNCHANGED disk_inode

Sync(m, ok) ==
    /\ ~faulted
    /\ m \in LiveMounts
    /\ SyncWrite(m, ok)
    /\ UNCHANGED <<mnt, file, list, opened, careless, faulted>>

FilesOf(m) == {f \in LiveFiles : file[f].mount = m}

\* jarfs_close: the last reference frees the file.
Closed(f) ==
    IF file[f].refcount = 1 THEN Without(file, {f})
    ELSE [file EXCEPT ![f].refcount = @ - 1]

\* Mutant of Unmount: the root is not closed.
UnmountKeepsRoot(m, ok) ==
    /\ ~faulted
    /\ m \in LiveMounts
    /\ SyncWrite(m, ok)
    /\ file' = file
    /\ mnt' = Without(mnt, {m})
    /\ careless' = (careless \/ FilesOf(m) \cap opened # {})
    /\ UNCHANGED <<list, opened, faulted>>

\* jarfs_unmount; the mount stays on mount_list and mount_count stays.
Unmount(m, ok) ==
    /\ ~faulted
    /\ m \in LiveMounts
    /\ SyncWrite(m, ok)
    /\ file' = IF mnt[m].root = NULL THEN file ELSE Closed(mnt[m].root)
    /\ mnt' = Without(mnt, {m})
    /\ careless' = (careless \/ FilesOf(m) \cap opened # {})
    /\ UNCHANGED <<list, opened, faulted>>

\* jarfs_open by a caller; without a block it changes nothing.
Open(m, f) ==
    /\ ~faulted
    /\ m \in LiveMounts /\ f \notin LiveFiles
    /\ \E new \in OpenedFiles(m, mnt[m].device, mnt[m].superblock) :
          file' = With(file, f, new)
    /\ opened' = opened \cup {f}
    /\ UNCHANGED <<disk, mnt, list, torn, careless, faulted>>

\* jarfs_close by the caller that opened the file.
Close(f) ==
    /\ ~faulted
    /\ f \in opened
    /\ file' = Closed(f)
    /\ opened' = opened \ {f}
    /\ UNCHANGED <<disk, mnt, list, torn, careless, faulted>>

-----------------------------------------------------------------------------
\* Mutant of Clipped: the comparison ignores the position.
ClippedAtStart(r, count) ==
    IF count > r.inode.size THEN r.inode.size ELSE count

\* Line 240: the bytes left in the file, computed modulo 2^64.
Clipped(r, count) ==
    IF (r.position + count) % U64 > r.inode.size
    THEN (r.inode.size + U64 - r.position) % U64
    ELSE count

\* Line 246 copies n bytes from the position inside a block of BlockSize bytes.
InBlock(r, n) == (r.position % BlockSize) + n =< BlockSize

\* The read begins inside a file of one block and its end is a u64.
Regular(r, count) ==
    /\ r.inode.size =< BlockSize
    /\ r.position =< r.inode.size
    /\ r.position + count < U64

(***************************************************************************)
(* jarfs_read of an open file.  temp says whether kmalloc had a block: the *)
(* code does not look.  A file whose mount is gone leads to freed memory.  *)
(***************************************************************************)
Read(f, count, temp) ==
    LET r == file[f]
        n == Clipped(r, count)
        safe == temp /\ r.mount \in LiveMounts /\ InBlock(r, n)
    IN  /\ ~faulted
        /\ f \in LiveFiles
        /\ file' = IF n = 0 \/ ~safe THEN file
                   ELSE [file EXCEPT ![f].position = (@ + n) % U64]
        /\ faulted' = (n # 0 /\ ~safe)
        /\ careless' = (careless \/ ~temp \/ ~Regular(r, count))
        /\ UNCHANGED <<disk, mnt, list, opened, torn>>

Next ==
    \/ Reboot
    \/ \E d \in Devices, size \in Sizes, ok1, ok2 \in BOOLEAN : Format(d, size, ok1, ok2)
    \/ \E d \in Devices, size \in Sizes : FormatInterrupted(d, size)
    \/ MountFails
    \/ \E d \in Devices, m \in Mounts, f \in Files \cup {NULL} : Mount(d, m, f)
    \/ \E m \in Mounts, ok \in BOOLEAN : Sync(m, ok)
    \/ \E m \in Mounts, ok \in BOOLEAN : Unmount(m, ok)
    \/ \E m \in Mounts, f \in Files : Open(m, f)
    \/ \E f \in Files : Close(f)
    \/ \E f \in Files, count \in Counts, temp \in BOOLEAN : Read(f, count, temp)

Spec == Init /\ [][Next]_vars

-----------------------------------------------------------------------------
MountT ==
    [device : Devices, superblock : Superblocks, root : Files \cup {NULL},
     next : Mounts \cup {NULL}]
FileT == [mount : Mounts, inode : Inodes, position : Nat, refcount : {1}]

\* All variables hold values of their C types.
TypeOK ==
    /\ disk_sb \in [Devices -> Superblocks \cup {NoMagic}]
    /\ disk_inode \in [Devices -> [Tables -> Inodes]]
    /\ LiveMounts \subseteq Mounts /\ LiveFiles \subseteq Files
    /\ mnt \in [LiveMounts -> MountT]
    /\ file \in [LiveFiles -> FileT]
    /\ mount_list \in Mounts \cup {NULL} /\ mount_count \in 0..MaxMounts
    /\ opened \subseteq LiveFiles
    /\ torn \in [Devices -> BOOLEAN]
    /\ careless \in BOOLEAN /\ faulted \in BOOLEAN

(***************************************************************************)
(* Through formats, failed and interrupted ones too, stale syncs and       *)
(* remounts, every superblock with the magic, on a device or cached by a   *)
(* mount, describes a sound layout.                                        *)
(***************************************************************************)
SuperblocksSound ==
    /\ \A d \in Devices : disk_sb[d] # NoMagic => SoundLayout(disk_sb[d])
    /\ \A m \in LiveMounts : SoundLayout(mnt[m].superblock)

(***************************************************************************)
(* The superblock on a device leads to the root directory that belongs to  *)
(* it: its inode names the first data block.  This outlives reboots and    *)
(* reformats to other layouts; it is lost only when superblock and inode   *)
(* come from two formats (torn) or when the block number needs more than   *)
(* 32 bits (line 166).                                                     *)
(***************************************************************************)
RootValid ==
    \A d \in Devices :
        disk_sb[d] # NoMagic /\ ~torn[d] /\ disk_sb[d].data_start < U32
        => LET inode == disk_inode[d][disk_sb[d].inode_table_start]
           IN  inode.block = disk_sb[d].data_start /\ inode.size = BlockSize

(***************************************************************************)
(* No file block is lost and none is freed early: the blocks in use are    *)
(* those of callers and the roots of mounts, each with one owner.          *)
(***************************************************************************)
FilesOwned ==
    LET roots == {mnt[m].root : m \in LiveMounts} \ {NULL}
    IN  /\ LiveFiles = opened \cup roots
        /\ opened \cap roots = {}
        /\ \A m, n \in LiveMounts : m # n /\ mnt[m].root # NULL => mnt[m].root # mnt[n].root

(***************************************************************************)
(* jarfs_read stays inside its block and its mount, in any sequence of     *)
(* operations, as long as callers close their files before they unmount,   *)
(* the heap has a block for the copy, and reads are Regular: a position    *)
(* inside a one-block file (line 219 leaves it uninitialised) and no       *)
(* overflow at line 240.                                                   *)
(***************************************************************************)
NoFault == faulted => careless

\* The mounts met by n steps along next from the head of the list.
Visited(n) ==
    LET at[k \in 0..n] ==
            IF k = 0 THEN mount_list
            ELSE IF at[k - 1] \in LiveMounts THEN mnt[at[k - 1]].next ELSE NULL
    IN  {at[k] : k \in 0..n}

(***************************************************************************)
(* Until the first unmount (mount_count is never decremented, so until     *)
(* then it is the number of mounts) mount_list leads to every mount.       *)
(***************************************************************************)
MountListComplete ==
    mount_count = Cardinality(LiveMounts) => Visited(mount_count) = LiveMounts \cup {NULL}
=============================================================================
