---------------------------- MODULE JarfsProofs ----------------------------
(***************************************************************************)
(* Theorems about jarfs.c: the layout is sound on every device size, and   *)
(* the invariants of JarFS hold for any number of devices, mounts, files,  *)
(* sizes and counts.                                                       *)
(***************************************************************************)
EXTENDS JarFS, NaturalLemmas, FiniteSetTheorems, TLAPS

(***************************************************************************)
(* jarfs_format computes a sound layout for every size it accepts: areas   *)
(* that do not overlap and are large enough, a data block for the root     *)
(* directory inside the device, and exact free counts (lines 136-157).     *)
(***************************************************************************)
THEOREM LayoutSound ==
    ASSUME NEW size \in Nat, size >= MinSize
    PROVE  SoundLayout(Superblock(size))
<1> DEFINE b == BlockCount(size)
           i == InodeCount(size)
<1>1. b \in Nat /\ b >= 4096
  BY DEF BlockCount, BlockSize, MinSize
<1>2. i \in Nat /\ i >= 1024 /\ 4 * i =< b
  BY <1>1 DEF InodeCount, MinInodes
<1> HIDE DEF b, i
<1>3. QED
  BY <1>1, <1>2 DEF SoundLayout, Superblock, DataStart, InodeTableStart, InodeBitmapStart,
     BlockBitmapStart, DivRoundUp, BlockSize, InodeSize, b, i

\* Superblocks of the code are sound; they differ from a block without magic.
LEMMA SuperblocksAreSound ==
    ASSUME NEW sb \in Superblocks
    PROVE  SoundLayout(sb)
<1>1. PICK size \in Sizes : sb = Superblock(size)
  BY DEF Superblocks
<1>2. size \in Nat /\ size >= MinSize
  BY JarfsAssumption
<1>3. QED
  BY <1>1, <1>2, LayoutSound

\* Opening a file gives a file of the right type, in the mount it was opened in.
LEMMA OpenedFileT ==
    ASSUME TypeOK, NEW m \in Mounts, NEW d \in Devices, NEW sb \in Superblocks,
           NEW new \in OpenedFiles(m, d, sb)
    PROVE  new \in FileT /\ new.mount = m
<1>1. sb.inode_table_start \in Tables
  BY DEF Superblocks, Superblock, Tables
<1>2. disk_inode[d][sb.inode_table_start] \in Inodes
  BY <1>1 DEF TypeOK
<1>3. Strays \subseteq Inodes /\ Leftovers \subseteq Nat
  BY JarfsAssumption DEF Inodes
<1>4. QED
  BY <1>2, <1>3 DEF OpenedFiles, FileT

-----------------------------------------------------------------------------
(***************************************************************************)
(* The inductive invariant.  FilesOwned alone does not say why closing the *)
(* root of a mount leaves the files of other mounts their mount: roots     *)
(* belong to the mount that holds them, and careful callers leave no file  *)
(* behind.                                                                 *)
(***************************************************************************)
RootsAtHome ==
    \A m \in LiveMounts : mnt[m].root # NULL => file[mnt[m].root].mount = m
NoOrphans == ~careless => \A f \in LiveFiles : file[f].mount \in LiveMounts
IInv == TypeOK /\ FilesOwned /\ RootsAtHome /\ NoOrphans /\ NoFault

\* Devices without a file system satisfy the invariant.
LEMMA InitIInv == Init => IInv
<1> SUFFICES ASSUME Init PROVE IInv
  OBVIOUS
<1>1. DOMAIN mnt = {} /\ DOMAIN file = {}
  BY DEF Init, Empty
<1>2. mnt \in [LiveMounts -> MountT] /\ file \in [LiveFiles -> FileT]
  BY <1>1 DEF Init, Empty, LiveMounts, LiveFiles
<1>3. Strays \subseteq Inodes
  BY DEF Inodes
<1>4. TypeOK
  <2>1. LiveMounts = {} /\ LiveFiles = {} /\ 0 \in 0..MaxMounts
    BY <1>1, JarfsAssumption DEF LiveMounts, LiveFiles
  <2>2. disk_inode \in [Devices -> [Tables -> Inodes]]
    BY <1>3 DEF Init
  <2>3. QED
    BY <1>2, <2>1, <2>2 DEF Init, TypeOK
<1>5. QED
  BY <1>1, <1>4 DEF Init, IInv, FilesOwned, RootsAtHome, NoOrphans, NoFault, LiveMounts, LiveFiles

\* A restart re-establishes what concerns memory.
LEMMA RestartIInv ==
    ASSUME TypeOK, Restart, TypeOK!1', TypeOK!2', TypeOK!8'
    PROVE  IInv'
<1>1. DOMAIN mnt' = {} /\ DOMAIN file' = {}
  BY DEF Restart, Empty
<1>2. (mnt \in [LiveMounts -> MountT] /\ file \in [LiveFiles -> FileT])'
  BY <1>1 DEF Restart, Empty, LiveMounts, LiveFiles
<1>3. LiveMounts' = {} /\ LiveFiles' = {} /\ 0 \in 0..MaxMounts
  BY <1>1, JarfsAssumption DEF LiveMounts, LiveFiles
<1>4. TypeOK'
  BY <1>2, <1>3 DEF Restart, TypeOK
<1>5. QED
  BY <1>1, <1>4 DEF Restart, IInv, FilesOwned, RootsAtHome, NoOrphans, NoFault, LiveMounts, LiveFiles

\* Writing a superblock or a root inode leaves the device well typed.
LEMMA DiskT ==
    ASSUME TypeOK, NEW d \in Devices, NEW sb \in Superblocks, NEW ok \in BOOLEAN
    PROVE  /\ WriteSb(d, sb, ok) => disk_sb' \in [Devices -> Superblocks \cup {NoMagic}]
           /\ WriteRoot(d, sb, ok) => disk_inode' \in [Devices -> [Tables -> Inodes]]
<1>1. sb.inode_table_start \in Tables
  BY DEF Superblocks, Superblock, Tables
<1>2. RootInode(sb) \in Inodes
  BY DEF Inodes
<1>3. ASSUME WriteSb(d, sb, ok) PROVE disk_sb' \in [Devices -> Superblocks \cup {NoMagic}]
  <2>1. CASE ok
    BY <1>3, <2>1 DEF WriteSb, TypeOK
  <2>2. CASE ~ok
    BY <1>3, <2>2 DEF WriteSb, TypeOK
  <2>3. QED
    BY <2>1, <2>2
<1>4. ASSUME WriteRoot(d, sb, ok) PROVE disk_inode' \in [Devices -> [Tables -> Inodes]]
  <2>1. CASE ok
    BY <1>1, <1>2, <1>4, <2>1 DEF WriteRoot, TypeOK
  <2>2. CASE ~ok
    BY <1>4, <2>2 DEF WriteRoot, TypeOK
  <2>3. QED
    BY <2>1, <2>2
<1>5. QED
  BY <1>3, <1>4

\* Nothing but the devices changes.
LEMMA DiskOnly ==
    ASSUME IInv, UNCHANGED <<mnt, file, list, opened, careless, faulted>>,
           disk_sb' \in [Devices -> Superblocks \cup {NoMagic}],
           disk_inode' \in [Devices -> [Tables -> Inodes]],
           torn' \in [Devices -> BOOLEAN]
    PROVE  IInv'
BY DEF IInv, TypeOK, FilesOwned, RootsAtHome, NoOrphans, NoFault, LiveMounts, LiveFiles, list

\* jarfs_format, with whatever writes succeed, preserves the invariant.
LEMMA FormatIInv ==
    ASSUME IInv, NEW d \in Devices, NEW size \in Sizes, NEW ok1 \in BOOLEAN,
           NEW ok2 \in BOOLEAN, Format(d, size, ok1, ok2)
    PROVE  IInv'
<1>1. Superblock(size) \in Superblocks
  BY DEF Superblocks
<1>2. torn' \in [Devices -> BOOLEAN]
  BY DEF Format, IInv, TypeOK
<1>3. QED
  BY <1>1, <1>2, DiskT, DiskOnly DEF Format, IInv

\* So does a loss of power between the two writes of jarfs_format.
LEMMA FormatInterruptedIInv ==
    ASSUME IInv, NEW d \in Devices, NEW size \in Sizes, FormatInterrupted(d, size)
    PROVE  IInv'
<1>1. Superblock(size) \in Superblocks
  BY DEF Superblocks
<1>2. TypeOK!1' /\ TypeOK!2' /\ TypeOK!8'
  BY <1>1, DiskT DEF FormatInterrupted, IInv, TypeOK
<1>3. QED
  BY <1>2, RestartIInv DEF FormatInterrupted, IInv

\* jarfs_mount preserves the invariant: its root is owned by the mount.
LEMMA MountIInv ==
    ASSUME IInv, NEW d \in Devices, NEW m \in Mounts, NEW f \in Files \cup {NULL},
           Mount(d, m, f)
    PROVE  IInv'
<1> DEFINE rec == [device |-> d, superblock |-> disk_sb[d], root |-> f, next |-> mount_list]
<1>1. disk_sb[d] \in Superblocks
  BY DEF Mount, IInv, TypeOK
<1>2. rec \in MountT
  BY <1>1 DEF IInv, TypeOK, MountT
<1>3. mnt' = With(mnt, m, rec) /\ m \notin LiveMounts
  BY DEF Mount
<1> HIDE DEF rec
<1>4. /\ LiveMounts' = LiveMounts \cup {m}
      /\ mnt'[m] = rec
      /\ \A n \in LiveMounts : mnt'[n] = mnt[n]
  BY <1>3 DEF With, LiveMounts
<1>5. (mnt \in [LiveMounts -> MountT])'
  BY <1>2, <1>3, <1>4 DEF With, LiveMounts, IInv, TypeOK
<1>6. CASE f = NULL
  <2>1. file' = file /\ LiveFiles' = LiveFiles
    BY <1>6 DEF Mount, LiveFiles
  <2>2. rec.root = NULL
    BY <1>6 DEF rec
  <2>3. TypeOK'
    <3>1. (file \in [LiveFiles -> FileT])' /\ (opened \subseteq LiveFiles)'
      BY <2>1 DEF Mount, IInv, TypeOK
    <3>2. mount_list' \in Mounts \cup {NULL} /\ mount_count' \in 0..MaxMounts
      BY JarfsAssumption DEF Mount, IInv, TypeOK
    <3>3. QED
      BY <1>4, <1>5, <2>1, <3>1, <3>2 DEF Mount, IInv, TypeOK, disk
  <2>4. FilesOwned'
    BY <1>4, <2>1, <2>2 DEF Mount, IInv, FilesOwned
  <2>5. RootsAtHome' /\ NoOrphans' /\ NoFault'
    BY <1>4, <2>1, <2>2 DEF Mount, IInv, RootsAtHome, NoOrphans, NoFault
  <2>6. QED
    BY <2>3, <2>4, <2>5 DEF IInv
<1>7. CASE f # NULL
  <2>1. PICK new \in OpenedFiles(m, d, disk_sb[d]) : file' = With(file, f, new)
    BY <1>7 DEF Mount
  <2>2. new \in FileT /\ new.mount = m
    BY <1>1, OpenedFileT DEF IInv
  <2>3. f \in Files /\ f \notin LiveFiles
    BY <1>7 DEF Mount
  <2>4. /\ LiveFiles' = LiveFiles \cup {f}
        /\ file'[f] = new
        /\ \A g \in LiveFiles : file'[g] = file[g]
    BY <2>1, <2>3 DEF With, LiveFiles
  <2>5. (file \in [LiveFiles -> FileT])'
    BY <2>1, <2>2, <2>4 DEF With, LiveFiles, IInv, TypeOK
  <2>6. rec.root = f
    BY DEF rec
  <2>7. TypeOK'
    BY <1>4, <1>5, <2>3, <2>4, <2>5, JarfsAssumption DEF Mount, IInv, TypeOK, disk
  <2>8. \A n \in LiveMounts : mnt[n].root # NULL => mnt[n].root \in LiveFiles
    BY DEF IInv, FilesOwned
  <2>9. FilesOwned'
    BY <1>4, <1>7, <2>3, <2>4, <2>6, <2>8 DEF Mount, IInv, FilesOwned
  <2>10. RootsAtHome' /\ NoOrphans' /\ NoFault'
    BY <1>4, <2>2, <2>3, <2>4, <2>6, <2>8 DEF Mount, IInv, RootsAtHome, NoOrphans, NoFault
  <2>11. QED
    BY <2>7, <2>9, <2>10 DEF IInv
<1>8. QED
  BY <1>6, <1>7

\* The write of jarfs_sync leaves the device well typed.
LEMMA SyncWriteT ==
    ASSUME TypeOK, NEW m \in LiveMounts, NEW ok \in BOOLEAN, SyncWrite(m, ok)
    PROVE  /\ disk_sb' \in [Devices -> Superblocks \cup {NoMagic}]
           /\ disk_inode' \in [Devices -> [Tables -> Inodes]]
           /\ torn' \in [Devices -> BOOLEAN]
<1>1. mnt[m].device \in Devices /\ mnt[m].superblock \in Superblocks
  BY DEF TypeOK, MountT
<1>2. disk_sb' \in [Devices -> Superblocks \cup {NoMagic}]
  BY <1>1, DiskT DEF SyncWrite
<1>3. disk_inode' \in [Devices -> [Tables -> Inodes]] /\ torn' \in [Devices -> BOOLEAN]
  BY <1>1 DEF SyncWrite, TypeOK
<1>4. QED
  BY <1>2, <1>3

\* jarfs_sync preserves the invariant.
LEMMA SyncIInv ==
    ASSUME IInv, NEW m \in Mounts, NEW ok \in BOOLEAN, Sync(m, ok)
    PROVE  IInv'
<1>1. TypeOK /\ m \in LiveMounts /\ SyncWrite(m, ok)
  BY DEF Sync, IInv
<1>2. UNCHANGED <<mnt, file, list, opened, careless, faulted>>
  BY DEF Sync
<1>3. QED
  BY <1>1, <1>2, SyncWriteT, DiskOnly

\* Files hold one reference, so closing one frees its block.
LEMMA ClosedFact ==
    ASSUME TypeOK, NEW f \in LiveFiles, file' = Closed(f)
    PROVE  /\ LiveFiles' = LiveFiles \ {f}
           /\ \A g \in LiveFiles \ {f} : file'[g] = file[g]
           /\ (file \in [LiveFiles -> FileT])'
<1>1. file[f].refcount = 1
  BY DEF TypeOK, FileT
<1>2. file' = [g \in LiveFiles \ {f} |-> file[g]]
  BY <1>1 DEF Closed, Without, LiveFiles
<1>3. LiveFiles' = LiveFiles \ {f}
  BY <1>2 DEF LiveFiles
<1>4. (file \in [LiveFiles -> FileT])'
  BY <1>2, <1>3 DEF TypeOK
<1>5. QED
  BY <1>2, <1>3, <1>4

\* jarfs_unmount preserves the invariant: it closes the root it owns.
LEMMA UnmountIInv ==
    ASSUME IInv, NEW m \in Mounts, NEW ok \in BOOLEAN, Unmount(m, ok)
    PROVE  IInv'
<1>1. TypeOK /\ m \in LiveMounts /\ SyncWrite(m, ok)
  BY DEF Unmount, IInv
<1>2. mnt' = [n \in LiveMounts \ {m} |-> mnt[n]]
  BY DEF Unmount, Without, LiveMounts
<1>3. /\ LiveMounts' = LiveMounts \ {m}
      /\ \A n \in LiveMounts' : mnt'[n] = mnt[n]
      /\ (mnt \in [LiveMounts -> MountT])'
  <2>1. LiveMounts' = LiveMounts \ {m}
    BY <1>2 DEF LiveMounts
  <2>2. QED
    BY <1>1, <1>2, <2>1 DEF TypeOK
<1>4. UNCHANGED <<mount_list, mount_count, opened, faulted>>
  BY DEF Unmount, list
<1>5. careless' \in BOOLEAN /\ (~careless' => ~careless /\ FilesOf(m) \cap opened = {})
  BY DEF Unmount, IInv, TypeOK
<1>6. FilesOwned /\ RootsAtHome /\ NoOrphans /\ NoFault
  BY DEF IInv
<1>7. CASE mnt[m].root = NULL
  <2>1. file' = file /\ LiveFiles' = LiveFiles
    BY <1>7 DEF Unmount, LiveFiles
  <2>2. TypeOK'
    <3>1. (file \in [LiveFiles -> FileT])' /\ (opened \subseteq LiveFiles)'
      BY <1>1, <1>4, <2>1 DEF TypeOK
    <3>2. QED
      BY <1>1, <1>3, <1>4, <1>5, <2>1, <3>1, SyncWriteT DEF TypeOK
  <2>3. FilesOwned'
    BY <1>1, <1>3, <1>4, <1>6, <1>7, <2>1 DEF FilesOwned
  <2>4. RootsAtHome'
    BY <1>3, <1>6, <2>1 DEF RootsAtHome
  <2>5. NoOrphans'
    <3> SUFFICES ASSUME ~careless', NEW g \in LiveFiles PROVE file[g].mount \in LiveMounts \ {m}
      BY <1>3, <2>1 DEF NoOrphans
    <3>1. file[g].mount \in LiveMounts
      BY <1>5, <1>6 DEF NoOrphans
    <3>2. CASE g \in opened
      BY <1>5, <3>1, <3>2 DEF FilesOf
    <3>3. CASE g \notin opened
      <4>1. PICK n \in LiveMounts : mnt[n].root = g /\ g # NULL
        BY <1>6, <3>3 DEF FilesOwned
      <4>2. QED
        BY <1>6, <1>7, <3>1, <4>1 DEF RootsAtHome
    <3>4. QED
      BY <3>2, <3>3
  <2>6. QED
    BY <1>4, <1>5, <1>6, <2>2, <2>3, <2>4, <2>5 DEF IInv, NoFault, Unmount
<1>8. CASE mnt[m].root # NULL
  <2> DEFINE r == mnt[m].root
  <2>1. r \in LiveFiles /\ r \notin opened
    BY <1>1, <1>6, <1>8 DEF FilesOwned
  <2>2. file' = Closed(r)
    BY <1>8 DEF Unmount
  <2>3. /\ LiveFiles' = LiveFiles \ {r}
        /\ \A g \in LiveFiles \ {r} : file'[g] = file[g]
        /\ (file \in [LiveFiles -> FileT])'
    BY <1>1, <2>1, <2>2, ClosedFact
  <2>4. \A n \in LiveMounts \ {m} : mnt[n].root # NULL => mnt[n].root # r /\ mnt[n].root \in LiveFiles
    BY <1>1, <1>6, <1>8 DEF FilesOwned
  <2>5. TypeOK'
    <3>1. (opened \subseteq LiveFiles)' /\ LiveFiles' \subseteq Files
      BY <1>1, <1>4, <2>1, <2>3 DEF TypeOK
    <3>2. QED
      BY <1>1, <1>3, <1>4, <1>5, <2>3, <3>1, SyncWriteT DEF TypeOK
  <2>6. FilesOwned'
    BY <1>1, <1>3, <1>4, <1>6, <1>8, <2>1, <2>3, <2>4 DEF FilesOwned
  <2>7. RootsAtHome'
    BY <1>3, <1>6, <2>3, <2>4 DEF RootsAtHome
  <2>8. NoOrphans'
    <3> SUFFICES ASSUME ~careless', NEW g \in LiveFiles \ {r}
                 PROVE  file[g].mount \in LiveMounts \ {m}
      BY <1>3, <2>3 DEF NoOrphans
    <3>1. file[g].mount \in LiveMounts
      BY <1>5, <1>6 DEF NoOrphans
    <3>2. CASE g \in opened
      BY <1>5, <3>1, <3>2 DEF FilesOf
    <3>3. CASE g \notin opened
      <4>1. PICK n \in LiveMounts : mnt[n].root = g /\ g # NULL
        BY <1>6, <3>3 DEF FilesOwned
      <4>2. n # m
        BY <4>1
      <4>3. QED
        BY <1>6, <3>1, <4>1, <4>2 DEF RootsAtHome
    <3>4. QED
      BY <3>2, <3>3
  <2>9. QED
    BY <1>4, <1>5, <1>6, <2>5, <2>6, <2>7, <2>8 DEF IInv, NoFault, Unmount
<1>9. QED
  BY <1>7, <1>8

\* jarfs_open preserves the invariant: the new file is the caller's.
LEMMA OpenIInv ==
    ASSUME IInv, NEW m \in Mounts, NEW f \in Files, Open(m, f)
    PROVE  IInv'
<1>1. TypeOK /\ m \in LiveMounts /\ f \notin LiveFiles
  BY DEF Open, IInv
<1>2. mnt[m].device \in Devices /\ mnt[m].superblock \in Superblocks
  BY <1>1 DEF TypeOK, MountT
<1>3. PICK new \in OpenedFiles(m, mnt[m].device, mnt[m].superblock) : file' = With(file, f, new)
  BY DEF Open
<1>4. new \in FileT /\ new.mount = m
  BY <1>1, <1>2, OpenedFileT
<1>5. /\ LiveFiles' = LiveFiles \cup {f}
      /\ file'[f] = new
      /\ \A g \in LiveFiles : file'[g] = file[g]
  BY <1>1, <1>3 DEF With, LiveFiles
<1>6. (file \in [LiveFiles -> FileT])'
  BY <1>1, <1>3, <1>4, <1>5 DEF With, LiveFiles, TypeOK
<1>7. /\ UNCHANGED <<disk_sb, disk_inode, mnt, mount_list, mount_count, torn, careless, faulted>>
      /\ LiveMounts' = LiveMounts /\ opened' = opened \cup {f}
  BY DEF Open, disk, list, LiveMounts
<1>8. \A n \in LiveMounts : mnt[n].root # NULL => mnt[n].root \in LiveFiles
  BY DEF IInv, FilesOwned
<1>9. TypeOK'
  <2>1. (mnt \in [LiveMounts -> MountT])' /\ (opened \subseteq LiveFiles)'
    BY <1>1, <1>5, <1>7 DEF TypeOK
  <2>2. QED
    BY <1>1, <1>5, <1>6, <1>7, <2>1 DEF TypeOK
<1>10. FilesOwned'
  BY <1>1, <1>5, <1>7, <1>8 DEF IInv, FilesOwned
<1>11. RootsAtHome' /\ NoOrphans' /\ NoFault'
  BY <1>1, <1>4, <1>5, <1>7, <1>8 DEF IInv, RootsAtHome, NoOrphans, NoFault
<1>12. QED
  BY <1>9, <1>10, <1>11 DEF IInv

\* jarfs_close preserves the invariant: no other file is touched.
LEMMA CloseIInv ==
    ASSUME IInv, NEW f \in Files, Close(f)
    PROVE  IInv'
<1>1. TypeOK /\ f \in opened /\ f \in LiveFiles /\ file' = Closed(f)
  BY DEF Close, IInv, TypeOK
<1>2. /\ LiveFiles' = LiveFiles \ {f}
      /\ \A g \in LiveFiles \ {f} : file'[g] = file[g]
      /\ (file \in [LiveFiles -> FileT])'
  BY <1>1, ClosedFact
<1>3. /\ UNCHANGED <<disk_sb, disk_inode, mnt, mount_list, mount_count, torn, careless, faulted>>
      /\ LiveMounts' = LiveMounts /\ opened' = opened \ {f}
  BY DEF Close, disk, list, LiveMounts
<1>4. \A n \in LiveMounts : mnt[n].root # NULL => mnt[n].root \in LiveFiles \ {f}
  BY <1>1 DEF IInv, FilesOwned
<1>5. TypeOK'
  <2>1. (mnt \in [LiveMounts -> MountT])' /\ (opened \subseteq LiveFiles)'
    BY <1>1, <1>2, <1>3 DEF TypeOK
  <2>2. QED
    BY <1>1, <1>2, <1>3, <2>1 DEF TypeOK
<1>6. FilesOwned'
  BY <1>1, <1>2, <1>3, <1>4 DEF IInv, FilesOwned
<1>7. RootsAtHome' /\ NoOrphans' /\ NoFault'
  BY <1>2, <1>3, <1>4 DEF IInv, RootsAtHome, NoOrphans, NoFault
<1>8. QED
  BY <1>5, <1>6, <1>7 DEF IInv

(***************************************************************************)
(* A Regular read is clipped to the end of the file and, if anything is    *)
(* left to copy, stays inside the block.                                   *)
(***************************************************************************)
LEMMA ClippedInBlock ==
    ASSUME NEW r \in FileT, NEW count \in Nat, r.inode.size \in Nat, Regular(r, count)
    PROVE  /\ Clipped(r, count) \in Nat
           /\ Clipped(r, count) = 0 \/ InBlock(r, Clipped(r, count))
<1> DEFINE p == r.position
           s == r.inode.size
<1>1. p \in Nat /\ s \in Nat /\ s =< BlockSize /\ p =< s /\ p + count < U64 /\ U64 \in Nat
      /\ U64 > BlockSize
  BY JarfsAssumption DEF FileT, Regular
<1> HIDE DEF p, s
<1>2. (p + count) % U64 = p + count
  BY <1>1
<1>3. p = 0 \/ (s + U64 - p) % U64 = s - p
  <2>1. CASE p > 0
    <3>1. s + U64 - p \in Nat /\ s - p \in 0..(U64 - 1)
      BY <1>1, <2>1 DEF BlockSize
    <3>2. s + U64 - p = U64 + (s - p)
      BY <1>1
    <3>3. QED
      BY <1>1, <3>1, <3>2
  <2>2. QED
    BY <1>1, <2>1
<1>4. p = 0 => (s + U64 - p) % U64 = s
  BY <1>1 DEF BlockSize
<1>5. Clipped(r, count) = IF p + count > s THEN s - p ELSE count
  BY <1>1, <1>2, <1>3, <1>4 DEF Clipped, p, s
<1>6. Clipped(r, count) \in Nat /\ p + Clipped(r, count) =< s
  BY <1>1, <1>5
<1>7. p < BlockSize => p % BlockSize = p
  BY <1>1 DEF BlockSize
<1>8. p >= BlockSize => Clipped(r, count) = 0
  BY <1>1, <1>6 DEF BlockSize
<1>9. QED
  BY <1>1, <1>6, <1>7, <1>8 DEF InBlock, p, BlockSize

\* jarfs_read preserves the invariant: it faults only after a broken rule.
LEMMA ReadIInv ==
    ASSUME IInv, NEW f \in Files, NEW count \in Counts, NEW temp \in BOOLEAN,
           Read(f, count, temp)
    PROVE  IInv'
<1> DEFINE r == file[f]
           n == Clipped(r, count)
           safe == temp /\ r.mount \in LiveMounts /\ InBlock(r, n)
<1>1. TypeOK /\ f \in LiveFiles /\ count \in Nat /\ r \in FileT
  BY JarfsAssumption DEF Read, IInv, TypeOK
<1>2. r.inode.size \in Nat
  BY <1>1, JarfsAssumption DEF FileT, Inodes, RootInode, BlockSize
<1>3. r.position \in Nat /\ U64 \in Nat \ {0}
  BY <1>1, JarfsAssumption DEF FileT, BlockSize
<1>4. n \in Nat
  BY <1>1, <1>2, <1>3 DEF Clipped
<1>5. (r.position + n) % U64 \in Nat
  BY <1>3, <1>4
<1>6. /\ LiveFiles' = LiveFiles
      /\ (file \in [LiveFiles -> FileT])'
      /\ \A g \in LiveFiles : file'[g].mount = file[g].mount
  <2>1. CASE file' = file
    BY <1>1, <2>1 DEF LiveFiles, TypeOK
  <2>2. CASE file' = [file EXCEPT ![f].position = (@ + n) % U64]
    BY <1>1, <1>5, <2>2 DEF LiveFiles, TypeOK, FileT
  <2>3. QED
    BY <2>1, <2>2 DEF Read
<1>7. /\ UNCHANGED <<disk_sb, disk_inode, mnt, mount_list, mount_count, torn, opened>>
      /\ LiveMounts' = LiveMounts
  BY DEF Read, disk, list, LiveMounts
<1>8. /\ careless' \in BOOLEAN /\ faulted' \in BOOLEAN
      /\ ~careless' => ~careless /\ temp /\ Regular(r, count)
      /\ faulted' => n # 0 /\ ~safe
  BY DEF Read, IInv, TypeOK
<1>9. TypeOK'
  <2>1. (mnt \in [LiveMounts -> MountT])' /\ (opened \subseteq LiveFiles)'
    BY <1>1, <1>6, <1>7 DEF TypeOK
  <2>2. QED
    BY <1>1, <1>6, <1>7, <1>8, <2>1 DEF TypeOK
<1>10. FilesOwned'
  BY <1>6, <1>7 DEF IInv, FilesOwned
<1>11. RootsAtHome'
  BY <1>6, <1>7 DEF IInv, FilesOwned, RootsAtHome
<1>12. NoOrphans'
  BY <1>6, <1>7, <1>8 DEF IInv, NoOrphans
<1>13. NoFault'
  <2> SUFFICES ASSUME faulted', ~careless' PROVE FALSE
    BY DEF NoFault
  <2>1. r.mount \in LiveMounts
    BY <1>1, <1>8 DEF IInv, NoOrphans
  <2>2. n = 0 \/ InBlock(r, n)
    BY <1>1, <1>2, <1>8, ClippedInBlock
  <2>3. QED
    BY <1>8, <2>1, <2>2
<1>14. QED
  BY <1>9, <1>10, <1>11, <1>12, <1>13 DEF IInv

\* Every operation of the file system preserves the invariant.
LEMMA NextIInv == IInv /\ [Next]_vars => IInv'
<1> SUFFICES ASSUME IInv, [Next]_vars PROVE IInv'
  OBVIOUS
<1>1. CASE Reboot
  <2>1. TypeOK!1' /\ TypeOK!2' /\ TypeOK!8'
    BY <1>1 DEF Reboot, disk, IInv, TypeOK
  <2>2. QED
    BY <1>1, <2>1, RestartIInv DEF Reboot, IInv
<1>2. CASE UNCHANGED vars
  BY <1>2 DEF vars, list, IInv, TypeOK, FilesOwned, RootsAtHome, NoOrphans, NoFault,
     LiveMounts, LiveFiles
<1>3. CASE MountFails
  BY <1>2, <1>3 DEF MountFails
<1>4. QED
  BY <1>1, <1>2, <1>3, FormatIInv, FormatInterruptedIInv, MountIInv, SyncIInv, UnmountIInv,
     OpenIInv, CloseIInv, ReadIInv DEF Next

\* IInv is an invariant: types, ownership of files and safety of jarfs_read.
THEOREM Invariance == Spec => []IInv
BY InitIInv, NextIInv, PTL DEF Spec

(***************************************************************************)
(* Devices, mounts and files hold values of their types.                   *)
(***************************************************************************)
THEOREM TypeCorrect == Spec => []TypeOK
<1>1. IInv => TypeOK
  BY DEF IInv
<1>2. QED
  BY <1>1, Invariance, PTL

(***************************************************************************)
(* No sequence of mounts, opens, closes and unmounts leaks a file block or *)
(* frees one that somebody still owns.                                     *)
(***************************************************************************)
THEOREM FilesAreOwned == Spec => []FilesOwned
<1>1. IInv => FilesOwned
  BY DEF IInv
<1>2. QED
  BY <1>1, Invariance, PTL

(***************************************************************************)
(* jarfs_read never leaves its block or follows a freed mount, for callers *)
(* that keep the rules stated at NoFault.                                  *)
(***************************************************************************)
THEOREM ReadsAreSafe == Spec => []NoFault
<1>1. IInv => NoFault
  BY DEF IInv
<1>2. QED
  BY <1>1, Invariance, PTL

(***************************************************************************)
(* Every superblock with the magic, on a device or in memory, at any time  *)
(* describes a sound layout.                                               *)
(***************************************************************************)
THEOREM SuperblocksStaySound == Spec => []SuperblocksSound
<1>1. IInv => SuperblocksSound
  <2> SUFFICES ASSUME IInv PROVE SuperblocksSound
    OBVIOUS
  <2>1. \A d \in Devices : disk_sb[d] # NoMagic => disk_sb[d] \in Superblocks
    BY DEF IInv, TypeOK
  <2>2. \A m \in LiveMounts : mnt[m].superblock \in Superblocks
    BY DEF IInv, TypeOK, MountT
  <2>3. QED
    BY <2>1, <2>2, SuperblocksAreSound DEF SuperblocksSound
<1>2. QED
  BY <1>1, Invariance, PTL

-----------------------------------------------------------------------------
(***************************************************************************)
(* The root directory.  RootValid is about block numbers below 2^32; what  *)
(* is inductive is that the inode is the one jarfs_format wrote with the   *)
(* superblock.                                                             *)
(***************************************************************************)
RootMatches ==
    \A d \in Devices :
        disk_sb[d] # NoMagic /\ ~torn[d]
        => disk_inode[d][disk_sb[d].inode_table_start] = RootInode(disk_sb[d])

\* A device in a blank state has no root to be wrong.
LEMMA InitMatches == Init => RootMatches
BY DEF Init, RootMatches

\* jarfs_format writes both or marks the device as torn.
LEMMA FormatMatches ==
    ASSUME TypeOK, RootMatches, NEW d \in Devices, NEW size \in Sizes, NEW ok1 \in BOOLEAN,
           NEW ok2 \in BOOLEAN, Format(d, size, ok1, ok2)
    PROVE  RootMatches'
<1> DEFINE sb == Superblock(size)
           t == sb.inode_table_start
<1>1. t \in Tables /\ sb \in Superblocks
  BY DEF Superblock, Tables, Superblocks
<1>2. /\ disk_sb' = IF ok1 THEN [disk_sb EXCEPT ![d] = sb] ELSE disk_sb
      /\ disk_inode' = IF ok2 THEN [disk_inode EXCEPT ![d][t] = RootInode(sb)] ELSE disk_inode
      /\ torn' = [torn EXCEPT ![d] = IF ok1 = ok2 THEN @ /\ ~ok1 ELSE TRUE]
  BY DEF Format, WriteSb, WriteRoot
<1> HIDE DEF sb, t
<1> SUFFICES ASSUME NEW c \in Devices, disk_sb'[c] # NoMagic, ~torn'[c]
             PROVE  disk_inode'[c][disk_sb'[c].inode_table_start] = RootInode(disk_sb'[c])
  BY DEF RootMatches
<1>3. CASE c # d
  <2>1. disk_sb'[c] = disk_sb[c] /\ torn'[c] = torn[c] /\ disk_inode'[c] = disk_inode[c]
    BY <1>2, <1>3 DEF TypeOK
  <2>2. QED
    BY <2>1 DEF RootMatches
<1>4. CASE c = d /\ ok1 /\ ok2
  <2>1. disk_sb'[d] = sb
    BY <1>2, <1>4 DEF TypeOK
  <2>2. disk_inode'[d][t] = RootInode(sb)
    BY <1>1, <1>2, <1>4 DEF TypeOK
  <2>3. QED
    BY <1>4, <2>1, <2>2 DEF t
<1>5. CASE c = d /\ ~ok1 /\ ~ok2
  <2>1. disk_sb' = disk_sb /\ disk_inode' = disk_inode /\ torn'[d] = torn[d]
    BY <1>2, <1>5 DEF TypeOK
  <2>2. QED
    BY <1>5, <2>1 DEF RootMatches
<1>6. CASE c = d /\ ok1 # ok2
  BY <1>2, <1>6 DEF TypeOK
<1>7. QED
  BY <1>3, <1>4, <1>5, <1>6

\* jarfs_sync writes the superblock that is there, or marks the device.
LEMMA SyncMatches ==
    ASSUME TypeOK, RootMatches, NEW m \in LiveMounts, NEW ok \in BOOLEAN, SyncWrite(m, ok)
    PROVE  RootMatches'
<1> DEFINE d == mnt[m].device
           sb == mnt[m].superblock
<1>1. d \in Devices
  BY DEF TypeOK, MountT
<1>2. /\ disk_sb' = IF ok THEN [disk_sb EXCEPT ![d] = sb] ELSE disk_sb
      /\ torn' = [torn EXCEPT ![d] = @ \/ (ok /\ disk_sb[d] # sb)]
      /\ disk_inode' = disk_inode
  BY DEF SyncWrite, WriteSb
<1> HIDE DEF d, sb
<1> SUFFICES ASSUME NEW c \in Devices, disk_sb'[c] # NoMagic, ~torn'[c]
             PROVE  disk_inode[c][disk_sb'[c].inode_table_start] = RootInode(disk_sb'[c])
  BY <1>2 DEF RootMatches
<1>3. disk_sb'[c] = disk_sb[c] /\ ~torn[c]
  BY <1>1, <1>2 DEF TypeOK
<1>4. QED
  BY <1>3 DEF RootMatches

\* Every operation, a loss of power included, keeps or marks it.
LEMMA NextMatches == TypeOK /\ RootMatches /\ [Next]_vars => RootMatches'
<1> SUFFICES ASSUME TypeOK, RootMatches, [Next]_vars PROVE RootMatches'
  OBVIOUS
<1>1. CASE UNCHANGED <<disk_sb, disk_inode, torn>>
  BY <1>1 DEF RootMatches
<1>2. CASE \E d \in Devices, size \in Sizes, ok1, ok2 \in BOOLEAN : Format(d, size, ok1, ok2)
  BY <1>2, FormatMatches
<1>3. CASE \E d \in Devices, size \in Sizes : FormatInterrupted(d, size)
  <2>1. PICK d \in Devices, size \in Sizes : FormatInterrupted(d, size)
    BY <1>3
  <2>2. \A c \in Devices : \/ torn'[c]
                           \/ /\ disk_sb'[c] = disk_sb[c] /\ torn'[c] = torn[c]
                              /\ disk_inode'[c] = disk_inode[c]
    BY <2>1 DEF FormatInterrupted, WriteSb, TypeOK
  <2>3. QED
    BY <2>2 DEF RootMatches
<1>4. CASE \E m \in Mounts, ok \in BOOLEAN : Sync(m, ok) \/ Unmount(m, ok)
  BY <1>4, SyncMatches DEF Sync, Unmount
<1>5. QED
  BY <1>1, <1>2, <1>3, <1>4
     DEF Next, vars, disk, Reboot, MountFails, Mount, Open, Close, Read

(***************************************************************************)
(* The superblock on a device leads to its own root directory, unless      *)
(* superblock and inode come from two formats or the block number does not *)
(* fit into 32 bits.                                                       *)
(***************************************************************************)
THEOREM RootsAreValid == Spec => []RootValid
<1>1. TypeOK /\ RootMatches => RootValid
  <2> SUFFICES ASSUME TypeOK, RootMatches, NEW d \in Devices, disk_sb[d] # NoMagic, ~torn[d],
                      disk_sb[d].data_start < U32
               PROVE  LET inode == disk_inode[d][disk_sb[d].inode_table_start]
                      IN  inode.block = disk_sb[d].data_start /\ inode.size = BlockSize
    BY DEF RootValid
  <2>1. disk_inode[d][disk_sb[d].inode_table_start] = RootInode(disk_sb[d])
    BY DEF RootMatches
  <2>2. disk_sb[d].data_start \in Nat
    <3>1. PICK size \in Sizes : disk_sb[d] = Superblock(size)
      BY DEF TypeOK, Superblocks
    <3>2. size \in Nat
      BY JarfsAssumption
    <3>3. BlockCount(size) \in Nat /\ InodeCount(size) \in Nat
      BY <3>2 DEF BlockCount, InodeCount, BlockSize, MinInodes
    <3>4. DataStart(size) \in Nat
      BY <3>3 DEF DataStart, InodeTableStart, InodeBitmapStart, BlockBitmapStart, DivRoundUp,
         BlockSize, InodeSize
    <3>5. QED
      BY <3>1, <3>4 DEF Superblock
  <2>3. disk_sb[d].data_start % U32 = disk_sb[d].data_start
    BY <2>2, JarfsAssumption
  <2>4. QED
    BY <2>1, <2>3 DEF RootInode
<1>2. QED
  BY <1>1, TypeCorrect, InitMatches, NextMatches, PTL DEF Spec

-----------------------------------------------------------------------------
(***************************************************************************)
(* The list of mounts.                                                     *)
(***************************************************************************)
\* One step along next.
Follow(mounts, x) == IF x \in DOMAIN mounts THEN mounts[x].next ELSE NULL
\* g is the walk of n steps from head.
IsChain(g, n, head, mounts) ==
    g = [k \in 0..n |-> IF k = 0 THEN head ELSE Follow(mounts, g[k - 1])]
Chain(n, head, mounts) == CHOOSE g : IsChain(g, n, head, mounts)

\* There is such a walk.
LEMMA ChainExists ==
    ASSUME NEW head, NEW mounts
    PROVE  \A n \in Nat : IsChain(Chain(n, head, mounts), n, head, mounts)
<1> DEFINE S == {n \in Nat : \E g : IsChain(g, n, head, mounts)}
<1>1. 0 \in S
  <2>1. IsChain([k \in 0..0 |-> head], 0, head, mounts)
    BY DEF IsChain
  <2>2. QED
    BY <2>1
<1>2. ASSUME NEW n \in S PROVE n + 1 \in S
  <2>1. PICK g : IsChain(g, n, head, mounts)
    OBVIOUS
  <2> DEFINE g2 == [k \in 0..(n + 1) |-> IF k = n + 1 THEN Follow(mounts, g[n]) ELSE g[k]]
  <2>2. \A k \in 0..n : g[k] = IF k = 0 THEN head ELSE Follow(mounts, g[k - 1])
    BY <2>1 DEF IsChain
  <2>3. \A k \in 0..(n + 1) : g2[k] = IF k = 0 THEN head ELSE Follow(mounts, g2[k - 1])
    <3> SUFFICES ASSUME NEW k \in 0..(n + 1)
                 PROVE  g2[k] = IF k = 0 THEN head ELSE Follow(mounts, g2[k - 1])
      OBVIOUS
    <3>1. CASE k = n + 1
      BY <3>1
    <3>2. CASE k \in 0..n
      BY <2>2, <3>2
    <3>3. QED
      BY <3>1, <3>2
  <2>4. g2 = [k \in 0..(n + 1) |-> IF k = 0 THEN head ELSE Follow(mounts, g2[k - 1])]
    BY <2>3
  <2>5. IsChain(g2, n + 1, head, mounts)
    BY <2>4 DEF IsChain
  <2>6. QED
    BY <2>5
<1> HIDE DEF S
<1>3. \A n \in Nat : n \in S
  BY <1>1, <1>2, Induction DEF S
<1>4. QED
  BY <1>3 DEF S, Chain

\* Visited, in the terms of this module.
LEMMA VisitedIs ==
    ASSUME NEW n \in Nat
    PROVE  Visited(n) = {Chain(n, mount_list, mnt)[k] : k \in 0..n}
BY DEF Visited, Chain, IsChain, Follow, LiveMounts

\* The walk meets every mount, and then NULL.
Complete(n, head, mounts) ==
    {Chain(n, head, mounts)[k] : k \in 0..n} = DOMAIN mounts \cup {NULL}

\* A mount put in front of a complete list makes a complete list.
LEMMA CompleteLonger ==
    ASSUME NEW n \in Nat, NEW head, NEW mounts, Complete(n, head, mounts),
           NULL \notin DOMAIN mounts, NEW m, m \notin DOMAIN mounts, m # NULL,
           NEW rec, rec.next = head
    PROVE  Complete(n + 1, m, With(mounts, m, rec))
<1> DEFINE longer == With(mounts, m, rec)
           g == Chain(n, head, mounts)
           h == Chain(n + 1, m, longer)
<1>1. /\ DOMAIN longer = DOMAIN mounts \cup {m} /\ longer[m] = rec
      /\ \A x \in DOMAIN mounts : longer[x] = mounts[x]
  BY DEF With
<1>2. \A x \in DOMAIN mounts \cup {NULL} : Follow(longer, x) = Follow(mounts, x)
  BY <1>1 DEF Follow
<1>3. Follow(longer, m) = head
  BY <1>1 DEF Follow
<1> HIDE DEF longer
<1>4. IsChain(g, n, head, mounts) /\ IsChain(h, n + 1, m, longer)
  BY ChainExists
<1> HIDE DEF g, h
<1>5. /\ \A k \in 0..n : g[k] = IF k = 0 THEN head ELSE Follow(mounts, g[k - 1])
      /\ \A k \in 0..(n + 1) : h[k] = IF k = 0 THEN m ELSE Follow(longer, h[k - 1])
  BY <1>4 DEF IsChain
<1>6. \A k \in 0..n : g[k] \in DOMAIN mounts \cup {NULL}
  BY DEF Complete, g
<1> DEFINE S == {k \in Nat : k =< n => h[k + 1] = g[k]}
<1>7. 0 \in S
  <2>1. h[1] = Follow(longer, h[0]) /\ h[0] = m /\ g[0] = head
    BY <1>5
  <2>2. QED
    BY <1>3, <2>1
<1>8. ASSUME NEW k \in S PROVE k + 1 \in S
  <2> SUFFICES ASSUME k + 1 =< n PROVE h[k + 2] = g[k + 1]
    OBVIOUS
  <2>1. h[k + 1] = g[k] /\ g[k] \in DOMAIN mounts \cup {NULL}
    BY <1>6
  <2>2. k + 2 \in 0..(n + 1) /\ k + 1 \in 0..n /\ (k + 2) - 1 = k + 1 /\ (k + 1) - 1 = k
        /\ k + 2 # 0 /\ k + 1 # 0
    OBVIOUS
  <2>3. h[k + 2] = Follow(longer, h[k + 1]) /\ g[k + 1] = Follow(mounts, g[k])
    BY <1>5, <2>2
  <2>4. QED
    BY <1>2, <2>1, <2>3
<1> HIDE DEF S
<1>9. \A k \in Nat : k \in S
  BY <1>7, <1>8, Induction DEF S
<1>10. \A k \in 0..n : h[k + 1] = g[k]
  BY <1>9 DEF S
<1>11. \A x : x \in {h[k] : k \in 0..(n + 1)} <=> x = m \/ x \in {g[k] : k \in 0..n}
  <2> SUFFICES ASSUME NEW x
               PROVE  (\E k \in 0..(n + 1) : x = h[k]) <=> (x = m \/ \E k \in 0..n : x = g[k])
    OBVIOUS
  <2>1. h[0] = m
    BY <1>5
  <2>2. ASSUME NEW k \in 0..(n + 1), x = h[k] PROVE x = m \/ \E j \in 0..n : x = g[j]
    <3>1. CASE k = 0
      BY <2>1, <2>2, <3>1
    <3>2. CASE k # 0
      <4>1. k - 1 \in 0..n /\ h[k] = g[k - 1]
        BY <1>10, <3>2
      <4>2. QED
        BY <2>2, <4>1
    <3>3. QED
      BY <3>1, <3>2
  <2>3. ASSUME NEW k \in 0..n, x = g[k] PROVE \E j \in 0..(n + 1) : x = h[j]
    <3>1. k + 1 \in 0..(n + 1) /\ h[k + 1] = x
      BY <1>10, <2>3
    <3>2. QED
      BY <3>1
  <2>4. x = m => \E j \in 0..(n + 1) : x = h[j]
    BY <2>1
  <2>5. QED
    BY <2>2, <2>3, <2>4
<1>12. {g[k] : k \in 0..n} = DOMAIN mounts \cup {NULL}
  BY DEF Complete, g
<1>13. {h[k] : k \in 0..(n + 1)} = DOMAIN longer \cup {NULL}
  BY <1>1, <1>11, <1>12
<1>14. QED
  BY <1>13 DEF Complete, h, longer

(***************************************************************************)
(* The invariant: mount_count never falls behind the mounts, and while it  *)
(* is their number the list is complete.                                   *)
(***************************************************************************)
ListInv ==
    /\ IsFiniteSet(LiveMounts)
    /\ Cardinality(LiveMounts) =< mount_count
    /\ mount_count = Cardinality(LiveMounts) => Complete(mount_count, mount_list, mnt)

\* No mount, no list: after boot and after every reboot.
LEMMA RestartListInv ==
    /\ Init => ListInv
    /\ Restart => ListInv'
<1>1. IsFiniteSet({}) /\ Cardinality({}) = 0
  BY FS_EmptySet
<1>2. Complete(0, NULL, Empty)
  <2> DEFINE g == Chain(0, NULL, Empty)
  <2>1. IsChain(g, 0, NULL, Empty)
    BY ChainExists
  <2> HIDE DEF g
  <2>2. g[0] = NULL
    BY <2>1 DEF IsChain
  <2>3. {g[k] : k \in 0..0} = {NULL}
    BY <2>2
  <2>4. QED
    BY <2>3 DEF Complete, Empty, g
<1>3. DOMAIN Empty = {}
  BY DEF Empty
<1>4. Init => ListInv
  <2> SUFFICES ASSUME Init PROVE ListInv
    OBVIOUS
  <2>1. mount_count = 0 /\ mount_list = NULL /\ mnt = Empty /\ LiveMounts = {}
    BY <1>3 DEF Init, LiveMounts
  <2>2. QED
    BY <1>1, <1>2, <2>1 DEF ListInv
<1>5. Restart => ListInv'
  <2> SUFFICES ASSUME Restart PROVE ListInv'
    OBVIOUS
  <2>1. mount_count' = 0 /\ mount_list' = NULL /\ mnt' = Empty /\ LiveMounts' = {}
    BY <1>3 DEF Restart, LiveMounts
  <2>2. QED
    BY <1>1, <1>2, <2>1 DEF ListInv
<1>6. QED
  BY <1>4, <1>5

\* Every operation preserves it.
LEMMA NextListInv == TypeOK /\ ListInv /\ [Next]_vars => ListInv'
<1> SUFFICES ASSUME TypeOK, ListInv, [Next]_vars PROVE ListInv'
  OBVIOUS
<1>1. Cardinality(LiveMounts) \in Nat /\ mount_count \in Nat /\ NULL \notin LiveMounts
  BY FS_CardinalityType, JarfsAssumption DEF TypeOK, ListInv
<1>2. CASE UNCHANGED <<mnt, mount_list, mount_count>>
  BY <1>2 DEF ListInv, LiveMounts
<1>3. CASE Restart
  BY <1>3, RestartListInv
<1>4. CASE \E d \in Devices, m \in Mounts, f \in Files \cup {NULL} : Mount(d, m, f)
  <2>1. PICK d \in Devices, m \in Mounts, f \in Files \cup {NULL} : Mount(d, m, f)
    BY <1>4
  <2> DEFINE rec == [device |-> d, superblock |-> disk_sb[d], root |-> f, next |-> mount_list]
  <2>2. /\ m \notin LiveMounts /\ mnt' = With(mnt, m, rec)
        /\ mount_list' = m /\ mount_count' = mount_count + 1
    BY <2>1 DEF Mount
  <2>3. rec.next = mount_list /\ m # NULL
    BY JarfsAssumption
  <2> HIDE DEF rec
  <2>4. LiveMounts' = LiveMounts \cup {m}
    BY <2>2 DEF With, LiveMounts
  <2>5. IsFiniteSet(LiveMounts') /\ Cardinality(LiveMounts') = Cardinality(LiveMounts) + 1
    BY <2>2, <2>4, FS_AddElement DEF ListInv
  <2>6. Complete(mount_count, mount_list, mnt)
        => Complete(mount_count + 1, m, With(mnt, m, rec))
    BY <1>1, <2>2, <2>3, CompleteLonger DEF LiveMounts
  <2>7. QED
    BY <1>1, <2>2, <2>5, <2>6 DEF ListInv
<1>5. CASE \E m \in Mounts, ok \in BOOLEAN : Unmount(m, ok)
  <2>1. PICK m \in LiveMounts : mnt' = Without(mnt, {m}) /\ mount_count' = mount_count
    BY <1>5 DEF Unmount, list
  <2>2. LiveMounts' = LiveMounts \ {m}
    BY <2>1 DEF Without, LiveMounts
  <2>3. IsFiniteSet(LiveMounts') /\ Cardinality(LiveMounts') = Cardinality(LiveMounts) - 1
    BY <2>1, <2>2, FS_RemoveElement DEF ListInv
  <2>4. QED
    BY <1>1, <2>1, <2>3 DEF ListInv
<1>6. QED
  BY <1>2, <1>3, <1>4, <1>5
     DEF Next, vars, list, Reboot, Format, FormatInterrupted, MountFails, Sync, Open, Close, Read

(***************************************************************************)
(* Until the first unmount, mount_list leads to every mount, whatever the  *)
(* order of mounts and reboots.                                            *)
(***************************************************************************)
THEOREM MountListIsComplete == Spec => []MountListComplete
<1>1. TypeOK /\ ListInv => MountListComplete
  <2> SUFFICES ASSUME TypeOK, ListInv, mount_count = Cardinality(LiveMounts)
               PROVE  Visited(mount_count) = LiveMounts \cup {NULL}
    BY DEF MountListComplete
  <2>1. mount_count \in Nat
    BY JarfsAssumption DEF TypeOK
  <2>2. QED
    BY <2>1, VisitedIs DEF ListInv, Complete, LiveMounts
<1>2. QED
  BY <1>1, TypeCorrect, RestartListInv, NextListInv, PTL DEF Spec
=============================================================================
