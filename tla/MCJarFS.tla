------------------------------ MODULE MCJarFS ------------------------------
(***************************************************************************)
(* A small instance of JarFS: devices of 16 and 20 MiB, whose inode tables *)
(* start at the same block, and of 1.5 GiB, whose data area starts beyond  *)
(* the largest block number of the instance.                               *)
(***************************************************************************)
EXTENDS JarFS, TLC

MCSizes == {16 * 1024 * 1024, 20 * 1024 * 1024, 1536 * 1024 * 1024}

\* An inode of two blocks.
OneStray == {[size |-> 8192, block |-> 7]}

\* Blocks of one kind are alike.
AnyBlock == Permutations(Mounts) \cup Permutations(Files)
=============================================================================
