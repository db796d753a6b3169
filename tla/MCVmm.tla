------------------------------- MODULE MCVmm -------------------------------
(***************************************************************************)
(* Small instances of Vmm: a PML4 with one entry for the lower half, a     *)
(* kernel entry the bootloader filled and one it did not.                  *)
(***************************************************************************)
EXTENDS Vmm, TLC

MCSlots == {0, 1, 2}

\* Two addresses of one page table and one below each kernel entry.
MCVAs == {<<0, 0, 0, 0>>, <<0, 0, 0, 1>>, <<1, 0, 0, 0>>, <<2, 0, 0, 0>>}
UserVAs == {<<0, 0, 0, 0>>, <<0, 0, 0, 1>>}

\* The blocks kmalloc returns are alike.
AnySpace == Permutations(Spaces)

\* States that differ in the last result only are one: no call reads it, and the
\* properties look at the result of the step they are about.
SameTables == <<free, entry, root, kernel_vmm, cr3, tlb, nxTable, crashed>>
=============================================================================
