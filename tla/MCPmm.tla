------------------------------- MODULE MCPmm -------------------------------
(***************************************************************************)
(* Small instances of Pmm: pages of 2 bytes, 2 bitmap bits in a byte.      *)
(***************************************************************************)
EXTENDS Pmm

U(base, length) == [usable |-> TRUE, base |-> base, length |-> length]
R(base, length) == [usable |-> FALSE, base |-> base, length |-> length]

\* 4 pages: a bitmap of exactly one page, with room behind it and with none,
\* so that a later pmm_init finds no place for its own.
WholeMaps ==
    { <<R(0, 2), U(2, 6)>>,
      <<R(0, 2), U(2, 2), R(4, 2), U(6, 2)>> }

\* 3 and 5 pages: a bitmap that ends inside a page, one without its last byte.
PartialMaps ==
    { <<R(0, 2), U(2, 4)>>,
      <<R(0, 2), U(2, 4), R(6, 2), U(8, 2)>> }

\* 8 pages, no usable region of 4 bytes; and no usable memory at all.
HopelessMaps == { <<R(0, 2), U(2, 2), R(4, 10), U(14, 2)>>, <<R(0, 8)>> }

MCMemoryMaps == WholeMaps \cup PartialMaps \cup HopelessMaps

\* Every page, inside and beyond the managed memory, and an inner address.
MCFreeAddrs == {2 * p : p \in 0..5} \cup {7}
=============================================================================
