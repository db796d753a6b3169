-------------------------------- MODULE Pmm --------------------------------
(***************************************************************************)
(* The physical memory manager, kernel/src/pmm.c: a bitmap with one bit    *)
(* per page frame, placed inside the first usable region of the Limine     *)
(* memory map that can hold it, first-fit allocation of single pages and   *)
(* an unchecked free.                                                      *)
(*                                                                         *)
(* The bitmap lives in memory that the manager itself administers, so the  *)
(* model keeps the page in which every bit is stored: a caller that writes *)
(* to a page it was given overwrites the bits stored there, if any.        *)
(***************************************************************************)
EXTENDS Integers, Sequences, FiniteSets

CONSTANTS
    PageSize,       \* bytes in a page frame (4096 in the code)
    BitsPerByte,    \* bitmap bits in a byte (8 in the code)
    MemoryMaps,     \* the memory maps the bootloader may deliver
    FreeAddrs,      \* the addresses callers pass to pmm_free_page
    MaxInits,       \* bound: how often pmm_init is called
    NoMap           \* the bootloader did not answer the request

Region == [usable : BOOLEAN, base : Nat, length : Nat]

(***************************************************************************)
(* The bootloader's contract (Limine protocol): usable regions are page    *)
(* aligned, do not overlap and do not hold the page at address 0.          *)
(***************************************************************************)
WellFormed(m) ==
    /\ m \in Seq(Region)
    /\ \A k \in 1..Len(m) : m[k].usable =>
          /\ m[k].base > 0
          /\ m[k].base % PageSize = 0
          /\ m[k].length % PageSize = 0
    /\ \A k, n \in 1..Len(m) : k # n /\ m[k].usable /\ m[n].usable =>
          \/ m[k].base + m[k].length =< m[n].base
          \/ m[n].base + m[n].length =< m[k].base

ASSUME PmmAssumption ==
    /\ PageSize \in Nat \ {0}
    /\ BitsPerByte \in Nat \ {0}
    /\ FreeAddrs \subseteq Nat
    /\ MaxInits \in Nat
    /\ \A m \in MemoryMaps : WellFormed(m)
    /\ \A m \in MemoryMaps : m # NoMap

VARIABLES
    map,            \* the bootloader's memory map; pmm_init shrinks one region
    total_pages,    \* pmm.total_pages
    bitmap_phys,    \* pmm.bitmap_phys
    bitmap_size,    \* pmm.bitmap_size, in bytes
    bit,            \* the bits, wherever they are stored: 1 = used
    owned,          \* history: the pages callers hold
    returned,       \* the last result of pmm_alloc_page, an address
    inits,          \* how often pmm_init ran
    stale,          \* history: pmm_init ran while callers held pages
    faulted         \* a NULL bitmap was written

vars == <<map, total_pages, bitmap_phys, bitmap_size, bit, owned, returned,
          inits, stale, faulted>>

Pages == 0..(total_pages - 1)
UsableRegions(m) == {k \in 1..Len(m) : m[k].usable}

\* Lines 24-33: the end of the highest usable region, 0 if there is none.
Top(r) == r.base + r.length
HighestAddr(m) ==
    {h \in {0} \cup {Top(m[k]) : k \in UsableRegions(m)} :
        \A k \in UsableRegions(m) : Top(m[k]) =< h}

\* Lines 39-41: the regions that can hold the bitmap; the loop takes the first.
Fitting(m, size) == {k \in UsableRegions(m) : m[k].length >= size}
FirstFit(m, size) ==
    {k \in Fitting(m, size) : \A n \in Fitting(m, size) : k =< n}

\* Mutant of Shrink: the base stays where it was.
ShrinkKeepsBase(r, size) ==
    [usable |-> r.usable, base |-> r.base, length |-> r.length - size]

\* Lines 44-45: what remains of the region that holds the bitmap.
Shrink(r, size) ==
    [usable |-> r.usable, base |-> r.base + size, length |-> r.length - size]

\* Lines 57-58: the page numbers the marking loop visits in a region.
PagesOf(r) ==
    {(r.base + j) \div PageSize :
        j \in {i \in 0..(r.length - 1) : i % PageSize = 0}}

Managed(m) == UNION {PagesOf(m[k]) : k \in UsableRegions(m)}

\* The page in which bit i of the bitmap is stored: byte i / 8 (line 60).
PageOfBit(phys, i) == (phys + i \div BitsPerByte) \div PageSize

Bits(n) == [0..(n - 1) -> {0, 1}]

Init ==
    /\ map \in MemoryMaps \cup {NoMap}
    /\ total_pages = 0 /\ bitmap_phys = 0 /\ bitmap_size = 0
    /\ bit \in Bits(0)
    /\ owned = {} /\ returned = 0
    /\ inits = 0 /\ stale = FALSE /\ faulted = FALSE

\* Mutant of MarkedBits: without line 51 the bitmap starts as it was in memory.
MarkedBitsUnset(m, total, size) ==
    {f \in Bits(total) : \A i \in 0..(total - 1) : i \in Managed(m) => f[i] = 0}

(***************************************************************************)
(* Lines 51-64.  The bits of the bytes 0 .. size - 1 are set, then the     *)
(* bits of the visited pages are cleared.  The quotient total/8 is rounded *)
(* down, so the last total % 8 bits lie in a byte that is never            *)
(* initialised: whatever memory holds there stays.                         *)
(***************************************************************************)
MarkedBits(m, total, size) ==
    {f \in Bits(total) :
        \A i \in 0..(total - 1) :
            IF i \in Managed(m) THEN f[i] = 0
                                ELSE i < size * BitsPerByte => f[i] = 1}

\* pmm_init without a bootloader response returns at once (lines 19-21).
PmmInitNoResponse ==
    /\ ~faulted /\ inits < MaxInits
    /\ map = NoMap
    /\ inits' = inits + 1
    /\ UNCHANGED <<map, total_pages, bitmap_phys, bitmap_size, bit, owned,
                   returned, stale, faulted>>

\* Lines 23-36.
Measure ==
    /\ \E h \in HighestAddr(map) : total_pages' = h \div PageSize
    /\ bitmap_size' = total_pages' \div BitsPerByte

\* Lines 42-45.
PlaceBitmap(k) ==
    /\ bitmap_phys' = map[k].base
    /\ map' = [map EXCEPT ![k] = Shrink(@, bitmap_size')]

PmmInit ==
    /\ ~faulted /\ inits < MaxInits
    /\ map # NoMap
    /\ inits' = inits + 1
    /\ stale' = (stale \/ owned # {})
    /\ Measure
    /\ \/ \E k \in FirstFit(map, bitmap_size') : PlaceBitmap(k)
       \/ /\ Fitting(map, bitmap_size') = {}
          /\ bitmap_phys = 0 => bitmap_size' = 0
          /\ UNCHANGED <<map, bitmap_phys>>
    /\ bit' \in MarkedBits(map', total_pages', bitmap_size')
    /\ UNCHANGED <<owned, returned, faulted>>

\* No region can hold the bitmap: line 51 writes through the NULL pmm.bitmap.
PmmInitFault ==
    /\ ~faulted /\ inits < MaxInits
    /\ map # NoMap
    /\ inits' = inits + 1
    /\ stale' = (stale \/ owned # {})
    /\ Measure
    /\ Fitting(map, bitmap_size') = {}
    /\ bitmap_phys = 0 /\ bitmap_size' > 0
    /\ faulted' = TRUE
    /\ bit' \in Bits(total_pages')
    /\ UNCHANGED <<map, bitmap_phys, owned, returned>>

\* Mutant of AllocPage: line 72 is missing.
AllocPageUnmarked ==
    /\ ~faulted
    /\ \E i \in Pages :
          /\ bit[i] = 0
          /\ \A n \in 0..(i - 1) : bit[n] = 1
          /\ returned' = i * PageSize
          /\ owned' = owned \cup {i}
    /\ UNCHANGED <<map, total_pages, bitmap_phys, bitmap_size, bit, inits,
                   stale, faulted>>

\* pmm_alloc_page: the first clear bit, or 0 when there is none.
AllocPage ==
    /\ ~faulted
    /\ \E i \in Pages :
          /\ bit[i] = 0
          /\ \A n \in 0..(i - 1) : bit[n] = 1
          /\ bit' = [bit EXCEPT ![i] = 1]
          /\ returned' = i * PageSize
          /\ owned' = owned \cup {i}
    /\ UNCHANGED <<map, total_pages, bitmap_phys, bitmap_size, inits, stale,
                   faulted>>

AllocFails ==
    /\ ~faulted
    /\ \A i \in Pages : bit[i] = 1
    /\ returned' = 0
    /\ UNCHANGED <<map, total_pages, bitmap_phys, bitmap_size, bit, owned,
                   inits, stale, faulted>>

\* Mutant of FreePage: the page after the one that is given back is cleared.
FreePageOffByOne(addr) ==
    LET p == addr \div PageSize IN
    /\ ~faulted
    /\ p \in Pages => p \in owned \/ bit[p] = 0
    /\ bit' = IF p + 1 < total_pages THEN [bit EXCEPT ![p + 1] = 0] ELSE bit
    /\ owned' = owned \ {p}
    /\ UNCHANGED <<map, total_pages, bitmap_phys, bitmap_size, returned,
                   inits, stale, faulted>>

(***************************************************************************)
(* pmm_free_page.  The code checks the range only; callers give back a     *)
(* page they hold, a page that is free already (a repeated free) or an     *)
(* address beyond the managed memory.                                      *)
(***************************************************************************)
FreePage(addr) ==
    LET p == addr \div PageSize IN
    /\ ~faulted
    /\ p \in Pages => p \in owned \/ bit[p] = 0
    /\ bit' = IF p < total_pages THEN [bit EXCEPT ![p] = 0] ELSE bit
    /\ owned' = owned \ {p}
    /\ UNCHANGED <<map, total_pages, bitmap_phys, bitmap_size, returned,
                   inits, stale, faulted>>

\* A caller writes to a page it holds, as vmm_create and get_or_create_table do.
OwnerWrites(p) ==
    /\ ~faulted
    /\ p \in owned
    /\ bit' \in {f \in Bits(total_pages) :
                    \A i \in Pages :
                        PageOfBit(bitmap_phys, i) # p => f[i] = bit[i]}
    /\ UNCHANGED <<map, total_pages, bitmap_phys, bitmap_size, owned,
                   returned, inits, stale, faulted>>

\* memory_init (memory.c): pmm_init is all it calls.
MemoryInit == PmmInitNoResponse \/ PmmInit \/ PmmInitFault

Next ==
    \/ MemoryInit
    \/ AllocPage
    \/ AllocFails
    \/ \E addr \in FreeAddrs : FreePage(addr)
    \/ \E p \in owned : OwnerWrites(p)

Spec == Init /\ [][Next]_vars

-----------------------------------------------------------------------------
(***************************************************************************)
(* When the manager can be relied on.                                      *)
(***************************************************************************)

\* The bitmap fills whole pages: the end of memory is a multiple of 128 MiB.
WholeBitmap ==
    /\ total_pages % BitsPerByte = 0
    /\ bitmap_size % PageSize = 0

\* pmm_init ran on such a map, and never while a caller held a page.
Dependable == map # NoMap /\ inits > 0 /\ ~stale /\ ~faulted /\ WholeBitmap

BitmapPages == {PageOfBit(bitmap_phys, i) : i \in Pages}

\* All variables hold values of their C types and the map keeps its shape.
TypeOK ==
    /\ map = NoMap \/ map \in Seq(Region)
    /\ total_pages \in Nat /\ bitmap_phys \in Nat /\ bitmap_size \in Nat
    /\ bit \in Bits(total_pages)
    /\ owned \subseteq Nat
    /\ returned \in Nat
    /\ inits \in 0..MaxInits
    /\ stale \in BOOLEAN
    /\ faulted \in BOOLEAN

(***************************************************************************)
(* No page that stores bits of the bitmap is ever in a caller's hands, so  *)
(* no caller can overwrite the allocator's own records (pmm.c lines 44-45  *)
(* take the bitmap out of its region before the free pages are marked).    *)
(***************************************************************************)
BitmapProtected == Dependable => owned \cap BitmapPages = {}

(***************************************************************************)
(* The bitmap is exact at any time: a clear bit is a page of usable memory *)
(* that nobody holds.  No allocation, free, repeated free, write by an     *)
(* owner or second pmm_init, which takes a second bitmap out of the        *)
(* shrunken map, makes a reserved or held page available or loses a page.  *)
(***************************************************************************)
BitmapExact ==
    Dependable =>
        /\ owned \subseteq Managed(map)
        /\ \A p \in Pages : bit[p] = 0 <=> p \in Managed(map) \ owned

(***************************************************************************)
(* What BitmapProtected says, on every memory map pmm_init accepts.        *)
(***************************************************************************)
BitmapAlwaysProtected ==
    inits = 1 /\ ~faulted => owned \cap BitmapPages = {}

(***************************************************************************)
(* pmm_alloc_page never hands out a page that some caller still holds, and *)
(* answers 0 only when every managed page is held.                         *)
(***************************************************************************)
AllocSound ==
    [][ (AllocPage \/ AllocFails) /\ Dependable =>
          IF returned' = 0 THEN Managed(map) \subseteq owned
                           ELSE returned' \div PageSize \notin owned ]_vars

(***************************************************************************)
(* pmm.c implements the allocator of PageAllocator: clear bits are the     *)
(* free frames, a second pmm_init makes a new allocator, and one that is   *)
(* called while pages are held breaks it for good.  Outside the Dependable *)
(* states nothing is promised.                                             *)
(***************************************************************************)
freeFrames == IF Dependable THEN {p \in Pages : bit[p] = 0} ELSE {}
heldFrames == IF Dependable THEN owned ELSE {}
Abstract == INSTANCE PageAllocator
                WITH free <- freeFrames, held <- heldFrames, ok <- ~stale
Implements == Abstract!ASpec
=============================================================================
