-------------------------------- MODULE Vmm --------------------------------
(***************************************************************************)
(* The virtual memory manager, kernel/src/vmm.c: address spaces are trees  *)
(* of page tables, four levels deep, made on demand from pages of the      *)
(* physical memory manager.  The pages come from the allocator that        *)
(* PageAllocator specifies and Pmm implements; like pmm_alloc_page it      *)
(* hands out the lowest free page.  The processor walks the tables below   *)
(* cr3 and caches translations until invlpg or a write to cr3.             *)
(***************************************************************************)
EXTENDS Integers, Sequences, FiniteSets

CONSTANTS
    Spaces,         \* the vmm_t structures kmalloc can return
    MaxPages,       \* pages the physical memory manager starts with
    Slots,          \* entries of a table, 0 .. 511 in the code
    KernelSlot,     \* first entry of the higher half in a PML4, 256
    VAs,            \* virtual addresses, as the indices of the four levels
    Targets,        \* physical pages to be mapped
    Flags           \* the PAGE_* bits a mapping can carry

ASSUME VmmAssumption ==
    /\ MaxPages \in Nat
    /\ Slots \subseteq Nat /\ KernelSlot \in Slots
    /\ VAs \subseteq [1..4 -> Slots]
    /\ Targets \subseteq Nat \ {0}    \* frame 0 stands for no entry

Pages == 1..MaxPages
\* The bootloader's PML4 and the table its first kernel entry points to.
BootRoot == MaxPages + 1
BootPdpt == MaxPages + 2
Tables == Pages \cup {BootRoot, BootPdpt}

Null == 0                               \* a NULL table pointer
Wild == -1                              \* a pointer no table is mapped at
NoEntry == [frame |-> 0, perms |-> {}]   \* an entry without PAGE_PRESENT
Present(e) == e # NoEntry
KernelSlots == {i \in Slots : i >= KernelSlot}

VARIABLES
    free,       \* pages pmm_alloc_page can return
    entry,      \* the contents of pages read as tables
    root,       \* vmm->pml4_phys of the spaces that exist
    kernel_vmm, \* kernel_vmm.pml4_phys, NULL before vmm_init
    cr3,        \* the PML4 the processor uses
    tlb,        \* the translations the processor has cached
    result,     \* what the last call returned
    nxTable,    \* history: a call with PAGE_NX made a table
    crashed     \* a NULL or wild table pointer was dereferenced

vars == <<free, entry, root, kernel_vmm, cr3, tlb, result, nxTable, crashed>>

Live == DOMAIN root
EmptyTable == [i \in Slots |-> NoEntry]
NoCache == [va \in VAs |-> NoEntry]

Init ==
    /\ free = Pages
    \* Pages that were never used hold anything, valid entries included.
    /\ \E junk \in {NoEntry} \cup [frame : {BootPdpt}, perms : SUBSET Flags] :
          entry = [p \in Tables |->
                     CASE p = BootRoot ->
                            [EmptyTable EXCEPT ![KernelSlot] =
                                [frame |-> BootPdpt, perms |-> Flags \ {"NX"}]]
                       [] p = BootPdpt -> EmptyTable
                       [] OTHER        -> [i \in Slots |-> junk]]
    /\ root = [s \in {} |-> 0]
    /\ kernel_vmm = Null
    /\ cr3 = BootRoot
    /\ tlb = NoCache
    /\ result = "none" /\ nxTable = FALSE /\ crashed = FALSE

-----------------------------------------------------------------------------
(***************************************************************************)
(* The processor's view of a table tree: the entry a walk ends at with the *)
(* permissions all levels grant and the bans (NX) any of them makes, or    *)
(* NoEntry.                                                                *)
(***************************************************************************)
Walk(tables, base, va) ==
    LET e1 == tables[base][va[1]]
        e2 == tables[e1.frame][va[2]]
        e3 == tables[e2.frame][va[3]]
        e4 == tables[e3.frame][va[4]]
    IN  IF Present(e1) /\ Present(e2) /\ Present(e3) /\ Present(e4)
        THEN [frame |-> e4.frame,
              perms |-> (e1.perms \cap e2.perms \cap e3.perms \cap e4.perms)
                        \cup ({"NX"} \cap (e1.perms \cup e2.perms \cup e3.perms \cup e4.perms))]
        ELSE NoEntry

Translate(s, va) == Walk(entry, root[s], va)

-----------------------------------------------------------------------------
\* vmm_init: kernel_vmm takes over the PML4 in use, the bootloader's at first;
\* paging_enable_nx makes the processor honour PAGE_NX.
VmmInit ==
    /\ ~crashed
    /\ kernel_vmm' = cr3
    /\ result' = "none"
    /\ UNCHANGED <<free, entry, root, cr3, tlb, nxTable, crashed>>

Lowest(S) == CHOOSE p \in S : \A q \in S : p =< q

\* Mutant of NewPml4: the copy starts one entry late.
NewPml4Late ==
    [i \in Slots |-> IF i > KernelSlot THEN entry[kernel_vmm][i] ELSE NoEntry]

\* Lines 50-51.
NewPml4 ==
    [i \in Slots |-> IF i \in KernelSlots THEN entry[kernel_vmm][i] ELSE NoEntry]

\* vmm_create fails: no heap block, or no page, and then the block is freed.
VmmCreateFails ==
    /\ ~crashed
    /\ result' = "NULL"
    /\ UNCHANGED <<free, entry, root, kernel_vmm, cr3, tlb, nxTable, crashed>>

VmmCreate(s) ==
    /\ ~crashed
    /\ s \notin Live            \* kmalloc returns a block that is not in use
    /\ free # {}
    /\ free' = free \ {Lowest(free)}
    /\ IF kernel_vmm # Null
       THEN /\ entry' = [entry EXCEPT ![Lowest(free)] = NewPml4]
            /\ root' = [t \in Live \cup {s} |->
                           IF t = s THEN Lowest(free) ELSE root[t]]
            /\ result' = "space"
            /\ crashed' = FALSE
       ELSE \* kernel_vmm.pml4 is still NULL at line 50
            /\ crashed' = TRUE
            /\ UNCHANGED <<entry, root, result>>
    /\ UNCHANGED <<kernel_vmm, cr3, tlb, nxTable>>

\* Line 58: PAGE_MASK clears the low bits of an entry only; with PAGE_NX, bit
\* 63, in it the pointer is not canonical.
TableAt(e) == IF "NX" \in e.perms THEN Wild ELSE e.frame

\* Mutant of GetOrCreateTable: the new table is not emptied.
GetOrCreateDirtyTable(t, index, flags) ==
    LET e == t.tables[t.next][index]
        p == Lowest(t.free)
    IN  IF Present(e) THEN [t EXCEPT !.next = TableAt(e)]
        ELSE IF t.free = {} THEN [t EXCEPT !.next = Null]
        ELSE [tables |-> [t.tables EXCEPT ![t.next][index] = [frame |-> p, perms |-> flags]],
              free |-> t.free \ {p},
              next |-> p]

(***************************************************************************)
(* get_or_create_table on tables t.tables with free pages t.free: follow a *)
(* present entry, or make an empty table; next is NULL without a page.     *)
(***************************************************************************)
GetOrCreateTable(t, index, flags) ==
    LET e == t.tables[t.next][index]
        p == Lowest(t.free)
    IN  IF Present(e) THEN [t EXCEPT !.next = TableAt(e)]
        ELSE IF t.free = {} THEN [t EXCEPT !.next = Null]
        ELSE [tables |-> [t.tables EXCEPT ![t.next][index] = [frame |-> p, perms |-> flags],
                                          ![p] = EmptyTable],
              free |-> t.free \ {p},
              next |-> p]

\* vmm_map without a space.
VmmMapInval ==
    /\ ~crashed
    /\ result' = "JAR_INVAL"
    /\ UNCHANGED <<free, entry, root, kernel_vmm, cr3, tlb, nxTable, crashed>>

\* Mutant of Flushed: no invlpg.
FlushedNot(cache, va) == cache

\* Line 81: invlpg drops the cached translation of va.
Flushed(cache, va) == [cache EXCEPT ![va] = NoEntry]

\* vmm_map; the second and third call, and line 80, dereference what the call
\* before returned; only line 80 does so after a check for NULL.
VmmMap(s, va, target, flags) ==
    LET t0 == [tables |-> entry, free |-> free, next |-> root[s]]
        bad(t) == t.next \in {Null, Wild}
        t1 == GetOrCreateTable(t0, va[1], flags)
        t2 == IF bad(t1) THEN t1 ELSE GetOrCreateTable(t1, va[2], flags)
        t3 == IF bad(t2) THEN t2 ELSE GetOrCreateTable(t2, va[3], flags)
        e  == [frame |-> target, perms |-> flags]
    IN  /\ ~crashed
        /\ s \in Live
        /\ free' = t3.free
        /\ entry' = IF bad(t3) THEN t3.tables
                              ELSE [t3.tables EXCEPT ![t3.next][va[4]] = e]
        /\ crashed' = (bad(t2) \/ t3.next = Wild)
        /\ result' = IF crashed' THEN "none"
                     ELSE IF bad(t3) THEN "JAR_NOMEM" ELSE "JAR_OK"
        /\ tlb' = IF bad(t3) THEN tlb ELSE Flushed(tlb, va)
        /\ nxTable' = (nxTable \/ ("NX" \in flags /\ t3.free # free))
        /\ UNCHANGED <<root, kernel_vmm, cr3>>

\* vmm_switch; writing cr3 drops the cached translations.
VmmSwitch(s) ==
    /\ ~crashed
    /\ s \in Live
    /\ cr3' = root[s]
    /\ tlb' = NoCache
    /\ result' = "none"
    /\ UNCHANGED <<free, entry, root, kernel_vmm, nxTable, crashed>>

\* The processor uses an address and caches its translation.
Access(va) ==
    /\ ~crashed
    /\ tlb' = [tlb EXCEPT ![va] = Walk(entry, cr3, va)]
    /\ UNCHANGED <<free, entry, root, kernel_vmm, cr3, result, nxTable,
                   crashed>>

Next ==
    \/ VmmInit
    \/ VmmCreateFails
    \/ \E s \in Spaces : VmmCreate(s)
    \/ VmmMapInval
    \/ \E s \in Live, va \in VAs, target \in Targets, flags \in SUBSET Flags :
          VmmMap(s, va, target, flags)
    \/ \E s \in Live : VmmSwitch(s)
    \/ \E va \in VAs : Access(va)

Spec == Init /\ [][Next]_vars

-----------------------------------------------------------------------------
(***************************************************************************)
(* A translation the processor has cached is the one a walk of the current *)
(* tables gives, through all remappings and switches, in shared kernel     *)
(* tables too: vmm_map changes an entry and runs invlpg (lines 80-81).     *)
(***************************************************************************)
TlbCoherent ==
    \A va \in VAs : Present(tlb[va]) => tlb[va] = Walk(entry, cr3, va)

(***************************************************************************)
(* vmm_map maps the page it was asked to map and disturbs nothing else: no *)
(* other address of the space, and nothing in the lower half of any other  *)
(* space; a call that fails changes no translation at all.  New tables are *)
(* emptied before use and never in use already.                            *)
(***************************************************************************)
MapIsLocal ==
    [][ entry' # entry =>
        \A s \in Live, va \in VAs, target \in Targets, flags \in SUBSET Flags :
          VmmMap(s, va, target, flags) =>
            /\ result' = "JAR_OK" => Translate(s, va)'.frame = target
            /\ \A q \in Live, w \in VAs :
                  \/ w = va /\ (q = s \/ va[1] \in KernelSlots)
                  \/ Translate(q, w)' = Translate(q, w) ]_vars

(***************************************************************************)
(* All address spaces see the kernel through the same tables: an address   *)
(* below a kernel entry that exists at boot translates alike in all of     *)
(* them, whichever space it was mapped through (line 50).                  *)
(***************************************************************************)
KernelShared ==
    \A s \in Live, va \in VAs :
        va[1] \in KernelSlots /\ Present(entry[BootRoot][va[1]])
        => Translate(s, va) = Walk(entry, BootRoot, va)

(***************************************************************************)
(* A table pointer that is not one is followed in three cases only: before *)
(* vmm_init, without a page for a table, and below a table that a call     *)
(* with PAGE_NX made.  The pages tables are made of hold anything before   *)
(* line 66 empties them, and none of it is ever followed.                  *)
(***************************************************************************)
CrashesExplained ==
    [][ crashed' => kernel_vmm = Null \/ free' = {} \/ nxTable ]_vars

(***************************************************************************)
(* A mapping that succeeds carries the permissions it was asked for.       *)
(***************************************************************************)
PermissionsPerPage ==
    [][ \A s \in Live, va \in VAs, target \in Targets, flags \in SUBSET Flags :
          VmmMap(s, va, target, flags) /\ result' = "JAR_OK"
          => Translate(s, va)'.perms = flags ]_vars

(***************************************************************************)
(* Running out of pages is reported as JAR_NOMEM (line 78), never by       *)
(* following a NULL table.                                                 *)
(***************************************************************************)
OutOfPagesReported == kernel_vmm # Null => ~crashed
=============================================================================
