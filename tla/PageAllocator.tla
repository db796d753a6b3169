--------------------------- MODULE PageAllocator ---------------------------
(***************************************************************************)
(* What a page allocator promises its callers, with no bitmap in sight:    *)
(* a set of free page frames, a set of frames its callers hold, and a move *)
(* of one frame between the two.  Pmm implements this specification.       *)
(***************************************************************************)
EXTENDS Naturals

VARIABLES
    free,      \* frames that can be handed out
    held,      \* frames the callers hold
    ok         \* the promise stands

avars == <<free, held, ok>>

AInit == free = {} /\ held = {} /\ ok = TRUE

\* The allocator learns which frames it manages; nobody holds one.
APopulate ==
    /\ ok /\ held = {}
    /\ free' \subseteq Nat
    /\ UNCHANGED <<held, ok>>

\* It is set up while frames are held: nothing is promised from here on.
ABreak == ok' = FALSE /\ free' = {} /\ held' = {}

\* A request takes a frame out of the free set.
AAlloc ==
    /\ ok
    /\ \E p \in free : free' = free \ {p} /\ held' = held \cup {p}
    /\ UNCHANGED ok

\* A frame that is returned can be handed out again.
ARelease ==
    /\ ok
    /\ \E p \in held : held' = held \ {p} /\ free' = free \cup {p}
    /\ UNCHANGED ok

ANext == APopulate \/ ABreak \/ AAlloc \/ ARelease

ASpec == AInit /\ [][ANext]_avars
=============================================================================
