-------------------------------- MODULE Heap --------------------------------
(***************************************************************************)
(* Dynamic memory of the C library: malloc, free, calloc and realloc of    *)
(* libc/src/stdlib.c, strdup and strndup of libc/src/string.c, on top of   *)
(* the kernel's kmalloc and kfree, which are not in the repository: they   *)
(* hand out a piece of memory nobody uses, with anything in it, or none.   *)
(* The memory is one array, so that what is written behind the end of one  *)
(* block shows up in another.                                              *)
(***************************************************************************)
EXTENDS StrSearch

CONSTANTS
    HeapSize,       \* bytes kmalloc has
    DupTexts,       \* the strings that are copied
    HeapCalls       \* bound: calls made

ASSUME HeapAssumption ==
    /\ HeapSize \in Nat /\ DupTexts \subseteq Seq(Nat)
    /\ \A s \in DupTexts :
         /\ Len(s) > 0 /\ s[Len(s)] = NUL
         /\ \A i \in 1..(Len(s) - 1) : s[i] # NUL

VARIABLES
    heap,           \* the memory
    blocks,         \* the blocks in use: address -> size
    want,           \* history: address -> the bytes its owner relies on
    heap_calls,
    heap_pc

heapVars == <<heap, blocks, want, heap_calls, heap_pc>>

Any == 255                              \* what memory holds at first
HeapStart ==
    heap = [i \in 1..HeapSize |-> Any] /\ blocks = <<>> /\ want = <<>> /\ heap_calls = 0
HeapInit == HeapStart /\ heap_pc = "run"
HeapRest == HeapStart /\ heap_pc = "done"

With(f, a, x) == [c \in DOMAIN f \cup {a} |-> IF c = a THEN x ELSE f[c]]
Without(f, a) == [c \in DOMAIN f \ {a} |-> f[c]]
First(s, k) == SubSeq(s, 1, IF Len(s) < k THEN Len(s) ELSE k)
Zeros(k) == [i \in 1..k |-> 0]

\* kmalloc may return a for a block of this size.
Kmalloc(a, size) ==
    /\ size > 0 /\ a + size =< HeapSize + 1
    /\ \A c \in DOMAIN blocks : a + size =< c \/ c + blocks[c] =< a

Called ==
    /\ heap_pc = "run" /\ heap_calls < HeapCalls
    /\ heap_calls' = heap_calls + 1 /\ UNCHANGED heap_pc

-----------------------------------------------------------------------------
\* A new block whose owner relies on a text; when kmalloc fails nothing happens.
Allocated(a, size, written, promised) ==
    /\ Called /\ Kmalloc(a, size)
    /\ heap' = Put(heap, a, written)
    /\ blocks' = With(blocks, a, size)
    /\ want' = With(want, a, promised)

\* malloc, and realloc of NULL.
Malloc(a, size) == Allocated(a, size, <<>>, <<>>)

\* For products that size_t can hold.
Calloc(a, nmemb, size) == Allocated(a, nmemb * size, Zeros(nmemb * size), Zeros(nmemb * size))

Strdup(a, s) == Allocated(a, Strlen(s) + 1, First(s, Strlen(s) + 1), s)

\* Mutant of Strndup: no byte for the NUL.
StrndupShort(a, s, k) ==
    LET len == Strnlen(s, k)
    IN  Allocated(a, len, Append(First(s, len), NUL), Cut(s, k))

Strndup(a, s, k) ==
    LET len == Strnlen(s, k)
    IN  Allocated(a, len + 1, Append(First(s, len), NUL), Cut(s, k))

\* free, and realloc to size 0.
Free(a) ==
    /\ Called /\ a \in DOMAIN blocks
    /\ blocks' = Without(blocks, a) /\ want' = Without(want, a)
    /\ UNCHANGED heap

\* Lines 83-90.  memcpy takes as many bytes as the new block has, so it reads
\* behind the end of a smaller one.
Realloc(old, a, size) ==
    LET behind == [i \in 1..size |-> IF old + i =< HeapSize + 1 THEN heap[old + i - 1] ELSE Any]
    IN  /\ Called /\ old \in DOMAIN blocks /\ Kmalloc(a, size)
        /\ heap' = Put(heap, a, behind)
        /\ blocks' = Without(With(blocks, a, size), old)
        /\ want' = Without(With(want, a, First(want[old], size)), old)

\* The same without a block from kmalloc: NULL, and the old one stays.
ReallocFails(old) ==
    /\ Called /\ old \in DOMAIN blocks
    /\ UNCHANGED <<heap, blocks, want>>

\* The owner fills its block.
Fill(a) ==
    LET own == [i \in 1..blocks[a] |-> a]
    IN  /\ Called /\ a \in DOMAIN blocks
        /\ heap' = Put(heap, a, own) /\ want' = [want EXCEPT ![a] = own]
        /\ UNCHANGED blocks

HeapEnd ==
    /\ heap_pc = "run" /\ heap_calls = HeapCalls
    /\ heap_pc' = "done"
    /\ UNCHANGED <<heap, blocks, want, heap_calls>>

HeapNext ==
    \/ \E a \in 1..HeapSize :
          \/ \E size \in 1..HeapSize :
                Malloc(a, size) \/ \E old \in DOMAIN blocks : Realloc(old, a, size)
          \/ \E nmemb, size \in 1..2 : Calloc(a, nmemb, size)
          \/ \E s \in DupTexts : Strdup(a, s) \/ \E k \in 0..Len(s) : Strndup(a, s, k)
    \/ \E a \in DOMAIN blocks : Free(a) \/ ReallocFails(a) \/ Fill(a)
    \/ HeapEnd

-----------------------------------------------------------------------------
(***************************************************************************)
(* Whatever is allocated, resized and freed, in any order and at any       *)
(* address, every block has the size and holds the bytes its owner relies  *)
(* on: those it wrote, up to the new size of a block that was resized, the *)
(* zeros of calloc, the copied string with its NUL.                        *)
(***************************************************************************)
HeapContents ==
    \A a \in DOMAIN blocks :
        /\ Len(want[a]) =< blocks[a]
        /\ \A i \in 1..Len(want[a]) : heap[a + i - 1] = want[a][i]
=============================================================================
