-------------------------------- MODULE Sort --------------------------------
(***************************************************************************)
(* qsort and bsearch, libc/src/stdlib.c.  qsort partitions around the last *)
(* element and recurses on both sides; the model keeps the calls that are  *)
(* still to be made.  A step is a comparison with its swap, the placing of *)
(* the pivot, or the entry into a call.  Elements are numbers, compar      *)
(* compares them (an external total preorder: equal elements occur).       *)
(***************************************************************************)
EXTENDS Integers, Sequences, FiniteSets

CONSTANTS
    Values,         \* elements and keys
    MaxLen          \* length of the longest array

ASSUME SortAssumption == Values \subseteq Int /\ MaxLen \in Nat

VARIABLES
    input,          \* history: the array at the call
    arr,            \* the array
    calls,          \* calls still to be made, innermost first
    frame,          \* the call that runs
    scan, store,       \* its loop counter and store pointer
    key, left, right, found,    \* bsearch
    sort_pc

sortVars == <<input, arr, calls, frame, scan, store, key, left, right, found, sort_pc>>
sorting == <<input, arr, calls, frame, scan, store>>
searching == <<key, left, right, found>>

\* A call on the elements lo .. lo + n - 1.
Call(lo, n) == [lo |-> lo, n |-> n]
Pivot == frame.lo + frame.n - 1
Swapped(f, a, b) == [f EXCEPT ![a] = f[b], ![b] = f[a]]

SortInit ==
    /\ input \in UNION {[1..n -> Values] : n \in 0..MaxLen}
    /\ arr = input
    /\ calls = <<Call(1, Len(input))>>
    /\ frame = Call(1, 0)
    /\ scan = 0 /\ store = 0
    /\ key \in Values /\ left = 0 /\ right = 0 /\ found = 0
    /\ sort_pc = "call"

\* No call at all.
SortRest ==
    /\ input = <<>> /\ arr = <<>> /\ calls = <<>> /\ frame = Call(1, 0)
    /\ scan = 0 /\ store = 0 /\ key = 0 /\ left = 0 /\ right = 0 /\ found = 0
    /\ sort_pc = "done"

\* Line 138: nothing to do for at most one element.
Return ==
    /\ sort_pc = "call" /\ calls # <<>>
    /\ Head(calls).n =< 1
    /\ calls' = Tail(calls)
    /\ UNCHANGED <<input, arr, frame, scan, store, searching, sort_pc>>

Enter ==
    /\ sort_pc = "call" /\ calls # <<>>
    /\ Head(calls).n > 1
    /\ frame' = Head(calls)
    /\ calls' = Tail(calls)
    /\ scan' = frame'.lo /\ store' = frame'.lo
    /\ sort_pc' = "partition"
    /\ UNCHANGED <<input, arr, searching>>

\* Lines 144-154.
Compare ==
    /\ sort_pc = "partition" /\ scan < Pivot
    /\ IF arr[scan] < arr[Pivot]
       THEN arr' = Swapped(arr, store, scan) /\ store' = store + 1
       ELSE UNCHANGED <<arr, store>>
    /\ scan' = scan + 1
    /\ UNCHANGED <<input, calls, frame, searching, sort_pc>>

\* Mutant of PlacePivot: the pivot overwrites the element it changes places with.
PlacePivotOver ==
    /\ sort_pc = "partition" /\ scan = Pivot
    /\ arr' = [arr EXCEPT ![store] = arr[Pivot]]
    /\ LET below == store - frame.lo
       IN  calls' = <<Call(frame.lo, below),
                      Call(store + 1, frame.n - below - 1)>> \o calls
    /\ sort_pc' = "call"
    /\ UNCHANGED <<input, frame, scan, store, searching>>

\* Lines 156-164: the pivot goes between the parts, which are sorted next.
PlacePivot ==
    /\ sort_pc = "partition" /\ scan = Pivot
    /\ arr' = Swapped(arr, store, Pivot)
    /\ LET below == store - frame.lo
       IN  calls' = <<Call(frame.lo, below),
                      Call(store + 1, frame.n - below - 1)>> \o calls
    /\ sort_pc' = "call"
    /\ UNCHANGED <<input, frame, scan, store, searching>>

\* The caller searches the sorted array; left and right count from 0.
StartSearch ==
    /\ sort_pc = "call" /\ calls = <<>>
    /\ left' = 0 /\ right' = Len(arr)
    /\ sort_pc' = "search"
    /\ UNCHANGED <<sorting, key, found>>

Mid == left + (right - left) \div 2

\* Mutant of Search: the lower bound does not move past the middle.
SearchStuck ==
    /\ sort_pc = "search" /\ left < right
    /\ LET element == arr[Mid + 1]
       IN  \/ key = element /\ found' = Mid + 1 /\ sort_pc' = "done" /\ UNCHANGED <<left, right>>
           \/ key < element /\ right' = Mid /\ UNCHANGED <<left, found, sort_pc>>
           \/ key > element /\ left' = Mid /\ UNCHANGED <<right, found, sort_pc>>
    /\ UNCHANGED <<sorting, key>>

\* Lines 173-180.
Search ==
    /\ sort_pc = "search" /\ left < right
    /\ LET element == arr[Mid + 1]
       IN  \/ key = element /\ found' = Mid + 1 /\ sort_pc' = "done" /\ UNCHANGED <<left, right>>
           \/ key < element /\ right' = Mid /\ UNCHANGED <<left, found, sort_pc>>
           \/ key > element /\ left' = Mid + 1 /\ UNCHANGED <<right, found, sort_pc>>
    /\ UNCHANGED <<sorting, key>>

NotFound ==
    /\ sort_pc = "search" /\ left >= right
    /\ found' = 0 /\ sort_pc' = "done"
    /\ UNCHANGED <<sorting, key, left, right>>

SortNext ==
    \/ Return \/ Enter \/ Compare \/ PlacePivot
    \/ StartSearch \/ Search \/ NotFound

-----------------------------------------------------------------------------
Sorted(f) == \A a, b \in 1..Len(f) : a < b => f[a] =< f[b]
Occurrences(f, v) == Cardinality({a \in 1..Len(f) : f[a] = v})

(***************************************************************************)
(* When all calls have returned the array is sorted and is a rearrangement *)
(* of what it held at the call, with duplicates, in the worst order, or    *)
(* empty: no swap loses an element and the parts around the pivot leave    *)
(* none out (lines 144-164).  bsearch then finds an element equal to the   *)
(* key exactly when there is one (lines 170-183).                          *)
(***************************************************************************)
SortsAndFinds ==
    /\ (sort_pc = "call" /\ calls = <<>>) \/ sort_pc \in {"search", "done"} =>
         /\ Sorted(arr)
         /\ \A v \in Values : Occurrences(arr, v) = Occurrences(input, v)
    /\ sort_pc = "done" =>
         IF found = 0 THEN \A a \in 1..Len(arr) : arr[a] # key
                      ELSE arr[found] = key
=============================================================================
